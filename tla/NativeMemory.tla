------------------------------- MODULE NativeMemory -------------------------------
(****************************************************************************)
(* native_memory.cc on Linux: safeReadMemory(), which puts its own handlers  *)
(* into the signal table of the process while it reads, patchCode(), and the *)
(* calls that change pages at once.  The table is shared with the process's  *)
(* own handlers, with chromatic's exception handler (here one step each, see *)
(* ExceptionHandler) and with the threads of the program, which fault at any *)
(* moment and whose faults the handler of a read does not understand.        *)
(****************************************************************************)
EXTENDS Integers, FiniteSets

CONSTANTS
  Threads,   \* threads of the process; script callbacks run on any of them
  Pages,     \* pages of memory
  Own,       \* the process's own handler of each signal, or "default"
  MaxCalls,  \* bound on the calls of the API
  Failures,  \* calls of mprotect() in patchCode() that may fail
  Rules      \* the rules the user of the API keeps to

NotInstalled == <<>>

Signals == {"SIGSEGV", "SIGBUS"}

\* "one-call": calls of the API do not overlap.
\* "alike": the process handles both signals alike, or chromatic has its handlers in
\*   place, when memory is read safely.
AllRules == {"one-call", "alike"}

ASSUME MemoryConstants ==
  /\ Own \in [Signals -> STRING] /\ \A s \in Signals : Own[s] \notin {"chromatic", "safe-read"}
  /\ MaxCalls \in Nat
  /\ Failures \subseteq {"first", "second"} /\ Rules \subseteq AllRules

VARIABLES
  page,      \* of each page: its rights, {} if it is not accessible
  backed,    \* of each page: "memory", "short-file" or "nothing"
  watched,   \* pages the access monitor has made inaccessible
  table,     \* the signal table
  saved,     \* the table the exception handler found, or NotInstalled
  thread,    \* where each thread is
  calls,     \* calls made, for the bound
  dead,      \* the signal the process has died of, "undefined" or "no"
  answered,  \* history: by whom the last fault was answered
  threw      \* history: a safe read has thrown

vars == <<page, backed, watched, table, saved, thread, calls, dead, answered, threw>>

tableVars == <<table, saved>>
pageVars  == <<page, backed, watched>>

Program == [pc |-> "program", page |-> CHOOSE p \in Pages : TRUE, needs |-> "r",
            old |-> "none", active |-> FALSE]

Unanswered == [signal |-> "none", by |-> "nobody", of |-> "nobody"]

Alive == dead = "no"

Busy(t) == thread[t].pc \notin {"program", "faulted"}

\* A page lacks the right a thread needs, or, behind the end of a file, has the rights
\* but no bytes.
Refused(t)  == thread[t].needs \notin page[thread[t].page]
Missing(t)  == Refused(t) \/ backed[thread[t].page] # "memory"
SignalOf(t) == IF Refused(t) THEN "SIGSEGV" ELSE "SIGBUS"

\* What mprotect() makes of page p; it fails where nothing is mapped.
Protected(p, rights) ==
  [page EXCEPT ![p] = IF backed[p] = "nothing" THEN {} ELSE rights]

--------------------------------------------------------------------------------
Init ==
  /\ backed \in [Pages -> {"memory", "short-file", "nothing"}]
  /\ \E rights \in [Pages -> {{"r", "w"}, {"r", "x"}}] :
       page = [p \in Pages |-> IF backed[p] = "nothing" THEN {} ELSE rights[p]]
  /\ watched = {}
  /\ table = Own /\ saved = NotInstalled
  /\ thread = [t \in Threads |-> Program]
  /\ calls = 0 /\ dead = "no" /\ answered = Unanswered /\ threw = FALSE

At(t, pc) == Alive /\ thread[t].pc = pc
Step(t, pc) == thread' = [thread EXCEPT ![t].pc = pc]

\* Thread t comes to pc, where it uses page p; safe_read_active stays as it is.
Goes(t, pc, p, needs) ==
  thread' = [thread EXCEPT ![t] = [Program EXCEPT !.pc = pc, !.page = p, !.needs = needs,
                                                  !.active = thread[t].active]]

\* Thread t makes a call of the API (from outside or from a callback).
Calls(t) ==
  /\ At(t, "program") /\ calls < MaxCalls
  /\ "one-call" \in Rules => \A u \in Threads : ~Busy(u)
  /\ calls' = calls + 1

SafeRead(t, p) ==
  /\ Calls(t)
  /\ "alike" \in Rules => table["SIGSEGV"] = table["SIGBUS"]
  /\ Goes(t, "read.SIGSEGV", p, "r")
  /\ UNCHANGED <<pageVars, tableVars, dead, answered, threw>>

\* sigaction(SIGSEGV, &sa, &old_sa)
TakeSegv(t) ==
  /\ At(t, "read.SIGSEGV")
  /\ table' = [table EXCEPT !["SIGSEGV"] = "safe-read"]
  /\ thread' = [thread EXCEPT ![t].pc = "read.SIGBUS", ![t].old = table["SIGSEGV"]]
  /\ UNCHANGED <<pageVars, saved, calls, dead, answered, threw>>

\* A safe read that watches for SIGSEGV alone.
TakeBusNot(t) ==
  /\ At(t, "read.SIGBUS")
  /\ thread' = [thread EXCEPT ![t].pc = "read.bytes", ![t].active = TRUE]
  /\ UNCHANGED <<pageVars, tableVars, calls, dead, answered, threw>>

\* sigaction(SIGBUS, &sa, nullptr); safe_read_active = true; sigsetjmp().
TakeBus(t) ==
  /\ At(t, "read.SIGBUS")
  /\ table' = [table EXCEPT !["SIGBUS"] = "safe-read"]
  /\ thread' = [thread EXCEPT ![t].pc = "read.bytes", ![t].active = TRUE]
  /\ UNCHANGED <<pageVars, saved, calls, dead, answered, threw>>

\* bytesToHex() throws before it reads: std::length_error if the size is negative, else
\* std::bad_alloc.  Nothing catches it here, so the handlers and safe_read_active stay.
ReadThrows(t) ==
  /\ At(t, "read.bytes")
  /\ Goes(t, "program", Program.page, "r")
  /\ threw' = TRUE
  /\ UNCHANGED <<pageVars, tableVars, calls, dead, answered>>

\* bytesToHex() reads through the page.
ReadBytes(t) ==
  /\ At(t, "read.bytes") /\ ~Missing(t)
  /\ thread' = [thread EXCEPT ![t].pc = "read.give-SIGSEGV-back", ![t].active = FALSE]
  /\ UNCHANGED <<pageVars, tableVars, calls, dead, answered, threw>>

\* A safe read that returns without giving SIGSEGV back.
GiveSegvBackNot(t) ==
  /\ At(t, "read.give-SIGSEGV-back")
  /\ Step(t, "read.give-SIGBUS-back")
  /\ UNCHANGED <<pageVars, tableVars, calls, dead, answered, threw>>

\* sigaction(SIGSEGV, &old_sa, nullptr)
GiveSegvBack(t) ==
  /\ At(t, "read.give-SIGSEGV-back")
  /\ table' = [table EXCEPT !["SIGSEGV"] = thread[t].old]
  /\ Step(t, "read.give-SIGBUS-back")
  /\ UNCHANGED <<pageVars, saved, calls, dead, answered, threw>>

\* sigaction(SIGBUS, &old_sa, nullptr): the same old action.
GiveBusBack(t) ==
  /\ At(t, "read.give-SIGBUS-back")
  /\ table' = [table EXCEPT !["SIGBUS"] = thread[t].old]
  /\ thread' = [thread EXCEPT ![t] = Program]
  /\ UNCHANGED <<pageVars, saved, calls, dead, answered, threw>>

--------------------------------------------------------------------------------
(* Pages *)

\* allocateMemory(): readable and writable.
Allocate(t, p) ==
  /\ Calls(t) /\ backed[p] = "nothing"
  /\ page' = [page EXCEPT ![p] = {"r", "w"}] /\ backed' = [backed EXCEPT ![p] = "memory"]
  /\ UNCHANGED <<watched, tableVars, thread, dead, answered, threw>>

Free(t, p) ==
  /\ Calls(t)
  /\ page' = [page EXCEPT ![p] = {}] /\ backed' = [backed EXCEPT ![p] = "nothing"]
  /\ UNCHANGED <<watched, tableVars, thread, dead, answered, threw>>

\* protectMemory(): fails for what is not mapped, and throws.
Protect(t, p) ==
  /\ Calls(t)
  /\ \E rights \in {{}, {"r"}, {"r", "x"}} : page' = Protected(p, rights)
  /\ UNCHANGED <<backed, watched, tableVars, thread, dead, answered, threw>>

PatchCode(t, p) ==
  /\ Calls(t)
  /\ Goes(t, "patch.writable", p, "w")
  /\ UNCHANGED <<pageVars, tableVars, dead, answered, threw>>

\* The result of mprotect() is not looked at; it fails when the kernel refuses.
Mprotect(t, pc, which, rights, next) ==
  /\ At(t, pc)
  /\ \/ page' = Protected(thread[t].page, rights)
     \/ which \in Failures /\ UNCHANGED page
  /\ Step(t, next)
  /\ UNCHANGED <<backed, watched, tableVars, calls, dead, answered, threw>>

PatchWritable(t)   == Mprotect(t, "patch.writable", "first", {"r", "w"}, "patch.bytes")
PatchExecutable(t) == Mprotect(t, "patch.executable", "second", {"r", "x"}, "program")

\* memcpy(): on a page that is not writable the call itself faults.
PatchBytes(t) ==
  /\ At(t, "patch.bytes") /\ ~Missing(t)
  /\ Step(t, "patch.executable")
  /\ UNCHANGED <<pageVars, tableVars, calls, dead, answered, threw>>

--------------------------------------------------------------------------------
(* The exception handler and the access monitor *)

Enable(t) ==
  /\ Calls(t) /\ saved = NotInstalled
  /\ saved' = table /\ table' = [s \in Signals |-> "chromatic"]
  /\ UNCHANGED <<pageVars, thread, dead, answered, threw>>

Disable(t) ==
  /\ Calls(t) /\ saved # NotInstalled /\ watched = {}
  /\ saved' = NotInstalled /\ table' = saved
  /\ UNCHANGED <<pageVars, thread, dead, answered, threw>>

Watch(t, p) ==
  /\ Calls(t) /\ saved # NotInstalled /\ p \notin watched
  /\ backed[p] # "nothing"
  /\ watched' = watched \union {p} /\ page' = [page EXCEPT ![p] = {}]
  /\ UNCHANGED <<backed, tableVars, thread, dead, answered, threw>>

\* The page is taken from the monitor; whatever its rights were, it is readable and
\* writable now.
Open(p) ==
  /\ watched' = watched \ {p}
  /\ page' = Protected(p, {"r", "w"})

Unwatch(t, p) ==
  /\ Calls(t) /\ p \in watched /\ Open(p)
  /\ UNCHANGED <<backed, tableVars, thread, dead, answered, threw>>

--------------------------------------------------------------------------------
(* The program *)

\* Code of the program, not of the script, uses a page.
Touch(t, p, needs) ==
  /\ At(t, "program")
  /\ needs \notin page[p] \/ backed[p] # "memory"
  /\ Goes(t, "faulted", p, needs)
  /\ UNCHANGED <<pageVars, tableVars, calls, dead, answered, threw>>

Faulting(t) ==
  /\ Alive /\ Missing(t)
  /\ thread[t].pc \in {"faulted", "read.bytes", "patch.bytes"}

\* The kernel delivers the fault of thread t to `by`, who takes it as its own and resolves
\* it.  Under the default action the process dies.
Answers(t, by) ==
  answered' = [signal |-> SignalOf(t), by |-> by,
               of |-> CASE thread[t].pc = "faulted"     -> "program"
                        [] thread[t].pc = "read.bytes" -> "read"
                        [] OTHER                        -> "patch"]

\* chromatic passes on what is not of a page it watches.
Passed(t) ==
  IF table[SignalOf(t)] = "chromatic" /\ thread[t].page \notin watched
  THEN saved[SignalOf(t)] ELSE table[SignalOf(t)]

ProcessAnswers(t) ==
  /\ Faulting(t) /\ Passed(t) \notin {"chromatic", "safe-read"}
  /\ Answers(t, Passed(t))
  /\ dead' = IF Passed(t) = "default" THEN SignalOf(t) ELSE "no"
  /\ Goes(t, "program", Program.page, "r")
  /\ UNCHANGED <<pageVars, tableVars, calls, threw>>

\* monitorSegvHandler() opens the page and the thread goes on where it was.
MonitorAnswers(t) ==
  /\ Faulting(t) /\ Passed(t) = "chromatic"
  /\ Open(thread[t].page)
  /\ Answers(t, "chromatic")
  /\ UNCHANGED <<backed, tableVars, thread, calls, dead, threw>>

\* safe_read_signal_handler() jumps out of the read of its own thread ...
JumpsOut(t) ==
  /\ Faulting(t) /\ Passed(t) = "safe-read"
  /\ thread[t].active /\ thread[t].pc = "read.bytes"
  /\ thread' = [thread EXCEPT ![t].pc = "read.give-SIGSEGV-back", ![t].active = FALSE]
  /\ UNCHANGED <<pageVars, tableVars, calls, dead, answered, threw>>

\* ... or into a read that a throw has ended, whose frame is gone: what follows is
\* undefined, and the model says no more ...
JumpsNowhere(t) ==
  /\ Faulting(t) /\ Passed(t) = "safe-read"
  /\ thread[t].active /\ thread[t].pc # "read.bytes"
  /\ dead' = "undefined"
  /\ UNCHANGED <<pageVars, tableVars, thread, calls, answered, threw>>

\* ... and returns on any other one, which runs into the same fault again: no step of the
\* model until the table or the page has changed.

\* A page has come back while the thread was faulting on it.
GoesOn(t) ==
  /\ At(t, "faulted") /\ ~Missing(t)
  /\ Goes(t, "program", Program.page, "r")
  /\ UNCHANGED <<pageVars, tableVars, calls, dead, answered, threw>>

CallStep(t) ==
  \/ TakeSegv(t) \/ TakeBus(t) \/ ReadBytes(t) \/ ReadThrows(t)
  \/ GiveSegvBack(t) \/ GiveBusBack(t)
  \/ PatchWritable(t) \/ PatchBytes(t) \/ PatchExecutable(t)

SignalStep(t) ==
  \/ ProcessAnswers(t) \/ MonitorAnswers(t) \/ JumpsOut(t) \/ JumpsNowhere(t) \/ GoesOn(t)

Next ==
  \E t \in Threads :
    \/ CallStep(t) \/ SignalStep(t)
    \/ Enable(t) \/ Disable(t)
    \/ \E p \in Pages :
         \/ SafeRead(t, p) \/ Allocate(t, p) \/ Free(t, p) \/ Protect(t, p)
         \/ PatchCode(t, p) \/ Watch(t, p) \/ Unwatch(t, p)
         \/ \E needs \in {"r", "w", "x"} : Touch(t, p, needs)

Spec ==
  /\ Init /\ [][Next]_vars
  /\ \A t \in Threads : WF_vars(CallStep(t)) /\ WF_vars(SignalStep(t))

--------------------------------------------------------------------------------
(* Properties *)

\* A fault of a safe read never becomes one of the process, whatever its own handlers are,
\* whoever watches the page and whichever reads before have thrown: it ends the read
\* (native_memory.h:23, "returns empty string on access fault instead of crashing").
ReadsStayInside == answered.of # "read"

\* The table as the rest of the process may count on it: during a read, as it was before.
Reading(t) == thread[t].pc \in {"read.SIGBUS", "read.bytes", "read.give-SIGSEGV-back",
                                "read.give-SIGBUS-back"}

OutsideTable ==
  IF \E t \in Threads : Reading(t)
  THEN IF saved = NotInstalled THEN Own ELSE [s \in Signals |-> "chromatic"]
  ELSE table

Contract == INSTANCE FaultContract WITH table <- OutsideTable, void <- threw

\* safeReadMemory() leaves the table as it found it; whatever the moment, a fault of the
\* program goes to the handler of that very signal, and a page the read cannot read never
\* becomes a fault of the process (native_memory.cc:253-272).  This ends with the first
\* read that throws.
ImplementsContract == Contract!Spec

\* A thread that faults while another one reads runs into the same fault until the read
\* is over; then it is answered (native_memory.cc:63-67), unless a read has thrown.
FaultsAreAnswered ==
  \A t \in Threads : thread[t].pc = "faulted" ~> (thread[t].pc # "faulted" \/ ~Alive \/ threw)

================================================================================
