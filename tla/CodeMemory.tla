------------------------------- MODULE CodeMemory -------------------------------
(****************************************************************************)
(* internal/code_relocator.cc on POSIX, and the code it works on: one       *)
(* function of straight-line code on one page.  A cell holds an instruction *)
(* (on ARM64 the unit of every patch; on x86 a patch ends inside its last   *)
(* instruction, the rest of which nothing reaches).                         *)
(*                                                                          *)
(* SoftwareBreakpoint and Interceptor extend this module: their calls do    *)
(* the steps below on the thread that makes them, each under its own mutex. *)
(* A step may come between any two steps of the other threads.              *)
(****************************************************************************)
EXTENDS Integers, Sequences, FiniteSets

CONSTANTS
  Threads,     \* threads of the program, the script's own one among them
  Script,      \* the script's thread
  Size,        \* instructions of the function
  PatchSize,   \* PATCH_SIZE, in instructions
  MaxBreakpoints,  \* bound on the calls of set()
  MaxHooks,    \* bound on the calls of attach() and replace()
  Failures,    \* what may throw
  Rules        \* the rules the user of the API keeps to

\* "relocation": Capstone does not decode what is at the address, or asmjit is out
\*   of memory.  "writable", "executable": the first or second mprotect() fails.
AllFailures == {"relocation", "writable", "executable"}

\* "stopped": no other thread is in the function while a call runs.
\* "disjoint": no instruction is patched twice at a time.
\* "nested": a patch is only removed while it is on top, or, when a removal has
\*   thrown half-way, again while its cells are as that removal left them; and no
\*   two threads patch the same instruction at once.
\* "not-from-callback": callbacks do not call the API.
\* "one-call-at-a-time": no two threads call the API at once.
\* "not-the-allocator": the function is not one the API calls itself.
AllRules == {"stopped", "disjoint", "nested", "not-from-callback", "one-call-at-a-time",
             "not-the-allocator"}

ASSUME CodeConstants ==
  /\ Script \in Threads
  /\ Size \in Nat /\ PatchSize \in Nat \ {0} 
  /\ MaxBreakpoints \in Nat /\ MaxHooks \in Nat
  /\ Failures \subseteq AllFailures /\ Rules \subseteq AllRules

Cells == 0 .. Size - 1

\* A BreakpointEntry or a HookEntry.
Patches == [of : {"breakpoint"}, id : 1 .. MaxBreakpoints]
           \union [of : {"hook"}, id : 1 .. MaxHooks]
NoPatch == [of |-> "none", id |-> 0]

VARIABLES
  code,      \* what each cell of the function holds
  page,      \* "rx" or "rw"
  entry,     \* the BreakpointEntry or HookEntry of each patch and its relocated code
  released,  \* patches whose trampoline and relocated code went back to asmjit
  call,      \* where each thread is inside an API call
  thread,    \* where each thread is in the code of the program
  crashed    \* the process is gone

codeVars == <<code, page, entry, released>>

--------------------------------------------------------------------------------
(* Values *)

Insn(c) == [kind |-> "insn", cell |-> c, patch |-> NoPatch]
Brk     == [kind |-> "brk", cell |-> 0, patch |-> NoPatch]

\* generatePatchBytes(): the n-th part of the jump of patch p.
Jump(p, n) == [kind |-> "jump", cell |-> n, patch |-> p]

Original == [c \in Cells |-> Insn(c)]

NoEntry == [kind |-> "none", address |-> 0, saved |-> <<>>, body |-> <<>>]

\* op is "set" or "remove", from where the thread was when it made the call; todo
\* holds what removeAll() or detachAll() has left to do.
Idle == [pc |-> "idle", op |-> "none", from |-> "outside", patch |-> NoPatch,
         bytes |-> <<>>, all |-> FALSE, todo |-> {}]

\* told is a history: the callback of the patch the thread is at has been called, or
\* a replacement has asked for the original.
Outside == [phase |-> "outside", pc |-> 0, patch |-> NoPatch, told |-> FALSE]

Covered(a, n) == a .. a + n - 1

\* What is in n cells from a on, in order.
Read(a, n) == [i \in 1 .. n |-> code[a + i - 1]]

\* What a patch writes over the code.
Written(p) == IF p.of = "breakpoint" THEN <<Brk>>
              ELSE [n \in 1 .. PatchSize |-> Jump(p, n)]

CellsOf(p) == Covered(entry[p].address, Len(entry[p].saved))

There(p) == Read(entry[p].address, Len(entry[p].saved))

OnTop(p)  == There(p) = Written(p)
Undone(p) == p \in released /\ There(p) = entry[p].saved

\* No call of another thread is at work on these cells.
Settled(t, cells) ==
  \A u \in Threads \ {t} : \A p \in call[u].todo \union ({call[u].patch} \ {NoPatch}) :
    cells \intersect CellsOf(p) = {}

\* The mutex of the breakpoints or of the hooks is held.
Locked(of) == \E t \in Threads : call[t].patch.of = of

NoCalls == \A t \in Threads : call[t] = Idle

\* The script calls from outside the function, any thread from a callback.
MayCall(t) ==
  /\ ~crashed /\ call[t] = Idle
  /\ \/ t = Script /\ thread[t].phase = "outside"
     \/ "not-from-callback" \notin Rules /\ thread[t].phase \in {"callback", "leaving"}
  /\ "one-call-at-a-time" \in Rules => NoCalls
  /\ "stopped" \in Rules => \A u \in Threads \ {t} : thread[u].phase = "outside"

\* The thread goes on with its call (it is not in a function the call has called).
At(t, pc) == ~crashed /\ call[t].pc = pc /\ thread[t].phase = call[t].from

--------------------------------------------------------------------------------
(* Init *)

CodeInit ==
  /\ code = Original /\ page = "rx"
  /\ entry = [p \in Patches |-> NoEntry] /\ released = {}
  /\ call = [t \in Threads |-> Idle]
  /\ thread = [t \in Threads |-> Outside]
  /\ crashed = FALSE

--------------------------------------------------------------------------------
(* Building a patch: what set(), attach() and replace() do before they write *)

\* An entry is as fresh as the id the patch gets when it is registered.
Fresh(of, p) == /\ p.of = of /\ entry[p] = NoEntry
                /\ \A q \in Patches : q.of = of /\ entry[q] = NoEntry => p.id <= q.id

\* The original cells are saved and copied into relocated code, which ends with a
\* jump to the cell behind them.  The copy is made of whatever the cells hold.
Build(t, of, kind, a, n) ==
  /\ a + n <= Size
  /\ "disjoint" \in Rules => \A c \in Covered(a, n) : code[c] = Insn(c)
  /\ "nested" \in Rules => Settled(t, Covered(a, n))
  /\ \E p \in Patches :
       /\ Fresh(of, p)
       /\ entry' = [entry EXCEPT ![p] =
                      [kind |-> kind, address |-> a, saved |-> Read(a, n), body |-> Read(a, n)]]
       /\ call' = [call EXCEPT ![t] = [Idle EXCEPT
                      !.pc = "writable", !.op = "set", !.from = thread[t].phase,
                      !.patch = p, !.bytes = Written(p)]]
  /\ UNCHANGED <<code, page, released, thread, crashed>>

--------------------------------------------------------------------------------
(* makeWritableAndPatch() *)

MakeWritable(t) ==
  /\ At(t, "writable")
  /\ page' = "rw"
  /\ call' = [call EXCEPT ![t].pc = "copying"]
  /\ UNCHANGED <<code, entry, released, thread, crashed>>

\* The memcpy; a write to a page that another call has closed kills the process.
Copy(t) ==
  /\ At(t, "copying")
  /\ IF page = "rw"
     THEN LET i(c) == c - entry[call[t].patch].address + 1
          IN /\ code' = [c \in Cells |-> IF i(c) \in DOMAIN call[t].bytes
                                         THEN call[t].bytes[i(c)] ELSE code[c]]
             /\ call' = [call EXCEPT ![t].pc = "executable"]
             /\ UNCHANGED crashed
     ELSE crashed' = TRUE /\ UNCHANGED <<code, call>>
  /\ UNCHANGED <<page, entry, released, thread>>

\* A patch that is set is registered next, one that is undone is released.
MakeExecutable(t) ==
  /\ At(t, "executable")
  /\ page' = "rx"
  /\ call' = [call EXCEPT ![t].pc = IF call[t].op = "set" THEN "registering" ELSE "releasing"]
  /\ UNCHANGED <<code, entry, released, thread, crashed>>

\* Either mprotect() throws out of the call; what has been done stays done.
ProtectFails(t) ==
  /\ call[t].pc \in Failures /\ At(t, call[t].pc)
  /\ call' = [call EXCEPT ![t] = Idle]
  /\ UNCHANGED <<codeVars, thread, crashed>>

--------------------------------------------------------------------------------
(* Undoing a patch: what remove(), detach(), revert() and the loops of removeAll() *)
(* and detachAll() do before the maps change                                       *)

\* Fault: only the size of a breakpoint is written back.
UndoFirst(p) == <<entry[p].saved[1]>>

\* The original cells are written back.
Undo(p) == entry[p].saved

Undoing(t, p, todo, all) ==
  [pc |-> "writable", op |-> "remove", from |-> thread[t].phase, patch |-> p,
   bytes |-> Undo(p), all |-> all, todo |-> todo]

\* The entries are read, which an earlier removeAll() that threw may have deleted.
StartUndo(t, p, todo, all) ==
  /\ "nested" \in Rules => \A q \in todo \union {p} : /\ OnTop(q) \/ Undone(q)
                                                      /\ Settled(t, CellsOf(q))
  /\ \/ /\ call' = [call EXCEPT ![t] = Undoing(t, p, todo, all)]
        /\ UNCHANGED crashed
     \/ /\ (todo \union {p}) \intersect released # {}
        /\ crashed' = TRUE
        /\ UNCHANGED call
  /\ UNCHANGED <<codeVars, thread>>

\* Fault: a loop ends after the first patch.
ReleaseOnce(t) ==
  /\ At(t, "releasing")
  /\ released' = released \union {call[t].patch}
  /\ call' = [call EXCEPT ![t].pc = "erasing"]
  /\ UNCHANGED <<code, page, entry, thread, crashed>>

\* releaseCode() for the trampoline and the relocated code, then the next patch of a
\* loop, in the order of the hash map.
Release(t) ==
  /\ At(t, "releasing")
  /\ released' = released \union {call[t].patch}
  /\ IF call[t].todo = {}
     THEN call' = [call EXCEPT ![t].pc = "erasing"]
     ELSE \E q \in call[t].todo :
            call' = [call EXCEPT ![t] = Undoing(t, q, call[t].todo \ {q}, TRUE)]
  /\ UNCHANGED <<code, page, entry, thread, crashed>>
================================================================================
