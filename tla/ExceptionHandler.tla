---------------------------- MODULE ExceptionHandler ----------------------------
(****************************************************************************)
(* native_exception_handler.cc on POSIX: the process-wide signal handler,   *)
(* the user switch (enable / disable), the reference count of the           *)
(* subsystems (refEnable / refDisable), the chain of internal handlers and  *)
(* what a thread that takes a signal goes through.                          *)
(*                                                                          *)
(* The API runs on the one thread that runs the script; its calls are split *)
(* at every step another thread can observe (one sigaction, one change of   *)
(* the handler chain).  The threads of the program take signals at any      *)
(* moment.  A subsystem is any client that, like ensureHandlerInstalled and *)
(* maybeRemoveHandler of native_breakpoint.cc, takes a reference, registers *)
(* its handlers, and later unregisters them and drops the reference.        *)
(****************************************************************************)
EXTENDS Integers, Sequences, FiniteSets

CONSTANTS
  Threads,       \* threads of the program that take signals
  Subsystems,    \* clients of the internal API
  Handles,       \* for each subsystem, the exception types it registers, in order
  Forgetful,     \* subsystems that keep the id of their first handler alone
  Original,      \* for each signal, what the process had installed
  RequestedTypes,\* the type strings a script passes to addCallback
  MaxId,         \* bound on the ids registerHandler gives out
  MaxJsId        \* bound on the ids addCallback gives out

Types == {"AccessViolation", "BusError", "Breakpoint", "SingleStep",
          "IllegalInstruction"}

Signals == {"SIGSEGV", "SIGBUS", "SIGTRAP", "SIGILL"}

Dispositions == {"default", "ignore", "handler"}

ASSUME ConstantsAssumption ==
  /\ Handles \in [Subsystems -> Seq(Types)]
  /\ \A s \in Subsystems : Handles[s] # <<>>
  /\ Forgetful \subseteq Subsystems
  /\ Original \in [Signals -> Dispositions]
  /\ MaxId \in Nat /\ MaxJsId \in Nat
  /\ IsFiniteSet(Subsystems)
  /\ "program" \notin Subsystems /\ "none" \notin Subsystems

\* The order of the sigaction calls in installHandlers and removeHandlers.
Order == <<"SIGSEGV", "SIGBUS", "SIGTRAP", "SIGILL">>

\* buildContextFromSignal, read backwards: the signal that raises a type.
SignalOf(type) ==
  CASE type = "AccessViolation"    -> "SIGSEGV"
    [] type = "BusError"           -> "SIGBUS"
    [] type = "IllegalInstruction" -> "SIGILL"
    [] OTHER                       -> "SIGTRAP"

VARIABLES
  enabled,       \* g_enabled
  refCount,      \* g_refCount
  disposition,   \* what the kernel does with each signal
  saved,         \* g_old_sigsegv, g_old_sigbus, g_old_sigtrap, g_old_sigill
  handlers,      \* g_handlers: ids only grow, so the ids are the vector's order
  nextId,        \* g_nextId
  jsCallbacks,   \* g_jsCallbacks
  nextJsId,      \* g_nextJsId, counted from 1
  call,          \* where the script thread is inside an API call
  holding,       \* the handler ids each subsystem keeps, <<>> when not installed
  thread,        \* where each thread is in taking a signal
  kept           \* history: a disable() has left the handlers in place

apiVars    == <<enabled, refCount, kept>>
signalVars == <<disposition, saved>>
chainVars  == <<handlers, nextId, holding>>
jsVars     == <<jsCallbacks, nextJsId>>
vars == <<apiVars, signalVars, chainVars, jsVars, call, thread>>

--------------------------------------------------------------------------------
(* Values *)

NoSubsystem == "none"

Idle == [op |-> "idle", at |-> 1, sub |-> NoSubsystem]

Running == [phase |-> "running", type |-> "Breakpoint", src |-> "program",
            expect |-> 0, pending |-> {}]

\* An armed subsystem has traps in the program: all its handlers are in the
\* chain and it is not in the middle of withdrawing them.
Armed(s) == /\ Len(holding[s]) = Len(Handles[s])
            /\ ~(call.op = "unregistering" /\ call.sub = s)

Alive == \A t \in Threads : thread[t].phase # "killed"

ScriptIdle == Alive /\ call.op = "idle"

--------------------------------------------------------------------------------
(* Initial state: zero-initialised statics, the signals of the process *)

Init ==
  /\ enabled = FALSE
  /\ refCount = 0
  /\ disposition = Original
  /\ saved = [sig \in Signals |-> "default"]
  /\ handlers = {}
  /\ nextId = 1
  /\ jsCallbacks = {}
  /\ nextJsId = 1
  /\ call = Idle
  /\ holding = [s \in Subsystems |-> <<>>]
  /\ thread = [t \in Threads |-> Running]
  /\ kept = FALSE

--------------------------------------------------------------------------------
(* The user switch *)

\* Fault: enable() without the test of the old flag.
EnableTwice ==
  /\ ScriptIdle
  /\ enabled' = TRUE
  /\ call' = [Idle EXCEPT !.op = "installing"]
  /\ UNCHANGED <<refCount, kept, signalVars, chainVars, jsVars, thread>>

\* installHandlers starts only if the exchange found the flag down.
Enable ==
  /\ ScriptIdle
  /\ enabled' = TRUE
  /\ call' = IF enabled THEN Idle ELSE [Idle EXCEPT !.op = "installing"]
  /\ UNCHANGED <<refCount, kept, signalVars, chainVars, jsVars, thread>>

\* Fault: disable() without the test of g_refCount.
DisableRegardless ==
  /\ ScriptIdle
  /\ enabled' = FALSE
  /\ call' = IF enabled THEN [Idle EXCEPT !.op = "removing"] ELSE Idle
  /\ UNCHANGED <<refCount, kept, signalVars, chainVars, jsVars, thread>>

\* The flag always goes down; the handlers go only if nobody holds a reference.
Disable ==
  /\ ScriptIdle
  /\ enabled' = FALSE
  /\ call' = IF enabled /\ refCount = 0 THEN [Idle EXCEPT !.op = "removing"] ELSE Idle
  /\ kept' = (kept \/ (enabled /\ refCount > 0))
  /\ UNCHANGED <<refCount, signalVars, chainVars, jsVars, thread>>

\* One sigaction of installHandlers.  It runs for the user, or for a subsystem
\* in refEnable, which goes on to register its handlers.
Install ==
  /\ Alive /\ call.op = "installing"
  /\ LET sig == Order[call.at]
     IN /\ saved' = [saved EXCEPT ![sig] = disposition[sig]]
        /\ disposition' = [disposition EXCEPT ![sig] = "own"]
  /\ call' = IF call.at < Len(Order) THEN [call EXCEPT !.at = @ + 1]
             ELSE IF call.sub = NoSubsystem THEN Idle
             ELSE [call EXCEPT !.op = "registering", !.at = 1]
  /\ UNCHANGED <<apiVars, chainVars, jsVars, thread>>

\* Fault: removeHandlers forgets the last signal.
RemoveAllButOne ==
  /\ Alive /\ call.op = "removing"
  /\ LET sig == Order[call.at]
     IN disposition' = [disposition EXCEPT ![sig] = saved[sig]]
  /\ call' = IF call.at < Len(Order) - 1 THEN [call EXCEPT !.at = @ + 1] ELSE Idle
  /\ UNCHANGED <<apiVars, saved, chainVars, jsVars, thread>>

\* One sigaction of removeHandlers.
Remove ==
  /\ Alive /\ call.op = "removing"
  /\ LET sig == Order[call.at]
     IN disposition' = [disposition EXCEPT ![sig] = saved[sig]]
  /\ call' = IF call.at < Len(Order) THEN [call EXCEPT !.at = @ + 1] ELSE Idle
  /\ UNCHANGED <<apiVars, saved, chainVars, jsVars, thread>>

--------------------------------------------------------------------------------
(* The subsystems *)

\* refEnable: only the first reference looks at the switch.
RefEnable(s) ==
  /\ ScriptIdle
  /\ holding[s] = <<>>
  /\ nextId + Len(Handles[s]) <= MaxId + 1
  /\ refCount' = refCount + 1
  /\ enabled' = (enabled \/ refCount = 0)
  /\ call' = [op |-> IF refCount = 0 /\ ~enabled THEN "installing" ELSE "registering",
              at |-> 1, sub |-> s]
  /\ UNCHANGED <<kept, signalVars, chainVars, jsVars, thread>>

\* registerHandler, for the next type of the subsystem.
RegisterHandler ==
  /\ Alive /\ call.op = "registering"
  /\ LET s == call.sub
     IN /\ handlers' = handlers \union
                         {[id |-> nextId, type |-> Handles[s][call.at], owner |-> s]}
        /\ holding' = [holding EXCEPT ![s] = Append(@, nextId)]
        /\ call' = IF call.at < Len(Handles[s]) THEN [call EXCEPT !.at = @ + 1] ELSE Idle
  /\ nextId' = nextId + 1
  /\ UNCHANGED <<apiVars, signalVars, jsVars, thread>>

\* The subsystem has taken its traps out of the program and starts to withdraw.
StartRelease(s) ==
  /\ ScriptIdle
  /\ holding[s] # <<>>
  /\ call' = [op |-> "unregistering", at |-> 1, sub |-> s]
  /\ UNCHANGED <<apiVars, signalVars, chainVars, jsVars, thread>>

\* The ids a subsystem withdraws after the first.  ensureHwHandlerInstalled() has kept
\* one id of two, so its second handler stays in the chain, a copy for each round.
Remaining(s) == IF s \in Forgetful THEN <<>> ELSE Tail(holding[s])

\* Fault: every handler withdrawn gives the reference back once more.
UnregisterDropsReference ==
  /\ Alive /\ call.op = "unregistering"
  /\ LET s == call.sub
     IN /\ handlers' = {e \in handlers : e.id # Head(holding[s])}
        /\ holding' = [holding EXCEPT ![s] = Remaining(s)]
        /\ refCount' = refCount - 1
        /\ call' = IF Remaining(s) = <<>> THEN Idle ELSE call
  /\ UNCHANGED <<enabled, kept, signalVars, nextId, jsVars, thread>>

\* Fault: handlers are withdrawn by type and not by id.
UnregisterByType ==
  /\ Alive /\ call.op = "unregistering"
  /\ LET s == call.sub
     IN /\ handlers' = {e \in handlers :
                          e.type # Handles[s][Len(Handles[s]) - Len(holding[s]) + 1]}
        /\ holding' = [holding EXCEPT ![s] = Remaining(s)]
        /\ IF Remaining(s) = <<>>
           THEN call' = Idle /\ refCount' = refCount - 1
           ELSE UNCHANGED <<call, refCount>>
  /\ UNCHANGED <<enabled, kept, signalVars, nextId, jsVars, thread>>

\* unregisterHandler, for the next id of the subsystem; refDisable follows the
\* last one and does nothing but count.
UnregisterHandler ==
  /\ Alive /\ call.op = "unregistering"
  /\ LET s == call.sub
     IN /\ handlers' = {e \in handlers : e.id # Head(holding[s])}
        /\ holding' = [holding EXCEPT ![s] = Remaining(s)]
        /\ IF Remaining(s) = <<>>
           THEN call' = Idle /\ refCount' = refCount - 1
           ELSE UNCHANGED <<call, refCount>>
  /\ UNCHANGED <<enabled, kept, signalVars, nextId, jsVars, thread>>

--------------------------------------------------------------------------------
(* Script callbacks: kept in a list that no dispatch reads *)

\* addCallback: an unknown type throws before anything is stored.
AddCallback(type) ==
  /\ ScriptIdle
  /\ nextJsId <= MaxJsId
  /\ type \in Types
  /\ jsCallbacks' = jsCallbacks \union {[id |-> nextJsId, type |-> type]}
  /\ nextJsId' = nextJsId + 1
  /\ UNCHANGED <<apiVars, signalVars, chainVars, call, thread>>

RemoveCallback(id) ==
  /\ ScriptIdle
  /\ jsCallbacks' = {c \in jsCallbacks : c.id # id}
  /\ UNCHANGED <<apiVars, signalVars, chainVars, nextJsId, call, thread>>

RemoveAllCallbacks ==
  /\ ScriptIdle
  /\ jsCallbacks' = {}
  /\ UNCHANGED <<apiVars, signalVars, chainVars, nextJsId, call, thread>>

--------------------------------------------------------------------------------
(* A thread takes a signal *)

\* The kernel kills the process for an ignored or defaulted synchronous fault.
KernelPhase(disp) ==
  CASE disp = "own"     -> "entered"
    [] disp = "handler" -> "original"
    [] OTHER            -> "killed"

\* The instruction of thread t traps: a fault of the program's own, or a trap
\* of an armed subsystem, whose handler for that type is to answer it.
Raise(t, type, src) ==
  /\ Alive
  /\ thread[t].phase = "running"
  /\ src # "program" => Armed(src)
  /\ \E expect \in
        IF src = "program" THEN {0}
        ELSE {holding[src][i] : i \in {j \in DOMAIN Handles[src] : Handles[src][j] = type}} :
       thread' = [thread EXCEPT ![t] =
                    [phase |-> KernelPhase(disposition[SignalOf(type)]), type |-> type,
                     src |-> src, expect |-> expect, pending |-> {}]]
  /\ UNCHANGED <<apiVars, signalVars, chainVars, jsVars, call>>

\* globalSignalHandler copies the chain under g_lock; entries of another type
\* are passed over by its loop.
CopyHandlers(t) ==
  /\ Alive /\ thread[t].phase = "entered"
  /\ thread' = [thread EXCEPT ![t].phase = "dispatching",
                              ![t].pending = {e \in handlers : e.type = thread[t].type}]
  /\ UNCHANGED <<apiVars, signalVars, chainVars, jsVars, call>>

\* A callback claims the traps of its own subsystem while that still knows them.
Claims(e, t) == e.owner = thread[t].src /\ Armed(e.owner)

\* One callback of the copied chain, the oldest that is left.
RunHandler(t) ==
  /\ Alive /\ thread[t].phase = "dispatching"
  /\ \E e \in thread[t].pending :
       /\ \A f \in thread[t].pending : e.id <= f.id
       /\ thread' = IF Claims(e, t) THEN [thread EXCEPT ![t] = Running]
                    ELSE [thread EXCEPT ![t].pending = @ \ {e}]
  /\ UNCHANGED <<apiVars, signalVars, chainVars, jsVars, call>>

\* forwardToOriginal: a saved SA_SIGINFO or plain handler is called (which may be
\* globalSignalHandler itself), SIG_DFL is put back and raised, SIG_IGN returns
\* to the faulting instruction.
Forward(t) ==
  /\ Alive /\ thread[t].phase = "dispatching"
  /\ thread[t].pending = {}
  /\ LET sig == SignalOf(thread[t].type)
     IN /\ thread' = [thread EXCEPT ![t] =
                        IF saved[sig] = "ignore" THEN Running
                        ELSE [@ EXCEPT !.phase = KernelPhase(saved[sig])]]
        /\ disposition' = [disposition EXCEPT ![sig] =
                             IF saved[sig] = "default" THEN "reraised" ELSE @]
  /\ UNCHANGED <<apiVars, saved, chainVars, jsVars, call>>

\* The handler the process had installed returns.
OriginalReturns(t) ==
  /\ Alive /\ thread[t].phase = "original"
  /\ thread' = [thread EXCEPT ![t] = Running]
  /\ UNCHANGED <<apiVars, signalVars, chainVars, jsVars, call>>

--------------------------------------------------------------------------------
(* Specification *)

ScriptStep == Install \/ Remove \/ RegisterHandler \/ UnregisterHandler

SignalStep(t) == CopyHandlers(t) \/ RunHandler(t) \/ Forward(t) \/ OriginalReturns(t)

Next ==
  \/ Enable \/ Disable
  \/ Install \/ Remove
  \/ \E s \in Subsystems : RefEnable(s) \/ StartRelease(s)
  \/ RegisterHandler \/ UnregisterHandler
  \/ \E type \in RequestedTypes : AddCallback(type)
  \/ \E id \in 1 .. MaxJsId : RemoveCallback(id)
  \/ RemoveAllCallbacks
  \/ \E t \in Threads, type \in Types, src \in Subsystems \union {"program"} :
       Raise(t, type, src)
  \/ \E t \in Threads :
       CopyHandlers(t) \/ RunHandler(t) \/ Forward(t) \/ OriginalReturns(t)

Spec == Init /\ [][Next]_vars

\* The script thread and every thread in a signal handler keep running.
Fairness == /\ WF_vars(ScriptStep)
            /\ \A t \in Threads : WF_vars(SignalStep(t))

FairSpec == Spec /\ Fairness

--------------------------------------------------------------------------------
(* Properties *)

CallStates == [op : {"idle", "installing", "removing", "registering", "unregistering"},
               at : Nat, sub : Subsystems \union {NoSubsystem}]

Entries == [id : Nat, type : Types, owner : Subsystems]

ThreadStates == [phase : {"running", "entered", "dispatching", "original", "killed"},
                 type : Types, src : Subsystems \union {"program"},
                 expect : Nat, pending : SUBSET Entries]

\* Every variable has its type.
TypeOK ==
  /\ enabled \in BOOLEAN /\ kept \in BOOLEAN
  /\ refCount \in Nat
  /\ disposition \in [Signals -> Dispositions \union {"own", "reraised"}]
  /\ saved \in [Signals -> Dispositions \union {"own", "reraised"}]
  /\ handlers \subseteq Entries
  /\ nextId \in Nat
  /\ jsCallbacks \subseteq [id : Nat, type : Types]
  /\ nextJsId \in Nat
  /\ call \in CallStates
  /\ holding \in [Subsystems -> Seq(Nat)]
  /\ thread \in [Threads -> ThreadStates]

\* While a subsystem has handlers in the chain, chromatic answers every signal,
\* whatever the user did with enable() and disable() meanwhile
\* (disable() looks at g_refCount before removeHandlers).
RefsKeepHandlers ==
  Alive => \A s \in Subsystems : holding[s] # <<>> =>
             \A sig \in Signals : disposition[sig] = "own"

\* A trap raised by an armed subsystem never ends in the process's own handler
\* or in a kill as long as the registration that was to answer it is in place.
ClaimedReachesOwner ==
  \A t \in Threads :
    thread[t].phase \in {"original", "killed"} /\ thread[t].src # "program" =>
      \A i \in DOMAIN holding[thread[t].src] :
        Armed(thread[t].src) => holding[thread[t].src][i] # thread[t].expect

\* The handlers the process had are never overwritten by chromatic's own copy:
\* wherever chromatic answers, g_old still holds the original, provided no
\* disable() was called while a subsystem held a reference.
OriginalsRecoverable ==
  ~kept => \A sig \in Signals : disposition[sig] = "own" => saved[sig] = Original[sig]

\* Once disable() has returned and nobody holds a reference the process has its
\* own handlers back, under the same proviso.
DisableRestores ==
  ScriptIdle /\ ~enabled /\ ~kept => disposition = Original

\* A thread that takes a signal gets out of the handler again, or the process
\* dies of it: the dispatch never runs in circles (a handler that forwards to
\* itself would), under the same proviso.
SignalResolved ==
  []~kept => \A t \in Threads :
               (thread[t].phase = "entered") ~> (thread[t].phase # "entered"
                                                 /\ thread[t].phase # "dispatching")

\* The promise to the subsystems.
Contract == INSTANCE SignalOwnership WITH
  owner <- IF \A sig \in Signals : disposition[sig] \in {"own", "reraised"}
           THEN "chromatic" ELSE "process",
  users <- {s \in Subsystems : holding[s] # <<>>}

ImplementsOwnership == Contract!Spec
================================================================================
