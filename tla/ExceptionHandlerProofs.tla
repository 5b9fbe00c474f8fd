------------------------- MODULE ExceptionHandlerProofs -------------------------
(****************************************************************************)
(* Theorems about ExceptionHandler, for any number of threads, subsystems   *)
(* and handlers.                                                            *)
(*                                                                          *)
(* The inductive invariant relates the reference count to the subsystems    *)
(* that rely on it (CountInv), says where an API call can be interrupted    *)
(* (CallInv), and how much of the signal table is chromatic's at each such  *)
(* point (OwnInv, SavedInv).                                                *)
(****************************************************************************)
EXTENDS ExceptionHandler, FiniteSetTheorems, SequenceTheorems, TLAPS

\* The subsystems that hold a reference: those with handlers in the chain, and
\* the one that has just counted itself in and is about to register.
Users == {s \in Subsystems : \/ holding[s] # <<>>
                             \/ call.op \in {"installing", "registering"} /\ call.sub = s}

CountInv == refCount = Cardinality(Users)

CallInv ==
  /\ call.op \in {"installing", "removing"} => call.at \in 1 .. 4
  /\ call.op \in {"registering", "unregistering"} => call.sub \in Subsystems
  /\ call.op = "registering" => call.at \in DOMAIN Handles[call.sub]
  /\ call.op = "unregistering" => holding[call.sub] # <<>>
  /\ call.op = "installing" => enabled
  /\ call.op = "installing" /\ call.sub # NoSubsystem =>
       \A s \in Subsystems : holding[s] = <<>>
  /\ call.op = "removing" => ~enabled /\ Users = {}

\* While the process lives.
OwnInv ==
  Alive =>
    /\ call.op \notin {"installing", "removing"} /\ (enabled \/ Users # {}) =>
         \A sig \in Signals : disposition[sig] = "own"
    /\ call.op = "installing" =>
         \A i \in 1 .. 4 : i < call.at => disposition[Order[i]] = "own"
    /\ call.op = "installing" /\ call.sub = NoSubsystem /\ Users # {} =>
         \A sig \in Signals : disposition[sig] = "own"

SavedInv ==
  ~kept =>
    /\ \A sig \in Signals : disposition[sig] = "own" => saved[sig] = Original[sig]
    /\ Users # {} => enabled
    /\ Alive =>
         /\ \A sig \in Signals : disposition[sig] \in {"own", Original[sig]}
         /\ call.op \notin {"installing", "removing"} /\ ~enabled => disposition = Original
         /\ call.op = "installing" =>
              \A i \in 1 .. 4 : i >= call.at => disposition[Order[i]] = Original[Order[i]]
         /\ call.op = "removing" =>
              \A i \in 1 .. 4 :
                disposition[Order[i]] = IF i < call.at THEN Original[Order[i]] ELSE "own"

IInv == TypeOK /\ CountInv /\ CallInv /\ OwnInv /\ SavedInv

--------------------------------------------------------------------------------
(* The signal table is walked through completely *)

LEMMA RemainingIds ==
  ASSUME holding \in [Subsystems -> Seq(Nat)], NEW s \in Subsystems, holding[s] # <<>>
  PROVE  Remaining(s) \in Seq(Nat)
<1>1. Tail(holding[s]) \in Seq(Nat)
  BY HeadTailProperties
<1>2. <<>> \in Seq(Nat)
  OBVIOUS
<1>3. QED
  BY <1>1, <1>2 DEF Remaining

LEMMA OrderCoversSignals ==
  /\ Len(Order) = 4
  /\ \A i \in 1 .. 4 : Order[i] \in Signals
  /\ \A sig \in Signals : \E i \in 1 .. 4 : Order[i] = sig
  /\ \A i, j \in 1 .. 4 : Order[i] = Order[j] => i = j
<1>1. /\ Order[1] = "SIGSEGV" /\ Order[2] = "SIGBUS"
      /\ Order[3] = "SIGTRAP" /\ Order[4] = "SIGILL" /\ Len(Order) = 4
  BY DEF Order
<1>2. 1 .. 4 = {1, 2, 3, 4}
  OBVIOUS
<1>3. QED
  BY <1>1, <1>2 DEF Signals

LEMMA SignalOfType == \A type \in Types : SignalOf(type) \in Signals
BY DEF SignalOf, Types, Signals

--------------------------------------------------------------------------------
(* Type correctness *)

LEMMA InitTypeOK == Init => TypeOK
<1>1. Running \in ThreadStates
  BY DEF Running, ThreadStates, Types
<1>2. \A sig \in Signals : Original[sig] \in Dispositions /\ "default" \in Dispositions
  BY ConstantsAssumption DEF Dispositions
<1> SUFFICES ASSUME Init PROVE TypeOK
  OBVIOUS
<1>3. /\ disposition \in [Signals -> Dispositions \union {"own", "reraised"}]
      /\ saved \in [Signals -> Dispositions \union {"own", "reraised"}]
  BY <1>2, ConstantsAssumption DEF Init
<1>4. thread \in [Threads -> ThreadStates] /\ holding \in [Subsystems -> Seq(Nat)]
  BY <1>1, EmptySeq DEF Init
<1>5. QED
  BY <1>3, <1>4 DEF Init, TypeOK, Idle, CallStates

LEMMA CallTyping ==
  ASSUME NEW c \in CallStates, NEW n \in Nat
  PROVE  /\ [c EXCEPT !.at = n] \in CallStates
         /\ [c EXCEPT !.op = "registering", !.at = n] \in CallStates
BY DEF CallStates

LEMMA ThreadTyping ==
  ASSUME NEW r \in ThreadStates, NEW P \in SUBSET Entries
  PROVE  /\ [r EXCEPT !.pending = P] \in ThreadStates
         /\ [r EXCEPT !.phase = "dispatching", !.pending = P] \in ThreadStates
         /\ \A disp : [r EXCEPT !.phase = KernelPhase(disp)] \in ThreadStates
<1>1. \A disp : KernelPhase(disp) \in {"entered", "original", "killed"}
  BY DEF KernelPhase
<1>2. QED
  BY <1>1 DEF ThreadStates

LEMMA NextTypeOK == TypeOK /\ CallInv /\ CountInv /\ [Next]_vars => TypeOK'
<1> SUFFICES ASSUME TypeOK, CallInv, CountInv, [Next]_vars
             PROVE  TypeOK'
  OBVIOUS
<1> USE DEF TypeOK, ScriptIdle
<1>run. Running \in ThreadStates
  BY DEF Running, ThreadStates, Types
<1>call. /\ Idle \in CallStates
         /\ [call EXCEPT !.at = @ + 1] \in CallStates
         /\ \A n \in Nat : /\ [call EXCEPT !.at = n] \in CallStates
                           /\ [call EXCEPT !.op = "registering", !.at = n] \in CallStates
         /\ \A op \in {"installing", "removing"} : [Idle EXCEPT !.op = op] \in CallStates
  <2>1. call.at \in Nat /\ call.at + 1 \in Nat
    BY DEF CallStates
  <2>2. \A n \in Nat : /\ [call EXCEPT !.at = n] \in CallStates
                       /\ [call EXCEPT !.op = "registering", !.at = n] \in CallStates
    BY CallTyping
  <2>3. [call EXCEPT !.at = @ + 1] \in CallStates
    BY <2>1, <2>2
  <2>4. /\ Idle \in CallStates
        /\ \A op \in {"installing", "removing"} : [Idle EXCEPT !.op = op] \in CallStates
    BY DEF Idle, CallStates
  <2>5. QED
    BY <2>2, <2>3, <2>4
<1>1. CASE Enable
  BY <1>1, <1>call DEF Enable, signalVars, chainVars, jsVars
<1>2. CASE Disable
  BY <1>2, <1>call DEF Disable, signalVars, chainVars, jsVars
<1>3. CASE Install
  <2>1. call.at \in 1 .. 4 /\ Order[call.at] \in Signals
    BY <1>3, OrderCoversSignals DEF Install, CallInv
  <2>2. /\ disposition' \in [Signals -> Dispositions \union {"own", "reraised"}]
        /\ saved' \in [Signals -> Dispositions \union {"own", "reraised"}]
    BY <1>3, <2>1 DEF Install
  <2>3. call' \in CallStates
    BY <1>3, <2>1, <1>call DEF Install
  <2>4. QED
    BY <1>3, <2>2, <2>3 DEF Install, apiVars, chainVars, jsVars
<1>4. CASE Remove
  <2>1. call.at \in 1 .. 4 /\ Order[call.at] \in Signals
    BY <1>4, OrderCoversSignals DEF Remove, CallInv
  <2>2. QED
    BY <1>4, <2>1, <1>call DEF Remove, apiVars, chainVars, jsVars
<1>5. ASSUME NEW s \in Subsystems, RefEnable(s)
      PROVE  TypeOK'
  BY <1>5 DEF RefEnable, CallStates, signalVars, chainVars, jsVars
<1>6. ASSUME NEW s \in Subsystems, StartRelease(s)
      PROVE  TypeOK'
  BY <1>6 DEF StartRelease, CallStates, apiVars, signalVars, chainVars, jsVars
<1>7. CASE RegisterHandler
  <2> DEFINE s == call.sub
  <2>1. s \in Subsystems /\ call.at \in DOMAIN Handles[s]
    BY <1>7 DEF RegisterHandler, CallInv
  <2>2. Handles[s][call.at] \in Types
    BY <2>1, ConstantsAssumption, ElementOfSeq
  <2>3. handlers' \subseteq Entries
    BY <1>7, <2>1, <2>2 DEF RegisterHandler, Entries
  <2>4. holding' \in [Subsystems -> Seq(Nat)]
    BY <1>7, <2>1, AppendProperties DEF RegisterHandler
  <2>5. call' \in CallStates
    BY <1>7, <1>call DEF RegisterHandler
  <2>6. QED
    BY <1>7, <2>3, <2>4, <2>5 DEF RegisterHandler, apiVars, signalVars, jsVars
<1>8. CASE UnregisterHandler
  <2> DEFINE s == call.sub
  <2>1. s \in Subsystems /\ holding[s] # <<>>
    BY <1>8 DEF UnregisterHandler, CallInv
  <2>2. holding' \in [Subsystems -> Seq(Nat)]
    BY <1>8, <2>1, RemainingIds DEF UnregisterHandler
  <2>3. refCount' \in Nat
    <3>1. IsFiniteSet(Users) /\ Users # {}
      BY <2>1, ConstantsAssumption, FS_Subset DEF Users
    <3>2. refCount # 0
      BY <3>1, FS_EmptySet DEF CountInv
    <3>3. QED
      BY <1>8, <3>2 DEF UnregisterHandler
  <2>4. QED
    BY <1>8, <2>2, <2>3, <1>call DEF UnregisterHandler, signalVars, jsVars
<1>9. ASSUME NEW type \in RequestedTypes, AddCallback(type)
      PROVE  TypeOK'
  BY <1>9 DEF AddCallback, apiVars, signalVars, chainVars
<1>10. ASSUME NEW id \in 1 .. MaxJsId, RemoveCallback(id)
       PROVE  TypeOK'
  BY <1>10 DEF RemoveCallback, apiVars, signalVars, chainVars
<1>11. CASE RemoveAllCallbacks
  BY <1>11 DEF RemoveAllCallbacks, apiVars, signalVars, chainVars
<1>12. ASSUME NEW t \in Threads, NEW type \in Types,
              NEW src \in Subsystems \union {"program"}, Raise(t, type, src)
       PROVE  TypeOK'
  <2>1. PICK expect \in
               IF src = "program" THEN {0}
               ELSE {holding[src][i] : i \in {j \in DOMAIN Handles[src] : Handles[src][j] = type}} :
               thread' = [thread EXCEPT ![t] =
                    [phase |-> KernelPhase(disposition[SignalOf(type)]), type |-> type,
                     src |-> src, expect |-> expect, pending |-> {}]]
    BY <1>12 DEF Raise
  <2>2. expect \in Nat
    <3>1. CASE src = "program"
      BY <2>1, <3>1
    <3>2. CASE src # "program"
      <4>1. src \in Subsystems /\ Len(holding[src]) = Len(Handles[src])
        BY <1>12, <3>2 DEF Raise, Armed
      <4>2. DOMAIN holding[src] = DOMAIN Handles[src]
        BY <4>1, ConstantsAssumption, LenProperties
      <4>3. QED
        BY <2>1, <3>2, <4>1, <4>2, ElementOfSeq
    <3>3. QED
      BY <3>1, <3>2
  <2>3. KernelPhase(disposition[SignalOf(type)]) \in
          {"running", "entered", "dispatching", "original", "killed"}
    BY DEF KernelPhase
  <2>4. thread' \in [Threads -> ThreadStates]
    BY <2>1, <2>2, <2>3 DEF ThreadStates
  <2>5. QED
    BY <1>12, <2>4 DEF Raise, apiVars, signalVars, chainVars, jsVars
<1>13. ASSUME NEW t \in Threads, CopyHandlers(t)
       PROVE  TypeOK'
  <2>1. thread' \in [Threads -> ThreadStates]
    <3>1. thread' = [thread EXCEPT ![t] =
                       [@ EXCEPT !.phase = "dispatching",
                                 !.pending = {e \in handlers : e.type = thread[t].type}]]
      BY <1>13 DEF CopyHandlers
    <3>2. {e \in handlers : e.type = thread[t].type} \in SUBSET Entries
      OBVIOUS
    <3>3. QED
      BY <3>1, <3>2, ThreadTyping
  <2>2. QED
    BY <1>13, <2>1 DEF CopyHandlers, apiVars, signalVars, chainVars, jsVars
<1>14. ASSUME NEW t \in Threads, RunHandler(t)
       PROVE  TypeOK'
  <2>1. thread' \in [Threads -> ThreadStates]
    <3>1. CASE thread' = [thread EXCEPT ![t] = Running]
      BY <3>1, <1>run
    <3>2. ASSUME NEW e \in thread[t].pending,
                 thread' = [thread EXCEPT ![t].pending = @ \ {e}]
          PROVE  thread' \in [Threads -> ThreadStates]
      <4>1. thread' = [thread EXCEPT ![t] =
                         [thread[t] EXCEPT !.pending = thread[t].pending \ {e}]]
        BY <3>2
      <4>2. thread[t].pending \ {e} \in SUBSET Entries
        <5>1. thread[t].pending \subseteq Entries
          BY DEF ThreadStates
        <5>2. QED
          BY <5>1
      <4>3. [thread[t] EXCEPT !.pending = thread[t].pending \ {e}] \in ThreadStates
        BY <4>2, ThreadTyping
      <4>4. QED
        BY <4>1, <4>3
    <3>3. QED
      BY <1>14, <3>1, <3>2 DEF RunHandler
  <2>2. QED
    BY <1>14, <2>1 DEF RunHandler, apiVars, signalVars, chainVars, jsVars
<1>15. ASSUME NEW t \in Threads, Forward(t)
       PROVE  TypeOK'
  <2>0. thread[t].pending \in SUBSET Entries /\ thread[t].pending = {}
    BY <1>15 DEF Forward
  <2>1. \A disp : [thread[t] EXCEPT !.phase = KernelPhase(disp)] \in ThreadStates
    BY <2>0, ThreadTyping
  <2>2. thread' \in [Threads -> ThreadStates]
    BY <1>15, <1>run, <2>1 DEF Forward
  <2>3. disposition' \in [Signals -> Dispositions \union {"own", "reraised"}]
    BY <1>15 DEF Forward
  <2>4. QED
    BY <1>15, <2>2, <2>3 DEF Forward, apiVars, chainVars, jsVars
<1>16. ASSUME NEW t \in Threads, OriginalReturns(t)
       PROVE  TypeOK'
  BY <1>16, <1>run DEF OriginalReturns, apiVars, signalVars, chainVars, jsVars
<1>17. CASE UNCHANGED vars
  BY <1>17 DEF vars, apiVars, signalVars, chainVars, jsVars
<1>18. QED
  BY <1>1, <1>2, <1>3, <1>4, <1>5, <1>6, <1>7, <1>8, <1>9, <1>10, <1>11, <1>12,
     <1>13, <1>14, <1>15, <1>16, <1>17 DEF Next

--------------------------------------------------------------------------------
(* The inductive invariant *)

\* A step that leaves the API's state and the signal table alone.
Quiet == /\ Alive
         /\ UNCHANGED <<enabled, refCount, kept, disposition, saved, call, holding>>

\* What a step can be, the quiet ones taken together.
LEMMA StepKinds ==
  ASSUME Next
  PROVE  \/ Quiet \/ Enable \/ Disable \/ Install \/ Remove
         \/ \E s \in Subsystems : RefEnable(s) \/ StartRelease(s)
         \/ RegisterHandler \/ UnregisterHandler
         \/ \E t \in Threads : Forward(t)
<1>1. CASE \E type \in RequestedTypes : AddCallback(type)
  BY <1>1 DEF Quiet, AddCallback, ScriptIdle, apiVars, signalVars, chainVars
<1>2. CASE \E id \in 1 .. MaxJsId : RemoveCallback(id)
  BY <1>2 DEF Quiet, RemoveCallback, ScriptIdle, apiVars, signalVars, chainVars
<1>3. CASE RemoveAllCallbacks
  BY <1>3 DEF Quiet, RemoveAllCallbacks, ScriptIdle, apiVars, signalVars, chainVars
<1>4. ASSUME NEW t \in Threads, NEW type \in Types,
             NEW src \in Subsystems \union {"program"}, Raise(t, type, src)
      PROVE  Quiet
  BY <1>4 DEF Quiet, Raise, apiVars, signalVars, chainVars
<1>5. ASSUME NEW t \in Threads, CopyHandlers(t) \/ RunHandler(t) \/ OriginalReturns(t)
      PROVE  Quiet
  BY <1>5 DEF Quiet, CopyHandlers, RunHandler, OriginalReturns, apiVars, signalVars, chainVars
<1>6. QED
  BY <1>1, <1>2, <1>3, <1>4, <1>5 DEF Next

LEMMA UsersFinite == IsFiniteSet(Users) /\ Users \subseteq Subsystems
BY ConstantsAssumption, FS_Subset DEF Users

LEMMA NoUsers == refCount = Cardinality(Users) => (refCount = 0 <=> Users = {})
BY UsersFinite, FS_EmptySet

LEMMA EmptyIffNoLength == \A seq \in Seq(Nat) : Len(seq) = 0 <=> seq = <<>>
BY EmptySeq

LEMMA InitIInv == Init => CountInv /\ CallInv /\ OwnInv /\ SavedInv
<1> SUFFICES ASSUME Init PROVE CountInv /\ CallInv /\ OwnInv /\ SavedInv
  OBVIOUS
<1>1. Users = {}
  BY DEF Init, Users, Idle
<1>2. CountInv
  BY <1>1, FS_EmptySet DEF Init, CountInv
<1>3. CallInv
  BY DEF Init, CallInv, Idle
<1>4. OwnInv
  BY <1>1 DEF Init, OwnInv, Idle
<1>5. \A sig \in Signals : disposition[sig] # "own"
  BY ConstantsAssumption DEF Init, Dispositions
<1>6. SavedInv
  BY <1>1, <1>5 DEF Init, SavedInv, Idle
<1>7. QED
  BY <1>2, <1>3, <1>4, <1>6

\* A call in progress and the reference count stay consistent.
LEMMA NextCount ==
  ASSUME TypeOK, CountInv, CallInv, [Next]_vars
  PROVE  CountInv' /\ CallInv'
<1> USE DEF CallInv
<1>1. CASE Quiet \/ UNCHANGED vars
  <2>1. UNCHANGED <<enabled, refCount, call, holding>>
    BY <1>1 DEF Quiet, vars, apiVars, chainVars
  <2>2. Users' = Users
    BY <2>1 DEF Users
  <2>3. QED
    BY <2>1, <2>2 DEF CountInv
<1>2. CASE Enable \/ Disable
  <2>1. /\ UNCHANGED <<refCount, holding>>
        /\ call.op = "idle"
        /\ call'.sub = NoSubsystem /\ call'.op \in {"idle", "installing", "removing"}
        /\ call'.at = 1
    BY <1>2 DEF Enable, Disable, Idle, ScriptIdle, chainVars
  <2>2. Users' = Users
    BY <2>1, ConstantsAssumption DEF Users, NoSubsystem
  <2>3. call'.op = "removing" => ~enabled' /\ Users = {}
    BY <1>2, NoUsers DEF Enable, Disable, Idle, CountInv
  <2>4. call'.op = "installing" => enabled'
    BY <1>2 DEF Enable, Disable, Idle
  <2>5. QED
    BY <2>1, <2>2, <2>3, <2>4 DEF CountInv
<1>3. CASE Install
  <2>1. /\ UNCHANGED <<enabled, refCount, holding>>
        /\ call.op = "installing" /\ call.at \in 1 .. 4 /\ Len(Order) = 4
    BY <1>3, OrderCoversSignals DEF Install, apiVars, chainVars
  <2>2. CASE call.at < 4
    <3>1. call' = [call EXCEPT !.at = @ + 1]
      BY <1>3, <2>1, <2>2 DEF Install
    <3>2. call'.op = call.op /\ call'.sub = call.sub /\ call'.at = call.at + 1
      BY <3>1 DEF TypeOK, CallStates
    <3>3. Users' = Users
      BY <2>1, <3>2 DEF Users
    <3>4. QED
      BY <2>1, <2>2, <3>2, <3>3 DEF CountInv
  <2>3. CASE call.at = 4 /\ call.sub = NoSubsystem
    <3>1. call' = Idle
      BY <1>3, <2>1, <2>3 DEF Install
    <3>2. Users' = Users
      BY <2>1, <2>3, <3>1, ConstantsAssumption DEF Users, Idle, NoSubsystem
    <3>3. QED
      BY <2>1, <3>1, <3>2 DEF CountInv, Idle
  <2>4. CASE call.at = 4 /\ call.sub # NoSubsystem
    <3>1. call' = [call EXCEPT !.op = "registering", !.at = 1]
      BY <1>3, <2>1, <2>4 DEF Install
    <3>2. call'.op = "registering" /\ call'.sub = call.sub /\ call'.at = 1
      BY <3>1 DEF TypeOK, CallStates
    <3>3. call.sub \in Subsystems
      BY <2>4 DEF TypeOK, CallStates
    <3>4. 1 \in DOMAIN Handles[call.sub]
      BY <3>3, ConstantsAssumption, LenProperties, EmptySeq, SeqEqual
    <3>5. Users' = Users
      BY <2>1, <3>2 DEF Users
    <3>6. QED
      BY <2>1, <3>2, <3>3, <3>4, <3>5 DEF CountInv
  <2>5. QED
    BY <2>1, <2>2, <2>3, <2>4
<1>4. CASE Remove
  <2>1. /\ UNCHANGED <<enabled, refCount, holding>>
        /\ call.op = "removing" /\ call.at \in 1 .. 4 /\ Len(Order) = 4
    BY <1>4, OrderCoversSignals DEF Remove, apiVars, chainVars
  <2>2. CASE call.at < 4
    <3>1. call' = [call EXCEPT !.at = @ + 1]
      BY <1>4, <2>1, <2>2 DEF Remove
    <3>2. call'.op = call.op /\ call'.sub = call.sub /\ call'.at = call.at + 1
      BY <3>1 DEF TypeOK, CallStates
    <3>3. Users' = Users
      BY <2>1, <3>2 DEF Users
    <3>4. QED
      BY <2>1, <2>2, <3>2, <3>3 DEF CountInv
  <2>3. CASE call.at = 4
    <3>1. call' = Idle
      BY <1>4, <2>1, <2>3 DEF Remove
    <3>2. Users' = Users
      BY <2>1, <3>1 DEF Users, Idle
    <3>3. QED
      BY <2>1, <3>1, <3>2 DEF CountInv, Idle
  <2>4. QED
    BY <2>1, <2>2, <2>3
<1>5. ASSUME NEW s \in Subsystems, RefEnable(s)
      PROVE  CountInv' /\ CallInv'
  <2>1. /\ call.op = "idle" /\ holding[s] = <<>> /\ holding' = holding
        /\ refCount' = refCount + 1
        /\ call'.op \in {"installing", "registering"} /\ call'.sub = s /\ call'.at = 1
        /\ call'.op = "installing" => refCount = 0 /\ enabled'
    BY <1>5 DEF RefEnable, ScriptIdle, chainVars
  <2>2. Users' = Users \union {s} /\ s \notin Users
    BY <2>1 DEF Users
  <2>3. CountInv'
    BY <2>1, <2>2, UsersFinite, FS_AddElement DEF CountInv
  <2>4. 1 \in DOMAIN Handles[s]
    BY ConstantsAssumption, LenProperties, EmptySeq, SeqEqual
  <2>5. call'.op = "installing" => \A u \in Subsystems : holding[u] = <<>>
    BY <2>1, NoUsers DEF CountInv, Users
  <2>6. QED
    BY <2>1, <2>3, <2>4, <2>5
<1>6. ASSUME NEW s \in Subsystems, StartRelease(s)
      PROVE  CountInv' /\ CallInv'
  <2>1. /\ call.op = "idle" /\ UNCHANGED <<holding, refCount, enabled>>
        /\ holding[s] # <<>> /\ call'.op = "unregistering" /\ call'.sub = s
    BY <1>6 DEF StartRelease, ScriptIdle, apiVars, chainVars
  <2>2. Users' = Users
    BY <2>1 DEF Users
  <2>3. QED
    BY <2>1, <2>2 DEF CountInv
<1>7. CASE RegisterHandler
  <2>0. PICK s \in Subsystems : s = call.sub
    BY <1>7 DEF RegisterHandler
  <2>1. /\ call.op = "registering" /\ s = call.sub
        /\ call.at \in DOMAIN Handles[s]
        /\ refCount' = refCount
        /\ holding' = [holding EXCEPT ![s] = Append(@, nextId)]
        /\ call' = IF call.at < Len(Handles[s]) THEN [call EXCEPT !.at = @ + 1] ELSE Idle
    BY <1>7, <2>0 DEF RegisterHandler, apiVars
  <2>2. /\ holding'[s] # <<>>
        /\ \A u \in Subsystems : u # s => holding'[u] = holding[u]
    <3>1. holding \in [Subsystems -> Seq(Nat)] /\ nextId \in Nat
      BY DEF TypeOK
    <3>2. Append(holding[s], nextId) # <<>>
      BY <2>0, <2>1, <3>1, AppendProperties
    <3>3. QED
      BY <2>0, <2>1, <3>1, <3>2
  <2>3. /\ call'.op \in {"idle", "registering"}
        /\ call'.op = "registering" => call'.sub = s /\ call'.at \in DOMAIN Handles[s]
    <3>1. CASE call.at < Len(Handles[s])
      <4>1. call'.op = "registering" /\ call'.sub = s /\ call'.at = call.at + 1
        BY <2>1, <3>1 DEF TypeOK, CallStates
      <4>2. QED
        BY <2>1, <3>1, <4>1, ConstantsAssumption, LenProperties
    <3>2. CASE ~(call.at < Len(Handles[s]))
      BY <2>1, <3>2 DEF Idle
    <3>3. QED
      BY <3>1, <3>2
  <2>4. Users' = Users
    BY <2>1, <2>2, <2>3 DEF Users
  <2>5. QED
    BY <2>1, <2>3, <2>4 DEF CountInv
<1>8. CASE UnregisterHandler
  <2>0. PICK s \in Subsystems : s = call.sub
    BY <1>8 DEF UnregisterHandler
  <2>1. /\ call.op = "unregistering" /\ s = call.sub /\ holding[s] # <<>>
        /\ holding' = [holding EXCEPT ![s] = Remaining(s)]
        /\ IF Remaining(s) = <<>>
           THEN call' = Idle /\ refCount' = refCount - 1
           ELSE UNCHANGED <<call, refCount>>
    BY <1>8, <2>0 DEF UnregisterHandler
  <2>2. /\ holding'[s] = Remaining(s)
        /\ \A u \in Subsystems : u # s => holding'[u] = holding[u]
    BY <2>0, <2>1 DEF TypeOK
  <2>3. CASE Remaining(s) # <<>>
    <3>1. holding'[s] # <<>>
      BY <2>2, <2>3
    <3>2. Users' = Users
      BY <2>1, <2>2, <2>3, <3>1 DEF Users
    <3>3. QED
      BY <2>1, <2>3, <3>1, <3>2 DEF CountInv
  <2>4. CASE Remaining(s) = <<>>
    <3>1. holding'[s] = <<>>
      BY <2>2, <2>4
    <3>2. Users' = Users \ {s} /\ s \in Users
      BY <2>1, <2>2, <2>4, <3>1 DEF Users, Idle
    <3>3. refCount' = Cardinality(Users')
      BY <2>1, <2>4, <3>2, UsersFinite, FS_RemoveElement DEF CountInv
    <3>4. QED
      BY <2>1, <2>4, <3>3 DEF CountInv, Idle
  <2>5. QED
    BY <2>3, <2>4
<1>9. ASSUME NEW t \in Threads, Forward(t)
      PROVE  CountInv' /\ CallInv'
  <2>1. UNCHANGED <<enabled, refCount, call, holding>>
    BY <1>9 DEF Forward, apiVars, chainVars
  <2>2. Users' = Users
    BY <2>1 DEF Users
  <2>3. QED
    BY <2>1, <2>2 DEF CountInv
<1>10. QED
  <2>1. CASE UNCHANGED vars
    BY <1>1, <2>1
  <2>2. CASE Next
    BY <1>1, <1>2, <1>3, <1>4, <1>5, <1>6, <1>7, <1>8, <1>9, <2>2, StepKinds
  <2>3. QED
    BY <2>1, <2>2

\* How far one sigaction takes the walk through the signals.
LEMMA InstallFacts ==
  ASSUME TypeOK, CallInv, Install
  PROVE  /\ call.op = "installing" /\ call.at \in 1 .. 4 /\ Order[call.at] \in Signals
         /\ \A sig \in Signals :
              /\ disposition'[sig] = IF sig = Order[call.at] THEN "own" ELSE disposition[sig]
              /\ saved'[sig] = IF sig = Order[call.at] THEN disposition[sig] ELSE saved[sig]
         /\ call.at < 4 => /\ call'.op = "installing" /\ call'.at = call.at + 1
                           /\ call'.sub = call.sub
         /\ call.at = 4 => call'.op \in {"idle", "registering"}
         /\ Users' \subseteq Users
         /\ UNCHANGED <<enabled, refCount, kept, holding, thread>>
<1>1. call.op = "installing" /\ call.at \in 1 .. 4 /\ Order[call.at] \in Signals
  BY OrderCoversSignals DEF Install, CallInv
<1>2. /\ saved' = [saved EXCEPT ![Order[call.at]] = disposition[Order[call.at]]]
      /\ disposition' = [disposition EXCEPT ![Order[call.at]] = "own"]
  BY DEF Install
<1>3. \A sig \in Signals :
        /\ disposition'[sig] = IF sig = Order[call.at] THEN "own" ELSE disposition[sig]
        /\ saved'[sig] = IF sig = Order[call.at] THEN disposition[sig] ELSE saved[sig]
  BY <1>1, <1>2 DEF TypeOK
<1>4. call.at < 4 => call'.op = "installing" /\ call'.at = call.at + 1 /\ call'.sub = call.sub
  BY <1>1, OrderCoversSignals DEF Install, TypeOK, CallStates
<1>5. call.at = 4 => /\ call'.op \in {"idle", "registering"}
                     /\ call'.op = "registering" => call'.sub = call.sub
  BY <1>1, OrderCoversSignals DEF Install, Idle, TypeOK, CallStates
<1>6. UNCHANGED <<enabled, refCount, kept, holding, thread>>
  BY DEF Install, apiVars, chainVars
<1>7. Users' \subseteq Users
  <2>1. CASE call.at < 4
    BY <1>1, <1>4, <1>6, <2>1 DEF Users
  <2>2. CASE call.at = 4
    BY <1>1, <1>5, <1>6, <2>2 DEF Users
  <2>3. QED
    BY <1>1, <2>1, <2>2
<1>8. QED
  BY <1>1, <1>3, <1>4, <1>5, <1>6, <1>7

LEMMA RemoveFacts ==
  ASSUME TypeOK, CallInv, Remove
  PROVE  /\ call.op = "removing" /\ call.at \in 1 .. 4 /\ Order[call.at] \in Signals
         /\ \A sig \in Signals :
              disposition'[sig] = IF sig = Order[call.at] THEN saved[sig] ELSE disposition[sig]
         /\ call.at < 4 => call'.op = "removing" /\ call'.at = call.at + 1
         /\ call.at = 4 => call'.op = "idle"
         /\ ~enabled /\ Users = {} /\ Users' = {}
         /\ UNCHANGED <<enabled, refCount, kept, saved, holding, thread>>
<1>1. call.op = "removing" /\ call.at \in 1 .. 4 /\ Order[call.at] \in Signals
  BY OrderCoversSignals DEF Remove, CallInv
<1>2. \A sig \in Signals :
        disposition'[sig] = IF sig = Order[call.at] THEN saved[sig] ELSE disposition[sig]
  BY <1>1 DEF Remove, TypeOK
<1>3. call.at < 4 => call'.op = "removing" /\ call'.at = call.at + 1
  BY <1>1, OrderCoversSignals DEF Remove, TypeOK, CallStates
<1>4. call.at = 4 => call'.op = "idle"
  BY <1>1, OrderCoversSignals DEF Remove, Idle
<1>5. UNCHANGED <<enabled, refCount, kept, saved, holding, thread>>
  BY DEF Remove, apiVars, chainVars
<1>6. ~enabled /\ Users = {}
  BY <1>1 DEF CallInv
<1>7. Users' = {}
  <2>1. call'.op \in {"removing", "idle"}
    BY <1>1, <1>3, <1>4
  <2>2. QED
    BY <1>1, <1>5, <1>6, <2>1 DEF Users
<1>8. QED
  BY <1>1, <1>2, <1>3, <1>4, <1>5, <1>6, <1>7

\* A thread that forwards to SIG_DFL ends the process; otherwise the table stays.
LEMMA ForwardFacts ==
  ASSUME TypeOK, NEW t \in Threads, Forward(t)
  PROVE  /\ UNCHANGED <<enabled, refCount, kept, saved, call, holding>>
         /\ Alive
         /\ Alive' => disposition' = disposition
         /\ \A sig \in Signals : disposition'[sig] = "own" => disposition[sig] = "own"
<1> DEFINE sig == SignalOf(thread[t].type)
<1>1. UNCHANGED <<enabled, refCount, kept, saved, call, holding>> /\ Alive
  BY DEF Forward, apiVars, chainVars
<1>2. thread[t].type \in Types
  BY DEF TypeOK, ThreadStates
<1>3. sig \in Signals
  BY <1>2, SignalOfType
<1>4. CASE saved[sig] = "default"
  <2>1. thread' = [thread EXCEPT ![t] = [thread[t] EXCEPT !.phase = KernelPhase("default")]]
    BY <1>4 DEF Forward
  <2>2. KernelPhase("default") = "killed"
    BY DEF KernelPhase
  <2>3. thread'[t].phase = "killed"
    BY <2>1, <2>2 DEF TypeOK, ThreadStates
  <2>4. ~Alive'
    BY <2>3 DEF Alive
  <2>5. disposition' = [disposition EXCEPT ![sig] = "reraised"]
    BY <1>4 DEF Forward
  <2>6. QED
    BY <1>1, <1>3, <2>4, <2>5 DEF TypeOK
<1>5. CASE saved[sig] # "default"
  BY <1>1, <1>3, <1>5 DEF Forward, TypeOK
<1>6. QED
  BY <1>4, <1>5

\* enable() and disable().
LEMMA SwitchFacts ==
  ASSUME Enable \/ Disable
  PROVE  /\ call.op = "idle" /\ Alive /\ call'.at = 1 /\ call'.sub = NoSubsystem
         /\ UNCHANGED <<refCount, disposition, saved, holding, thread>>
         /\ Users' = Users
<1>1. /\ call.op = "idle" /\ Alive /\ call'.at = 1 /\ call'.sub = NoSubsystem
      /\ UNCHANGED <<refCount, disposition, saved, holding, thread>>
  BY DEF Enable, Disable, Idle, ScriptIdle, signalVars, chainVars
<1>2. Users' = Users
  BY <1>1, ConstantsAssumption DEF Users, NoSubsystem
<1>3. QED
  BY <1>1, <1>2

\* The calls of a subsystem: either the switch stays, and a new reference finds
\* the handlers in place, or the first reference turns it on.
SwitchStays ==
  /\ enabled' = enabled
  /\ Users' \subseteq Users \/ Users # {} \/ enabled
  /\ call'.op \in {"idle", "registering", "unregistering"}

SwitchTurnsOn ==
  /\ ~enabled /\ Users = {} /\ enabled'
  /\ call'.op = "installing" /\ call'.at = 1 /\ call'.sub # NoSubsystem

LEMMA SubsystemFacts ==
  ASSUME TypeOK, CountInv, CallInv,
         (\E s \in Subsystems : RefEnable(s) \/ StartRelease(s))
           \/ RegisterHandler \/ UnregisterHandler
  PROVE  /\ UNCHANGED <<kept, disposition, saved, thread>>
         /\ Alive
         /\ call.op \in {"idle", "registering", "unregistering"}
         /\ SwitchStays \/ SwitchTurnsOn
<1>1. ASSUME NEW s \in Subsystems, RefEnable(s)
      PROVE  /\ UNCHANGED <<kept, disposition, saved, thread>> /\ Alive /\ call.op = "idle"
             /\ SwitchStays \/ SwitchTurnsOn
  <2>1. /\ UNCHANGED <<kept, disposition, saved, thread>> /\ Alive /\ call.op = "idle"
        /\ enabled' = (enabled \/ refCount = 0)
        /\ call' = [op |-> IF refCount = 0 /\ ~enabled THEN "installing" ELSE "registering",
                    at |-> 1, sub |-> s]
    BY <1>1 DEF RefEnable, ScriptIdle, signalVars
  <2>2. refCount = 0 <=> Users = {}
    BY NoUsers DEF CountInv
  <2>3. CASE refCount = 0 /\ ~enabled
    <3>1. s # NoSubsystem
      BY ConstantsAssumption DEF NoSubsystem
    <3>2. call'.op = "installing" /\ call'.at = 1 /\ call'.sub = s /\ enabled'
      BY <2>1, <2>3
    <3>3. SwitchTurnsOn
      BY <2>2, <2>3, <3>1, <3>2 DEF SwitchTurnsOn
    <3>4. QED
      BY <2>1, <3>3
  <2>4. CASE ~(refCount = 0 /\ ~enabled)
    <3>1. call'.op = "registering"
      BY <2>1, <2>4
    <3>2. enabled' = enabled
      BY <2>1, <2>4 DEF TypeOK
    <3>3. Users # {} \/ enabled
      BY <2>2, <2>4
    <3>4. SwitchStays
      BY <3>1, <3>2, <3>3 DEF SwitchStays
    <3>5. QED
      BY <2>1, <3>4
  <2>5. QED
    BY <2>3, <2>4
<1>2. ASSUME NEW s \in Subsystems, StartRelease(s)
      PROVE  /\ UNCHANGED <<kept, disposition, saved, thread>> /\ Alive /\ call.op = "idle"
             /\ SwitchStays
  <2>1. /\ UNCHANGED <<kept, disposition, saved, thread, enabled, holding>> /\ Alive
        /\ call.op = "idle" /\ call'.op = "unregistering"
    BY <1>2 DEF StartRelease, ScriptIdle, apiVars, signalVars, chainVars
  <2>2. QED
    BY <2>1 DEF SwitchStays, Users
<1>3. ASSUME RegisterHandler
      PROVE  /\ UNCHANGED <<kept, disposition, saved, thread>> /\ Alive
             /\ call.op = "registering" /\ SwitchStays
  <2>1. /\ UNCHANGED <<kept, disposition, saved, thread, enabled>> /\ Alive
        /\ call.op = "registering" /\ call.sub \in Subsystems
    BY <1>3 DEF RegisterHandler, CallInv, apiVars, signalVars
  <2>2. Users # {}
    BY <2>1 DEF Users
  <2>3. call'.op \in {"idle", "registering"}
    BY <1>3, <2>1 DEF RegisterHandler, Idle, TypeOK, CallStates
  <2>4. QED
    BY <2>1, <2>2, <2>3 DEF SwitchStays
<1>4. ASSUME UnregisterHandler
      PROVE  /\ UNCHANGED <<kept, disposition, saved, thread>> /\ Alive
             /\ call.op = "unregistering" /\ SwitchStays
  <2>1. /\ UNCHANGED <<kept, disposition, saved, thread, enabled>> /\ Alive
        /\ call.op = "unregistering" /\ call.sub \in Subsystems
        /\ holding[call.sub] # <<>>
    BY <1>4 DEF UnregisterHandler, CallInv, signalVars
  <2>2. Users # {}
    BY <2>1 DEF Users
  <2>3. call'.op \in {"idle", "unregistering"}
    BY <1>4, <2>1 DEF UnregisterHandler, Idle
  <2>4. QED
    BY <2>1, <2>2, <2>3 DEF SwitchStays
<1>5. QED
  BY <1>1, <1>2, <1>3, <1>4

--------------------------------------------------------------------------------

LEMMA NextOwn ==
  ASSUME TypeOK, CountInv, CallInv, OwnInv, [Next]_vars
  PROVE  OwnInv'
<1>1. CASE Quiet \/ UNCHANGED vars
  <2>1. /\ UNCHANGED <<enabled, call, holding, disposition>>
        /\ Alive' => Alive
    BY <1>1 DEF Quiet, vars, apiVars, signalVars, chainVars, Alive
  <2>2. Users' = Users
    BY <2>1 DEF Users
  <2>3. QED
    BY <2>1, <2>2 DEF OwnInv
<1>2. CASE Enable \/ Disable
  <2>1. /\ call.op = "idle" /\ Alive /\ call'.at = 1 /\ Users' = Users
        /\ disposition' = disposition
    BY <1>2, SwitchFacts
  <2>2. enabled \/ Users # {} => \A sig \in Signals : disposition[sig] = "own"
    BY <2>1 DEF OwnInv
  <2>3. /\ call'.op = "idle" /\ enabled' => enabled
        /\ call'.op \in {"idle", "installing", "removing"}
    BY <1>2 DEF Enable, Disable, Idle
  <2>4. QED
    BY <2>1, <2>2, <2>3 DEF OwnInv
<1>3. CASE Install
  <2>1. /\ call.op = "installing" /\ call.at \in 1 .. 4 /\ Order[call.at] \in Signals
        /\ \A sig \in Signals :
             disposition'[sig] = IF sig = Order[call.at] THEN "own" ELSE disposition[sig]
        /\ call.at < 4 => /\ call'.op = "installing" /\ call'.at = call.at + 1
                          /\ call'.sub = call.sub
        /\ call.at = 4 => call'.op \in {"idle", "registering"}
        /\ Users' \subseteq Users
    BY <1>3, InstallFacts
  <2>2. Alive
    BY <1>3 DEF Install
  <2>3. \A i \in 1 .. 4 : i <= call.at => disposition'[Order[i]] = "own"
    BY <2>1, <2>2, OrderCoversSignals DEF OwnInv
  <2>4. CASE call.at < 4
    <3>1. call.sub = NoSubsystem /\ Users # {} => \A sig \in Signals : disposition'[sig] = "own"
      BY <2>1, <2>2 DEF OwnInv
    <3>2. QED
      BY <2>1, <2>3, <2>4, <3>1 DEF OwnInv
  <2>5. CASE call.at = 4
    <3>1. \A i \in 1 .. 4 : disposition'[Order[i]] = "own"
      BY <2>3, <2>5
    <3>2. \A sig \in Signals : disposition'[sig] = "own"
      BY <3>1, OrderCoversSignals
    <3>3. QED
      BY <2>1, <2>5, <3>2 DEF OwnInv
  <2>6. QED
    BY <2>1, <2>4, <2>5
<1>4. CASE Remove
  <2>1. /\ call.at \in 1 .. 4
        /\ call.at < 4 => call'.op = "removing"
        /\ call.at = 4 => call'.op = "idle"
        /\ Users' = {} /\ ~enabled /\ enabled' = enabled
    BY <1>4, RemoveFacts
  <2>2. QED
    BY <2>1 DEF OwnInv
<1>5. CASE (\E s \in Subsystems : RefEnable(s) \/ StartRelease(s))
             \/ RegisterHandler \/ UnregisterHandler
  <2>1. /\ disposition' = disposition /\ Alive
        /\ call.op \in {"idle", "registering", "unregistering"}
        /\ SwitchStays \/ SwitchTurnsOn
    BY <1>5, SubsystemFacts
  <2>2. enabled \/ Users # {} => \A sig \in Signals : disposition[sig] = "own"
    BY <2>1 DEF OwnInv
  <2>3. CASE SwitchStays
    BY <2>1, <2>2, <2>3 DEF SwitchStays, OwnInv
  <2>4. CASE SwitchTurnsOn
    BY <2>1, <2>4 DEF SwitchTurnsOn, OwnInv
  <2>5. QED
    BY <2>1, <2>3, <2>4
<1>6. ASSUME NEW t \in Threads, Forward(t)
      PROVE  OwnInv'
  <2>1. /\ UNCHANGED <<enabled, call, holding>> /\ Alive
        /\ Alive' => disposition' = disposition
    BY <1>6, ForwardFacts
  <2>2. Users' = Users
    BY <2>1 DEF Users
  <2>3. QED
    BY <2>1, <2>2 DEF OwnInv
<1>7. QED
  BY <1>1, <1>2, <1>3, <1>4, <1>5, <1>6, StepKinds

LEMMA OriginalNotOwn == \A sig \in Signals : Original[sig] # "own"
BY ConstantsAssumption DEF Dispositions

LEMMA NextSaved ==
  ASSUME TypeOK, CountInv, CallInv, OwnInv, SavedInv, [Next]_vars
  PROVE  SavedInv'
<1>1. CASE Quiet \/ UNCHANGED vars
  <2>1. /\ UNCHANGED <<enabled, call, holding, disposition, saved, kept>>
        /\ Alive' => Alive
    BY <1>1 DEF Quiet, vars, apiVars, signalVars, chainVars, Alive
  <2>2. Users' = Users
    BY <2>1 DEF Users
  <2>3. QED
    BY <2>1, <2>2 DEF SavedInv
<1>2. CASE Enable
  <2>1. /\ call.op = "idle" /\ Alive /\ call'.at = 1 /\ Users' = Users
        /\ UNCHANGED <<disposition, saved, kept>>
    BY <1>2, SwitchFacts DEF Enable
  <2>2. /\ call'.op = (IF enabled THEN "idle" ELSE "installing")
        /\ enabled'
    BY <1>2 DEF Enable, Idle
  <2>3. ~kept /\ ~enabled => disposition = Original
    BY <2>1 DEF SavedInv
  <2>4. QED
    BY <2>1, <2>2, <2>3, OrderCoversSignals DEF SavedInv
<1>3. CASE Disable
  <2>1. /\ call.op = "idle" /\ Alive /\ call'.at = 1 /\ Users' = Users
        /\ UNCHANGED <<disposition, saved>>
    BY <1>3, SwitchFacts
  <2>2. /\ call'.op = (IF enabled /\ refCount = 0 THEN "removing" ELSE "idle")
        /\ ~enabled'
        /\ kept' = (kept \/ (enabled /\ refCount > 0))
    BY <1>3 DEF Disable, Idle
  <2>3. SUFFICES ASSUME ~kept' PROVE SavedInv'
    BY DEF SavedInv
  <2>4. ~kept /\ (enabled => refCount = 0)
    BY <2>2, <2>3 DEF TypeOK
  <2>5. Users = {}
    BY <2>4, NoUsers DEF CountInv, SavedInv
  <2>6. /\ enabled => \A sig \in Signals : disposition[sig] = "own"
        /\ ~enabled => disposition = Original
        /\ \A sig \in Signals : disposition[sig] \in {"own", Original[sig]}
        /\ \A sig \in Signals : disposition[sig] = "own" => saved[sig] = Original[sig]
    BY <2>1, <2>4 DEF OwnInv, SavedInv
  <2>7. CASE enabled
    <3>1. call'.op = "removing" /\ \A i \in 1 .. 4 : disposition'[Order[i]] = "own" /\ ~(i < call'.at)
      BY <2>1, <2>2, <2>4, <2>6, <2>7, OrderCoversSignals
    <3>2. QED
      BY <2>1, <2>2, <2>5, <2>6, <3>1 DEF SavedInv
  <2>8. CASE ~enabled
    BY <2>1, <2>2, <2>5, <2>6, <2>8 DEF SavedInv
  <2>9. QED
    BY <2>7, <2>8
<1>4. CASE Install
  <2>1. /\ call.op = "installing" /\ call.at \in 1 .. 4 /\ Order[call.at] \in Signals
        /\ \A sig \in Signals :
             /\ disposition'[sig] = IF sig = Order[call.at] THEN "own" ELSE disposition[sig]
             /\ saved'[sig] = IF sig = Order[call.at] THEN disposition[sig] ELSE saved[sig]
        /\ call.at < 4 => /\ call'.op = "installing" /\ call'.at = call.at + 1
        /\ call.at = 4 => call'.op \in {"idle", "registering"}
        /\ Users' \subseteq Users
        /\ UNCHANGED <<enabled, kept, thread>>
    BY <1>4, InstallFacts
  <2>2. SUFFICES ASSUME ~kept PROVE SavedInv'
    BY <2>1 DEF SavedInv
  <2>3. Alive /\ enabled
    BY <1>4, <2>1 DEF Install, CallInv
  <2>4. \A i \in 1 .. 4 : i >= call.at => disposition[Order[i]] = Original[Order[i]]
    BY <2>1, <2>2, <2>3 DEF SavedInv
  <2>5. disposition[Order[call.at]] = Original[Order[call.at]]
    BY <2>1, <2>4
  <2>6. \A sig \in Signals : /\ disposition'[sig] = "own" => saved'[sig] = Original[sig]
                             /\ disposition'[sig] \in {"own", Original[sig]}
    BY <2>1, <2>2, <2>3, <2>5 DEF SavedInv
  <2>7. \A i \in 1 .. 4 : i > call.at => disposition'[Order[i]] = Original[Order[i]]
    BY <2>1, <2>4, OrderCoversSignals
  <2>8. CASE call.at < 4
    <3>1. \A i \in 1 .. 4 : i >= call'.at => disposition'[Order[i]] = Original[Order[i]]
      BY <2>1, <2>7, <2>8
    <3>2. QED
      BY <2>1, <2>3, <2>6, <2>8, <3>1 DEF SavedInv
  <2>9. CASE call.at = 4
    BY <2>1, <2>3, <2>6, <2>9 DEF SavedInv
  <2>10. QED
    BY <2>1, <2>8, <2>9
<1>5. CASE Remove
  <2>1. /\ call.op = "removing" /\ call.at \in 1 .. 4 /\ Order[call.at] \in Signals
        /\ \A sig \in Signals :
             disposition'[sig] = IF sig = Order[call.at] THEN saved[sig] ELSE disposition[sig]
        /\ call.at < 4 => call'.op = "removing" /\ call'.at = call.at + 1
        /\ call.at = 4 => call'.op = "idle"
        /\ Users' = {}
        /\ UNCHANGED <<enabled, kept, saved, thread>>
    BY <1>5, RemoveFacts
  <2>2. SUFFICES ASSUME ~kept PROVE SavedInv'
    BY <2>1 DEF SavedInv
  <2>3. Alive
    BY <1>5 DEF Remove
  <2>4. /\ \A i \in 1 .. 4 :
             disposition[Order[i]] = IF i < call.at THEN Original[Order[i]] ELSE "own"
        /\ \A sig \in Signals : /\ disposition[sig] = "own" => saved[sig] = Original[sig]
                                /\ disposition[sig] \in {"own", Original[sig]}
    BY <2>1, <2>2, <2>3 DEF SavedInv
  <2>5. disposition'[Order[call.at]] = Original[Order[call.at]]
    BY <2>1, <2>4
  <2>6. \A i \in 1 .. 4 :
          disposition'[Order[i]] = IF i <= call.at THEN Original[Order[i]] ELSE "own"
    BY <2>1, <2>4, <2>5, OrderCoversSignals
  <2>7. \A sig \in Signals : /\ disposition'[sig] = "own" => saved'[sig] = Original[sig]
                             /\ disposition'[sig] \in {"own", Original[sig]}
    BY <2>1, <2>4, <2>5, OriginalNotOwn
  <2>8. CASE call.at < 4
    <3>1. \A i \in 1 .. 4 :
            disposition'[Order[i]] = IF i < call'.at THEN Original[Order[i]] ELSE "own"
      BY <2>1, <2>6, <2>8
    <3>2. QED
      BY <2>1, <2>7, <2>8, <3>1 DEF SavedInv
  <2>9. CASE call.at = 4
    <3>1. \A i \in 1 .. 4 : disposition'[Order[i]] = Original[Order[i]]
      BY <2>6, <2>9
    <3>2. \A sig \in Signals : disposition'[sig] = Original[sig]
      BY <3>1, OrderCoversSignals
    <3>3. disposition' = Original
      BY <1>5, <3>2, ConstantsAssumption DEF Remove, TypeOK
    <3>4. QED
      BY <2>1, <2>7, <2>9, <3>3 DEF SavedInv
  <2>10. QED
    BY <2>1, <2>8, <2>9
<1>6. CASE (\E s \in Subsystems : RefEnable(s) \/ StartRelease(s))
             \/ RegisterHandler \/ UnregisterHandler
  <2>1. /\ UNCHANGED <<kept, disposition, saved, thread>> /\ Alive
        /\ call.op \in {"idle", "registering", "unregistering"}
        /\ SwitchStays \/ SwitchTurnsOn
    BY <1>6, SubsystemFacts
  <2>2. SUFFICES ASSUME ~kept PROVE SavedInv'
    BY <2>1 DEF SavedInv
  <2>3. CASE SwitchStays
    BY <2>1, <2>2, <2>3 DEF SwitchStays, SavedInv
  <2>4. CASE SwitchTurnsOn
    <3>1. disposition = Original
      BY <2>1, <2>2, <2>4 DEF SwitchTurnsOn, SavedInv
    <3>2. QED
      BY <2>1, <2>2, <2>4, <3>1, OrderCoversSignals DEF SwitchTurnsOn, SavedInv
  <2>5. QED
    BY <2>1, <2>3, <2>4
<1>7. ASSUME NEW t \in Threads, Forward(t)
      PROVE  SavedInv'
  <2>1. /\ UNCHANGED <<enabled, kept, saved, call, holding>> /\ Alive
        /\ Alive' => disposition' = disposition
        /\ \A sig \in Signals : disposition'[sig] = "own" => disposition[sig] = "own"
    BY <1>7, ForwardFacts
  <2>2. Users' = Users
    BY <2>1 DEF Users
  <2>3. QED
    BY <2>1, <2>2 DEF SavedInv
<1>8. QED
  BY <1>1, <1>2, <1>3, <1>4, <1>5, <1>6, <1>7, StepKinds

--------------------------------------------------------------------------------
(* Theorems *)

\* Every reachable state satisfies the inductive invariant: the reference count is
\* the number of subsystems that rely on the handlers, and the signal table is
\* where the interrupted API call left it (native_exception_handler.cc:274-303,
\* 390-402, 465-481).
THEOREM InvariantHolds == Spec => []IInv
<1>1. Init => IInv
  BY InitTypeOK, InitIInv DEF IInv
<1>2. IInv /\ [Next]_vars => IInv'
  BY NextTypeOK, NextCount, NextOwn, NextSaved DEF IInv
<1>3. QED
  BY <1>1, <1>2, PTL DEF Spec

\* Every variable of the model always has its type; in particular the reference
\* count never goes below zero (refDisable, native_exception_handler.cc:474-481).
THEOREM TypeCorrect == Spec => []TypeOK
<1>1. IInv => TypeOK
  BY DEF IInv
<1>2. QED
  BY <1>1, InvariantHolds, PTL

LEMMA KeepsHandlers == IInv => RefsKeepHandlers
<1> SUFFICES ASSUME IInv, Alive, NEW s \in Subsystems, holding[s] # <<>>,
                    NEW sig \in Signals
             PROVE  disposition[sig] = "own"
  BY DEF RefsKeepHandlers
<1>1. Users # {}
  BY DEF Users
<1>2. call.op # "removing"
  BY <1>1 DEF IInv, CallInv
<1>3. call.op = "installing" => call.sub = NoSubsystem
  BY DEF IInv, CallInv
<1>4. QED
  BY <1>1, <1>2, <1>3 DEF IInv, OwnInv

\* disable() never takes the signals away from a subsystem that has handlers in the
\* chain (native_exception_handler.cc:396-402).
THEOREM ReferencesKeepHandlers == Spec => []RefsKeepHandlers
BY KeepsHandlers, InvariantHolds, PTL

\* installHandlers never overwrites a saved original with chromatic's own handler,
\* as long as no disable() left the handlers in place
\* (native_exception_handler.cc:274-289).
THEOREM OriginalsStayRecoverable == Spec => []OriginalsRecoverable
<1>1. IInv => OriginalsRecoverable
  BY DEF IInv, SavedInv, OriginalsRecoverable
<1>2. QED
  BY <1>1, InvariantHolds, PTL

\* Under the same proviso the process has all its own handlers back once
\* disable() has returned (native_exception_handler.cc:291-303, 396-402).
THEOREM DisableGivesBack == Spec => []DisableRestores
<1>1. IInv => DisableRestores
  BY DEF IInv, SavedInv, DisableRestores, ScriptIdle
<1>2. QED
  BY <1>1, InvariantHolds, PTL

--------------------------------------------------------------------------------
(* The exception handler implements its contract *)

\* All the signals are chromatic's, one of them perhaps being raised again for the
\* default action.
AllTaken == \A sig \in Signals : disposition[sig] \in {"own", "reraised"}

Relying == {s \in Subsystems : holding[s] # <<>>}

LEMMA NothingRelied ==
  ASSUME Users = {} \/ \A s \in Subsystems : holding[s] = <<>>
  PROVE  Relying = {}
BY DEF Users, Relying

\* A step either leaves the table of the subsystems alone, or changes one entry
\* while all the signals are chromatic's.
LEMMA StepMaps ==
  ASSUME IInv, [Next]_vars
  PROVE  \/ /\ Relying' = Relying
            /\ AllTaken /\ ~AllTaken' => Relying = {}
         \/ /\ AllTaken /\ AllTaken'
            /\ \E s \in Subsystems : \/ s \notin Relying /\ Relying' = Relying \union {s}
                                     \/ s \in Relying /\ Relying' = Relying \ {s}
<1> USE DEF IInv
<1>1. CASE Quiet \/ UNCHANGED vars
  BY <1>1 DEF Quiet, vars, signalVars, chainVars, AllTaken, Relying
<1>2. CASE Enable \/ Disable
  BY <1>2, SwitchFacts DEF AllTaken, Relying
<1>3. CASE Install
  <2>1. /\ holding' = holding
        /\ \A sig \in Signals : disposition'[sig] \in {"own", disposition[sig]}
    BY <1>3, InstallFacts
  <2>2. QED
    BY <2>1 DEF AllTaken, Relying
<1>4. CASE Remove
  <2>1. holding' = holding /\ Users = {}
    BY <1>4, RemoveFacts
  <2>2. QED
    BY <2>1, NothingRelied DEF Relying
<1>5. ASSUME NEW s \in Subsystems, RefEnable(s) \/ StartRelease(s)
      PROVE  Relying' = Relying /\ AllTaken' = AllTaken
  BY <1>5 DEF RefEnable, StartRelease, signalVars, chainVars, AllTaken, Relying
<1>6. CASE RegisterHandler
  <2>1. /\ call.op = "registering" /\ call.sub \in Subsystems /\ Alive
        /\ holding' = [holding EXCEPT ![call.sub] = Append(holding[call.sub], nextId)]
        /\ disposition' = disposition
    BY <1>6 DEF RegisterHandler, CallInv, signalVars
  <2>2. Users # {}
    BY <2>1 DEF Users
  <2>3. AllTaken /\ AllTaken'
    BY <2>1, <2>2 DEF OwnInv, AllTaken
  <2>4. Append(holding[call.sub], nextId) # <<>>
    <3>1. holding[call.sub] \in Seq(Nat) /\ nextId \in Nat
      BY <2>1 DEF TypeOK
    <3>2. PICK n \in Nat : n = Len(holding[call.sub])
      BY <3>1, LenProperties
    <3>3. Len(Append(holding[call.sub], nextId)) = n + 1 /\ n + 1 # 0
      BY <3>1, <3>2, AppendProperties
    <3>4. QED
      BY <3>1, <3>3, AppendProperties, EmptyIffNoLength
  <2>5. Relying' = Relying \union {call.sub}
    BY <2>1, <2>4 DEF Relying, TypeOK
  <2>6. CASE call.sub \in Relying
    BY <2>3, <2>5, <2>6
  <2>7. CASE call.sub \notin Relying
    BY <2>1, <2>3, <2>5, <2>7
  <2>8. QED
    BY <2>6, <2>7
<1>7. CASE UnregisterHandler
  <2>1. /\ call.op = "unregistering" /\ call.sub \in Subsystems /\ Alive
        /\ holding[call.sub] # <<>>
        /\ holding' = [holding EXCEPT ![call.sub] = Remaining(call.sub)]
        /\ disposition' = disposition
    BY <1>7 DEF UnregisterHandler, CallInv, signalVars
  <2>2. Users # {} /\ call.sub \in Relying
    BY <2>1 DEF Users, Relying
  <2>3. AllTaken /\ AllTaken'
    BY <2>1, <2>2 DEF OwnInv, AllTaken
  <2>4. CASE Remaining(call.sub) = <<>>
    <3>1. Relying' = Relying \ {call.sub}
      BY <2>1, <2>4 DEF Relying, TypeOK
    <3>2. QED
      BY <2>1, <2>2, <2>3, <3>1
  <2>5. CASE Remaining(call.sub) # <<>>
    <3>1. Relying' = Relying
      BY <2>1, <2>5 DEF Relying, TypeOK
    <3>2. QED
      BY <2>3, <3>1
  <2>6. QED
    BY <2>4, <2>5
<1>8. ASSUME NEW t \in Threads, Forward(t)
      PROVE  Relying' = Relying /\ (AllTaken => AllTaken')
  <2>1. holding' = holding
    BY <1>8, ForwardFacts
  <2>2. thread[t].type \in Types
    BY DEF TypeOK, ThreadStates
  <2>3. \A sig \in Signals : disposition'[sig] \in {"reraised", disposition[sig]}
    BY <1>8, <2>2, SignalOfType DEF Forward, TypeOK
  <2>4. QED
    BY <2>1, <2>3 DEF AllTaken, Relying
<1>9. QED
  BY <1>1, <1>2, <1>3, <1>4, <1>5, <1>6, <1>7, <1>8, StepKinds

\* Whatever the script and the threads do, chromatic never gives the signals back
\* while a subsystem relies on them, and no subsystem starts to rely on them before
\* chromatic has them all (native_exception_handler.cc:390-402, 447-481).
THEOREM ContractKept == Spec => ImplementsOwnership
<1>1. Init => Contract!Init
  <2> SUFFICES ASSUME Init PROVE Contract!Init
    OBVIOUS
  <2>1. "SIGSEGV" \in Signals /\ Original["SIGSEGV"] \notin {"own", "reraised"}
    BY ConstantsAssumption DEF Signals, Dispositions
  <2>2. ~\A sig \in Signals : disposition[sig] \in {"own", "reraised"}
    BY <2>1 DEF Init
  <2>3. {s \in Subsystems : holding[s] # <<>>} = {}
    BY DEF Init
  <2>4. QED
    BY <2>2, <2>3 DEF Contract!Init
<1>2. IInv /\ [Next]_vars =>
        [Contract!Next]_<<IF AllTaken THEN "chromatic" ELSE "process", Relying>>
  <2> SUFFICES ASSUME IInv, [Next]_vars
               PROVE  [Contract!Next]_<<IF AllTaken THEN "chromatic" ELSE "process", Relying>>
    OBVIOUS
  <2> USE DEF AllTaken, Relying
  <2>1. CASE Relying' = Relying /\ AllTaken' = AllTaken
    BY <2>1
  <2>2. CASE Relying' = Relying /\ ~AllTaken /\ AllTaken'
    <3>1. Contract!TakeOver
      BY <2>2 DEF Contract!TakeOver
    <3>2. QED
      BY <3>1 DEF Contract!Next
  <2>3. CASE Relying' = Relying /\ AllTaken /\ ~AllTaken' /\ Relying = {}
    <3>1. Contract!GiveBack
      BY <2>3 DEF Contract!GiveBack
    <3>2. QED
      BY <3>1 DEF Contract!Next
  <2>4. ASSUME AllTaken, AllTaken', NEW s \in Subsystems,
               s \notin Relying, Relying' = Relying \union {s}
        PROVE  Contract!Next
    <3>1. Contract!Rely(s)
      BY <2>4 DEF Contract!Rely
    <3>2. QED
      BY <3>1 DEF Contract!Next
  <2>5. ASSUME AllTaken, AllTaken', NEW s \in Subsystems,
               s \in Relying, Relying' = Relying \ {s}
        PROVE  Contract!Next
    <3>1. Contract!Withdraw(s)
      BY <2>5 DEF Contract!Withdraw
    <3>2. QED
      BY <3>1 DEF Contract!Next
  <2>6. QED
    BY <2>1, <2>2, <2>3, <2>4, <2>5, StepMaps
<1>3. QED
  BY <1>1, <1>2, InvariantHolds, PTL
     DEF Spec, ImplementsOwnership, Contract!Spec, AllTaken, Relying

--------------------------------------------------------------------------------
(* The chain of internal handlers: a trap reaches the registration that is to answer it. *)
(* The invariant ties the ids a subsystem keeps to the entries of the chain (ChainInv),  *)
(* and follows the entry a trap is meant for from the chain into the copy the signal     *)
(* handler works on (AnswerInv).                                                         *)


Holds(s, id) == \E i \in DOMAIN holding[s] : holding[s][i] = id

Registering(s)   == call.op = "registering" /\ call.sub = s
Unregistering(s) == call.op = "unregistering" /\ call.sub = s

\* The chain: ids are given out once; a subsystem's ids, in growing order, are in
\* the chain under its name, with the types of Handles until it withdraws.
ChainInv ==
  /\ \A e \in handlers : e.id < nextId
  /\ \A e, f \in handlers : e.id = f.id => e = f
  /\ \A s \in Subsystems :
       /\ \A i, j \in DOMAIN holding[s] : i < j => holding[s][i] < holding[s][j]
       /\ \A i \in DOMAIN holding[s] :
            \E e \in handlers :
              /\ e.id = holding[s][i] /\ e.owner = s
              /\ ~Unregistering(s) /\ i \in DOMAIN Handles[s] => e.type = Handles[s][i]
  /\ call.op = "registering" => call.at = Len(holding[call.sub]) + 1

\* The handlers that may still answer the trap of thread t.
Candidates(t) ==
  CASE thread[t].phase = "entered"     -> {e \in handlers : e.type = thread[t].type}
    [] thread[t].phase = "dispatching" -> thread[t].pending
    [] OTHER                           -> {}

\* While the subsystem that raised a trap is armed with the registration the trap is
\* for, that registration is among the candidates.
Answered(t) ==
  thread[t].src # "program" =>
    /\ thread[t].expect < nextId
    /\ Holds(thread[t].src, thread[t].expect) => Armed(thread[t].src) \/ Unregistering(thread[t].src)
    /\ Holds(thread[t].src, thread[t].expect) /\ Armed(thread[t].src) =>
         \E e \in Candidates(t) : e.id = thread[t].expect /\ e.owner = thread[t].src

AnswerInv == \A t \in Threads : Answered(t)

HInv == ChainInv /\ AnswerInv

--------------------------------------------------------------------------------
(* Steps that leave the chain alone *)

ChainStays ==
  /\ UNCHANGED chainVars
  /\ call.op = "unregistering" => call' = call
  /\ call'.op = "registering" =>
       \/ call' = call
       \/ call'.at = 1 /\ call'.sub \in Subsystems /\ holding[call'.sub] = <<>>

ThreadSteps(t) == CopyHandlers(t) \/ RunHandler(t) \/ Forward(t) \/ OriginalReturns(t)

\* Every step but registerHandler and unregisterHandler leaves the chain alone, and
\* every step but those of a thread leaves the threads alone.
LEMMA ChainSteps ==
  ASSUME IInv, Next
  PROVE  \/ RegisterHandler \/ UnregisterHandler
         \/ ChainStays /\ UNCHANGED thread
         \/ ChainStays /\ \E t \in Threads : ThreadSteps(t)
         \/ ChainStays /\ \E t \in Threads, type \in Types,
                             src \in Subsystems \union {"program"} : Raise(t, type, src)
<1> USE DEF ChainStays, ScriptIdle
<1>1. CASE Enable \/ Disable
  <2>1. call.op = "idle" /\ call'.op # "registering" /\ UNCHANGED <<chainVars, thread>>
    BY <1>1 DEF Enable, Disable, Idle
  <2>2. QED
    BY <2>1
<1>2. CASE Install
  <2>1. UNCHANGED <<chainVars, thread>> /\ call.op = "installing"
    BY <1>2 DEF Install
  <2>2. call'.op = "registering" => call'.at = 1 /\ call'.sub = call.sub /\ call.sub # NoSubsystem
    BY <1>2, <2>1 DEF Install, Idle, IInv, TypeOK, CallStates
  <2>3. call.sub # NoSubsystem => call.sub \in Subsystems /\ holding[call.sub] = <<>>
    BY <2>1 DEF IInv, TypeOK, CallStates, CallInv
  <2>4. QED
    BY <2>1, <2>2, <2>3
<1>3. CASE Remove
  <2>1. UNCHANGED <<chainVars, thread>> /\ call.op = "removing" /\ call'.op # "registering"
    BY <1>3 DEF Remove, Idle, IInv, TypeOK, CallStates
  <2>2. QED
    BY <2>1
<1>4. ASSUME NEW s \in Subsystems, RefEnable(s)
      PROVE  ChainStays /\ UNCHANGED thread
  BY <1>4 DEF RefEnable
<1>5. ASSUME NEW s \in Subsystems, StartRelease(s)
      PROVE  ChainStays /\ UNCHANGED thread
  BY <1>5 DEF StartRelease
<1>6. ASSUME (\E type \in RequestedTypes : AddCallback(type))
               \/ (\E id \in 1 .. MaxJsId : RemoveCallback(id)) \/ RemoveAllCallbacks
      PROVE  ChainStays /\ UNCHANGED thread
  BY <1>6 DEF AddCallback, RemoveCallback, RemoveAllCallbacks
<1>7. ASSUME NEW t \in Threads, ThreadSteps(t)
      PROVE  ChainStays
  BY <1>7 DEF ThreadSteps, CopyHandlers, RunHandler, Forward, OriginalReturns
<1>8. ASSUME NEW t \in Threads, NEW type \in Types,
             NEW src \in Subsystems \union {"program"}, Raise(t, type, src)
      PROVE  ChainStays
  BY <1>8 DEF Raise
<1>9. QED
  BY <1>1, <1>2, <1>3, <1>4, <1>5, <1>6, <1>7, <1>8 DEF Next, ThreadSteps

LEMMA ChainStaysKeeps ==
  ASSUME IInv, ChainInv, ChainStays
  PROVE  ChainInv'
<1>1. UNCHANGED <<handlers, nextId, holding>>
  BY DEF ChainStays, chainVars
<1>2. \A s \in Subsystems : Unregistering(s) => Unregistering(s)'
  BY DEF ChainStays, Unregistering
<1>3. call'.op = "registering" => call'.at = Len(holding'[call'.sub]) + 1
  BY <1>1, EmptySeq DEF ChainStays, ChainInv
<1>4. QED
  BY <1>1, <1>2, <1>3 DEF ChainInv

--------------------------------------------------------------------------------
(* registerHandler and unregisterHandler *)

LEMMA RegisterFacts ==
  ASSUME IInv, ChainInv, RegisterHandler, NEW s, s = call.sub
  PROVE  /\ s \in Subsystems /\ Registering(s)
         /\ holding[s] \in Seq(Nat) /\ nextId \in Nat /\ nextId' = nextId + 1
         /\ call.at \in DOMAIN Handles[s] /\ call.at = Len(holding[s]) + 1
         /\ handlers' = handlers \union
                          {[id |-> nextId, type |-> Handles[s][call.at], owner |-> s]}
         /\ \A u \in Subsystems : u # s => holding'[u] = holding[u]
         /\ DOMAIN holding'[s] = 1 .. call.at
         /\ \A i \in DOMAIN holding[s] : holding'[s][i] = holding[s][i]
         /\ DOMAIN holding[s] = 1 .. call.at - 1
         /\ holding'[s][call.at] = nextId
         /\ Len(holding'[s]) = call.at
         /\ call'.op \in {"idle", "registering"}
         /\ call'.op = "registering" => call'.sub = s /\ call'.at = call.at + 1
<1>1. /\ s \in Subsystems /\ Registering(s)
      /\ holding[s] \in Seq(Nat) /\ nextId \in Nat /\ nextId' = nextId + 1
      /\ call.at \in DOMAIN Handles[s] /\ call.at = Len(holding[s]) + 1
      /\ handlers' = handlers \union
                       {[id |-> nextId, type |-> Handles[s][call.at], owner |-> s]}
  BY DEF RegisterHandler, IInv, TypeOK, CallInv, Registering, ChainInv
<1>2. /\ holding'[s] = Append(holding[s], nextId)
      /\ \A u \in Subsystems : u # s => holding'[u] = holding[u]
  BY <1>1 DEF RegisterHandler, IInv, TypeOK
<1>3. /\ DOMAIN holding'[s] = 1 .. call.at
      /\ \A i \in DOMAIN holding[s] : holding'[s][i] = holding[s][i]
      /\ DOMAIN holding[s] = 1 .. call.at - 1
      /\ holding'[s][call.at] = nextId
      /\ Len(holding'[s]) = call.at
  BY <1>1, <1>2, AppendProperties, LenProperties
<1>4. /\ call'.op \in {"idle", "registering"}
      /\ call'.op = "registering" => call'.sub = s /\ call'.at = call.at + 1
  BY DEF RegisterHandler, Idle, IInv, TypeOK, CallStates
<1>5. QED
  BY <1>1, <1>2, <1>3, <1>4

LEMMA RegisterKeepsChain ==
  ASSUME IInv, ChainInv, RegisterHandler
  PROVE  ChainInv'
<1>0. PICK s : s = call.sub
  OBVIOUS
<1> DEFINE new == [id |-> nextId, type |-> Handles[s][call.at], owner |-> s]
<1>1. /\ s \in Subsystems /\ Registering(s) /\ nextId \in Nat /\ nextId' = nextId + 1
      /\ holding[s] \in Seq(Nat)
      /\ call.at \in DOMAIN Handles[s] /\ call.at = Len(holding[s]) + 1
      /\ handlers' = handlers \union {new}
      /\ \A u \in Subsystems : u # s => holding'[u] = holding[u]
      /\ DOMAIN holding'[s] = 1 .. call.at
      /\ \A i \in DOMAIN holding[s] : holding'[s][i] = holding[s][i]
      /\ DOMAIN holding[s] = 1 .. call.at - 1
      /\ holding'[s][call.at] = nextId
      /\ Len(holding'[s]) = call.at
      /\ call'.op \in {"idle", "registering"}
      /\ call'.op = "registering" => call'.sub = s /\ call'.at = call.at + 1
    BY <1>0, RegisterFacts
<1> HIDE DEF new
<1>2. \A e \in handlers : e.id \in Nat /\ e.id < nextId
  BY DEF IInv, TypeOK, Entries, ChainInv
<1>3. new.id = nextId /\ new.owner = s /\ new.type = Handles[s][call.at]
  BY DEF new
<1>4. \A e \in handlers' : e.id < nextId'
  BY <1>1, <1>2, <1>3
<1>5. \A e, f \in handlers' : e.id = f.id => e = f
  BY <1>1, <1>2, <1>3 DEF ChainInv
<1>6. \A u \in Subsystems : ~Unregistering(u) /\ ~Unregistering(u)'
  BY <1>1 DEF Registering, Unregistering
<1>7. \A i \in DOMAIN holding[s] : holding[s][i] \in Nat /\ holding[s][i] < nextId
  BY <1>1, <1>2 DEF ChainInv
<1>8. ASSUME NEW u \in Subsystems
      PROVE  /\ \A i, j \in DOMAIN holding'[u] : i < j => holding'[u][i] < holding'[u][j]
             /\ \A i \in DOMAIN holding'[u] :
                  \E e \in handlers' :
                    /\ e.id = holding'[u][i] /\ e.owner = u
                    /\ ~Unregistering(u)' /\ i \in DOMAIN Handles[u] => e.type = Handles[u][i]
  <2>1. CASE u # s
    BY SMTT(30), <1>1, <1>6, <2>1 DEF ChainInv
  <2>2. CASE u = s
    <3>1. \A i \in DOMAIN holding'[s] : i = call.at \/ i \in DOMAIN holding[s]
      BY <1>1, LenProperties
    <3>2. ASSUME NEW i \in DOMAIN holding'[s], NEW j \in DOMAIN holding'[s], i < j
          PROVE  holding'[s][i] < holding'[s][j]
      <4>1. i \in DOMAIN holding[s]
        BY <1>1, <3>2, LenProperties
      <4>2. CASE j = call.at
        BY <1>1, <1>7, <4>1, <4>2
      <4>3. CASE j \in DOMAIN holding[s]
        BY <1>1, <3>2, <4>1, <4>3 DEF ChainInv
      <4>4. QED
        BY <3>1, <4>2, <4>3
    <3>3. ASSUME NEW i \in DOMAIN holding'[s]
          PROVE  \E e \in handlers' :
                    /\ e.id = holding'[s][i] /\ e.owner = s
                    /\ i \in DOMAIN Handles[s] => e.type = Handles[s][i]
      <4>1. CASE i = call.at
        BY <1>1, <1>3, <4>1
      <4>2. CASE i \in DOMAIN holding[s]
        BY <1>1, <1>6, <4>2 DEF ChainInv
      <4>3. QED
        BY <3>1, <4>1, <4>2
    <3>4. QED
      BY <2>2, <3>2, <3>3
  <2>3. QED
    BY <2>1, <2>2
<1>9. call'.op = "registering" => call'.at = Len(holding'[call'.sub]) + 1
  BY <1>1
<1>10. QED
  BY <1>4, <1>5, <1>8, <1>9 DEF ChainInv

LEMMA UnregisterFacts ==
  ASSUME IInv, ChainInv, UnregisterHandler, NEW s, s = call.sub
  PROVE  /\ s \in Subsystems /\ Unregistering(s)
         /\ holding[s] # <<>> /\ 1 \in DOMAIN holding[s]
         /\ nextId' = nextId
         /\ handlers' = {e \in handlers : e.id # holding[s][1]}
         /\ \A u \in Subsystems : u # s => holding'[u] = holding[u]
         /\ \A i \in DOMAIN holding'[s] : /\ i \in Nat /\ i + 1 \in DOMAIN holding[s] /\ 1 < i + 1
                                          /\ holding'[s][i] = holding[s][i + 1]
         /\ (call' = call /\ Unregistering(s)') \/ (call' = Idle /\ holding'[s] = <<>>)
<1>1. /\ s \in Subsystems /\ Unregistering(s) /\ holding[s] # <<>>
      /\ holding[s] \in Seq(Nat) /\ nextId' = nextId
      /\ handlers' = {e \in handlers : e.id # Head(holding[s])}
  BY DEF UnregisterHandler, IInv, TypeOK, CallInv, Unregistering
<1>2. /\ holding'[s] = Remaining(s)
      /\ \A u \in Subsystems : u # s => holding'[u] = holding[u]
      /\ IF Remaining(s) = <<>> THEN call' = Idle ELSE call' = call
  BY <1>1 DEF UnregisterHandler, IInv, TypeOK
<1>3. Head(holding[s]) = holding[s][1] /\ 1 \in DOMAIN holding[s]
  BY <1>1, HeadTailProperties, LenProperties, EmptySeq, SeqEqual
<1>4. \A i \in DOMAIN holding'[s] : /\ i \in Nat /\ i + 1 \in DOMAIN holding[s] /\ 1 < i + 1
                                    /\ holding'[s][i] = holding[s][i + 1]
  <2>1. CASE s \in Forgetful
    BY <1>2, <2>1 DEF Remaining
  <2>2. CASE s \notin Forgetful
    <3>1. holding'[s] = Tail(holding[s])
      BY <1>2, <2>2 DEF Remaining
    <3>2. QED
      BY <1>1, <3>1, HeadTailProperties, LenProperties
  <2>3. QED
    BY <2>1, <2>2
<1>5. (call' = call /\ Unregistering(s)') \/ (call' = Idle /\ holding'[s] = <<>>)
  BY <1>1, <1>2 DEF Unregistering
<1>6. QED
  BY <1>1, <1>2, <1>3, <1>4, <1>5

LEMMA UnregisterKeepsChain ==
  ASSUME IInv, ChainInv, UnregisterHandler
  PROVE  ChainInv'
<1>0. PICK s : s = call.sub
  OBVIOUS
<1>1. /\ s \in Subsystems /\ Unregistering(s)
      /\ 1 \in DOMAIN holding[s]
      /\ nextId' = nextId
      /\ handlers' = {e \in handlers : e.id # holding[s][1]}
      /\ \A u \in Subsystems : u # s => holding'[u] = holding[u]
      /\ \A i \in DOMAIN holding'[s] : /\ i \in Nat /\ i + 1 \in DOMAIN holding[s] /\ 1 < i + 1
                                       /\ holding'[s][i] = holding[s][i + 1]
      /\ (call' = call /\ Unregistering(s)') \/ (call' = Idle /\ holding'[s] = <<>>)
  BY <1>0, UnregisterFacts
<1>2. \A u \in Subsystems : u # s => ~Unregistering(u) /\ ~Unregistering(u)'
  BY <1>1 DEF Unregistering, Idle
<1>3. ASSUME NEW u \in Subsystems
      PROVE  /\ \A i, j \in DOMAIN holding'[u] : i < j => holding'[u][i] < holding'[u][j]
             /\ \A i \in DOMAIN holding'[u] :
                  \E e \in handlers' :
                    /\ e.id = holding'[u][i] /\ e.owner = u
                    /\ ~Unregistering(u)' /\ i \in DOMAIN Handles[u] => e.type = Handles[u][i]
  <2>1. CASE u # s
    <3>1. PICK h \in handlers : h.id = holding[s][1] /\ h.owner = s
      BY <1>1 DEF ChainInv
    <3>2. ASSUME NEW i \in DOMAIN holding[u]
          PROVE  \E e \in handlers' :
                    /\ e.id = holding[u][i] /\ e.owner = u
                    /\ i \in DOMAIN Handles[u] => e.type = Handles[u][i]
      <4>1. PICK e \in handlers : /\ e.id = holding[u][i] /\ e.owner = u
                                  /\ i \in DOMAIN Handles[u] => e.type = Handles[u][i]
        BY <1>2, <2>1 DEF ChainInv
      <4>2. e.id # h.id
        BY <2>1, <3>1, <4>1 DEF ChainInv
      <4>3. QED
        BY <1>1, <3>1, <4>1, <4>2
    <3>3. QED
      BY <1>1, <2>1, <3>2 DEF ChainInv
  <2>2. CASE u = s
    <3>1. ASSUME NEW i \in DOMAIN holding'[s], NEW j \in DOMAIN holding'[s], i < j
          PROVE  holding'[s][i] < holding'[s][j]
      <4>1. /\ i + 1 \in DOMAIN holding[s] /\ j + 1 \in DOMAIN holding[s] /\ i + 1 < j + 1
            /\ holding'[s][i] = holding[s][i + 1] /\ holding'[s][j] = holding[s][j + 1]
        BY <1>1, <3>1
      <4>2. QED
        BY <1>1, <4>1 DEF ChainInv
    <3>2. ASSUME NEW i \in DOMAIN holding'[s]
          PROVE  /\ Unregistering(s)'
                 /\ \E e \in handlers' : e.id = holding'[s][i] /\ e.owner = s
      <4>1. i + 1 \in DOMAIN holding[s] /\ 1 < i + 1 /\ holding'[s][i] = holding[s][i + 1]
        BY <1>1
      <4>2. holding[s][1] < holding[s][i + 1]
        BY <1>1, <4>1 DEF ChainInv
      <4>3. PICK e \in handlers : e.id = holding[s][i + 1] /\ e.owner = s
        BY <1>1, <4>1 DEF ChainInv
      <4>4. holding[s][1] \in Nat
        <5>1. PICK f \in handlers : f.id = holding[s][1]
          BY <1>1 DEF ChainInv
        <5>2. QED
          BY <5>1 DEF IInv, TypeOK, Entries
      <4>5. e.id # holding[s][1]
        BY <4>2, <4>3, <4>4
      <4>6. DOMAIN holding'[s] # {}
        OBVIOUS
      <4>7. Unregistering(s)'
        BY <1>1, <4>6, EmptySeq
      <4>8. QED
        BY <1>1, <4>1, <4>3, <4>5, <4>7
    <3>3. QED
      BY <2>2, <3>1, <3>2
  <2>3. QED
    BY <2>1, <2>2
<1>4. call'.op # "registering"
  BY <1>1 DEF Idle, Unregistering
<1>5. /\ \A e \in handlers' : e.id < nextId'
      /\ \A e, f \in handlers' : e.id = f.id => e = f
  BY <1>1 DEF ChainInv
<1>6. QED
  BY <1>3, <1>4, <1>5 DEF ChainInv
--------------------------------------------------------------------------------
(* The handler a trap is meant for *)

LEMMA ArmedFacts ==
  ASSUME IInv, ChainInv, NEW s \in Subsystems, Armed(s)
  PROVE  /\ ~Unregistering(s) /\ ~Registering(s)
         /\ DOMAIN holding[s] = DOMAIN Handles[s]
<1>1. Len(holding[s]) = Len(Handles[s]) /\ ~Unregistering(s)
  BY DEF Armed, Unregistering
<1>2. holding[s] \in Seq(Nat) /\ Handles[s] \in Seq(Types)
  BY ConstantsAssumption DEF IInv, TypeOK
<1>3. DOMAIN holding[s] = DOMAIN Handles[s]
  BY <1>1, <1>2, LenProperties
<1>4. ~Registering(s)
  <2>1. SUFFICES ASSUME Registering(s) PROVE FALSE
    OBVIOUS
  <2>2. call.at = Len(holding[s]) + 1 /\ call.at \in DOMAIN Handles[s]
    BY <2>1 DEF Registering, ChainInv, IInv, CallInv
  <2>3. QED
    BY <1>1, <1>2, <2>2, LenProperties
<1>5. QED
  BY <1>1, <1>3, <1>4

\* What a thread waits for does not change while the chain stays.
LEMMA WaitingStays ==
  ASSUME IInv, ChainInv, ChainStays
  PROVE  /\ nextId' = nextId /\ handlers' = handlers
         /\ \A s, id : Holds(s, id)' <=> Holds(s, id)
         /\ \A s \in Subsystems : /\ Armed(s)' => Armed(s)
                                  /\ Armed(s) => Armed(s)' \/ Unregistering(s)'
                                  /\ Unregistering(s) => Unregistering(s)'
<1>1. UNCHANGED <<handlers, nextId, holding>>
  BY DEF ChainStays, chainVars
<1>2. \A s, id : Holds(s, id)' <=> Holds(s, id)
  BY <1>1 DEF Holds
<1>3. \A s \in Subsystems : Unregistering(s) => Unregistering(s)'
  BY DEF ChainStays, Unregistering
<1>4. QED
  BY <1>1, <1>2, <1>3 DEF Armed, Unregistering

LEMMA ScriptStepsAnswer ==
  ASSUME IInv, HInv, ChainStays, UNCHANGED thread
  PROVE  AnswerInv'
<1> SUFFICES ASSUME NEW t \in Threads PROVE Answered(t)'
  BY DEF AnswerInv, Answered
<1>1. Answered(t)
  BY DEF HInv, AnswerInv, Answered
<1>2. thread[t].src # "program" => thread[t].src \in Subsystems
  BY DEF IInv, TypeOK, ThreadStates
<1>3. Candidates(t)' = Candidates(t)
  BY WaitingStays DEF Candidates, HInv
<1>4. QED
  BY <1>1, <1>2, <1>3, WaitingStays DEF Answered, HInv

LEMMA RegisterAnswers ==
  ASSUME IInv, HInv, RegisterHandler
  PROVE  AnswerInv'
<1>0. PICK s : s = call.sub
  OBVIOUS
<1>1. /\ s \in Subsystems /\ Registering(s) /\ nextId \in Nat /\ nextId' = nextId + 1
      /\ handlers \subseteq handlers'
      /\ \A u \in Subsystems : u # s => holding'[u] = holding[u]
      /\ DOMAIN holding'[s] = 1 .. call.at /\ DOMAIN holding[s] = 1 .. call.at - 1
      /\ \A i \in DOMAIN holding[s] : holding'[s][i] = holding[s][i]
      /\ holding'[s][call.at] = nextId
      /\ call'.op \in {"idle", "registering"}
  BY <1>0, RegisterFacts DEF HInv
<1>2. thread' = thread
  BY DEF RegisterHandler
<1> SUFFICES ASSUME NEW t \in Threads, thread[t].src # "program" PROVE Answered(t)'
  BY <1>2 DEF AnswerInv, Answered
<1> DEFINE u == thread[t].src
           id == thread[t].expect
<1>3. u \in Subsystems /\ id \in Nat /\ call.at \in Nat
  BY DEF IInv, TypeOK, ThreadStates, CallStates
<1>4. Answered(t)
  BY DEF HInv, AnswerInv, Answered
<1>5. id < nextId' /\ id # nextId
  BY <1>1, <1>3, <1>4 DEF Answered
<1>6. Candidates(t) \subseteq Candidates(t)'
  BY <1>1, <1>2 DEF Candidates
<1>7. CASE u # s
  <2>1. Holds(u, id)' <=> Holds(u, id)
    BY <1>1, <1>2, <1>3, <1>7 DEF Holds
  <2>2. Armed(u)' <=> Armed(u)
    BY <1>1, <1>2, <1>3, <1>7 DEF Armed, Registering
  <2>3. ~Unregistering(u)
    BY <1>1 DEF Registering, Unregistering
  <2>4. QED
    BY <1>2, <1>4, <1>5, <1>6, <2>1, <2>2, <2>3 DEF Answered
<1>8. CASE u = s
  <2>1. ~Armed(s) /\ ~Unregistering(s)
    BY <1>1, ArmedFacts DEF HInv, Registering, Unregistering
  <2>2. ~Holds(s, id)
    BY <1>4, <1>8, <2>1 DEF Answered
  <2>3. ~Holds(s, id)'
    <3>1. ASSUME NEW i \in DOMAIN holding'[s], holding'[s][i] = id
          PROVE  FALSE
      <4>1. i = call.at \/ i \in DOMAIN holding[s]
        BY <1>1, <1>3
      <4>2. QED
        BY <1>1, <1>5, <2>2, <3>1, <4>1 DEF Holds
    <3>2. QED
      BY <1>2, <1>8, <3>1 DEF Holds
  <2>4. QED
    BY <1>2, <1>5, <1>8, <2>3 DEF Answered
<1>9. QED
  BY <1>7, <1>8

LEMMA UnregisterAnswers ==
  ASSUME IInv, HInv, UnregisterHandler
  PROVE  AnswerInv'
<1>0. PICK s : s = call.sub
  OBVIOUS
<1>1. /\ s \in Subsystems /\ Unregistering(s) /\ 1 \in DOMAIN holding[s]
      /\ nextId' = nextId
      /\ handlers' = {e \in handlers : e.id # holding[s][1]}
      /\ \A u \in Subsystems : u # s => holding'[u] = holding[u]
      /\ (call' = call /\ Unregistering(s)') \/ (call' = Idle /\ holding'[s] = <<>>)
  BY <1>0, UnregisterFacts DEF HInv
<1>2. thread' = thread
  BY DEF UnregisterHandler
<1> SUFFICES ASSUME NEW t \in Threads, thread[t].src # "program" PROVE Answered(t)'
  BY <1>2 DEF AnswerInv, Answered
<1> DEFINE u == thread[t].src
           id == thread[t].expect
<1>3. u \in Subsystems
  BY DEF IInv, TypeOK, ThreadStates
<1>4. Answered(t)
  BY DEF HInv, AnswerInv, Answered
<1>5. CASE u # s
  <2>1. Holds(u, id)' <=> Holds(u, id)
    BY <1>1, <1>2, <1>3, <1>5 DEF Holds
  <2>2. /\ Armed(u)' <=> Armed(u)
        /\ ~Unregistering(u)
    BY <1>1, <1>2, <1>3, <1>5 DEF Armed, Unregistering, Idle
  <2>3. ASSUME NEW e \in Candidates(t), e.id = id, e.owner = u
        PROVE  e \in Candidates(t)'
    <3>1. CASE thread[t].phase = "entered"
      <4>1. PICK h \in handlers : h.id = holding[s][1] /\ h.owner = s
        BY <1>1 DEF HInv, ChainInv
      <4>2. e \in handlers /\ e.type = thread[t].type
        BY <2>3, <3>1 DEF Candidates
      <4>3. e.id # holding[s][1]
        BY <1>5, <2>3, <4>1, <4>2 DEF HInv, ChainInv
      <4>4. QED
        BY <1>1, <1>2, <3>1, <4>2, <4>3 DEF Candidates
    <3>2. CASE thread[t].phase # "entered"
      BY <1>2, <2>3, <3>2 DEF Candidates
    <3>3. QED
      BY <3>1, <3>2
  <2>4. QED
    BY <1>1, <1>2, <1>4, <2>1, <2>2, <2>3 DEF Answered
<1>6. CASE u = s
  <2>1. thread[t].expect < nextId
    BY <1>4 DEF Answered
  <2>2. Holds(s, id)' => Unregistering(s)'
    BY <1>1, EmptySeq DEF Holds
  <2>3. Unregistering(s)' => ~Armed(s)'
    BY DEF Unregistering, Armed
  <2>4. QED
    BY <1>1, <1>2, <1>6, <2>1, <2>2, <2>3 DEF Answered
<1>7. QED
  BY <1>5, <1>6

LEMMA RaiseAnswers ==
  ASSUME IInv, HInv, ChainStays, NEW t \in Threads, NEW type \in Types,
         NEW src \in Subsystems \union {"program"}, Raise(t, type, src)
  PROVE  AnswerInv'
<1>1. PICK expect \in
               IF src = "program" THEN {0}
               ELSE {holding[src][i] : i \in {j \in DOMAIN Handles[src] : Handles[src][j] = type}} :
               thread' = [thread EXCEPT ![t] =
                    [phase |-> KernelPhase(disposition[SignalOf(type)]), type |-> type,
                     src |-> src, expect |-> expect, pending |-> {}]]
  BY DEF Raise
<1>2. /\ thread'[t].src = src /\ thread'[t].expect = expect /\ thread'[t].type = type
      /\ thread'[t].phase = KernelPhase(disposition[SignalOf(type)])
      /\ \A r \in Threads : r # t => thread'[r] = thread[r]
  BY <1>1 DEF IInv, TypeOK
<1>3. ASSUME NEW r \in Threads, r # t
      PROVE  Answered(r)'
  <2>1. Answered(r)
    BY DEF HInv, AnswerInv, Answered
  <2>2. thread[r].src # "program" => thread[r].src \in Subsystems
    BY DEF IInv, TypeOK, ThreadStates
  <2>3. Candidates(r)' = Candidates(r)
    BY <1>2, <1>3, WaitingStays DEF Candidates, HInv
  <2>4. QED
    BY <1>2, <1>3, <2>1, <2>2, <2>3, WaitingStays DEF Answered, HInv
<1>4. Answered(t)'
  <2> SUFFICES ASSUME src # "program" PROVE Answered(t)'
    BY <1>2 DEF Answered
  <2>1. src \in Subsystems /\ Armed(src) /\ Alive /\ call' = call
    BY DEF Raise
  <2>2. ~Unregistering(src) /\ DOMAIN holding[src] = DOMAIN Handles[src]
    BY <2>1, ArmedFacts DEF HInv
  <2>3. PICK i \in DOMAIN Handles[src] : expect = holding[src][i] /\ Handles[src][i] = type
    BY <1>1
  <2>4. PICK e \in handlers : e.id = expect /\ e.owner = src /\ e.type = type
    BY <2>1, <2>2, <2>3 DEF HInv, ChainInv
  <2>5. holding[src] # <<>>
    BY <2>2, <2>3, EmptySeq
  <2>6. disposition[SignalOf(type)] = "own"
    BY <2>1, <2>5, KeepsHandlers, SignalOfType DEF RefsKeepHandlers
  <2>7. thread'[t].phase = "entered"
    BY <1>2, <2>6 DEF KernelPhase
  <2>8. e \in Candidates(t)'
    BY <1>2, <2>4, <2>7, WaitingStays DEF Candidates, HInv
  <2>9. expect < nextId
    BY <2>4 DEF HInv, ChainInv
  <2>10. Armed(src)'
    BY <2>1 DEF Armed, ChainStays, chainVars
  <2>11. QED
    BY <1>2, <2>4, <2>8, <2>9, <2>10, WaitingStays DEF Answered, HInv
<1>5. QED
  BY <1>3, <1>4 DEF AnswerInv, Answered

\* The copy of the chain, and what is left of it, keep the handler the trap is for.
LEMMA ThreadStepsAnswer ==
  ASSUME IInv, HInv, ChainStays, NEW t \in Threads, ThreadSteps(t)
  PROVE  AnswerInv'
<1>1. \A r \in Threads : r # t => thread'[r] = thread[r]
  BY DEF ThreadSteps, CopyHandlers, RunHandler, Forward, OriginalReturns, IInv, TypeOK
<1>2. ASSUME NEW r \in Threads, r # t
      PROVE  Answered(r)'
  <2>1. Answered(r)
    BY DEF HInv, AnswerInv, Answered
  <2>2. thread[r].src # "program" => thread[r].src \in Subsystems
    BY DEF IInv, TypeOK, ThreadStates
  <2>3. Candidates(r)' = Candidates(r)
    BY <1>1, <1>2, WaitingStays DEF Candidates, HInv
  <2>4. QED
    BY <1>1, <1>2, <2>1, <2>2, <2>3, WaitingStays DEF Answered, HInv
<1>3. thread[t].src # "program" => thread[t].src \in Subsystems
  BY DEF IInv, TypeOK, ThreadStates
<1>4. Answered(t)
  BY DEF HInv, AnswerInv, Answered
<1>5. thread \in [Threads -> ThreadStates] /\ thread[t] \in ThreadStates
  BY DEF IInv, TypeOK
<1>6. Running.src = "program"
  BY DEF Running
<1>7. ASSUME thread' = [thread EXCEPT ![t] = Running]
      PROVE  Answered(t)'
  <2>1. thread'[t].src = "program"
    BY <1>5, <1>6, <1>7
  <2>2. QED
    BY <2>1 DEF Answered
<1>8. ASSUME CopyHandlers(t)
      PROVE  Answered(t)'
  <2>1. /\ thread[t].phase = "entered"
        /\ thread'[t] = [thread[t] EXCEPT !.phase = "dispatching",
                                          !.pending = {e \in handlers : e.type = thread[t].type}]
    BY <1>5, <1>8 DEF CopyHandlers
  <2>2. /\ thread'[t].src = thread[t].src /\ thread'[t].expect = thread[t].expect
        /\ thread'[t].phase = "dispatching"
        /\ thread'[t].pending = {e \in handlers : e.type = thread[t].type}
    BY <1>5, <2>1 DEF ThreadStates
  <2>3. Candidates(t)' = Candidates(t)
    BY <2>1, <2>2 DEF Candidates
  <2>4. QED
    BY <1>3, <1>4, <2>2, <2>3, WaitingStays DEF Answered, HInv
<1>9. ASSUME NEW e \in thread[t].pending, ~Claims(e, t), thread[t].phase = "dispatching",
             thread' = [thread EXCEPT ![t].pending = @ \ {e}], call' = call
      PROVE  Answered(t)'
  <2>1. thread'[t] = [thread[t] EXCEPT !.pending = thread[t].pending \ {e}]
    BY <1>5, <1>9
  <2>2. /\ thread'[t].src = thread[t].src /\ thread'[t].expect = thread[t].expect
        /\ thread'[t].phase = "dispatching" /\ thread'[t].pending = thread[t].pending \ {e}
    BY <1>5, <1>9, <2>1 DEF ThreadStates
  <2>3. Candidates(t)' = Candidates(t) \ {e}
    BY <1>9, <2>2 DEF Candidates
  <2>4. Armed(thread[t].src) => e.owner # thread[t].src
    BY <1>9 DEF Claims
  <2>5. QED
    BY <1>3, <1>4, <2>2, <2>3, <2>4, WaitingStays DEF Answered, HInv
<1>10. ASSUME NEW phase, thread[t].pending = {}, thread[t].phase = "dispatching",
              thread' = [thread EXCEPT ![t] = [@ EXCEPT !.phase = phase]]
       PROVE  Answered(t)'
  <2>1. thread'[t].src = thread[t].src /\ thread'[t].expect = thread[t].expect
    BY <1>5, <1>10 DEF ThreadStates
  <2>2. Candidates(t) = {}
    BY <1>10 DEF Candidates
  <2>3. QED
    BY <1>3, <1>4, <2>1, <2>2, WaitingStays DEF Answered, HInv
<1>11. Answered(t)'
  <2>1. CASE RunHandler(t)
    BY <1>7, <1>9, <2>1 DEF RunHandler
  <2>2. CASE Forward(t)
    BY <1>7, <1>10, <2>2 DEF Forward
  <2>3. CASE OriginalReturns(t)
    BY <1>7, <2>3 DEF OriginalReturns
  <2>4. QED
    BY <1>8, <2>1, <2>2, <2>3 DEF ThreadSteps
<1>12. QED
  BY <1>2, <1>11 DEF AnswerInv, Answered

--------------------------------------------------------------------------------
(* Theorems *)

LEMMA InitHInv == Init => HInv
BY EmptySeq DEF Init, HInv, ChainInv, AnswerInv, Answered, Running, Idle

LEMMA NextHInv ==
  ASSUME IInv, HInv, [Next]_vars
  PROVE  HInv'
<1>1. CASE UNCHANGED vars
  BY <1>1 DEF vars, chainVars, HInv, ChainInv, AnswerInv, Answered, Holds, Armed, Registering,
              Unregistering, Candidates
<1>2. CASE RegisterHandler
  BY <1>2, RegisterKeepsChain, RegisterAnswers DEF HInv
<1>3. CASE UnregisterHandler
  BY <1>3, UnregisterKeepsChain, UnregisterAnswers DEF HInv
<1>4. CASE ChainStays /\ UNCHANGED thread
  BY <1>4, ChainStaysKeeps, ScriptStepsAnswer DEF HInv
<1>5. CASE ChainStays /\ \E t \in Threads : ThreadSteps(t)
  BY <1>5, ChainStaysKeeps, ThreadStepsAnswer DEF HInv
<1>6. CASE ChainStays /\ \E t \in Threads, type \in Types,
                            src \in Subsystems \union {"program"} : Raise(t, type, src)
  BY <1>6, ChainStaysKeeps, RaiseAnswers DEF HInv
<1>7. QED
  BY <1>1, <1>2, <1>3, <1>4, <1>5, <1>6, ChainSteps

\* The inductive invariant holds of every reachable state.
THEOREM ChainHolds == Spec => []HInv
<1>1. Init => HInv
  BY InitHInv
<1>2. IInv /\ HInv /\ [Next]_vars => HInv'
  BY NextHInv
<1>3. QED
  BY <1>1, <1>2, InvariantHolds, PTL DEF Spec

\* A trap of an armed subsystem never ends in the process's own handler or in a kill as
\* long as the registration that was to answer it is in place: the copy of the chain
\* that globalSignalHandler works on still has the entry, which only its owner's claim
\* takes out (native_exception_handler.cc:236-262).
THEOREM TrapsReachTheirOwner == Spec => []ClaimedReachesOwner
<1>1. HInv /\ IInv => ClaimedReachesOwner
  <2> SUFFICES ASSUME HInv, IInv, NEW t \in Threads,
                      thread[t].phase \in {"original", "killed"}, thread[t].src # "program",
                      NEW i \in DOMAIN holding[thread[t].src], Armed(thread[t].src),
                      holding[thread[t].src][i] = thread[t].expect
               PROVE  FALSE
    BY DEF ClaimedReachesOwner
  <2>1. Holds(thread[t].src, thread[t].expect)
    BY DEF Holds
  <2>2. Candidates(t) = {}
    BY DEF Candidates
  <2>3. QED
    BY <2>1, <2>2 DEF HInv, AnswerInv, Answered
<1>2. QED
  BY <1>1, ChainHolds, InvariantHolds, PTL
================================================================================
