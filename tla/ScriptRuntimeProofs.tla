--------------------------- MODULE ScriptRuntimeProofs ---------------------------
(****************************************************************************)
(* Theorems about ScriptRuntime, for any number of threads, NativeCallbacks  *)
(* and contexts, and for integers of any width.                              *)
(*                                                                           *)
(* HandlerInv follows the references to the exception handler through        *)
(* cleanup(); CallbackInv says whose callbacks there are while a context is  *)
(* in use and while it goes; ValueInv says what a register or a script holds *)
(* of a value at each station of a call.                                     *)
(****************************************************************************)
EXTENDS ScriptRuntime, FiniteSetTheorems, TLAPS

NoEarlyDisable == "no-early-disable" \in Rules
CallsEnd       == "quiet" \in Rules /\ "destroyed" \in Rules
DestroyedOnce  == "once" \in Rules

Hosts == Kinds \union {"running", "callbacks", "disable", "clean", "gone", "terminated"}

\* The kinds cleanup() has dealt with when host is its next call.
TakenBack(at) ==
  CASE at = "hw"    -> {"monitor"}
    [] at = "sw"    -> {"monitor", "hw"}
    [] at = "hooks" -> {"monitor", "hw", "sw"}
    [] at \in {"callbacks", "disable", "clean"} -> Kinds
    [] OTHER        -> {}

Referenced == counted # {} \/ leaked > 0

\* Whatever is armed is counted, what is counted has the handlers, and cleanup() leaves nothing of
\* the kinds it has dealt with.
HandlerInv ==
  /\ host \in Hosts /\ armed \in [Kinds -> Nat] /\ counted \subseteq Trapped /\ leaked \in Nat
  /\ enabled \in BOOLEAN /\ installed \in BOOLEAN
  /\ context \in Nat /\ count \in [calls : Nat, contexts : Nat]
  /\ \A k \in Trapped : armed[k] # 0 => k \in counted
  /\ Referenced => installed
  /\ enabled => installed
  /\ \A k \in TakenBack(host) : armed[k] = 0 /\ k \notin counted
  /\ host \in {"disable", "clean"} => listeners = {}

\* disable() is the last to take the handlers away.
LastInv ==
  /\ installed /\ ~enabled => leaked > 0
  /\ host = "clean" => ~enabled

\* Between two contexts nothing of the scripts is there, and what is there is of the context.
CallbackInv ==
  /\ armed \in [Kinds -> {0, context}]
  /\ object \in [Objects -> [is : {"new", "live", "destroyed"}, at : Addresses \union {"none"},
                             of : Nat, type : Types \union {"none"}]]
  /\ callbacks \in [Addresses -> Objects \union {"none"}]
  /\ DOMAIN call = Threads /\ \A t \in Threads : {"in", "of", "by"} \subseteq DOMAIN call[t]
  /\ \A t \in Threads : call[t].in # "program" =>
       /\ host \in {"running", "terminated"}
       /\ call[t].of = context
       /\ call[t].in # "hook" => call[t].by \in Addresses /\ callbacks[call[t].by] # "none"
  /\ \A o \in Objects : object[o].is = "live" =>
       /\ host \in {"running", "terminated"}
       /\ object[o].at \in Addresses /\ callbacks[object[o].at] = o /\ object[o].of = context
  /\ \A a \in Addresses : callbacks[a] # "none" =>
       object[callbacks[a]].is = "live" /\ object[callbacks[a]].at = a
--------------------------------------------------------------------------------
(* The references to the exception handler *)

LEMMA ReferencesCount ==
  ASSUME counted \subseteq Trapped, leaked \in Nat
  PROVE  /\ References \in Nat
         /\ (References = 0) <=> ~Referenced
         /\ (References > 0) <=> Referenced
<1>1. IsFiniteSet(Trapped)
  <2>1. IsFiniteSet({}) /\ IsFiniteSet({} \union {"monitor"})
    BY FS_EmptySet, FS_AddElement
  <2>2. IsFiniteSet({"monitor"} \union {"hw"})
    BY <2>1, FS_AddElement
  <2>3. IsFiniteSet({"monitor", "hw"} \union {"sw"})
    BY <2>2, FS_AddElement
  <2>4. QED
    BY <2>3 DEF Trapped
<1>2. IsFiniteSet(counted)
  BY <1>1, FS_Subset
<1>3. Cardinality(counted) \in Nat /\ (Cardinality(counted) = 0 <=> counted = {})
  BY <1>2, FS_CardinalityType, FS_EmptySet
<1>4. QED
  BY <1>3 DEF References, Referenced

\* refEnable(), with or without a new kind to count: the handlers are in place after it.
LEMMA RefEnabled ==
  ASSUME HandlerInv, RefEnable
  PROVE  /\ installed' = TRUE /\ enabled' \in BOOLEAN
         /\ enabled' => installed'
         /\ LastInv => (~enabled' => leaked > 0)
<1>1. (References = 0) <=> ~Referenced
  BY ReferencesCount DEF HandlerInv
<1>2. QED
  BY <1>1 DEF RefEnable, HandlerInv, LastInv

\* ensureHandler() of a kind, and the steps that take handlers back or leave them.
LEMMA EnsuredFacts ==
  ASSUME HandlerInv, NEW k \in Kinds, Ensured(k)
  PROVE  /\ counted \subseteq counted' /\ counted' \subseteq counted \union {k}
         /\ counted' \subseteq Trapped
         /\ k \in Trapped => k \in counted'
         /\ installed' \in BOOLEAN /\ enabled' \in BOOLEAN
         /\ enabled' => installed'
         /\ (counted' # {} \/ leaked > 0) => installed'
         /\ LastInv => (installed' /\ ~enabled' => leaked > 0)
<1>1. CASE k \in Trapped \ counted
  BY <1>1, RefEnabled DEF Ensured, HandlerInv
<1>2. CASE k \notin Trapped \ counted
  BY <1>2 DEF Ensured, HandlerInv, LastInv, Referenced
<1>3. QED
  BY <1>1, <1>2

LEMMA DisableFacts ==
  ASSUME HandlerInv, DisableHandler
  PROVE  /\ enabled' = FALSE /\ installed' \in BOOLEAN
         /\ Referenced => installed'
         /\ LastInv => (installed' => leaked > 0 \/ Referenced)
<1>1. (References > 0) <=> Referenced
  BY ReferencesCount DEF HandlerInv
<1>2. QED
  BY <1>1 DEF DisableHandler, HandlerInv, LastInv

--------------------------------------------------------------------------------
(* Kinds of steps *)

Installs == \/ \E k \in Kinds : Set(k) \/ SetThrows(k)
            \/ WatchThrows \/ Enable

LEMMA TakenWhileRunning ==
  ASSUME host = "running"
  PROVE  TakenBack(host) = {} /\ host \notin {"disable", "clean"}
BY DEF TakenBack

LEMMA InstallsKeep ==
  ASSUME HandlerInv, Installs
  PROVE  HandlerInv' /\ (LastInv => LastInv')
<1>1. /\ host = "running" /\ host' = host /\ TakenBack(host') = {} /\ host' \in Hosts
      /\ context' = context /\ count' = [count EXCEPT !.calls = @ + 1]
  BY TakenWhileRunning
  DEF Installs, Set, SetThrows, WatchThrows, Enable, Script, runtimeVars, Hosts
<1>0. context' \in Nat /\ count' \in [calls : Nat, contexts : Nat]
  BY <1>1 DEF HandlerInv
<1>2. ASSUME NEW k \in Kinds, Set(k) \/ SetThrows(k)
      PROVE  HandlerInv' /\ (LastInv => LastInv')
  <2>1. /\ Ensured(k) /\ leaked' = leaked /\ listeners' = listeners
        /\ armed' = armed \/ armed' = [armed EXCEPT ![k] = context]
    BY <1>2 DEF Set, SetThrows
  <2>2. armed' \in [Kinds -> Nat] /\ \A j \in Kinds \ {k} : armed'[j] = armed[j]
    BY <2>1 DEF HandlerInv
  <2>3. \A j \in Trapped : armed'[j] # 0 => j \in counted'
    BY <2>1, <2>2, EnsuredFacts DEF HandlerInv, Kinds, Trapped
  <2>4. HandlerInv'
    BY <1>0, <1>1, <2>1, <2>2, <2>3, EnsuredFacts DEF HandlerInv, Referenced
  <2>5. LastInv => LastInv'
    BY <1>1, <2>1, EnsuredFacts DEF LastInv
  <2>6. QED
    BY <2>4, <2>5
<1>3. CASE WatchThrows
  <2>1. RefEnable /\ leaked' = leaked + 1 /\ UNCHANGED <<armed, counted, listeners>>
    BY <1>3 DEF WatchThrows
  <2>2. leaked' \in Nat /\ leaked' > 0
    BY <2>1 DEF HandlerInv
  <2>3. HandlerInv'
    <3>1. installed' = TRUE /\ enabled' \in BOOLEAN
      BY <2>1, RefEnabled
    <3>2. \A k \in Trapped : armed'[k] # 0 => k \in counted'
      BY <2>1 DEF HandlerInv
    <3>3. QED
      BY <1>0, <1>1, <2>1, <2>2, <3>1, <3>2 DEF HandlerInv
  <2>4. LastInv => LastInv'
    BY <1>1, <2>2 DEF LastInv
  <2>5. QED
    BY <2>3, <2>4
<1>4. CASE Enable
  BY <1>0, <1>1, <1>4 DEF Enable, HandlerInv, LastInv, Referenced
<1>5. QED
  BY <1>2, <1>3, <1>4 DEF Installs

\* A kind is taken back, by a call of the script or by cleanup().
LEMMA DisarmKeeps ==
  ASSUME HandlerInv, NEW k \in Kinds, Disarm(k), host' \in Hosts,
         host' \notin {"disable", "clean"}, TakenBack(host') \subseteq TakenBack(host) \union {k},
         UNCHANGED <<leaked, enabled, installed>>,
         context' \in Nat, count' \in [calls : Nat, contexts : Nat]
  PROVE  HandlerInv' /\ (LastInv => LastInv')
<1>1. /\ armed' = [armed EXCEPT ![k] = 0] /\ counted' = counted \ {k}
  BY DEF Disarm
<1>2. armed' \in [Kinds -> Nat] /\ armed'[k] = 0 /\ \A j \in Kinds \ {k} : armed'[j] = armed[j]
  BY <1>1 DEF HandlerInv
<1>3. Trapped \subseteq Kinds
  BY DEF Trapped, Kinds
<1>4. \A j \in Trapped : armed'[j] # 0 => j \in counted'
  BY <1>1, <1>2, <1>3 DEF HandlerInv
<1>5. TakenBack(host) \subseteq Kinds
  BY DEF TakenBack, Kinds
<1>6. \A j \in TakenBack(host') : armed'[j] = 0 /\ j \notin counted'
  BY <1>1, <1>2, <1>5 DEF HandlerInv
<1>7. HandlerInv'
  BY <1>1, <1>2, <1>4, <1>6 DEF HandlerInv, Referenced
<1>8. LastInv => LastInv'
  BY DEF LastInv
<1>9. QED
  BY <1>7, <1>8

\* Steps that touch neither the handlers nor what is armed.
Untouched ==
  /\ UNCHANGED <<armed, counted, leaked, enabled, installed>>
  /\ host' \in Hosts /\ TakenBack(host') \subseteq TakenBack(host)
  /\ host' \in {"disable", "clean"} => listeners' = {}
  /\ host' = "clean" => host = "clean"
  /\ context' \in Nat /\ count' \in [calls : Nat, contexts : Nat]

LEMMA UntouchedKeeps ==
  ASSUME HandlerInv, Untouched
  PROVE  HandlerInv' /\ (LastInv => LastInv')
<1>1. HandlerInv'
  BY DEF HandlerInv, Untouched, Referenced
<1>2. LastInv => LastInv'
  BY DEF LastInv, Untouched
<1>3. QED
  BY <1>1, <1>2

\* disable(), by a call of the script or as the last act of cleanup().
LEMMA DisableKeeps ==
  ASSUME HandlerInv, DisableHandler, UNCHANGED <<armed, counted, leaked>>, host' \in Hosts,
         TakenBack(host') = TakenBack(host),
         host' \in {"disable", "clean"} => listeners' = {},
         context' \in Nat, count' \in [calls : Nat, contexts : Nat]
  PROVE  HandlerInv' /\ (LastInv /\ ~(counted # {} /\ leaked = 0) => LastInv')
<1>1. /\ enabled' = FALSE /\ installed' \in BOOLEAN
      /\ Referenced => installed'
      /\ LastInv => (installed' => leaked > 0 \/ Referenced)
  BY DisableFacts
<1>2. Referenced' <=> Referenced
  BY DEF Referenced
<1>3. /\ \A k \in Trapped : armed'[k] # 0 => k \in counted'
      /\ \A k \in TakenBack(host') : armed'[k] = 0 /\ k \notin counted'
      /\ armed' \in [Kinds -> Nat] /\ counted' \subseteq Trapped /\ leaked' \in Nat
  BY DEF HandlerInv
<1>4. HandlerInv'
  BY <1>1, <1>2, <1>3 DEF HandlerInv
<1>5. leaked \in Nat
  BY DEF HandlerInv
<1>6. Referenced /\ ~(counted # {} /\ leaked = 0) => leaked > 0
  BY <1>5 DEF Referenced
<1>7. LastInv /\ ~(counted # {} /\ leaked = 0) => LastInv'
  BY <1>1, <1>6 DEF LastInv
<1>8. QED
  BY <1>4, <1>7

LEMMA AfterTakes ==
  ASSUME NEW k \in Kinds
  PROVE  /\ After[k] \in {"hw", "sw", "hooks", "callbacks"} /\ After[k] \in Hosts
         /\ TakenBack(After[k]) \subseteq TakenBack(k) \union {k}
BY DEF Kinds, After, Hosts, TakenBack

LEMMA EarlyDisable ==
  ASSUME NoEarlyDisable, Disable
  PROVE  References = 0
BY DEF NoEarlyDisable, Disable

LEMMA ScriptSteps ==
  ASSUME HandlerInv, ScriptCall
  PROVE  HandlerInv' /\ (NoEarlyDisable /\ LastInv => LastInv')
<1>1. /\ host = "running" /\ host' = host /\ TakenBack(host') = {} /\ host' \in Hosts
      /\ context' = context /\ count' = [count EXCEPT !.calls = @ + 1]
  BY TakenWhileRunning
  DEF ScriptCall, Set, SetThrows, WatchThrows, Enable, Script, runtimeVars, Hosts, Remove, Disable,
      AddCallback, CreateCallback, DestroyCallback
<1>2. context' \in Nat /\ count' \in [calls : Nat, contexts : Nat]
  BY <1>1 DEF HandlerInv
<1>3. CASE Installs
  BY <1>3, InstallsKeep
<1>4. ASSUME NEW k \in Kinds, Remove(k)
      PROVE  HandlerInv' /\ (LastInv => LastInv')
  BY <1>1, <1>2, <1>4, DisarmKeeps DEF Remove
<1>5. CASE Disable
  <2>1. DisableHandler /\ UNCHANGED <<armed, counted, leaked>>
    BY <1>5 DEF Disable
  <2>2. HandlerInv' /\ (LastInv /\ ~(counted # {} /\ leaked = 0) => LastInv')
    BY <1>1, <1>2, <2>1, DisableKeeps
  <2>3. NoEarlyDisable => counted = {}
    BY <1>5, EarlyDisable, ReferencesCount DEF HandlerInv, Referenced
  <2>4. QED
    BY <2>2, <2>3
<1>6. CASE AddCallback \/ \E o \in Objects :
             DestroyCallback(o) \/ \E a \in Addresses, type \in Types : CreateCallback(o, a, type)
  <2>1. Untouched
    BY <1>1, <1>2, <1>6 DEF AddCallback, DestroyCallback, CreateCallback, handlerVars, Untouched
  <2>2. QED
    BY <2>1, UntouchedKeeps
<1>7. QED
  BY <1>3, <1>4, <1>5, <1>6 DEF ScriptCall, Installs

LEMMA CleanupSteps ==
  ASSUME HandlerInv, Cleanup
  PROVE  HandlerInv' /\ (LastInv => LastInv')
<1>1. ASSUME NEW k \in Kinds, TakeBack(k)
      PROVE  HandlerInv' /\ (LastInv => LastInv')
  <2>1. /\ host = k /\ host' = After[k] /\ Disarm(k) /\ UNCHANGED <<leaked, enabled, installed>>
        /\ UNCHANGED <<context, count>>
    BY <1>1 DEF TakeBack
  <2>2. context' \in Nat /\ count' \in [calls : Nat, contexts : Nat]
    BY <2>1 DEF HandlerInv
  <2>3. QED
    BY <2>1, <2>2, AfterTakes, DisarmKeeps
<1>2. ASSUME NEW k \in Kinds, Refused(k)
      PROVE  HandlerInv' /\ (LastInv => LastInv')
  <2>1. host' \in {"terminated", "gone", "running"}
    BY <1>2 DEF Refused
  <2>2. TakenBack(host') = {} /\ host' \in Hosts /\ host' \notin {"disable", "clean"}
    BY <2>1 DEF TakenBack, Hosts
  <2>3. Untouched
    BY <1>2, <2>2 DEF Refused, handlerVars, Untouched, HandlerInv
  <2>4. QED
    BY <2>3, UntouchedKeeps
<1>3. CASE RemoveAllCallbacks
  <2>1. Untouched
    BY <1>3 DEF RemoveAllCallbacks, Untouched, HandlerInv, Hosts, TakenBack
  <2>2. QED
    BY <2>1, UntouchedKeeps
<1>4. CASE DisableAtLast
  <2>1. host = "disable" /\ host' = "clean" /\ TakenBack(host') = TakenBack(host)
        /\ TakenBack(host) = Kinds /\ host' \in Hosts
    BY <1>4 DEF DisableAtLast, TakenBack, Hosts
  <2>2. DisableHandler /\ UNCHANGED <<armed, counted, leaked, listeners, context, count>>
    BY <1>4 DEF DisableAtLast
  <2>3. counted = {}
    BY <2>1 DEF HandlerInv, Trapped, Kinds
  <2>4. listeners' = {} /\ context' \in Nat /\ count' \in [calls : Nat, contexts : Nat]
    BY <2>1, <2>2 DEF HandlerInv
  <2>5. QED
    BY <2>1, <2>2, <2>3, <2>4, DisableKeeps
<1>5. CASE Renew
  <2>1. host' \in {"gone", "running"} /\ UNCHANGED handlerVars
    BY <1>5 DEF Renew
  <2>2. TakenBack(host') = {} /\ host' \in Hosts /\ host' \notin {"disable", "clean"}
    BY <2>1 DEF TakenBack, Hosts
  <2>3. context' \in Nat /\ count' \in [calls : Nat, contexts : Nat]
    BY <1>5 DEF Renew, HandlerInv
  <2>4. Untouched
    BY <2>1, <2>2, <2>3 DEF handlerVars, Untouched
  <2>5. QED
    BY <2>4, UntouchedKeeps
<1>6. QED
  BY <1>1, <1>2, <1>3, <1>4, <1>5 DEF Cleanup

LEMMA OtherSteps ==
  ASSUME HandlerInv,
         \/ \E for \in {"reset", "destructor"} : Begin(for)
         \/ \E t \in Threads : ProgramStep(t)
         \/ UNCHANGED vars
  PROVE  HandlerInv' /\ (LastInv => LastInv')
<1>1. \/ host' = "monitor" /\ UNCHANGED <<handlerVars, context, count>>
      \/ host' \in {host, "terminated"} /\ UNCHANGED <<handlerVars, context, count>>
  BY DEF Begin, ProgramStep, Hit, Leave, CallFunction, CallbackHandler, HandlerReturns,
         FunctionReturns, vars, runtimeVars
<1>2. TakenBack("monitor") = {} /\ TakenBack("terminated") = {}
      /\ "monitor" \in Hosts /\ "terminated" \in Hosts
  BY DEF TakenBack, Hosts, Kinds
<1>3. Untouched
  BY <1>1, <1>2 DEF handlerVars, Untouched, HandlerInv
<1>4. QED
  BY <1>3, UntouchedKeeps

LEMMA HandlerInitially == Init => HandlerInv /\ LastInv
<1> SUFFICES ASSUME Init PROVE HandlerInv /\ LastInv
  OBVIOUS
<1>1. /\ context = 0 /\ host = "gone" /\ armed = [k \in Kinds |-> 0] /\ counted = {} /\ leaked = 0
      /\ enabled = FALSE /\ installed = FALSE /\ count = [calls |-> 0, contexts |-> 0]
  BY DEF Init
<1>2. TakenBack(host) = {} /\ host \in Hosts /\ host \notin {"disable", "clean"}
  BY <1>1 DEF TakenBack, Hosts
<1>3. armed \in [Kinds -> Nat] /\ count \in [calls : Nat, contexts : Nat] /\ leaked \in Nat
  BY <1>1
<1>4. ~Referenced
  BY <1>1 DEF Referenced
<1>5. \A k \in Trapped : armed[k] # 0 => k \in counted
  BY <1>1 DEF Trapped, Kinds
<1>6. QED
  BY <1>1, <1>2, <1>3, <1>4, <1>5 DEF HandlerInv, LastInv

\* Through every order of the script's calls and of cleanup(): what is armed holds a reference of
\* the exception handler, whoever holds one finds the handlers installed, and cleanup() leaves
\* nothing armed and no reference of what it has taken back (script.cc:19-28).
THEOREM HandlersCounted == Spec => []HandlerInv
<1>1. HandlerInv /\ [Next]_vars => HandlerInv'
  BY ScriptSteps, CleanupSteps, OtherSteps DEF Next
<1>2. QED
  BY <1>1, HandlerInitially, PTL DEF Spec

\* If disable() is called only when nothing needs the exception handler, its signal
\* handlers are there as long as something is armed, through every order of calls, a
\* cleanup() that is refused half way included, and a cleanup() that gets to its end leaves
\* none, no hook and no callback, unless the enable() of a monitor has lost a reference
\* (script.cc:19-28).
THEOREM HandlersStayWhileNeeded ==
  ASSUME NoEarlyDisable
  PROVE  Spec => []HandlersWhileNeeded
<1>1. HandlerInv /\ LastInv /\ [Next]_vars => LastInv'
  BY ScriptSteps, CleanupSteps, OtherSteps DEF Next
<1>2. HandlerInv /\ LastInv => HandlersWhileNeeded
  <2> SUFFICES ASSUME HandlerInv, LastInv PROVE HandlersWhileNeeded
    OBVIOUS
  <2>1. \A k \in Trapped : armed[k] # 0 => installed /\ k \in counted
    BY DEF HandlerInv, Referenced
  <2>2. ASSUME host = "clean"
        PROVE  /\ \A k \in Kinds : armed[k] = 0 /\ k \notin counted
               /\ listeners = {} /\ (installed => leaked > 0)
    <3>1. TakenBack(host) = Kinds
      BY <2>2 DEF TakenBack
    <3>2. QED
      BY <2>2, <3>1 DEF HandlerInv, LastInv
  <2>3. host = "clean" => counted = {}
    BY <2>2 DEF HandlerInv, Trapped, Kinds
  <2>4. QED
    BY <2>1, <2>2, <2>3 DEF HandlersWhileNeeded
<1>3. QED
  BY <1>1, <1>2, HandlerInitially, HandlersCounted, PTL DEF Spec
--------------------------------------------------------------------------------
(* Whose callbacks there are *)

\* Steps outside the callbacks, while the host goes on as it was or nothing of the scripts
\* is left to call.
LEMMA CallbacksUntouched ==
  ASSUME CallbackInv, context' = context, armed' \in [Kinds -> {0, context}],
         UNCHANGED <<object, callbacks, call>>,
         host' = host \/ host \notin {"running", "terminated"}
  PROVE  CallbackInv'
BY DEF CallbackInv

\* An object goes live at a free place; the objects that are live keep theirs.
LEMMA CreateKeeps ==
  ASSUME HandlerInv, CallbackInv, NEW o \in Objects, NEW a \in Addresses, NEW type \in Types,
         CreateCallback(o, a, type)
  PROVE  CallbackInv'
<1>1. /\ host = "running" /\ object[o].is = "new" /\ callbacks[a] = "none"
      /\ object' = [object EXCEPT ![o] = [is |-> "live", at |-> a, of |-> context, type |-> type]]
      /\ callbacks' = [callbacks EXCEPT ![a] = o]
      /\ host' = host /\ context' = context /\ UNCHANGED <<armed, call>>
  BY DEF CreateCallback, Script, runtimeVars, handlerVars
<1>2. o # "none" /\ context \in Nat
  BY RuntimeConstants DEF HandlerInv
<1>3. /\ object'[o] = [is |-> "live", at |-> a, of |-> context, type |-> type]
      /\ \A p \in Objects \ {o} : object'[p] = object[p]
      /\ callbacks'[a] = o
      /\ \A b \in Addresses \ {a} : callbacks'[b] = callbacks[b]
  BY <1>1 DEF CallbackInv
<1>4. object' \in [Objects -> [is : {"new", "live", "destroyed"}, at : Addresses \union {"none"},
                              of : Nat, type : Types \union {"none"}]]
      /\ callbacks' \in [Addresses -> Objects \union {"none"}]
  BY <1>1, <1>2 DEF CallbackInv
<1>5. \A b \in Addresses : callbacks[b] # "none" => callbacks'[b] # "none"
  BY <1>1, <1>3
<1>6. \A p \in Objects : object'[p].is = "live" =>
        object'[p].at \in Addresses /\ callbacks'[object'[p].at] = p /\ object'[p].of = context
  <2> SUFFICES ASSUME NEW p \in Objects, object'[p].is = "live"
               PROVE  /\ object'[p].at \in Addresses /\ callbacks'[object'[p].at] = p
                      /\ object'[p].of = context
    OBVIOUS
  <2>1. CASE p = o
    BY <2>1, <1>3
  <2>2. CASE p # o
    <3>1. /\ object'[p] = object[p] /\ object[p].at \in Addresses
          /\ callbacks[object[p].at] = p /\ object[p].of = context /\ p # "none"
      BY <2>2, <1>3, RuntimeConstants DEF CallbackInv
    <3>2. object[p].at # a
      BY <3>1, <1>1
    <3>3. QED
      BY <3>1, <3>2, <1>3
  <2>3. QED
    BY <2>1, <2>2
<1>7. \A b \in Addresses : callbacks'[b] # "none" =>
        object'[callbacks'[b]].is = "live" /\ object'[callbacks'[b]].at = b
  <2> SUFFICES ASSUME NEW b \in Addresses, callbacks'[b] # "none"
               PROVE  object'[callbacks'[b]].is = "live" /\ object'[callbacks'[b]].at = b
    OBVIOUS
  <2>1. CASE b = a
    BY <2>1, <1>3
  <2>2. CASE b # a
    <3>1. /\ callbacks'[b] = callbacks[b] /\ callbacks[b] \in Objects
          /\ object[callbacks[b]].is = "live" /\ object[callbacks[b]].at = b
      BY <2>2, <1>3 DEF CallbackInv
    <3>2. callbacks[b] # o
      BY <3>1, <1>1
    <3>3. QED
      BY <3>1, <3>2, <1>3
  <2>3. QED
    BY <2>1, <2>2
<1>8. QED
  BY <1>1, <1>4, <1>5, <1>6, <1>7 DEF CallbackInv

\* With one destruction each, the closure at the address is the object's own; quiet, nobody
\* is in it.
LEMMA DestroyKeeps ==
  ASSUME CallsEnd, DestroyedOnce, HandlerInv, CallbackInv, NEW o \in Objects, DestroyCallback(o)
  PROVE  CallbackInv'
<1> DEFINE at == object[o].at
<1>1. /\ host = "running" /\ object[o].is = "live" /\ ~InUse(at)
      /\ object' = [object EXCEPT ![o].is = "destroyed"]
      /\ callbacks' = [callbacks EXCEPT ![at] = "none"]
      /\ host' = host /\ context' = context /\ UNCHANGED <<armed, call>>
  BY DEF DestroyCallback, Script, runtimeVars, handlerVars, CallsEnd, DestroyedOnce
<1>2. at \in Addresses /\ callbacks[at] = o /\ o # "none"
  BY <1>1, RuntimeConstants DEF CallbackInv
<1>3. /\ object'[o].is = "destroyed"
      /\ \A p \in Objects \ {o} : object'[p] = object[p]
      /\ callbacks'[at] = "none"
      /\ \A b \in Addresses \ {at} : callbacks'[b] = callbacks[b]
  BY <1>1, <1>2 DEF CallbackInv
<1>4. object' \in [Objects -> [is : {"new", "live", "destroyed"}, at : Addresses \union {"none"},
                              of : Nat, type : Types \union {"none"}]]
      /\ callbacks' \in [Addresses -> Objects \union {"none"}]
  BY <1>1 DEF CallbackInv
<1>5. \A t \in Threads : call[t].in # "program" =>
        /\ call[t].of = context
        /\ call[t].in # "hook" => call[t].by \in Addresses /\ callbacks'[call[t].by] # "none"
  BY <1>1, <1>3 DEF CallbackInv, InUse
<1>6. \A p \in Objects : object'[p].is = "live" =>
        object'[p].at \in Addresses /\ callbacks'[object'[p].at] = p /\ object'[p].of = context
  <2> SUFFICES ASSUME NEW p \in Objects, object'[p].is = "live"
               PROVE  /\ object'[p].at \in Addresses /\ callbacks'[object'[p].at] = p
                      /\ object'[p].of = context
    OBVIOUS
  <2>1. p # o /\ object'[p] = object[p]
    BY <1>3
  <2>2. /\ object[p].at \in Addresses /\ callbacks[object[p].at] = p /\ object[p].of = context
    BY <2>1 DEF CallbackInv
  <2>3. object[p].at # at
    BY <2>1, <2>2, <1>2
  <2>4. QED
    BY <2>1, <2>2, <2>3, <1>3
<1>7. \A b \in Addresses : callbacks'[b] # "none" =>
        object'[callbacks'[b]].is = "live" /\ object'[callbacks'[b]].at = b
  <2> SUFFICES ASSUME NEW b \in Addresses, callbacks'[b] # "none"
               PROVE  object'[callbacks'[b]].is = "live" /\ object'[callbacks'[b]].at = b
    OBVIOUS
  <2>1. /\ b # at /\ callbacks'[b] = callbacks[b] /\ callbacks[b] \in Objects
        /\ object[callbacks[b]].is = "live" /\ object[callbacks[b]].at = b
    BY <1>3 DEF CallbackInv
  <2>2. callbacks[b] # o
    BY <2>1
  <2>3. QED
    BY <2>1, <2>2, <1>3
<1>8. QED
  BY <1>1, <1>4, <1>5, <1>6, <1>7 DEF CallbackInv

--------------------------------------------------------------------------------
(* Calls into the scripts *)

\* One thread's call changes to c, and the host goes on or terminates.
LEMMA CallStepKeeps ==
  ASSUME CallbackInv, NEW t \in Threads, NEW c, call' = [call EXCEPT ![t] = c],
         {"in", "of", "by"} \subseteq DOMAIN c,
         c.in # "program" =>
           /\ host \in {"running", "terminated"} /\ c.of = context
           /\ c.in # "hook" => c.by \in Addresses /\ callbacks[c.by] # "none",
         UNCHANGED <<context, armed, object, callbacks>>,
         host' = host \/ (host' = "terminated" /\ host \in {"running", "terminated"})
  PROVE  CallbackInv'
<1>1. /\ call'[t] = c /\ \A u \in Threads \ {t} : call'[u] = call[u]
      /\ DOMAIN call' = Threads
  BY DEF CallbackInv
<1>2. host \in {"running", "terminated"} => host' \in {"running", "terminated"}
  OBVIOUS
<1>3. \A u \in Threads : {"in", "of", "by"} \subseteq DOMAIN call'[u]
  BY <1>1 DEF CallbackInv
<1>4. \A u \in Threads : call'[u].in # "program" =>
       /\ host' \in {"running", "terminated"}
       /\ call'[u].of = context
       /\ call'[u].in # "hook" => call'[u].by \in Addresses /\ callbacks[call'[u].by] # "none"
  BY <1>1, <1>2 DEF CallbackInv
<1>5. \A o \in Objects : object[o].is = "live" => host' \in {"running", "terminated"}
  BY <1>2 DEF CallbackInv
<1>6. QED
  BY <1>1, <1>3, <1>4, <1>5 DEF CallbackInv

LEMMA ProgramKeepsCallbacks ==
  ASSUME CallsEnd, CallbackInv, NEW t \in Threads, ProgramStep(t)
  PROVE  CallbackInv'
<1>1. ASSUME NEW k \in Kinds, Hit(t, k)
      PROVE  CallbackInv'
  <2> DEFINE c == [NoCall EXCEPT !.in = "hook", !.of = armed[k]]
  <2>1. /\ host = "running" /\ armed[k] = context
        /\ call' = [call EXCEPT ![t] = c]
        /\ host' = host /\ UNCHANGED <<context, armed, object, callbacks>>
    BY <1>1 DEF Hit, MayEnter, CallsEnd, CallbackInv, runtimeVars, handlerVars, ffiVars
  <2>2. {"in", "of", "by"} \subseteq DOMAIN c /\ c.in = "hook" /\ c.of = armed[k]
    BY DEF NoCall
  <2> HIDE DEF c
  <2>3. QED
    BY <2>1, <2>2, CallStepKeeps
<1>2. CASE Leave(t) \/ FunctionReturns(t)
  <2> DEFINE d == [NoCall EXCEPT !.value = call[t].value,
                                 !.data = ParseResult(ResultText(call[t].type, call[t].data))]
             c == IF Leave(t) THEN NoCall ELSE d
  <2>0. /\ {"in", "of", "by"} \subseteq DOMAIN NoCall /\ NoCall.in = "program"
        /\ {"in", "of", "by"} \subseteq DOMAIN d /\ d.in = "program"
    BY DEF NoCall
  <2>1. /\ call' = [call EXCEPT ![t] = c] /\ c.in = "program"
        /\ {"in", "of", "by"} \subseteq DOMAIN c
    <3>1. CASE Leave(t)
      BY <3>1, <2>0 DEF Leave
    <3>2. CASE ~Leave(t)
      <4>1. c = d /\ call' = [call EXCEPT ![t] = d]
        BY <1>2, <3>2 DEF FunctionReturns
      <4>2. QED
        BY <4>1, <2>0
    <3>3. QED
      BY <3>1, <3>2
  <2> HIDE DEF c
  <2>2. host' = host /\ UNCHANGED <<context, armed, object, callbacks>>
    BY <1>2 DEF Leave, FunctionReturns, runtimeVars, handlerVars, ffiVars
  <2>3. QED
    BY <2>1, <2>2, CallStepKeeps
<1>3. ASSUME NEW a \in Addresses, NEW x \in Values, CallFunction(t, a, x)
      PROVE  CallbackInv'
  <2>1. PICK parsed \in ParseArg(TypeAt(a), ArgText(TypeAt(a), x)) :
          call' = [call EXCEPT ![t] =
                     [in |-> "closure", of |-> object[callbacks[a]].of, by |-> a,
                      type |-> TypeAt(a), value |-> x, data |-> Register(TypeAt(a), parsed)]]
    BY <1>3 DEF CallFunction
  <2> DEFINE c == [in |-> "closure", of |-> object[callbacks[a]].of, by |-> a,
                   type |-> TypeAt(a), value |-> x, data |-> Register(TypeAt(a), parsed)]
  <2>2. /\ host = "running" /\ callbacks[a] # "none" /\ host' = host
        /\ UNCHANGED <<context, armed, object, callbacks>>
    BY <1>3 DEF CallFunction, MayEnter, CallsEnd, runtimeVars, handlerVars, ffiVars
  <2>3. object[callbacks[a]].of = context
    BY <2>2 DEF CallbackInv
  <2>4. {"in", "of", "by"} \subseteq DOMAIN c /\ c.of = context /\ c.by = a
    BY <2>3
  <2>5. call' = [call EXCEPT ![t] = c]
    BY <2>1
  <2> HIDE DEF c
  <2>6. QED
    BY <2>2, <2>4, <2>5, CallStepKeeps
<1>4. CASE CallbackHandler(t) \/ HandlerReturns(t)
  <2>1. PICK in, data : call' = [call EXCEPT ![t].in = in, ![t].data = data]
    BY <1>4 DEF CallbackHandler, HandlerReturns
  <2>2. /\ call[t].in \in {"closure", "handler"}
        /\ host' = host \/ host' = "terminated"
        /\ UNCHANGED <<context, armed, object, callbacks>>
    BY <1>4 DEF CallbackHandler, HandlerReturns, runtimeVars, handlerVars, ffiVars
  <2> DEFINE c == [call[t] EXCEPT !.in = in, !.data = data]
  <2>3. call' = [call EXCEPT ![t] = c]
    BY <2>1 DEF CallbackInv
  <2>4. /\ host \in {"running", "terminated"}
        /\ {"in", "of", "by"} \subseteq DOMAIN c /\ c.of = context
        /\ c.by \in Addresses /\ callbacks[c.by] # "none"
    BY <2>2 DEF CallbackInv
  <2> HIDE DEF c
  <2>5. QED
    BY <2>2, <2>3, <2>4, CallStepKeeps
<1>5. QED
  BY <1>1, <1>2, <1>3, <1>4 DEF ProgramStep

--------------------------------------------------------------------------------
(* The scripts' calls and the end of a context *)

LEMMA ScriptKeepsCallbacks ==
  ASSUME CallsEnd, DestroyedOnce, HandlerInv, CallbackInv, ScriptCall
  PROVE  CallbackInv'
<1>1. ASSUME NEW k \in Kinds, Set(k) \/ SetThrows(k) \/ Remove(k)
      PROVE  CallbackInv'
  <2>1. /\ context' = context /\ host' = host /\ UNCHANGED <<object, callbacks, call>>
        /\ \/ armed' = armed
           \/ armed' = [armed EXCEPT ![k] = context]
           \/ armed' = [armed EXCEPT ![k] = 0]
    BY <1>1 DEF Set, SetThrows, Remove, Disarm, runtimeVars, ffiVars
  <2>2. armed' \in [Kinds -> {0, context}]
    BY <2>1 DEF CallbackInv
  <2>3. QED
    BY <2>1, <2>2, CallbacksUntouched
<1>2. CASE WatchThrows \/ Enable \/ Disable \/ AddCallback
  <2>1. context' = context /\ host' = host /\ UNCHANGED <<armed, object, callbacks, call>>
    BY <1>2 DEF WatchThrows, Enable, Disable, AddCallback, runtimeVars, ffiVars
  <2>2. armed' \in [Kinds -> {0, context}]
    BY <2>1 DEF CallbackInv
  <2>3. QED
    BY <2>1, <2>2, CallbacksUntouched
<1>3. ASSUME NEW o \in Objects, DestroyCallback(o)
      PROVE  CallbackInv'
  BY <1>3, DestroyKeeps
<1>4. ASSUME NEW o \in Objects, NEW a \in Addresses, NEW type \in Types,
             CreateCallback(o, a, type)
      PROVE  CallbackInv'
  BY <1>4, CreateKeeps
<1>5. QED
  BY <1>1, <1>2, <1>3, <1>4 DEF ScriptCall

\* Where nobody is in a callback and no NativeCallback is live, the host may do as it likes.
LEMMA NobodyInside ==
  ASSUME CallbackInv, \A t \in Threads : call[t].in = "program",
         \A o \in Objects : object[o].is # "live",
         armed' \in [Kinds -> {0, context'}], UNCHANGED <<object, callbacks, call>>
  PROVE  CallbackInv'
BY DEF CallbackInv

LEMMA BeginKeepsCallbacks ==
  ASSUME CallsEnd, CallbackInv, NEW for \in {"reset", "destructor"}, Begin(for)
  PROVE  CallbackInv'
<1>1. /\ \A t \in Threads : call[t].in = "program"
      /\ \A o \in Objects : object[o].is # "live"
      /\ context' = context /\ UNCHANGED <<armed, object, callbacks, call>>
  BY DEF Begin, CallsEnd, Quiet, handlerVars, ffiVars
<1>2. armed' \in [Kinds -> {0, context'}]
  BY <1>1 DEF CallbackInv
<1>3. QED
  BY <1>1, <1>2, NobodyInside

\* cleanup() runs with nobody inside, and has taken everything back when the next context
\* comes.
LEMMA CleanupKeepsCallbacks ==
  ASSUME HandlerInv, CallbackInv, Cleanup
  PROVE  CallbackInv'
<1>1. host \notin {"running", "terminated"} /\ UNCHANGED <<object, callbacks, call>>
  BY DEF Cleanup, TakeBack, Refused, RemoveAllCallbacks, DisableAtLast, Renew, Kinds, ffiVars
<1>2. /\ \A t \in Threads : call[t].in = "program"
      /\ \A o \in Objects : object[o].is # "live"
  BY <1>1 DEF CallbackInv
<1>3. armed' \in [Kinds -> {0, context'}]
  <2>1. ASSUME NEW k \in Kinds, TakeBack(k)
        PROVE  armed' \in [Kinds -> {0, context'}]
    BY <2>1 DEF TakeBack, Disarm, CallbackInv
  <2>2. ASSUME NEW k \in Kinds, Refused(k)
        PROVE  armed' \in [Kinds -> {0, context'}]
    BY <2>2 DEF Refused, handlerVars, CallbackInv
  <2>3. CASE RemoveAllCallbacks \/ DisableAtLast
    BY <2>3 DEF RemoveAllCallbacks, DisableAtLast, CallbackInv
  <2>4. CASE Renew
    <3>1. host = "clean" /\ armed' = armed
      BY <2>4 DEF Renew, handlerVars
    <3>2. TakenBack(host) = Kinds
      BY <3>1 DEF TakenBack
    <3>3. \A k \in Kinds : armed[k] = 0
      BY <3>2 DEF HandlerInv
    <3>4. QED
      BY <3>1, <3>3 DEF HandlerInv
  <2>5. QED
    BY <2>1, <2>2, <2>3, <2>4 DEF Cleanup
<1>4. QED
  BY <1>1, <1>2, <1>3, NobodyInside

\* When callbacks have ended and NativeCallbacks are destroyed, once, before their context
\* goes, the program never runs a callback of a context that is gone or through a closure
\* that was freed, and a live NativeCallback keeps its closure whoever had the address
\* before it (script.cc:19-32, native_ffi.cc:247-272).
THEOREM CallbacksAreOfTheContext ==
  ASSUME CallsEnd, DestroyedOnce
  PROVE  Spec => []OnlyLiveCallbacks
<1>1. Init => CallbackInv
  <2> SUFFICES ASSUME Init PROVE CallbackInv
    OBVIOUS
  <2>1. /\ context = 0 /\ armed = [k \in Kinds |-> 0] /\ object = [o \in Objects |-> NewObject]
        /\ callbacks = [a \in Addresses |-> "none"] /\ call = [t \in Threads |-> NoCall]
    BY DEF Init
  <2>2. /\ NewObject \in [is : {"new", "live", "destroyed"}, at : Addresses \union {"none"},
                          of : Nat, type : Types \union {"none"}]
        /\ NewObject.is # "live" /\ NoCall.in = "program"
        /\ {"in", "of", "by"} \subseteq DOMAIN NoCall
    BY DEF NewObject, NoCall
  <2>3. QED
    BY <2>1, <2>2 DEF CallbackInv
<1>2. HandlerInv /\ CallbackInv /\ [Next]_vars => CallbackInv'
  <2> SUFFICES ASSUME HandlerInv, CallbackInv, [Next]_vars PROVE CallbackInv'
    OBVIOUS
  <2>1. CASE UNCHANGED vars
    <3>1. UNCHANGED <<context, armed, object, callbacks, call, host>>
      BY <2>1 DEF vars, runtimeVars, handlerVars, ffiVars
    <3>2. QED
      BY <3>1 DEF CallbackInv
  <2>2. QED
    BY <2>1, BeginKeepsCallbacks, CleanupKeepsCallbacks, ScriptKeepsCallbacks,
       ProgramKeepsCallbacks DEF Next
<1>3. CallbackInv => OnlyLiveCallbacks
  BY DEF CallbackInv, OnlyLiveCallbacks
<1>4. QED
  BY <1>1, <1>2, <1>3, HandlersCounted, PTL DEF Spec

--------------------------------------------------------------------------------
(* Numbers in registers: a register holds a number modulo the size of its type *)

Widths == {8, 16, 32, 64}

LEMMA ModSmall ==
  ASSUME NEW n \in Int, NEW m \in Nat, 0 <= n, n < m
  PROVE  n % m = n
OBVIOUS

LEMMA ModNegative ==
  ASSUME NEW n \in Int, NEW m \in Nat, -m <= n, n < 0
  PROVE  n % m = n + m
OBVIOUS

LEMMA ModOnce ==
  ASSUME NEW n \in Int, NEW m \in Nat, m <= n, n < m + m
  PROVE  n % m = n - m
OBVIOUS

LEMMA ModDef ==
  ASSUME NEW n \in Int, NEW m \in Nat \ {0}
  PROVE  /\ n \div m \in Int /\ n % m \in 0 .. m - 1
         /\ n = m * (n \div m) + (n % m)
OBVIOUS

LEMMA ModUnique ==
  ASSUME NEW m \in Nat \ {0}, NEW q \in Int, NEW r \in 0 .. m - 1
  PROVE  (m * q + r) % m = r
OBVIOUS

LEMMA ModOfMultiple ==
  ASSUME NEW n \in Int, NEW m \in Nat \ {0}, NEW k \in Nat, k % m = 0
  PROVE  (n + k) % m = n % m
<1> DEFINE q == n \div m
           c == k \div m
           r == n % m
<1>1. q \in Int /\ c \in Int /\ r \in 0 .. m - 1 /\ n = m * q + r /\ k = m * c + 0
  BY ModDef
<1> HIDE DEF q, c, r
<1>2. m * (q + c) = m * q + m * c
  BY <1>1
<1>3. n + k = m * (q + c) + r
  BY <1>1, <1>2
<1>4. (m * (q + c) + r) % m = r
  BY <1>1, ModUnique
<1>5. QED
  BY <1>3, <1>4 DEF r

LEMMA SizeFacts ==
  ASSUME NEW w \in Widths
  PROVE  Size[w] \in Nat /\ Half(w) \in Nat /\ Size[w] = Half(w) + Half(w) /\ Half(w) >= 1
BY ForeignConstants DEF Widths, Half

LEMMA MultipleFacts ==
  /\ Size[64] % Size[32] = 0 /\ Size[8] >= 2
  /\ Size[8] <= Half(16) /\ Size[16] <= Half(32) /\ Size[32] <= Half(64)
<1>1. ASSUME NEW m \in Nat, NEW n \in Nat, 0 < m, m < n, n % m = 0
      PROVE  m + m <= n
  BY <1>1, ModOnce
<1>2. \A w \in Widths :
        Size[w] \in Nat /\ Half(w) \in Nat /\ Size[w] = Half(w) + Half(w) /\ Half(w) >= 1
  BY SizeFacts
<1>3. /\ Size[8] + Size[8] <= Size[16] /\ Size[16] + Size[16] <= Size[32]
      /\ Size[32] + Size[32] <= Size[64]
  BY <1>1, <1>2, ForeignConstants DEF Widths
<1>4. QED
  BY <1>2, <1>3, ForeignConstants DEF Widths

--------------------------------------------------------------------------------
(* What one conversion does to a number *)

LEMMA CutIsInt ==
  ASSUME NEW x \in Int, NEW w \in Widths
  PROVE  Cut(x, w) \in Int
<1>1. Size[w] \in Nat \ {0}
  BY SizeFacts
<1>2. x % Size[w] \in 0 .. Size[w] - 1
  BY <1>1, ModDef
<1>3. QED
  BY <1>1, <1>2 DEF Cut

LEMMA CutOfSmall ==
  ASSUME NEW x \in Int, NEW w \in Widths, 0 <= x, x < Size[w]
  PROVE  Cut(x, w) = x
BY ModSmall, SizeFacts DEF Cut

LEMMA CutOfSigned ==
  ASSUME NEW x \in Int, NEW w \in Widths, InSigned(x, w)
  PROVE  Cut(x, w) = IF x < 0 THEN x + Size[w] ELSE x
<1>1. Size[w] \in Nat /\ Half(w) \in Nat /\ Size[w] = Half(w) + Half(w)
  BY SizeFacts
<1>2. -Size[w] <= x /\ x < Size[w]
  BY <1>1 DEF InSigned
<1>3. QED
  BY <1>1, <1>2, ModSmall, ModNegative DEF Cut

LEMMA AsSignedOfSigned ==
  ASSUME NEW x \in Int, NEW w \in Widths, InSigned(x, w)
  PROVE  AsSigned(x, w) = x
<1>1. Size[w] \in Nat /\ Half(w) \in Nat /\ Size[w] = Half(w) + Half(w)
  BY SizeFacts
<1>2. Cut(x, w) = IF x < 0 THEN x + Size[w] ELSE x
  BY CutOfSigned
<1>3. QED
  BY <1>1, <1>2 DEF AsSigned, InSigned

\* A register holds a narrower number modulo 2^64; read as an int it is that number again.
LEMMA CutOfRegister ==
  ASSUME NEW x \in Int, NEW w \in {32, 64}, InSigned(x, 64)
  PROVE  Cut(Cut(x, 64), w) = Cut(x, w)
<1>1. /\ Size[64] \in Nat \ {0} /\ Half(64) \in Nat /\ Size[64] = Half(64) + Half(64)
      /\ Size[w] \in Nat \ {0} /\ w \in Widths
  BY SizeFacts DEF Widths
<1>2. Cut(x, 64) = IF x < 0 THEN x + Size[64] ELSE x
  BY CutOfSigned DEF Widths
<1>3. Size[64] % Size[w] = 0
  <2>1. CASE w = 32
    BY <2>1, MultipleFacts
  <2>2. CASE w = 64
    BY <1>1, <2>2, ModOnce
  <2>3. QED
    BY <2>1, <2>2
<1>4. (x + Size[64]) % Size[w] = x % Size[w]
  <2>1. PICK m \in Nat \ {0} : m = Size[w]
    BY <1>1
  <2>2. PICK k \in Nat : k = Size[64]
    BY <1>1
  <2>3. k % m = 0
    BY <1>3, <2>1, <2>2
  <2>4. (x + k) % m = x % m
    BY <2>3, ModOfMultiple
  <2>5. QED
    BY <2>1, <2>2, <2>4
<1>5. Cut(x + Size[64], w) = Cut(x, w)
  BY <1>4 DEF Cut
<1>6. CASE x < 0
  <2>1. PICK y \in Int : y = x + Size[64]
    BY <1>1
  <2>2. Cut(x, 64) = y
    BY <1>2, <1>6, <2>1
  <2>3. Cut(y, w) = Cut(x, w)
    BY <1>5, <2>1
  <2>4. QED
    BY <2>2, <2>3
<1>7. CASE ~(x < 0)
  BY <1>2, <1>7
<1>8. QED
  BY <1>6, <1>7

LEMMA AsSignedOfRegister ==
  ASSUME NEW x \in Int, NEW w \in {32, 64}, InSigned(x, 64), InSigned(x, w)
  PROVE  AsSigned(Cut(x, 64), w) = x
<1>1. Cut(Cut(x, 64), w) = Cut(x, w)
  BY CutOfRegister
<1>2. AsSigned(x, w) = x
  BY AsSignedOfSigned DEF Widths
<1>3. QED
  BY <1>1, <1>2 DEF AsSigned

LEMMA SignedFits ==
  ASSUME NEW x \in Int
  PROVE  /\ InSigned(x, 8) => InSigned(x, 16)
         /\ InSigned(x, 16) => InSigned(x, 32)
         /\ InSigned(x, 32) => InSigned(x, 64) /\ -Exact <= x /\ x <= Exact
         /\ 0 <= x /\ x < Size[8] => InSigned(x, 16)
         /\ 0 <= x /\ x < Size[16] => InSigned(x, 32)
         /\ x \in {0, 1} => InSigned(x, 16)
<1>1. /\ Half(8) \in Nat /\ Half(16) \in Nat /\ Half(32) \in Nat /\ Half(64) \in Nat
      /\ Size[8] = Half(8) + Half(8) /\ Size[16] = Half(16) + Half(16)
      /\ Size[32] = Half(32) + Half(32) /\ Size[64] = Half(64) + Half(64)
  BY SizeFacts DEF Widths
<1>2. /\ Half(8) <= Half(16) /\ Half(16) <= Half(32) /\ Half(32) <= Half(64)
      /\ Size[8] <= Half(16) /\ Size[16] <= Half(32) /\ 2 <= Half(16)
      /\ Exact \in Nat /\ Half(32) <= Exact
  BY <1>1, MultipleFacts, ForeignConstants
<1>3. QED
  BY <1>1, <1>2 DEF InSigned

--------------------------------------------------------------------------------
(* The way of a value: argument, handler, answer, result *)

\* What arrives of x at each station: the register holds it modulo 2^64.
Passes(type, x) ==
  /\ \A n \in ParseArg(type, ArgText(type, x)) : Register(type, n) = Cut(x, 64)
  /\ HandlerArg(type, HandlerText(type, Cut(x, 64))) = x
  /\ ParseAnswer(type, AnswerText(type, x)) # {}
  /\ \A n \in ParseAnswer(type, AnswerText(type, x)) : Register(type, n) = Cut(x, 64)
  /\ ParseResult(ResultText(type, Cut(x, 64))) = x

LEMMA TypeFacts ==
  /\ Types = {"int8", "uint8", "int16", "uint16", "int32", "uint32", "int64", "uint64",
              "pointer", "bool"}
  /\ FFIType["int8"] = "sint8" /\ FFIType["uint8"] = "uint8"
  /\ FFIType["int16"] = "sint16" /\ FFIType["uint16"] = "uint16"
  /\ FFIType["int32"] = "sint32" /\ FFIType["uint32"] = "uint32"
  /\ FFIType["int64"] = "sint64" /\ FFIType["uint64"] = "uint64"
  /\ FFIType["pointer"] = "pointer" /\ FFIType["bool"] = "pointer"
BY DEF Types, FFIType

LEMMA WidthFacts ==
  /\ Width["sint8"] = 8 /\ Width["uint8"] = 8 /\ Width["sint16"] = 16 /\ Width["uint16"] = 16
  /\ Width["sint32"] = 32 /\ Width["uint32"] = 32
  /\ Width["sint64"] = 64 /\ Width["uint64"] = 64 /\ Width["pointer"] = 64
BY DEF Width

LEMMA TextFacts ==
  ASSUME NEW x \in Int
  PROVE  /\ Dec(x).base = 10 /\ Dec(x).of = x /\ Hex(x).base = 16 /\ Hex(x).of = x
         /\ Stoi(Dec(x)) = {n \in {x} : InSigned(n, 32)}
         /\ Stoll(Dec(x)) = {n \in {x} : InSigned(n, 64)}
         /\ ParseHexAddr(Hex(x)) = {x}
BY DEF Dec, Hex, Stoi, Stoll, ParseHexAddr

\* The types that are read as an int.
LEMMA NarrowPasses ==
  ASSUME NEW type \in Types, NEW x \in Int, InSigned(x, 32),
         FFIType[type] \notin {"pointer", "sint64", "uint64"},
         Widened(FFIType[type], x) = Cut(x, 64)
  PROVE  Passes(type, x)
<1>1. InSigned(x, 64) /\ -Exact <= x /\ x <= Exact
  BY SignedFits
<1>2. type \notin {"pointer", "int64", "uint64"}
  BY TypeFacts
<1>3. AsSigned(Cut(x, 64), 32) = x
  BY <1>1, AsSignedOfRegister
<1>4. ParseArg(type, ArgText(type, x)) = {x} /\ ParseAnswer(type, AnswerText(type, x)) = {x}
  BY <1>1, <1>2, TextFacts DEF ParseArg, ArgText, ParseAnswer, AnswerText
<1>5. HandlerArg(type, HandlerText(type, Cut(x, 64))) = x
  BY <1>1, <1>2, <1>3, TextFacts DEF HandlerArg, HandlerText, Number
<1>6. ParseResult(ResultText(type, Cut(x, 64))) = x
  BY <1>2, <1>3, TextFacts DEF ParseResult, ResultText
<1>7. QED
  BY <1>4, <1>5, <1>6 DEF Passes, Register

LEMMA SignedPasses ==
  ASSUME NEW type \in {"int8", "int16", "int32"}, NEW x \in Int, Holds(type, x)
  PROVE  Passes(type, x)
<1> DEFINE w == Width[FFIType[type]]
<1>1. w \in {8, 16, 32} /\ FFIType[type] \in {"sint8", "sint16", "sint32"}
  BY TypeFacts, WidthFacts
<1>2. InSigned(x, w)
  BY <1>1 DEF Holds
<1>3. InSigned(x, 32)
  BY <1>1, <1>2, SignedFits
<1>4. AsSigned(x, w) = x
  BY <1>1, <1>2, AsSignedOfSigned DEF Widths
<1>5. Widened(FFIType[type], x) = Cut(x, 64)
  BY <1>1, <1>4 DEF Widened
<1>6. type \in Types
  BY TypeFacts
<1>7. QED
  BY <1>1, <1>3, <1>5, <1>6, NarrowPasses

LEMMA UnsignedPasses ==
  ASSUME NEW type \in {"uint8", "uint16", "uint32"}, NEW x \in Int, Faithful(type, x)
  PROVE  Passes(type, x)
<1> DEFINE w == Width[FFIType[type]]
<1>1. w \in {8, 16, 32} /\ FFIType[type] \in {"uint8", "uint16", "uint32"} /\ type # "bool"
  BY TypeFacts, WidthFacts
<1>2. 0 <= x /\ x < Size[w]
  BY <1>1 DEF Holds, Faithful
<1>3. InSigned(x, 32)
  <2>1. CASE type = "uint32"
    BY <2>1 DEF Faithful
  <2>2. CASE type # "uint32"
    BY <1>2, <2>2, SignedFits, TypeFacts, WidthFacts
  <2>3. QED
    BY <2>1, <2>2
<1>4. Cut(x, w) = x
  BY <1>1, <1>2, CutOfSmall DEF Widths
<1>5. Cut(x, 64) = x
  BY <1>2, <1>3, SignedFits, CutOfSigned DEF Widths
<1>6. Widened(FFIType[type], x) = Cut(x, 64)
  BY <1>1, <1>4, <1>5 DEF Widened
<1>7. type \in Types
  BY TypeFacts
<1>8. QED
  BY <1>1, <1>3, <1>6, <1>7, NarrowPasses

LEMMA PointerPasses ==
  ASSUME NEW x \in Int, Holds("pointer", x)
  PROVE  Passes("pointer", x)
<1>1. 0 <= x /\ x < Size[64]
  BY TypeFacts, WidthFacts DEF Holds
<1>2. Cut(x, 64) = x
  BY <1>1, CutOfSmall DEF Widths
<1>3. Register("pointer", x) = Cut(x, 64)
  BY TypeFacts, WidthFacts DEF Register, Widened
<1>4. /\ ParseArg("pointer", ArgText("pointer", x)) = {x}
      /\ ParseAnswer("pointer", AnswerText("pointer", x)) = {x}
      /\ HandlerArg("pointer", HandlerText("pointer", x)) = x
      /\ ParseResult(ResultText("pointer", x)) = x
  BY TypeFacts, TextFacts DEF ParseArg, ArgText, ParseAnswer, AnswerText, HandlerArg,
     HandlerText, ParseResult, ResultText
<1>5. QED
  BY <1>2, <1>3, <1>4 DEF Passes

\* A bool is read as an address: zero and one are the same in every base.
LEMMA BoolPasses ==
  ASSUME NEW x \in {0, 1}
  PROVE  Passes("bool", x)
<1>1. 0 <= x /\ x < Size[8] /\ x \in Int
  BY MultipleFacts, SizeFacts DEF Widths
<1>2. InSigned(x, 64) /\ InSigned(x, 32) /\ -Exact <= x /\ x <= Exact
  BY <1>1, SignedFits
<1>3. Cut(x, 64) = x
  BY <1>1, <1>2, CutOfSigned DEF Widths
<1>4. AsSigned(x, 32) = x
  BY <1>1, <1>2, AsSignedOfSigned DEF Widths
<1>5. 16 * (x \div 10) + (x % 10) = x
  OBVIOUS
<1>6. ParseHexAddr(Dec(x)) = {x}
  BY <1>1, <1>3, <1>5, TextFacts DEF ParseHexAddr
<1>7. Register("bool", x) = x
  BY <1>3, TypeFacts, WidthFacts DEF Register, Widened
<1>8. /\ ParseArg("bool", ArgText("bool", x)) = {x}
      /\ ParseAnswer("bool", AnswerText("bool", x)) = {x}
  BY <1>6, TypeFacts DEF ParseArg, ArgText, ParseAnswer, AnswerText
<1>9. HandlerArg("bool", HandlerText("bool", x)) = x
  BY <1>1, <1>2, TypeFacts, TextFacts DEF HandlerArg, HandlerText, Number
<1>10. ParseResult(ResultText("bool", x)) = x
  BY <1>1, <1>4, TextFacts DEF ParseResult, ResultText
<1>11. QED
  BY <1>3, <1>7, <1>8, <1>9, <1>10 DEF Passes

LEMMA Signed64Passes ==
  ASSUME NEW x \in Int, Faithful("int64", x)
  PROVE  Passes("int64", x)
<1>1. InSigned(x, 64) /\ -Exact <= x /\ x <= Exact
  BY TypeFacts, WidthFacts DEF Faithful, Holds
<1>2. AsSigned(Cut(x, 64), 64) = x
  BY <1>1, AsSignedOfRegister
<1>3. Register("int64", x) = Cut(x, 64)
  BY TypeFacts, WidthFacts DEF Register, Widened
<1>4. /\ ParseArg("int64", ArgText("int64", x)) = {x}
      /\ ParseAnswer("int64", AnswerText("int64", x)) = {x}
  BY <1>1, TypeFacts, TextFacts DEF ParseArg, ArgText, ParseAnswer, AnswerText
<1>5. HandlerArg("int64", HandlerText("int64", Cut(x, 64))) = x
  BY <1>1, <1>2, TypeFacts, TextFacts DEF HandlerArg, HandlerText, Number
<1>6. ParseResult(ResultText("int64", Cut(x, 64))) = x
  BY <1>2, TextFacts DEF ParseResult, ResultText
<1>7. QED
  BY <1>3, <1>4, <1>5, <1>6 DEF Passes

\* An argument of 2^63 or more does not parse; nothing of it arrives.
LEMMA Unsigned64Passes ==
  ASSUME NEW x \in Int, Faithful("uint64", x)
  PROVE  Passes("uint64", x)
<1>1. 0 <= x /\ x < Size[64] /\ -Exact <= x /\ x <= Exact /\ Size[64] \in Nat
  BY TypeFacts, WidthFacts, SizeFacts DEF Faithful, Holds, Widths
<1>2. Cut(x, 64) = x
  BY <1>1, CutOfSmall DEF Widths
<1>3. Register("uint64", x) = x
  BY <1>2, TypeFacts, WidthFacts DEF Register, Widened
<1>4. ParseArg("uint64", ArgText("uint64", x)) \subseteq {x}
  BY TypeFacts, TextFacts DEF ParseArg, ArgText
<1>5. Stoull(Dec(x)) = {x}
  BY <1>1, <1>2, TextFacts DEF Stoull
<1>6. ParseAnswer("uint64", AnswerText("uint64", x)) = {x}
  BY <1>5, TypeFacts DEF ParseAnswer, AnswerText
<1>7. HandlerArg("uint64", HandlerText("uint64", x)) = x
  BY <1>1, TypeFacts, TextFacts DEF HandlerArg, HandlerText, Number
<1>8. ParseResult(ResultText("uint64", x)) = x
  BY <1>1, TextFacts DEF ParseResult, ResultText
<1>9. QED
  BY <1>2, <1>3, <1>4, <1>6, <1>7, <1>8 DEF Passes

\* Every faithful value is at each station what the script gave it.
LEMMA FaithfulPasses ==
  ASSUME NEW type \in Types, NEW x \in Int, Faithful(type, x)
  PROVE  Passes(type, x)
<1>1. Holds(type, x)
  BY DEF Faithful
<1>2. CASE type \in {"int8", "int16", "int32"}
  BY <1>1, <1>2, SignedPasses
<1>3. CASE type \in {"uint8", "uint16", "uint32"}
  BY <1>3, UnsignedPasses
<1>4. CASE type = "pointer"
  BY <1>1, <1>4, PointerPasses
<1>5. CASE type = "bool"
  <2>1. x \in {0, 1}
    BY <1>1, <1>5, TypeFacts DEF Holds
  <2>2. QED
    BY <1>5, <2>1, BoolPasses
<1>6. CASE type = "int64"
  BY <1>6, Signed64Passes
<1>7. CASE type = "uint64"
  BY <1>7, Unsigned64Passes
<1>8. QED
  BY <1>2, <1>3, <1>4, <1>5, <1>6, <1>7, TypeFacts

--------------------------------------------------------------------------------
(* Values on their way *)

Callees == [is : {"new", "live", "destroyed"}, at : Addresses \union {"none"}, of : Nat,
            type : Types \union {"none"}]

Calls == [in : {"program", "hook", "closure", "handler", "returned"}, of : Nat,
          by : Addresses \union {"none"}, type : Types \union {"none"}, value : Int, data : Int]

\* What a call carries, by the place where it is.
Carries(c) ==
  /\ c \in Calls
  /\ c.in = "program" => c.data = c.value
  /\ c.in \in {"closure", "handler", "returned"} => c.type \in Types /\ Faithful(c.type, c.value)
  /\ c.in \in {"closure", "returned"} => c.data = Cut(c.value, 64)
  /\ c.in = "handler" => c.data = c.value

ValueInv ==
  /\ object \in [Objects -> Callees] /\ callbacks \in [Addresses -> Objects \union {"none"}]
  /\ \A o \in Objects : object[o].is # "new" => object[o].type \in Types
  /\ \A a \in Addresses : callbacks[a] # "none" => object[callbacks[a]].is # "new"
  /\ DOMAIN call = Threads /\ \A t \in Threads : Carries(call[t])
  /\ host = "terminated" => ending = "destructor"

LEMMA ValuesInitially == Init => ValueInv
<1> SUFFICES ASSUME Init PROVE ValueInv
  OBVIOUS
<1>1. NewObject \in Callees /\ NewObject.is = "new"
  BY DEF NewObject, Callees
<1>2. Carries(NoCall)
  BY DEF NoCall, Calls, Carries
<1>3. QED
  BY <1>1, <1>2 DEF Init, ValueInv

LEMMA ValuesOfObjects ==
  ASSUME HandlerInv, ValueInv, ScriptCall
  PROVE  ValueInv'
<1>1. UNCHANGED <<host, ending, call>>
  BY DEF ScriptCall, Set, SetThrows, Remove, WatchThrows, Enable, Disable, AddCallback,
     CreateCallback, DestroyCallback, runtimeVars
<1>2. CASE UNCHANGED ffiVars
  BY <1>1, <1>2 DEF ValueInv, ffiVars
<1>3. ASSUME NEW o \in Objects, NEW a \in Addresses, NEW type \in Types,
             CreateCallback(o, a, type)
      PROVE  ValueInv'
  <2>1. PICK new : new = [is |-> "live", at |-> a, of |-> context, type |-> type]
    OBVIOUS
  <2>2. new \in Callees /\ new.is = "live" /\ new.type = type /\ o # "none"
    BY <2>1, RuntimeConstants DEF Callees, HandlerInv
  <2>3. /\ object' = [object EXCEPT ![o] = new]
        /\ callbacks' = [callbacks EXCEPT ![a] = o]
    BY <1>3, <2>1 DEF CreateCallback
  <2>4. /\ object' \in [Objects -> Callees] /\ callbacks' \in [Addresses -> Objects \union {"none"}]
        /\ object'[o] = new /\ \A p \in Objects : p # o => object'[p] = object[p]
        /\ callbacks'[a] = o /\ \A b \in Addresses : b # a => callbacks'[b] = callbacks[b]
    BY <2>2, <2>3 DEF ValueInv
  <2>5. \A p \in Objects : object'[p].is # "new" => object'[p].type \in Types
    BY <2>2, <2>4 DEF ValueInv
  <2>6. \A b \in Addresses : callbacks'[b] # "none" => object'[callbacks'[b]].is # "new"
    BY <2>2, <2>4 DEF ValueInv
  <2>7. QED
    BY <1>1, <2>4, <2>5, <2>6 DEF ValueInv
<1>4. ASSUME NEW o \in Objects, DestroyCallback(o)
      PROVE  ValueInv'
  <2>1. PICK old : old = [object[o] EXCEPT !.is = "destroyed"]
    OBVIOUS
  <2>2. old \in Callees /\ old.is = "destroyed" /\ old.type = object[o].type
    BY <2>1 DEF Callees, ValueInv
  <2>3. /\ object[o].is # "new" /\ object' = [object EXCEPT ![o] = old]
        /\ callbacks' = [callbacks EXCEPT ![object[o].at] = "none"]
    BY <1>4, <2>1 DEF DestroyCallback, ValueInv
  <2>4. /\ object' \in [Objects -> Callees] /\ callbacks' \in [Addresses -> Objects \union {"none"}]
        /\ object'[o] = old /\ \A p \in Objects : p # o => object'[p] = object[p]
        /\ \A b \in Addresses : callbacks'[b] # "none" => callbacks'[b] = callbacks[b]
    BY <2>2, <2>3 DEF ValueInv
  <2>5. \A p \in Objects : object'[p].is # "new" => object'[p].type \in Types
    BY <2>2, <2>3, <2>4 DEF ValueInv
  <2>6. \A b \in Addresses : callbacks'[b] # "none" => object'[callbacks'[b]].is # "new"
    BY <2>2, <2>4 DEF ValueInv
  <2>7. QED
    BY <1>1, <2>4, <2>5, <2>6 DEF ValueInv
<1>5. QED
  BY <1>2, <1>3, <1>4
  DEF ScriptCall, Set, SetThrows, Remove, WatchThrows, Enable, Disable, AddCallback

\* A step of one call, when the process goes on.
LEMMA ValuesOfCall ==
  ASSUME ValueInv, NEW t \in Threads, NEW c, Carries(c), call' = [call EXCEPT ![t] = c],
         UNCHANGED <<object, callbacks, host, ending>>
  PROVE  ValueInv'
<1>1. DOMAIN call' = Threads /\ call'[t] = c /\ \A u \in Threads : u # t => call'[u] = call[u]
  BY DEF ValueInv
<1>2. QED
  BY <1>1 DEF ValueInv

LEMMA HookCarries ==
  ASSUME NEW n \in Nat
  PROVE  Carries([NoCall EXCEPT !.in = "hook", !.of = n])
<1>1. NoCall \in Calls
  BY DEF NoCall, Calls
<1>2. PICK c \in Calls : c = NoCall
  BY <1>1
<1>3. PICK d : d = [c EXCEPT !.in = "hook", !.of = n]
  OBVIOUS
<1>4. d \in Calls /\ d.in = "hook"
  BY <1>3 DEF Calls
<1>5. QED
  BY <1>2, <1>3, <1>4 DEF Carries

LEMMA ClosureCarries ==
  ASSUME NEW n \in Nat, NEW a \in Addresses, NEW type \in Types, NEW x \in Int,
         Faithful(type, x), NEW parsed \in ParseArg(type, ArgText(type, x))
  PROVE  Carries([in |-> "closure", of |-> n, by |-> a, type |-> type, value |-> x,
                  data |-> Register(type, parsed)])
<1>1. Register(type, parsed) = Cut(x, 64) /\ Cut(x, 64) \in Int
  BY CutIsInt, FaithfulPasses DEF Passes, Widths
<1>2. PICK d : d = [in |-> "closure", of |-> n, by |-> a, type |-> type, value |-> x,
                    data |-> Cut(x, 64)]
  OBVIOUS
<1>3. /\ d \in Calls /\ d.in = "closure" /\ d.type = type /\ d.value = x
      /\ d.data = Cut(x, 64)
  BY <1>1, <1>2 DEF Calls
<1>4. Carries(d)
  BY <1>3 DEF Carries
<1>5. QED
  BY <1>1, <1>2, <1>4

LEMMA HandlerCarries ==
  ASSUME NEW c, Carries(c), c.in = "closure"
  PROVE  Carries([c EXCEPT !.in = "handler",
                           !.data = HandlerArg(c.type, HandlerText(c.type, c.data))])
<1>1. HandlerArg(c.type, HandlerText(c.type, c.data)) = c.value
  BY FaithfulPasses DEF Passes, Carries, Calls
<1>2. PICK d : d = [c EXCEPT !.in = "handler", !.data = c.value]
  OBVIOUS
<1>3. /\ d \in Calls /\ d.in = "handler" /\ d.data = c.value /\ d.type = c.type
      /\ d.value = c.value
  BY <1>2 DEF Carries, Calls
<1>4. Carries(d)
  BY <1>3 DEF Carries
<1>5. QED
  BY <1>1, <1>2, <1>4

\* The answer always parses, and is the value again.
LEMMA AnswerParses ==
  ASSUME NEW c, Carries(c), c.in = "handler"
  PROVE  LET parsed == ParseAnswer(c.type, AnswerText(c.type, c.data))
         IN  parsed # {} /\ Register(c.type, CHOOSE n \in parsed : TRUE) = Cut(c.value, 64)
<1> DEFINE parsed == ParseAnswer(c.type, AnswerText(c.type, c.data))
<1>1. /\ parsed # {} /\ \A n \in parsed : Register(c.type, n) = Cut(c.value, 64)
  BY FaithfulPasses DEF Passes, Carries, Calls
<1> HIDE DEF parsed
<1>2. (CHOOSE n \in parsed : TRUE) \in parsed
  BY <1>1
<1>3. QED
  BY <1>1, <1>2 DEF parsed

LEMMA ReturnedCarries ==
  ASSUME NEW c, Carries(c), c.in = "handler"
  PROVE  Carries([c EXCEPT !.in = "returned", !.data = Cut(c.value, 64)])
<1>1. Cut(c.value, 64) \in Int
  BY CutIsInt DEF Widths, Carries, Calls
<1>2. PICK n : n = Cut(c.value, 64)
  OBVIOUS
<1>3. PICK d : d = [c EXCEPT !.in = "returned", !.data = n]
  OBVIOUS
<1>4. d \in Calls /\ d.in = "returned" /\ d.data = n /\ d.type = c.type /\ d.value = c.value
  BY <1>1, <1>2, <1>3 DEF Carries, Calls
<1>5. Carries(d)
  BY <1>2, <1>4 DEF Carries
<1>6. QED
  BY <1>2, <1>3, <1>5

LEMMA ResultCarries ==
  ASSUME NEW c, Carries(c), c.in = "returned"
  PROVE  Carries([NoCall EXCEPT !.value = c.value,
                                !.data = ParseResult(ResultText(c.type, c.data))])
<1>1. ParseResult(ResultText(c.type, c.data)) = c.value /\ c.value \in Int
  BY FaithfulPasses DEF Passes, Carries, Calls
<1>2. PICK d : d = [NoCall EXCEPT !.value = c.value, !.data = c.value]
  OBVIOUS
<1>3. Carries(d)
  BY <1>1, <1>2 DEF NoCall, Carries, Calls
<1>4. QED
  BY <1>1, <1>2, <1>3

LEMMA ValuesOfProgram ==
  ASSUME HandlerInv, ValueInv, NEW t \in Threads, ProgramStep(t)
  PROVE  ValueInv'
<1>c. PICK c : c = call[t]
  OBVIOUS
<1>d. Carries(c)
  BY <1>c DEF ValueInv
<1>1. ASSUME NEW k \in Kinds, Hit(t, k) PROVE ValueInv'
  <2>1. PICK n \in Nat : n = armed[k]
    BY DEF HandlerInv
  <2>2. /\ call' = [call EXCEPT ![t] = [NoCall EXCEPT !.in = "hook", !.of = n]]
        /\ UNCHANGED <<object, callbacks, host, ending>>
    BY <1>1, <2>1 DEF Hit, runtimeVars, ffiVars
  <2>3. QED
    BY <2>2, HookCarries, ValuesOfCall
<1>2. CASE Leave(t)
  <2>1. Carries(NoCall)
    BY DEF NoCall, Calls, Carries
  <2>2. QED
    BY <1>2, <2>1, ValuesOfCall DEF Leave, runtimeVars, ffiVars
<1>3. ASSUME NEW a \in Addresses, NEW x \in Values, CallFunction(t, a, x) PROVE ValueInv'
  <2>1. x \in Int
    BY RuntimeConstants
  <2>2. /\ callbacks[a] \in Objects /\ TypeAt(a) \in Types /\ object[callbacks[a]].of \in Nat
        /\ Faithful(TypeAt(a), x)
    BY <1>3 DEF CallFunction, ValueInv, TypeAt, Callees
  <2>3. PICK type \in Types : type = TypeAt(a)
    BY <2>2
  <2>4. PICK parsed \in ParseArg(type, ArgText(type, x)) :
          call' = [call EXCEPT ![t] =
                    [in |-> "closure", of |-> object[callbacks[a]].of, by |-> a,
                     type |-> type, value |-> x, data |-> Register(type, parsed)]]
    BY <1>3, <2>3 DEF CallFunction
  <2>5. UNCHANGED <<object, callbacks, host, ending>>
    BY <1>3 DEF CallFunction, runtimeVars, ffiVars
  <2>6. QED
    BY <2>1, <2>2, <2>3, <2>4, <2>5, ClosureCarries, ValuesOfCall
<1>4. CASE CallbackHandler(t)
  <2>1. /\ c.in = "closure" /\ UNCHANGED <<object, callbacks, host, ending>>
        /\ call' = [call EXCEPT ![t] = [c EXCEPT !.in = "handler",
                      !.data = HandlerArg(c.type, HandlerText(c.type, c.data))]]
    BY <1>4, <1>c DEF CallbackHandler, runtimeVars, ffiVars, ValueInv
  <2>2. QED
    BY <1>d, <2>1, HandlerCarries, ValuesOfCall
<1>5. CASE HandlerReturns(t)
  <2>1. c.in = "handler" /\ UNCHANGED <<object, callbacks, ending>>
    BY <1>5, <1>c DEF HandlerReturns, ffiVars
  <2>2. LET parsed == ParseAnswer(c.type, AnswerText(c.type, c.data))
        IN  parsed # {} /\ Register(c.type, CHOOSE n \in parsed : TRUE) = Cut(c.value, 64)
    BY <1>d, <2>1, AnswerParses
  <2>3. /\ host' = host
        /\ call' = [call EXCEPT ![t] = [c EXCEPT !.in = "returned", !.data = Cut(c.value, 64)]]
    BY <1>5, <1>c, <2>2 DEF HandlerReturns, ValueInv
  <2>4. QED
    BY <1>d, <2>1, <2>3, ReturnedCarries, ValuesOfCall
<1>6. CASE FunctionReturns(t)
  <2>1. /\ c.in = "returned" /\ UNCHANGED <<object, callbacks, host, ending>>
        /\ call' = [call EXCEPT ![t] = [NoCall EXCEPT !.value = c.value,
                      !.data = ParseResult(ResultText(c.type, c.data))]]
    BY <1>6, <1>c DEF FunctionReturns, runtimeVars, ffiVars
  <2>2. QED
    BY <1>d, <2>1, ResultCarries, ValuesOfCall
<1>7. QED
  BY <1>1, <1>2, <1>3, <1>4, <1>5, <1>6 DEF ProgramStep

LEMMA ValuesStep ==
  ASSUME HandlerInv, ValueInv, [Next]_vars
  PROVE  ValueInv'
<1>1. CASE UNCHANGED vars
  BY <1>1 DEF ValueInv, vars, runtimeVars, ffiVars
<1>2. CASE \E for \in {"reset", "destructor"} : Begin(for)
  BY <1>2 DEF ValueInv, Begin, ffiVars
<1>3. CASE Cleanup
  <2>1. UNCHANGED <<object, callbacks, call, ending>>
    BY <1>3 DEF Cleanup, TakeBack, Refused, RemoveAllCallbacks, DisableAtLast, Renew, ffiVars
  <2>2. host' = "terminated" => ending = "destructor"
    BY <1>3 DEF Cleanup, TakeBack, After, Refused, RemoveAllCallbacks, DisableAtLast, Renew, Kinds
  <2>3. QED
    BY <2>1, <2>2 DEF ValueInv
<1>4. CASE ScriptCall
  BY <1>4, ValuesOfObjects
<1>5. CASE \E t \in Threads : ProgramStep(t)
  BY <1>5, ValuesOfProgram
<1>6. QED
  BY <1>1, <1>2, <1>3, <1>4, <1>5 DEF Next

\* A value that a script passes through a NativeFunction to a NativeCallback arrives there
\* and, given back, comes back, whatever the type and the widths of integers, and no answer
\* throws into native code: only the destructor ends the process
\* (native_ffi.cc:80-124, 150-215).
THEOREM ValuesArrive == Spec => []ValuesSurvive
<1>1. ValueInv => ValuesSurvive
  BY DEF ValueInv, Carries, ValuesSurvive
<1>2. HandlerInv /\ ValueInv /\ [Next]_vars => ValueInv'
  BY ValuesStep
<1>3. QED
  BY <1>1, <1>2, ValuesInitially, HandlersCounted, PTL DEF Spec
================================================================================
