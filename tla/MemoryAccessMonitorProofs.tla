------------------------ MODULE MemoryAccessMonitorProofs ------------------------
(****************************************************************************)
(* Theorems about MemoryAccessMonitor, for any number of threads, pages,     *)
(* requests and monitors and a ring of any size.                             *)
(*                                                                           *)
(* What the monitor does whoever calls it and whenever: its types and the    *)
(* pages it does not forget.  Then what it does for a user who keeps to some *)
(* of the Rules, which each theorem names.  Last the ring, the reports that  *)
(* come through it, and the log that the monitor keeps.                      *)
(****************************************************************************)
EXTENDS MemoryAccessMonitor, SequenceTheorems, FiniteSetTheorems, TLAPS

Entered == {"entered", "scanning"}
Claimed == {"found", "marked", "restored", "reserved", "written"}

\* The monitor of a call that works on one, and the range it has got to.
CallInv ==
  /\ call.pc \in {"protecting", "registering", "inserting", "restoring", "deleting"} =>
       call.mon \in Monitors
  /\ call.pc = "protecting" => call.at \in DOMAIN call.request
  /\ call.pc \in {"idle", "draining", "callback", "advancing", "locking"} => call.mon = 0
  /\ call.pc \in {"restoring", "deleting"} => call.at \in Nat \ {0}

\* A handler that has claimed a range has one that exists.
ClaimInv ==
  \A t \in Threads :
    /\ thread[t].phase = "scanning" => thread[t].runs > 0
    /\ thread[t].phase \in Claimed =>
         /\ thread[t].range.mon \in Monitors
         /\ thread[t].range.at \in DOMAIN ranges[thread[t].range.mon]

TypeInv == TypeOK /\ CallInv /\ ClaimInv

--------------------------------------------------------------------------------
(* Inductive invariants, for any user *)

Enabling == call.pc \in {"protecting", "registering", "inserting"}
Removing == call.pc \in {"choosing", "restoring", "deleting"}
Reading  == call.pc \in {"draining", "callback", "advancing"}

\* A callback that called the API waits for a lock that its own thread holds.
Reentered == call.pc = "locking" /\ mutex

\* Who is in g_monitors, whose entry is deleted and whose handlers are in the chain, through
\* the calls that change all three.
RegistryInv ==
  /\ call.pc \in {"idle", "draining", "advancing"} => ~mutex
  /\ Removing => mutex
  /\ \A m \in monitors \union freed : m < nextMonId
  /\ \A m \in Monitors : m >= nextMonId => DOMAIN ranges[m] = {}
  /\ Enabling => call.mon = nextMonId - 1 /\ call.mon \notin monitors \union freed
  /\ call.pc = "protecting" => DOMAIN ranges[call.mon] = 1 .. call.at - 1
  /\ Removing => call.todo \subseteq monitors \ freed
  /\ call.pc \in {"restoring", "deleting"} => call.mon \in call.todo
  /\ IF Removing /\ call.all THEN monitors \ freed \subseteq call.todo
     ELSE monitors \intersect freed = {}
  /\ registered = CASE call.pc = "inserting" -> (monitors \ freed) \union {call.mon}
                    [] call.pc = "deleting"  -> (monitors \ freed) \ {call.mon}
                    [] OTHER                 -> monitors \ freed

\* The ranges disable() has been through can be touched again.
RestoredInv ==
  \A m \in Monitors : \A i \in DOMAIN ranges[m] :
    /\ m = call.mon /\ ~ranges[m][i].fired
    /\ call.pc \in {"deleting", "choosing"} \/ (call.pc = "restoring" /\ i < call.at)
    => \A p \in ranges[m][i].pages : prot[p] = "rw"

\* A page nobody can touch is that of a range which has not fired, of a monitor that is there
\* or that the call is at, or that of a range a handler is about to restore.
Keepers == ((monitors \ freed) \union {call.mon}) \ {0}
Kept(p) == \E m \in Keepers : \E i \in DOMAIN ranges[m] :
             ~ranges[m][i].fired /\ p \in ranges[m][i].pages
Held(p) == \E t \in Threads : thread[t].phase = "marked" /\ p \in RangeOf(thread[t].range).pages

\* The pages an enable() that threw had closed.
Left == {p \in Pages : \E m \in Abandoned : \E i \in DOMAIN ranges[m] : p \in ranges[m][i].pages}

OrphanInv == Alive => \A p \in Pages \ Left : prot[p] = "none" => Kept(p) \/ Held(p)

--------------------------------------------------------------------------------
(* Inductive invariants, for users who keep to a rule *)

Quiesced     == "quiesced" \in Rules
OneAtATime   == "one-at-a-time" \in Rules
Parseable    == "addresses-parse" \in Rules
DisjointOnly == "disjoint" \in Rules

\* While a call changes what is watched nobody is in the handler.
QuietInv ==
  /\ Changing /\ ~Reentered => \A t \in Threads : ~Handling(t)
  /\ \A t \in Threads : thread[t].phase \in Claimed => thread[t].range.mon \in monitors

\* Each id enable() has drawn is that of a monitor, but for the one under way.
KnownInv ==
  \A m \in Monitors : m < nextMonId /\ ~(Enabling /\ m = call.mon) => m \in monitors \union freed

\* Each thread in the handler has a range of its own that claims its page.
Claims(t) ==
  /\ thread[t].phase \in Entered => Guards(thread[t].page) # {}
  /\ thread[t].phase \in Claimed =>
       /\ thread[t].range \in Watched(monitors) /\ thread[t].page \in RangeOf(thread[t].range).pages
       /\ RangeOf(thread[t].range).fired <=> thread[t].phase # "found"

Together(t, u) == \E e \in Watched(monitors) : {thread[t].page, thread[u].page} \subseteq RangeOf(e).pages

AloneInv ==
  /\ Alive
  /\ \A t \in Threads : Claims(t)
  /\ \A t, u \in Threads : Handling(t) /\ Handling(u) /\ t # u => ~Together(t, u)

\* A range that is going to restore its pages: when disable() comes to it, or in a handler.
Pending(e) == \/ ~RangeOf(e).fired
              \/ \E t \in Threads : thread[t].phase \in {"found", "marked"} /\ thread[t].range = e

Apart(e, f) == RangeOf(e).pages \intersect RangeOf(f).pages = {}

\* No range that is watched shares a page with another that may restore it.
ApartInv == \A e, f \in Watched(monitors) : e # f /\ Pending(e) /\ ~RangeOf(f).fired => Apart(e, f)

\* The ranges enable() has made so far are those of its request, watched by nobody else.
RequestInv ==
  Enabling => /\ Disjoint(call.request)
              /\ \A i \in DOMAIN ranges[call.mon] :
                   /\ i \in DOMAIN call.request /\ ~ranges[call.mon][i].fired
                   /\ ranges[call.mon][i].pages = PagesOf(call.request[i])
                   /\ \A p \in ranges[call.mon][i].pages : prot[p] = "none"

\* A range whose pages are about to be restored has fired, and the monitor a call has dealt with
\* is gone.
DoneInv ==
  /\ \A t \in Threads : thread[t].phase = "marked" => RangeOf(thread[t].range).fired
  /\ call.pc = "choosing" => call.mon \notin monitors \ freed

GuardInv == ApartInv /\ UnfiredStaysGuarded /\ RequestInv /\ DoneInv

--------------------------------------------------------------------------------
(* Types *)

LEMMA ConstantFacts ==
  /\ 0 \notin Monitors /\ Monitors \subseteq Nat /\ Pages \subseteq Nat
  /\ MaxMonitors \in Nat /\ RingSize \in Nat \ {0}
  /\ \A r : PagesOf(r) \subseteq Pages
  /\ \A i \in Nat : i % RingSize \in 0 .. RingSize - 1
BY MonitorConstants DEF Monitors, Pages, PagesOf

LEMMA RangesOfMonitor ==
  ASSUME TypeOK, NEW m \in Monitors
  PROVE  /\ ranges[m] \in Seq(WatchedRanges) /\ Len(ranges[m]) \in Nat
         /\ DOMAIN ranges[m] = 1 .. Len(ranges[m])
         /\ \A i \in DOMAIN ranges[m] : ranges[m][i] \in WatchedRanges
<1>1. ranges[m] \in Seq(WatchedRanges)
  BY DEF TypeOK
<1>2. QED
  BY <1>1, LenProperties, ElementOfSeq

LEMMA GuardsAre ==
  ASSUME TypeOK, NEW p, NEW e \in Guards(p)
  PROVE  /\ e.mon \in monitors /\ e.mon \in Monitors /\ e.at \in DOMAIN ranges[e.mon]
         /\ e \in Events /\ e = [mon |-> e.mon, at |-> e.at]
         /\ ~RangeOf(e).fired /\ p \in RangeOf(e).pages
<1>1. e \in Watched(monitors) /\ ~RangeOf(e).fired /\ p \in RangeOf(e).pages
  BY DEF Guards
<1>2. PICK m \in monitors : \E i \in DOMAIN ranges[m] : e = [mon |-> m, at |-> i]
  BY <1>1 DEF Watched
<1>3. PICK i \in DOMAIN ranges[m] : e = [mon |-> m, at |-> i]
  BY <1>2
<1>4. m \in Monitors
  BY DEF TypeOK
<1>5. i \in Nat \ {0}
  BY <1>4, RangesOfMonitor
<1>6. QED
  BY <1>1, <1>3, <1>4, <1>5 DEF Events
--------------------------------------------------------------------------------
(* A step of the script's call keeps the types *)

LEMMA IdleTypes ==
  /\ Idle \in Calls /\ Idle.pc = "idle" /\ Idle.mon = 0
  /\ Running \in ThreadStates /\ Running.phase = "running"
BY ConstantFacts DEF Idle, Calls, Running, ThreadStates

\* A step that leaves the handlers and the ranges alone: what it makes of the call counts.
LEMMA CallTypes ==
  ASSUME TypeInv, UNCHANGED <<ranges, thread, slots, writeIdx, overrun, recorded>>,
         prot' \in [Pages -> {"rw", "none"}],
         monitors' \subseteq Monitors, freed' \subseteq Monitors, registered' \subseteq Monitors,
         nextMonId' \in 1 .. MaxMonitors + 1, mutex' \in BOOLEAN, readIdx' \in Nat,
         call' \in Calls, CallInv', reported' \in Seq(Events)
  PROVE  TypeInv'
BY DEF TypeInv, TypeOK, ClaimInv

LEMMA EnableTypes ==
  ASSUME TypeInv, NEW request \in Requests, Enable(request)
  PROVE  TypeInv'
<1>1. /\ nextMonId \in Monitors /\ nextMonId' = nextMonId + 1
      /\ call' = [Idle EXCEPT !.pc = IF request = <<>> THEN "registering" ELSE "protecting",
                              !.mon = nextMonId, !.at = 1, !.request = request]
  BY MonitorConstants DEF Enable, TypeInv, TypeOK, Monitors
<1>2. call' \in Calls
  BY <1>1, IdleTypes DEF Calls
<1>3. request # <<>> => 1 \in DOMAIN request
  BY MonitorConstants
<1>4. CallInv'
  BY <1>1, <1>3, IdleTypes DEF CallInv, Calls
<1>5. nextMonId' \in 1 .. MaxMonitors + 1
  BY <1>1, ConstantFacts DEF Monitors
<1>6. QED
  BY <1>2, <1>4, <1>5, CallTypes DEF Enable, TypeInv, TypeOK, ringVars, historyVars

LEMMA RequestFacts ==
  ASSUME TypeInv
  PROVE  Len(call.request) \in Nat /\ DOMAIN call.request = 1 .. Len(call.request)
<1>1. call.request \in Requests \union {<<>>}
  BY DEF TypeInv, TypeOK, Calls
<1>2. <<>> \in Seq([addr : Nat, size : Nat])
  OBVIOUS
<1>3. call.request \in Seq([addr : Nat, size : Nat])
  BY <1>1, <1>2, MonitorConstants
<1>4. QED
  BY <1>3, LenProperties

LEMMA ProtectTypes ==
  ASSUME TypeInv, ProtectRange
  PROVE  /\ TypeInv'
         /\ LET m == call.mon
                r == [pages |-> PagesOf(call.request[call.at]), fired |-> FALSE]
            IN /\ ranges'[m] = Append(ranges[m], r)
               /\ Len(ranges'[m]) = Len(ranges[m]) + 1
               /\ ranges'[m][Len(ranges[m]) + 1] = r
               /\ DOMAIN ranges'[m] = DOMAIN ranges[m] \union {Len(ranges[m]) + 1}
               /\ \A i \in DOMAIN ranges[m] : ranges'[m][i] = ranges[m][i]
               /\ \A n \in Monitors \ {m} : ranges'[n] = ranges[n]
<1> DEFINE m == call.mon
           r == [pages |-> PagesOf(call.request[call.at]), fired |-> FALSE]
<1>1. /\ m \in Monitors /\ ranges' = [ranges EXCEPT ![m] = Append(@, r)]
      /\ call.at \in DOMAIN call.request /\ call.at \in Nat
      /\ prot' = [p \in Pages |-> IF p \in PagesOf(call.request[call.at]) THEN "none" ELSE prot[p]]
      /\ call' = IF call.at < Len(call.request) THEN [call EXCEPT !.at = @ + 1]
                 ELSE [call EXCEPT !.pc = "registering"]
  BY DEF ProtectRange, Ready, TypeInv, TypeOK, CallInv, Calls
<1>2. r \in WatchedRanges
  BY ConstantFacts DEF WatchedRanges
<1>3. /\ Append(ranges[m], r) \in Seq(WatchedRanges)
      /\ Len(Append(ranges[m], r)) = Len(ranges[m]) + 1
      /\ Append(ranges[m], r)[Len(ranges[m]) + 1] = r
      /\ \A i \in 1 .. Len(ranges[m]) : Append(ranges[m], r)[i] = ranges[m][i]
  BY <1>1, <1>2, RangesOfMonitor, AppendProperties DEF TypeInv
<1>4. /\ ranges'[m] = Append(ranges[m], r)
      /\ \A n \in Monitors \ {m} : ranges'[n] = ranges[n]
      /\ ranges' \in [Monitors -> Seq(WatchedRanges)]
  BY <1>1, <1>3 DEF TypeInv, TypeOK
<1>5. /\ DOMAIN ranges[m] = 1 .. Len(ranges[m]) /\ Len(ranges[m]) \in Nat
      /\ DOMAIN ranges'[m] = 1 .. Len(ranges[m]) + 1
  BY <1>1, <1>3, <1>4, RangesOfMonitor, LenProperties DEF TypeInv
<1>6. /\ call' \in Calls /\ call'.pc \in {"protecting", "registering"} /\ call'.mon = m
      /\ call'.pc = "protecting" => call'.at \in DOMAIN call'.request
  <2>1. Len(call.request) \in Nat /\ DOMAIN call.request = 1 .. Len(call.request)
    BY RequestFacts
  <2>2. CASE call.at < Len(call.request)
    <3>1. call' = [call EXCEPT !.at = call.at + 1] /\ call.pc = "protecting"
      BY <1>1, <2>2 DEF ProtectRange, Ready
    <3>2. call \in Calls /\ call.at + 1 \in Nat
      BY <1>1 DEF TypeInv, TypeOK
    <3>3. /\ call' \in Calls /\ call'.pc = "protecting" /\ call'.mon = m
          /\ call'.at = call.at + 1 /\ call'.request = call.request
      BY <3>1, <3>2 DEF Calls
    <3>4. call.at + 1 \in DOMAIN call.request
      BY <1>1, <2>1, <2>2
    <3>5. QED
      BY <3>3, <3>4
  <2>3. CASE ~(call.at < Len(call.request))
    BY <1>1, <2>1, <2>3 DEF TypeInv, TypeOK, Calls
  <2>4. QED
    BY <2>2, <2>3
<1>7. CallInv'
  <2>1. m \in Monitors
    BY <1>1
  <2>2. QED
    BY <2>1, <1>6 DEF CallInv
<1>8. prot' \in [Pages -> {"rw", "none"}]
  BY <1>1 DEF TypeInv, TypeOK
<1>9. ClaimInv'
  <2>1. \A n \in Monitors : DOMAIN ranges[n] \subseteq DOMAIN ranges'[n]
    BY <1>4, <1>5
  <2>2. QED
    BY <2>1 DEF ProtectRange, TypeInv, ClaimInv
<1>10. TypeInv'
  <2>1. UNCHANGED <<monitors, freed, nextMonId, registered, mutex, slots, writeIdx, readIdx, thread,
                    recorded, reported, overrun>>
    BY DEF ProtectRange, ringVars, historyVars
  <2>2. TypeOK'
    BY <1>4, <1>6, <1>8, <2>1 DEF TypeInv, TypeOK
  <2>3. QED
    BY <1>7, <1>9, <2>2 DEF TypeInv
<1>11. QED
  BY <1>3, <1>4, <1>5, <1>10

\* The steps of a call that change nothing about a range.
LEMMA OtherCallTypes ==
  ASSUME TypeInv,
         \/ RegisterHandlers \/ Insert \/ TakeEvent \/ CallbackReturns \/ Advance \/ DrainEnds
         \/ Lock \/ ChooseMonitor \/ RestoreRange \/ UnregisterHandlers \/ Delete
         \/ DisableReturns \/ CallbackReenters
         \/ DrainPending \/ DisableAll \/ \E m \in Monitors : Disable(m)
  PROVE  TypeInv'
<1>0. Idle \in Calls /\ Idle.pc = "idle" /\ Idle.mon = 0 /\ Draining \in Calls
      /\ Draining.pc = "draining" /\ Draining.mon = 0
  BY IdleTypes DEF Draining, Calls, TypeInv, TypeOK
<1>a. call \in Calls /\ CallInv /\ monitors \subseteq Monitors
  BY DEF TypeInv, TypeOK
<1>1. CASE DrainPending \/ DisableAll \/ \E m \in Monitors : Disable(m)
  <2>1. \/ call' = Draining \/ call' = [Draining EXCEPT !.all = TRUE]
        \/ \E m \in Monitors : call' = [Draining EXCEPT !.todo = {m}]
    BY <1>1 DEF DrainPending, DisableAll, Disable
  <2>2. call' \in Calls /\ call'.pc = "draining" /\ call'.mon = 0
    <3>1. CASE call' = Draining
      BY <1>0, <3>1
    <3>2. CASE call' = [Draining EXCEPT !.all = TRUE]
      BY <1>0, <3>2 DEF Calls
    <3>3. ASSUME NEW m \in Monitors, call' = [Draining EXCEPT !.todo = {m}]
          PROVE  call' \in Calls /\ call'.pc = "draining" /\ call'.mon = 0
      BY <1>0, <3>3 DEF Calls
    <3>4. QED
      BY <2>1, <3>1, <3>2, <3>3
  <2>3. CallInv'
    BY <2>2 DEF CallInv
  <2>4. QED
    BY <1>1, <2>2, <2>3, CallTypes DEF DrainPending, DisableAll, Disable, TypeInv, TypeOK,
       monitorVars, ringVars, historyVars
<1>2. CASE RegisterHandlers \/ Insert
  <2>1. call.mon \in Monitors
    BY <1>a, <1>2 DEF RegisterHandlers, Insert, Ready, CallInv
  <2>2. call' \in Calls /\ CallInv'
    <3>1. CASE call' = Idle
      BY <1>0, <3>1 DEF CallInv
    <3>2. CASE call' = [call EXCEPT !.pc = "inserting"]
      <4>1. call' \in Calls /\ call'.pc = "inserting" /\ call'.mon = call.mon
        BY <1>a, <3>2 DEF Calls
      <4>2. QED
        BY <2>1, <4>1 DEF CallInv
    <3>3. QED
      BY <1>2, <3>1, <3>2 DEF RegisterHandlers, Insert
  <2>3. QED
    BY <1>2, <2>1, <2>2, CallTypes DEF RegisterHandlers, Insert, TypeInv, TypeOK, ringVars,
       historyVars
<1>3. CASE TakeEvent
  <2>1. call' \in Calls /\ CallInv'
    <3>1. call' = [call EXCEPT !.pc = "callback"] \/ call' = [call EXCEPT !.pc = "advancing"]
      BY <1>3 DEF TakeEvent
    <3>2. call.mon = 0
      BY <1>a, <1>3 DEF TakeEvent, Ready, CallInv
    <3>3. call' \in Calls /\ call'.mon = 0 /\ call'.pc \in {"callback", "advancing"}
      BY <1>a, <3>1, <3>2 DEF Calls
    <3>4. QED
      BY <3>3 DEF CallInv
  <2>2. Slot \in [ready : BOOLEAN, event : Events \union {NoEvent}]
    BY ConstantFacts DEF Slot, TypeInv, TypeOK, Calls
  <2>3. Slot.event.mon \in monitors => Slot.event \in Events
    BY <2>2, ConstantFacts DEF NoEvent, TypeInv, TypeOK
  <2>4. reported' \in Seq(Events)
    <3>1. CASE reported' = Append(reported, Slot.event) /\ Slot.event \in Events
      BY <3>1, AppendProperties DEF TypeInv, TypeOK
    <3>2. CASE reported' = reported
      BY <3>2 DEF TypeInv, TypeOK
    <3>3. QED
      BY <1>3, <2>3, <3>1, <3>2 DEF TakeEvent
  <2>5. QED
    BY <1>3, <2>1, <2>4, CallTypes DEF TakeEvent, TypeInv, TypeOK, monitorVars, ringVars
<1>4. CASE CallbackReturns \/ CallbackReenters \/ DrainEnds
  <2>1. call.mon = 0
    BY <1>a, <1>4 DEF CallbackReturns, CallbackReenters, DrainEnds, Ready, CallInv
  <2>2. call' \in Calls /\ CallInv'
    <3>1. CASE call' = Idle
      BY <1>0, <3>1 DEF CallInv
    <3>2. ASSUME NEW pc \in {"advancing", "locking"}, call' = [call EXCEPT !.pc = pc]
          PROVE  call' \in Calls /\ CallInv'
      <4>1. call' \in Calls /\ call'.pc = pc /\ call'.mon = 0
        BY <1>a, <2>1, <3>2 DEF Calls
      <4>2. QED
        BY <4>1 DEF CallInv
    <3>3. QED
      BY <1>4, <3>1, <3>2 DEF CallbackReturns, CallbackReenters, DrainEnds
  <2>3. QED
    BY <1>4, <2>2, CallTypes DEF CallbackReturns, CallbackReenters, DrainEnds,
       TypeInv, TypeOK, monitorVars, ringVars, historyVars
<1>5. CASE Lock
  <2>1. PICK todo \in SUBSET Monitors : call' = [call EXCEPT !.pc = "choosing", !.todo = todo]
    BY <1>a, <1>5 DEF Lock
  <2>2. call' \in Calls /\ call'.pc = "choosing"
    BY <1>a, <2>1 DEF Calls
  <2>3. CallInv'
    BY <2>2 DEF CallInv
  <2>4. QED
    BY <1>5, <2>2, <2>3, CallTypes DEF Lock, TypeInv, TypeOK, monitorVars, ringVars, historyVars
<1>6. CASE ChooseMonitor
  <2>1. PICK m \in call.todo : call' = [call EXCEPT !.pc = "restoring", !.mon = m, !.at = 1]
    BY <1>6 DEF ChooseMonitor
  <2>2. m \in Monitors
    BY <1>a DEF Calls
  <2>3. call' \in Calls /\ call'.pc = "restoring" /\ call'.mon = m /\ call'.at = 1
    BY <1>a, <2>1, <2>2 DEF Calls
  <2>4. CallInv'
    BY <2>2, <2>3 DEF CallInv
  <2>5. QED
    BY <1>6, <2>3, <2>4, CallTypes DEF ChooseMonitor, TypeInv, TypeOK, monitorVars, ringVars,
       historyVars
<1>7. CASE UnregisterHandlers
  <2>1. call' = [call EXCEPT !.pc = "deleting"] /\ call.pc = "restoring"
    BY <1>7 DEF UnregisterHandlers, Ready
  <2>2. call' \in Calls /\ call'.pc = "deleting" /\ call'.mon = call.mon /\ call'.at = call.at
    BY <1>a, <2>1 DEF Calls
  <2>3. CallInv'
    BY <1>a, <2>1, <2>2 DEF CallInv
  <2>4. QED
    BY <1>7, <2>2, <2>3, CallTypes DEF UnregisterHandlers, TypeInv, TypeOK, ringVars, historyVars
<1>8. CASE Delete
  <2>1. PICK todo \in SUBSET Monitors : call' = [call EXCEPT !.pc = "choosing", !.todo = todo]
    BY <1>a, <1>8 DEF Delete, Calls
  <2>2. call' \in Calls /\ call'.pc = "choosing"
    BY <1>a, <2>1 DEF Calls
  <2>3. CallInv' /\ call.mon \in Monitors
    BY <1>a, <1>8, <2>2 DEF CallInv, Delete, Ready
  <2>4. QED
    BY <1>8, <2>2, <2>3, CallTypes DEF Delete, TypeInv, TypeOK, ringVars, historyVars
<1>9. CASE DisableReturns
  <2>1. call' \in Calls /\ CallInv'
    BY <1>0, <1>9 DEF DisableReturns, CallInv
  <2>2. QED
    BY <1>9, <2>1, CallTypes DEF DisableReturns, TypeInv, TypeOK, ringVars, historyVars
<1>10. CASE RestoreRange
  <2>1. call' = [call EXCEPT !.at = call.at + 1] /\ call.pc = "restoring"
    BY <1>10 DEF RestoreRange, Ready
  <2>2. /\ call' \in Calls /\ call'.pc = "restoring" /\ call'.mon = call.mon
        /\ call'.at = call.at + 1
    BY <1>a, <2>1 DEF Calls
  <2>3. CallInv'
    BY <1>a, <2>1, <2>2 DEF CallInv
  <2>4. prot' \in [Pages -> {"rw", "none"}]
    BY <1>10 DEF RestoreRange, TypeInv, TypeOK
  <2>5. QED
    BY <1>10, <2>2, <2>3, <2>4, CallTypes DEF RestoreRange, TypeInv, TypeOK, monitorVars, ringVars,
       historyVars
<1>11. CASE Advance
  <2>1. /\ call' = [call EXCEPT !.pc = "draining", !.read = call.read + 1]
        /\ call.pc = "advancing" /\ readIdx' = call.read + 1
    BY <1>11 DEF Advance, Ready
  <2>2. call.read + 1 \in Nat
    BY <1>a DEF Calls
  <2>b. call' \in Calls /\ call'.pc = "draining" /\ call'.mon = call.mon /\ readIdx' \in Nat
    BY <1>a, <2>1, <2>2 DEF Calls
  <2>3. CallInv'
    BY <1>a, <2>1, <2>b DEF CallInv
  <2>4. slots' \in [0 .. RingSize - 1 -> [ready : BOOLEAN, event : Events \union {NoEvent}]]
    BY <1>11 DEF Advance, TypeInv, TypeOK
  <2>5. QED
    BY <1>11, <2>b, <2>3, <2>4 DEF Advance, TypeInv, TypeOK, ClaimInv, monitorVars, historyVars
<1>12. QED
  BY <1>1, <1>2, <1>3, <1>4, <1>5, <1>6, <1>7, <1>8, <1>9, <1>10, <1>11

LEMMA ThrowTypes ==
  ASSUME TypeInv, AddressThrows
  PROVE  TypeInv'
<1>1. Idle \in Calls /\ Idle.pc = "idle" /\ Idle.mon = 0
  BY IdleTypes
<1>2. call' \in Calls /\ CallInv'
  BY <1>1 DEF AddressThrows, CallInv
<1>3. QED
  BY <1>2, CallTypes DEF AddressThrows, TypeInv, TypeOK, monitorVars, ringVars, historyVars
--------------------------------------------------------------------------------
(* A step of a handler keeps the types *)

\* One thread changes to d, and of the ranges at most one goes from unfired to fired.
LEMMA HandlerTypes ==
  ASSUME TypeInv, NEW t \in Threads, NEW d \in ThreadStates, thread' = [thread EXCEPT ![t] = d],
         d.phase = "scanning" => d.runs > 0,
         d.phase \in Claimed => d.range.mon \in Monitors /\ d.range.at \in DOMAIN ranges[d.range.mon],
         UNCHANGED <<monitors, freed, nextMonId, registered, mutex, readIdx, call, reported>>,
         prot' \in [Pages -> {"rw", "none"}], ranges' \in [Monitors -> Seq(WatchedRanges)],
         \A m \in Monitors : DOMAIN ranges'[m] = DOMAIN ranges[m],
         slots' \in [0 .. RingSize - 1 -> [ready : BOOLEAN, event : Events \union {NoEvent}]],
         writeIdx' \in Nat, recorded' \in Seq(Events), overrun' \in BOOLEAN
  PROVE  TypeInv'
<1>1. thread' \in [Threads -> ThreadStates]
  BY DEF TypeInv, TypeOK
<1>2. TypeOK'
  BY <1>1 DEF TypeInv, TypeOK
<1>3. CallInv'
  BY DEF TypeInv, CallInv
<1>4. ClaimInv'
  <2>1. \A u \in Threads : thread'[u] = IF u = t THEN d ELSE thread[u]
    BY DEF TypeInv, TypeOK
  <2>2. QED
    BY <2>1 DEF TypeInv, ClaimInv
<1>5. QED
  BY <1>2, <1>3, <1>4 DEF TypeInv

\* A handler goes on to a phase; its page, range and slot stay.
Others(t) == \A u \in Threads \ {t} : thread'[u] = thread[u]

Moves(t, phase) ==
  /\ Others(t) /\ thread'[t].phase = phase /\ thread'[t].page = thread[t].page
  /\ thread'[t].range = thread[t].range /\ thread'[t].slot = thread[t].slot

LEMMA PhaseStep ==
  ASSUME TypeInv, NEW t \in Threads,
         NEW phase \in {"running", "entered", "scanning", "found", "marked", "restored",
                        "reserved", "written", "killed"},
         thread' = [thread EXCEPT ![t].phase = phase]
  PROVE  /\ Moves(t, phase)
         /\ \E d \in ThreadStates : /\ thread' = [thread EXCEPT ![t] = d]
                                    /\ d.phase = phase /\ d.range = thread[t].range
<1> DEFINE d == [thread[t] EXCEPT !.phase = phase]
<1>1. thread \in [Threads -> ThreadStates] /\ thread[t] \in ThreadStates
  BY DEF TypeInv, TypeOK
<1>2. /\ d \in ThreadStates /\ d.phase = phase /\ d.page = thread[t].page
      /\ d.range = thread[t].range /\ d.slot = thread[t].slot
  BY <1>1 DEF ThreadStates
<1>3. thread' = [thread EXCEPT ![t] = d]
  BY <1>1
<1> HIDE DEF d
<1>4. thread'[t] = d /\ Others(t)
  BY <1>1, <1>3 DEF Others
<1>5. QED
  BY <1>2, <1>3, <1>4 DEF Moves

LEMMA TouchStep ==
  ASSUME TypeInv, NEW t \in Threads, NEW p \in Pages, Touch(t, p)
  PROVE  /\ TypeInv' /\ Others(t)
         /\ thread'[t].phase = "entered" /\ thread'[t].page = p /\ thread'[t].range = NoEvent
<1> DEFINE d == [Running EXCEPT !.phase = "entered", !.page = p]
<1>0. Running \in ThreadStates /\ Running.range = NoEvent
  BY IdleTypes DEF Running
<1>1. d \in ThreadStates /\ d.phase = "entered" /\ d.page = p /\ d.range = NoEvent
  BY <1>0 DEF ThreadStates
<1>2. thread' = [thread EXCEPT ![t] = d]
  BY DEF Touch
<1> HIDE DEF d
<1>3. thread'[t] = d /\ Others(t)
  BY <1>2 DEF TypeInv, TypeOK, Others
<1>4. TypeInv'
  BY <1>1, <1>2, HandlerTypes DEF Touch, TypeInv, TypeOK, Claimed, monitorVars, ringVars, historyVars
<1>5. QED
  BY <1>1, <1>3, <1>4

LEMMA CopyChainStep ==
  ASSUME TypeInv, NEW t \in Threads, CopyChain(t)
  PROVE  TypeInv' /\ Moves(t, IF registered = {} THEN "killed" ELSE "scanning")
<1> DEFINE phase == IF registered = {} THEN "killed" ELSE "scanning"
           d == [thread[t] EXCEPT !.runs = Cardinality(registered), !.phase = phase]
<1>1. IsFiniteSet(registered)
  <2>1. registered \subseteq 1 .. MaxMonitors /\ MaxMonitors \in Nat
    BY ConstantFacts DEF TypeInv, TypeOK, Monitors
  <2>2. IsFiniteSet(1 .. MaxMonitors)
    BY <2>1, FS_Interval
  <2>3. QED
    BY <2>1, <2>2, FS_Subset
<1>2. Cardinality(registered) \in Nat /\ (registered # {} => Cardinality(registered) > 0)
  BY <1>1, FS_CardinalityType, FS_EmptySet
<1>3. thread \in [Threads -> ThreadStates] /\ thread[t] \in ThreadStates
  BY DEF TypeInv, TypeOK
<1>4. /\ d \in ThreadStates /\ d.phase = phase /\ d.runs = Cardinality(registered)
      /\ d.page = thread[t].page /\ d.range = thread[t].range /\ d.slot = thread[t].slot
  BY <1>2, <1>3 DEF ThreadStates
<1>5. thread' = [thread EXCEPT ![t] = d]
  BY <1>3 DEF CopyChain
<1>6. (d.phase = "scanning" => d.runs > 0) /\ d.phase \notin Claimed
  BY <1>2, <1>4 DEF Claimed
<1> HIDE DEF d, phase
<1>7. Moves(t, phase)
  BY <1>3, <1>4, <1>5 DEF Moves, Others
<1>8. TypeInv'
  BY <1>4, <1>5, <1>6, HandlerTypes DEF CopyChain, TypeInv, TypeOK, monitorVars, ringVars, historyVars
<1>9. QED
  BY <1>7, <1>8 DEF phase

LEMMA FoundStep ==
  ASSUME TypeInv, NEW t \in Threads, Found(t)
  PROVE  /\ TypeInv' /\ Others(t) /\ thread[t].phase = "scanning"
         /\ thread'[t].phase = "found" /\ thread'[t].page = thread[t].page
         /\ thread'[t].range \in Guards(thread[t].page)
<1>1. PICK e \in Guards(thread[t].page) :
        thread' = [thread EXCEPT ![t].phase = "found", ![t].range = e]
  BY DEF Found
<1> DEFINE d == [thread[t] EXCEPT !.phase = "found", !.range = e]
<1>2. thread \in [Threads -> ThreadStates] /\ thread[t] \in ThreadStates
  BY DEF TypeInv, TypeOK
<1>3. e \in Events /\ e.mon \in Monitors /\ e.at \in DOMAIN ranges[e.mon]
  BY GuardsAre DEF TypeInv
<1>4. d \in ThreadStates /\ d.phase = "found" /\ d.range = e /\ d.page = thread[t].page
  BY <1>2, <1>3 DEF ThreadStates
<1>5. thread' = [thread EXCEPT ![t] = d]
  BY <1>1, <1>2
<1> HIDE DEF d
<1>6. thread'[t] = d /\ Others(t)
  BY <1>2, <1>5 DEF Others
<1>7. TypeInv'
  BY <1>3, <1>4, <1>5, HandlerTypes DEF Found, TypeInv, TypeOK, monitorVars, ringVars, historyVars
<1>8. QED
  BY <1>4, <1>6, <1>7 DEF Found

LEMMA NotFoundStep ==
  ASSUME TypeInv, NEW t \in Threads, NotFound(t)
  PROVE  /\ TypeInv' /\ Moves(t, IF thread[t].runs = 1 THEN "killed" ELSE "scanning")
         /\ thread[t].phase = "scanning"
<1> DEFINE phase == IF thread[t].runs = 1 THEN "killed" ELSE "scanning"
           runs == thread[t].runs - 1
           d == [thread[t] EXCEPT !.runs = runs, !.phase = phase]
<1>1. thread[t].runs > 0 /\ thread[t].phase = "scanning"
  BY DEF NotFound, TypeInv, ClaimInv
<1>2. thread \in [Threads -> ThreadStates] /\ thread[t] \in ThreadStates
  BY DEF TypeInv, TypeOK
<1>3. thread[t].runs \in Nat
  BY <1>2 DEF ThreadStates
<1>4. runs \in Nat /\ (phase = "scanning" => runs > 0)
  BY <1>1, <1>3
<1>5. thread' = [thread EXCEPT ![t] = d]
  BY <1>1, <1>2 DEF NotFound
<1>6. phase \in {"scanning", "killed"}
  OBVIOUS
<1> HIDE DEF runs, phase
<1>7. /\ d \in ThreadStates /\ d.phase = phase /\ d.runs = runs
      /\ d.page = thread[t].page /\ d.range = thread[t].range /\ d.slot = thread[t].slot
  BY <1>2, <1>4, <1>6 DEF ThreadStates
<1> HIDE DEF d
<1>8. Moves(t, phase)
  BY <1>2, <1>5, <1>7 DEF Moves, Others
<1>9. d.phase \notin Claimed
  BY <1>6, <1>7 DEF Claimed
<1>10. TypeInv'
  BY <1>4, <1>5, <1>7, <1>9, HandlerTypes
  DEF NotFound, TypeInv, TypeOK, monitorVars, ringVars, historyVars
<1>11. QED
  BY <1>1, <1>8, <1>10 DEF phase

LEMMA DanglingStep ==
  ASSUME TypeInv, NEW t \in Threads, DanglingEntry(t)
  PROVE  TypeInv' /\ Moves(t, "killed")
<1>0. thread' = [thread EXCEPT ![t].phase = "killed"]
  BY DEF DanglingEntry
<1>1. PICK d \in ThreadStates : /\ thread' = [thread EXCEPT ![t] = d]
                                /\ d.phase = "killed" /\ d.range = thread[t].range
  BY <1>0, PhaseStep
<1>2. d.phase \notin Claimed /\ d.phase # "scanning"
  BY <1>1 DEF Claimed
<1>3. TypeInv'
  BY <1>1, <1>2, HandlerTypes DEF DanglingEntry, TypeInv, TypeOK, monitorVars, ringVars, historyVars
<1>4. QED
  BY <1>3, PhaseStep DEF DanglingEntry

\* The range a handler claims fires; no other is touched.
Fires(e) ==
  /\ \A m \in Monitors : DOMAIN ranges'[m] = DOMAIN ranges[m]
  /\ \A m \in Monitors : \A i \in DOMAIN ranges[m] :
       /\ ranges'[m][i].pages = ranges[m][i].pages
       /\ ranges'[m][i].fired = IF m = e.mon /\ i = e.at THEN TRUE ELSE ranges[m][i].fired

LEMMA MarkFiredStep ==
  ASSUME TypeInv, NEW t \in Threads, MarkFired(t)
  PROVE  /\ TypeInv' /\ thread[t].phase = "found" /\ Moves(t, "marked")
         /\ Fires(thread[t].range)
<1> DEFINE m == thread[t].range.mon
           i == thread[t].range.at
           r == [ranges[m][i] EXCEPT !.fired = TRUE]
<1>1. thread[t].phase = "found" /\ thread' = [thread EXCEPT ![t].phase = "marked"]
  BY DEF MarkFired
<1>2. m \in Monitors /\ i \in DOMAIN ranges[m]
  BY <1>1 DEF TypeInv, ClaimInv, Claimed
<1>3. /\ ranges[m] \in Seq(WatchedRanges) /\ DOMAIN ranges[m] = 1 .. Len(ranges[m])
      /\ ranges[m][i] \in WatchedRanges
  BY <1>2, RangesOfMonitor DEF TypeInv
<1>4. r \in WatchedRanges /\ r.pages = ranges[m][i].pages /\ r.fired = TRUE
  BY <1>3 DEF WatchedRanges
<1>5. ranges' = [ranges EXCEPT ![m] = [ranges[m] EXCEPT ![i] = r]]
  BY <1>2 DEF MarkFired, TypeInv, TypeOK
<1> HIDE DEF r
<1> DEFINE s == [ranges[m] EXCEPT ![i] = r]
<1>6. /\ s \in Seq(WatchedRanges) /\ Len(s) = Len(ranges[m])
      /\ \A j \in DOMAIN ranges[m] : s[j] = IF j = i THEN r ELSE ranges[m][j]
  <2> HIDE DEF m, i
  <2>1. PICK q : q = ranges[m]
    OBVIOUS
  <2>2. q \in Seq(WatchedRanges) /\ i \in 1 .. Len(q)
    BY <1>2, <1>3, <2>1
  <2>3. /\ [q EXCEPT ![i] = r] \in Seq(WatchedRanges) /\ Len([q EXCEPT ![i] = r]) = Len(q)
        /\ \A j \in 1 .. Len(q) : [q EXCEPT ![i] = r][j] = IF j = i THEN r ELSE q[j]
    BY <1>4, <2>2
  <2>4. QED
    BY <1>3, <2>1, <2>3
<1>7. DOMAIN s = DOMAIN ranges[m]
  BY <1>3
<1> HIDE DEF s
<1>8. /\ ranges' \in [Monitors -> Seq(WatchedRanges)] /\ ranges'[m] = s
      /\ \A n \in Monitors \ {m} : ranges'[n] = ranges[n]
  BY <1>2, <1>5, <1>6 DEF TypeInv, TypeOK, s
<1>9. \A n \in Monitors : DOMAIN ranges'[n] = DOMAIN ranges[n]
  BY <1>7, <1>8
<1>10. Fires(thread[t].range)
  BY <1>4, <1>6, <1>8, <1>9 DEF Fires
<1>11. PICK d \in ThreadStates : /\ thread' = [thread EXCEPT ![t] = d]
                                 /\ d.phase = "marked" /\ d.range = thread[t].range
  BY <1>1, PhaseStep
<1>12. TypeInv'
  BY <1>2, <1>8, <1>9, <1>11, HandlerTypes
  DEF MarkFired, TypeInv, TypeOK, ringVars, historyVars
<1>13. QED
  BY <1>1, <1>10, <1>12, PhaseStep

LEMMA RestorePagesStep ==
  ASSUME TypeInv, NEW t \in Threads, RestorePages(t)
  PROVE  TypeInv' /\ thread[t].phase = "marked" /\ Moves(t, "restored")
<1>1. thread[t].phase = "marked" /\ thread' = [thread EXCEPT ![t].phase = "restored"]
  BY DEF RestorePages
<1>2. thread[t].range.mon \in Monitors /\ thread[t].range.at \in DOMAIN ranges[thread[t].range.mon]
  BY <1>1 DEF TypeInv, ClaimInv, Claimed
<1>3. PICK d \in ThreadStates : /\ thread' = [thread EXCEPT ![t] = d]
                                /\ d.phase = "restored" /\ d.range = thread[t].range
  BY <1>1, PhaseStep
<1>4. prot' \in [Pages -> {"rw", "none"}]
  BY DEF RestorePages, TypeInv, TypeOK
<1>5. TypeInv'
  BY <1>2, <1>3, <1>4, HandlerTypes
  DEF RestorePages, TypeInv, TypeOK, monitorVars, ringVars, historyVars
<1>6. QED
  BY <1>1, <1>5, PhaseStep

\* The slot is that of the access's place in the record.
LEMMA ReserveSlotStep ==
  ASSUME TypeInv, NEW t \in Threads, ReserveSlot(t)
  PROVE  /\ TypeInv' /\ Others(t) /\ thread[t].phase = "restored"
         /\ thread'[t].phase = "reserved" /\ thread'[t].page = thread[t].page
         /\ thread'[t].range = thread[t].range /\ thread'[t].slot = writeIdx % RingSize
         /\ Len(recorded') = Len(recorded) + 1 /\ recorded'[Len(recorded) + 1] = thread[t].range
         /\ \A i \in 1 .. Len(recorded) : recorded'[i] = recorded[i]
<1> DEFINE d == [thread[t] EXCEPT !.phase = "reserved", !.slot = writeIdx % RingSize]
<1>1. thread[t].phase = "restored"
  BY DEF ReserveSlot
<1>2. thread \in [Threads -> ThreadStates] /\ thread[t] \in ThreadStates
  BY DEF TypeInv, TypeOK
<1>3. thread[t].range.mon \in Monitors /\ thread[t].range.at \in DOMAIN ranges[thread[t].range.mon]
  BY <1>1 DEF TypeInv, ClaimInv, Claimed
<1>a. writeIdx \in Nat
  BY DEF TypeInv, TypeOK
<1>4. writeIdx % RingSize \in 0 .. RingSize - 1 /\ writeIdx + 1 \in Nat
  BY <1>a, ConstantFacts
<1>5. /\ d \in ThreadStates /\ d.phase = "reserved" /\ d.slot = writeIdx % RingSize
      /\ d.page = thread[t].page /\ d.range = thread[t].range
  BY <1>2, <1>4 DEF ThreadStates
<1>6. thread' = [thread EXCEPT ![t] = d]
  BY <1>2 DEF ReserveSlot
<1> HIDE DEF d
<1>7. thread'[t] = d /\ Others(t)
  BY <1>2, <1>6 DEF Others
<1>8. thread[t].range \in Events
  <2>1. thread[t].range \in Events \union {NoEvent}
    BY <1>2 DEF ThreadStates
  <2>2. thread[t].range # NoEvent
    BY <1>3, ConstantFacts DEF NoEvent
  <2>3. QED
    BY <2>1, <2>2
<1>9. /\ recorded' \in Seq(Events)
      /\ Len(recorded') = Len(recorded) + 1 /\ recorded'[Len(recorded) + 1] = thread[t].range
      /\ \A i \in 1 .. Len(recorded) : recorded'[i] = recorded[i]
  BY <1>8, AppendProperties DEF ReserveSlot, TypeInv, TypeOK
<1>10. overrun' \in BOOLEAN
  BY DEF ReserveSlot, TypeInv, TypeOK
<1>11. TypeInv'
  BY <1>3, <1>4, <1>5, <1>6, <1>9, <1>10, HandlerTypes
  DEF ReserveSlot, TypeInv, TypeOK, monitorVars
<1>12. QED
  BY <1>1, <1>5, <1>7, <1>9, <1>11

LEMMA WriteEventStep ==
  ASSUME TypeInv, NEW t \in Threads, WriteEvent(t)
  PROVE  /\ TypeInv' /\ thread[t].phase = "reserved" /\ Moves(t, "written")
         /\ thread[t].slot \in 0 .. RingSize - 1
         /\ \A s \in 0 .. RingSize - 1 :
              /\ slots'[s].ready = slots[s].ready
              /\ slots'[s].event = IF s = thread[t].slot THEN thread[t].range ELSE slots[s].event
<1>1. thread[t].phase = "reserved" /\ thread' = [thread EXCEPT ![t].phase = "written"]
  BY DEF WriteEvent
<1>2. thread[t].range.mon \in Monitors /\ thread[t].range.at \in DOMAIN ranges[thread[t].range.mon]
  BY <1>1 DEF TypeInv, ClaimInv, Claimed
<1>3. PICK d \in ThreadStates : /\ thread' = [thread EXCEPT ![t] = d]
                                /\ d.phase = "written" /\ d.range = thread[t].range
  BY <1>1, PhaseStep
<1>4. thread[t].slot \in 0 .. RingSize - 1 /\ thread[t].range \in Events \union {NoEvent}
  BY DEF TypeInv, TypeOK, ThreadStates
<1>5. slots' = [slots EXCEPT ![thread[t].slot].event = thread[t].range]
  BY DEF WriteEvent
<1>6. /\ slots' \in [0 .. RingSize - 1 -> [ready : BOOLEAN, event : Events \union {NoEvent}]]
      /\ \A s \in 0 .. RingSize - 1 :
           /\ slots'[s].ready = slots[s].ready
           /\ slots'[s].event = IF s = thread[t].slot THEN thread[t].range ELSE slots[s].event
  BY <1>4, <1>5 DEF TypeInv, TypeOK
<1>7. TypeInv'
  BY <1>2, <1>3, <1>6, HandlerTypes DEF WriteEvent, TypeInv, TypeOK, monitorVars, historyVars
<1>8. QED
  BY <1>1, <1>4, <1>6, <1>7, PhaseStep

LEMMA PublishStep ==
  ASSUME TypeInv, NEW t \in Threads, Publish(t)
  PROVE  /\ TypeInv' /\ thread[t].phase = "written" /\ Others(t) /\ thread'[t] = Running
         /\ thread[t].slot \in 0 .. RingSize - 1
         /\ \A s \in 0 .. RingSize - 1 :
              /\ slots'[s].ready = IF s = thread[t].slot THEN TRUE ELSE slots[s].ready
              /\ slots'[s].event = slots[s].event
<1>1. thread[t].phase = "written" /\ thread' = [thread EXCEPT ![t] = Running]
  BY DEF Publish
<1>2. thread[t].slot \in 0 .. RingSize - 1
  BY DEF TypeInv, TypeOK, ThreadStates
<1>3. slots' = [slots EXCEPT ![thread[t].slot].ready = TRUE]
  BY DEF Publish
<1>4. /\ slots' \in [0 .. RingSize - 1 -> [ready : BOOLEAN, event : Events \union {NoEvent}]]
      /\ \A s \in 0 .. RingSize - 1 :
           /\ slots'[s].ready = IF s = thread[t].slot THEN TRUE ELSE slots[s].ready
           /\ slots'[s].event = slots[s].event
  BY <1>2, <1>3 DEF TypeInv, TypeOK
<1>5. Others(t) /\ thread'[t] = Running
  BY <1>1 DEF Others, TypeInv, TypeOK
<1>6. Running.phase \notin Claimed /\ Running.phase # "scanning"
  BY IdleTypes DEF Claimed
<1>7. TypeInv'
  BY ZenonT(30), <1>1, <1>4, <1>6, IdleTypes, HandlerTypes
  DEF Publish, TypeInv, TypeOK, monitorVars, historyVars
<1>8. QED
  BY <1>1, <1>2, <1>4, <1>5, <1>7

LEMMA TypesInitially == Init => TypeInv
<1> SUFFICES ASSUME Init PROVE TypeInv
  OBVIOUS
<1>1. ranges \in [Monitors -> Seq(WatchedRanges)] /\ recorded \in Seq(Events) /\ reported \in Seq(Events)
  BY EmptySeq DEF Init
<1>2. slots \in [0 .. RingSize - 1 -> [ready : BOOLEAN, event : Events \union {NoEvent}]]
  BY DEF Init
<1>3. call \in Calls /\ thread \in [Threads -> ThreadStates]
  BY IdleTypes DEF Init
<1>a. nextMonId \in 1 .. MaxMonitors + 1
  BY ConstantFacts DEF Init
<1>b. prot \in [Pages -> {"rw", "none"}]
  BY DEF Init
<1>4. TypeOK
  BY <1>1, <1>2, <1>3, <1>a, <1>b DEF Init, TypeOK
<1>5. CallInv /\ ClaimInv
  BY IdleTypes DEF Init, CallInv, ClaimInv, Claimed
<1>6. QED
  BY <1>4, <1>5 DEF TypeInv

\* Every variable has its type, whoever calls the API and whenever.
THEOREM TypesHold == Spec => []TypeInv
<1>1. TypeInv /\ [Next]_vars => TypeInv'
  <2> SUFFICES ASSUME TypeInv, [Next]_vars PROVE TypeInv'
    OBVIOUS
  <2>1. CASE UNCHANGED vars
    BY <2>1 DEF vars, monitorVars, ringVars, historyVars, TypeInv, TypeOK, CallInv, ClaimInv
  <2>2. ASSUME NEW t \in Threads, HandlerStep(t) \/ DanglingEntry(t)
        PROVE  TypeInv'
    BY <2>2, CopyChainStep, FoundStep, NotFoundStep, DanglingStep, MarkFiredStep, RestorePagesStep,
       ReserveSlotStep, WriteEventStep, PublishStep DEF HandlerStep
  <2>3. QED
    BY <2>1, <2>2, TouchStep, EnableTypes, ProtectTypes, OtherCallTypes, ThrowTypes DEF Next, CallStep
<1>2. QED
  BY <1>1, TypesInitially, PTL DEF Spec

\* The type invariant the runs check is part of it: protections, ranges, ring slots, the call
\* under way and the threads in the handler have theirs, and at most MaxMonitors are created.
THEOREM TypeCorrect == Spec => []TypeOK
<1>1. TypeInv => TypeOK
  BY DEF TypeInv
<1>2. QED
  BY <1>1, TypesHold, PTL
--------------------------------------------------------------------------------
(* Registered, watched and deleted *)

\* Steps of the handlers, and those of a call that only drains.
LEMMA RegistryUntouched ==
  ASSUME TypeInv, RegistryInv, UNCHANGED <<monitors, freed, registered, nextMonId>>,
         \A m \in Monitors : DOMAIN ranges'[m] = DOMAIN ranges[m],
         \/ call' = call /\ mutex' = mutex
         \/ /\ ~Enabling /\ ~Removing /\ call'.pc \in {"idle", "draining", "callback", "advancing", "locking"}
            /\ call'.pc \in {"idle", "draining", "advancing"} => ~mutex'
  PROVE  RegistryInv'
<1>1. CASE call' = call /\ mutex' = mutex
  <2>1. Enabling' = Enabling /\ Removing' = Removing
    BY <1>1 DEF Enabling, Removing
  <2>2. call.pc = "protecting" => DOMAIN ranges'[call.mon] = DOMAIN ranges[call.mon]
    BY DEF TypeInv, CallInv
  <2>3. QED
    BY <1>1, <2>1, <2>2 DEF RegistryInv
<1>2. CASE ~(call' = call /\ mutex' = mutex)
  <2>1. ~Enabling /\ ~Removing /\ ~Enabling' /\ ~Removing'
    BY <1>2 DEF Enabling, Removing
  <2>2. QED
    BY <1>2, <2>1 DEF RegistryInv, Enabling, Removing
<1>3. QED
  BY <1>1, <1>2

LEMMA RegistryHandlers ==
  ASSUME TypeInv, RegistryInv, NEW t \in Threads,
         HandlerStep(t) \/ DanglingEntry(t) \/ \E p \in Pages : Touch(t, p)
  PROVE  RegistryInv'
<1>1. UNCHANGED <<monitors, freed, registered, nextMonId, mutex, call>>
  BY DEF HandlerStep, DanglingEntry, Touch, CopyChain, Found, NotFound, MarkFired, RestorePages,
         ReserveSlot, WriteEvent, Publish, monitorVars
<1>2. \A m \in Monitors : DOMAIN ranges'[m] = DOMAIN ranges[m]
  <2>1. CASE MarkFired(t)
    BY <2>1, MarkFiredStep DEF Fires
  <2>2. CASE ~MarkFired(t)
    <3>1. ranges' = ranges
      BY <2>2 DEF HandlerStep, DanglingEntry, Touch, CopyChain, Found, NotFound, RestorePages,
         ReserveSlot, WriteEvent, Publish, monitorVars
    <3>2. QED
      BY <3>1
  <2>3. QED
    BY <2>1, <2>2
<1>3. QED
  BY <1>1, <1>2, RegistryUntouched

\* Where a step takes a call: mon, all and todo stay but where they are named.
Goes(from, to) ==
  /\ ScriptRuns /\ call.pc = from /\ call'.pc = to /\ call'.mon = call.mon /\ call'.at = call.at
  /\ call'.todo = call.todo /\ call'.all = call.all /\ call'.read = call.read
  /\ call'.limit = call.limit /\ call'.request = call.request

LEMMA PcStep ==
  ASSUME TypeInv, NEW from, NEW to, Ready(from), call' = [call EXCEPT !.pc = to]
  PROVE  Goes(from, to)
<1>1. call \in Calls
  BY DEF TypeInv, TypeOK
<1>2. QED
  BY <1>1 DEF Calls, Goes, Ready

IdleAgain == call' = Idle /\ call'.pc = "idle" /\ call'.mon = 0 /\ ~call'.all /\ call'.todo = {}

LEMMA IdleStep ==
  ASSUME call' = Idle
  PROVE  IdleAgain
BY DEF Idle, IdleAgain

LEMMA EnableStep ==
  ASSUME TypeInv, NEW request \in Requests, Enable(request)
  PROVE  /\ TypeInv' /\ call.pc = "idle" /\ ~mutex /\ mutex' = TRUE
         /\ call'.pc = IF request = <<>> THEN "registering" ELSE "protecting"
         /\ call'.mon = nextMonId /\ call'.at = 1 /\ call'.request = request
         /\ call'.todo = {} /\ ~call'.all
         /\ nextMonId' = nextMonId + 1 /\ nextMonId \in Monitors
         /\ UNCHANGED <<prot, ranges, monitors, freed, registered, slots, writeIdx, readIdx, thread,
                        recorded, reported, overrun>>
<1>1. call' = [Idle EXCEPT !.pc = IF request = <<>> THEN "registering" ELSE "protecting",
                           !.mon = nextMonId, !.at = 1, !.request = request]
  BY DEF Enable
<1>2. /\ call'.pc = IF request = <<>> THEN "registering" ELSE "protecting"
      /\ call'.mon = nextMonId /\ call'.at = 1 /\ call'.request = request
      /\ call'.todo = {} /\ ~call'.all
  BY <1>1 DEF Idle
<1>3. nextMonId \in Monitors
  BY ConstantFacts DEF Enable, TypeInv, TypeOK, Monitors
<1>4. QED
  BY <1>2, <1>3, EnableTypes DEF Enable, Ready, ringVars, historyVars

\* The drain that starts a call.
LEMMA DrainStep ==
  ASSUME TypeInv, DrainPending \/ DisableAll \/ \E m \in Monitors : Disable(m)
  PROVE  /\ TypeInv' /\ call.pc = "idle" /\ call'.pc = "draining" /\ call'.mon = 0
         /\ call'.limit = writeIdx /\ call'.read = readIdx
         /\ UNCHANGED <<prot, monitorVars, mutex, ringVars, thread, historyVars>>
         /\ call'.todo # {} \/ call'.all => Quiet
<1>1. /\ Draining.pc = "draining" /\ Draining.mon = 0 /\ Draining.limit = writeIdx
      /\ Draining.read = readIdx /\ Draining.todo = {} /\ ~Draining.all
  BY DEF Draining, Idle
<1>2. CASE DrainPending
  BY <1>1, <1>2, OtherCallTypes DEF DrainPending, Ready
<1>3. CASE DisableAll
  <2>1. LET d == [Draining EXCEPT !.all = TRUE]
        IN d.pc = "draining" /\ d.mon = 0 /\ d.limit = writeIdx /\ d.read = readIdx
    BY DEF Draining, Idle
  <2>2. QED
    BY <1>3, <2>1, OtherCallTypes DEF DisableAll, Ready
<1>4. ASSUME NEW m \in Monitors, Disable(m)
      PROVE  /\ call.pc = "idle" /\ call'.pc = "draining" /\ call'.mon = 0
             /\ call'.limit = writeIdx /\ call'.read = readIdx
             /\ UNCHANGED <<prot, monitorVars, mutex, ringVars, thread, historyVars>> /\ Quiet
  <2>1. LET d == [Draining EXCEPT !.todo = {m}]
        IN d.pc = "draining" /\ d.mon = 0 /\ d.limit = writeIdx /\ d.read = readIdx
    BY DEF Draining, Idle
  <2>2. QED
    BY <1>4, <2>1 DEF Disable, Ready
<1>5. TypeInv'
  BY OtherCallTypes
<1>6. QED
  BY <1>2, <1>3, <1>4, <1>5

LEMMA ProtectStep ==
  ASSUME TypeInv, ProtectRange
  PROVE  /\ call.pc = "protecting" /\ call.mon \in Monitors /\ call.at \in DOMAIN call.request
         /\ call'.pc \in {"protecting", "registering"} /\ call'.mon = call.mon
         /\ call'.pc = "protecting" => call'.at = call.at + 1
         /\ call'.request = call.request /\ call'.todo = call.todo /\ call'.all = call.all
         /\ \A p \in Pages :
              prot'[p] = IF p \in PagesOf(call.request[call.at]) THEN "none" ELSE prot[p]
         /\ UNCHANGED <<monitors, freed, nextMonId, registered, mutex, slots, writeIdx, readIdx,
                        thread, recorded, reported, overrun>>
<1>1. call \in Calls /\ call.pc = "protecting" /\ call.at \in DOMAIN call.request
      /\ call.mon \in Monitors
  BY DEF ProtectRange, Ready, TypeInv, TypeOK, CallInv
<1>2. CASE call' = [call EXCEPT !.at = @ + 1]
  BY <1>1, <1>2 DEF ProtectRange, Calls, ringVars, historyVars
<1>3. CASE call' = [call EXCEPT !.pc = "registering"]
  BY <1>1, <1>3 DEF ProtectRange, Calls, ringVars, historyVars
<1>4. QED
  BY <1>2, <1>3 DEF ProtectRange

LEMMA ThrowStep ==
  ASSUME AddressThrows
  PROVE  /\ call.pc = "protecting" /\ IdleAgain /\ ~mutex' /\ ~Parseable
         /\ Alive /\ Alive'
         /\ UNCHANGED <<prot, monitorVars, ringVars, thread, historyVars>>
         /\ UNCHANGED <<ranges, monitors, freed, nextMonId, registered, slots, writeIdx, readIdx,
                        recorded, reported, overrun>>
BY IdleStep DEF AddressThrows, Ready, ScriptRuns, Alive, Parseable, monitorVars, ringVars, historyVars

LEMMA RegisterStep ==
  ASSUME TypeInv, RegisterHandlers
  PROVE  /\ Goes("registering", "inserting") /\ registered' = registered \union {call.mon}
         /\ UNCHANGED <<prot, ranges, monitors, freed, nextMonId, mutex, ringVars, thread,
                        historyVars>>
BY PcStep DEF RegisterHandlers

LEMMA InsertStep ==
  ASSUME TypeInv, Insert
  PROVE  /\ call.pc = "inserting" /\ IdleAgain
         /\ monitors' = monitors \union {call.mon} /\ mutex' = FALSE
         /\ UNCHANGED <<prot, ranges, freed, nextMonId, registered, ringVars, thread, historyVars>>
BY IdleStep DEF Insert, Ready

LEMMA TakeStep ==
  ASSUME TypeInv, TakeEvent
  PROVE  /\ call.read # call.limit /\ Slot.ready /\ ~mutex
         /\ IF Slot.event.mon \in monitors
            THEN /\ Goes("draining", "callback") /\ mutex' = TRUE
                 /\ reported' = Append(reported, Slot.event)
            ELSE Goes("draining", "advancing") /\ mutex' = mutex /\ reported' = reported
         /\ UNCHANGED <<prot, monitorVars, ringVars, thread, recorded, overrun>>
BY PcStep DEF TakeEvent

LEMMA CallbackStep ==
  ASSUME TypeInv, CallbackReturns \/ CallbackReenters
  PROVE  /\ \/ Goes("callback", "advancing") /\ mutex' = FALSE
            \/ Goes("callback", "locking") /\ mutex' = mutex
         /\ UNCHANGED <<prot, monitorVars, ringVars, thread, historyVars>>
BY PcStep DEF CallbackReturns, CallbackReenters

LEMMA AdvanceStep ==
  ASSUME TypeInv, Advance
  PROVE  /\ call.pc = "advancing" /\ call'.pc = "draining" /\ call'.mon = call.mon
         /\ call'.todo = call.todo /\ call'.all = call.all /\ call'.limit = call.limit
         /\ call'.read = call.read + 1 /\ readIdx' = call.read + 1
         /\ \A s \in 0 .. RingSize - 1 :
              /\ slots'[s].ready = IF s = call.read % RingSize THEN FALSE ELSE slots[s].ready
              /\ slots'[s].event = slots[s].event
         /\ UNCHANGED <<prot, monitorVars, mutex, writeIdx, thread, historyVars>>
<1>1. call \in Calls /\ call.read \in Nat
  BY DEF TypeInv, TypeOK, Calls
<1>2. call' = [call EXCEPT !.pc = "draining", !.read = call.read + 1]
  BY DEF Advance
<1>3. /\ call'.pc = "draining" /\ call'.mon = call.mon /\ call'.todo = call.todo
      /\ call'.all = call.all /\ call'.limit = call.limit /\ call'.read = call.read + 1
  BY <1>1, <1>2 DEF Calls
<1>4. call.read % RingSize \in 0 .. RingSize - 1
  BY <1>1, ConstantFacts
<1>5. slots' = [slots EXCEPT ![call.read % RingSize].ready = FALSE]
  BY DEF Advance
<1>6. \A s \in 0 .. RingSize - 1 :
        /\ slots'[s].ready = IF s = call.read % RingSize THEN FALSE ELSE slots[s].ready
        /\ slots'[s].event = slots[s].event
  BY <1>4, <1>5 DEF TypeInv, TypeOK
<1>7. QED
  BY <1>3, <1>6 DEF Advance, Ready

LEMMA DrainEndStep ==
  ASSUME TypeInv, DrainEnds
  PROVE  /\ call.pc = "draining" /\ (call.read = call.limit \/ ~Slot.ready)
         /\ IF call.todo = {} /\ ~call.all THEN IdleAgain ELSE Goes("draining", "locking")
         /\ UNCHANGED <<prot, monitorVars, mutex, ringVars, thread, historyVars>>
<1>1. Ready("draining") /\ call.pc = "draining"
  BY DEF DrainEnds, Ready
<1>2. CASE call.todo = {} /\ ~call.all
  BY <1>1, <1>2, IdleStep DEF DrainEnds
<1>3. CASE ~(call.todo = {} /\ ~call.all)
  BY <1>1, <1>3, PcStep DEF DrainEnds
<1>4. QED
  BY <1>2, <1>3

LEMMA LockStep ==
  ASSUME TypeInv, Lock
  PROVE  /\ call.pc = "locking" /\ ~mutex /\ mutex' = TRUE /\ call'.pc = "choosing"
         /\ call'.todo = (IF call.all THEN monitors ELSE call.todo \intersect monitors)
         /\ call'.mon = call.mon /\ call'.all = call.all
         /\ UNCHANGED <<prot, monitorVars, ringVars, thread, historyVars>>
<1>1. call \in Calls
  BY DEF TypeInv, TypeOK
<1> DEFINE todo == IF call.all THEN monitors ELSE call.todo \intersect monitors
<1>2. call' = [call EXCEPT !.pc = "choosing", !.todo = todo]
  BY DEF Lock
<1> HIDE DEF todo
<1>3. call'.pc = "choosing" /\ call'.todo = todo /\ call'.mon = call.mon /\ call'.all = call.all
  BY <1>1, <1>2 DEF Calls
<1>4. QED
  BY <1>3 DEF Lock, Ready, todo

LEMMA ChooseStep ==
  ASSUME TypeInv, ChooseMonitor
  PROVE  /\ call.pc = "choosing" /\ call'.pc = "restoring" /\ call'.mon \in call.todo
         /\ call'.at = 1 /\ call'.todo = call.todo /\ call'.all = call.all
         /\ UNCHANGED <<prot, monitorVars, mutex, ringVars, thread, historyVars>>
<1>1. call \in Calls
  BY DEF TypeInv, TypeOK
<1>2. PICK m \in call.todo : call' = [call EXCEPT !.pc = "restoring", !.mon = m, !.at = 1]
  BY DEF ChooseMonitor
<1>3. /\ call'.pc = "restoring" /\ call'.mon = m /\ call'.at = 1
      /\ call'.todo = call.todo /\ call'.all = call.all
  BY <1>1, <1>2 DEF Calls
<1>4. QED
  BY <1>3 DEF ChooseMonitor, Ready

LEMMA RestoreStep ==
  ASSUME TypeInv, RestoreRange
  PROVE  LET range == ranges[call.mon][call.at]
         IN /\ call.pc = "restoring" /\ call'.pc = "restoring" /\ call.mon \in Monitors
            /\ call.at \in DOMAIN ranges[call.mon] /\ call.at \in Nat
            /\ call'.at = call.at + 1 /\ call'.mon = call.mon /\ call'.todo = call.todo
            /\ call'.all = call.all
            /\ \A p \in Pages : prot'[p] = IF ~range.fired /\ p \in range.pages THEN "rw" ELSE prot[p]
            /\ UNCHANGED <<monitorVars, mutex, ringVars, thread, historyVars>>
<1>1. call \in Calls /\ call.pc = "restoring" /\ call.mon \in Monitors /\ call.at \in Nat \ {0}
      /\ call.at <= Len(ranges[call.mon])
  BY DEF RestoreRange, Ready, TypeInv, TypeOK, CallInv
<1>2. call.at \in DOMAIN ranges[call.mon]
  BY <1>1, RangesOfMonitor DEF TypeInv
<1>3. /\ call'.pc = call.pc /\ call'.at = call.at + 1 /\ call'.mon = call.mon
      /\ call'.todo = call.todo /\ call'.all = call.all
  BY <1>1 DEF RestoreRange, Calls
<1>4. QED
  BY <1>1, <1>2, <1>3 DEF RestoreRange

LEMMA UnregisterStep ==
  ASSUME TypeInv, UnregisterHandlers
  PROVE  /\ Goes("restoring", "deleting") /\ call.at > Len(ranges[call.mon])
         /\ registered' = registered \ {call.mon}
         /\ UNCHANGED <<prot, ranges, monitors, freed, nextMonId, mutex, ringVars, thread,
                        historyVars>>
BY PcStep DEF UnregisterHandlers

LEMMA DeleteStep ==
  ASSUME TypeInv, Delete
  PROVE  /\ call.pc = "deleting" /\ call'.pc = "choosing" /\ call'.mon = call.mon
         /\ call'.all = call.all /\ call'.todo = call.todo \ {call.mon}
         /\ freed' = freed \union {call.mon}
         /\ monitors' = IF call.all THEN monitors ELSE monitors \ {call.mon}
         /\ UNCHANGED <<prot, ranges, nextMonId, registered, mutex, ringVars, thread, historyVars>>
<1>1. call \in Calls
  BY DEF TypeInv, TypeOK
<1>2. /\ call'.pc = "choosing" /\ call'.mon = call.mon
      /\ call'.all = call.all /\ call'.todo = call.todo \ {call.mon}
  BY <1>1 DEF Delete, Calls
<1>3. QED
  BY <1>2 DEF Delete, Ready

LEMMA ReturnStep ==
  ASSUME TypeInv, DisableReturns
  PROVE  /\ call.pc = "choosing" /\ call.todo = {} /\ IdleAgain
         /\ monitors' = (IF call.all THEN {} ELSE monitors) /\ mutex' = FALSE
         /\ UNCHANGED <<prot, ranges, freed, nextMonId, registered, ringVars, thread, historyVars>>
BY IdleStep DEF DisableReturns, Ready

LEMMA RegistryCalls ==
  ASSUME TypeInv, RegistryInv,
         \/ \E request \in Requests : Enable(request)
         \/ DrainPending \/ DisableAll \/ \E m \in Monitors : Disable(m)
         \/ CallStep \/ CallbackReenters
  PROVE  RegistryInv'
<1>1. ASSUME NEW request \in Requests, Enable(request)
      PROVE  RegistryInv'
  <2>0. /\ nextMonId \in Nat /\ monitors \union freed \subseteq Nat /\ Monitors \subseteq Nat
        /\ nextMonId' = nextMonId + 1 /\ call'.mon = nextMonId /\ call.pc = "idle"
        /\ UNCHANGED <<monitors, freed, ranges>> /\ nextMonId \in Monitors /\ call'.at = 1
        /\ \A m \in monitors \union freed : m < nextMonId
        /\ \A m \in Monitors : m >= nextMonId => DOMAIN ranges[m] = {}
    BY <1>1, EnableStep, ConstantFacts DEF RegistryInv, TypeInv, TypeOK
  <2>1. Enabling' /\ ~Removing' /\ ~Removing
    BY <1>1, EnableStep DEF Enabling, Removing
  <2>a. nextMonId \notin monitors \union freed /\ call'.mon = nextMonId' - 1
    BY <2>0
  <2>2. \A m \in monitors \union freed : m < nextMonId'
    BY <2>0
  <2>3. \A m \in Monitors : m >= nextMonId' => DOMAIN ranges'[m] = {}
    BY <2>0
  <2>4. DOMAIN ranges'[call'.mon] = 1 .. call'.at - 1
    BY <2>0
  <2>5. registered' = monitors' \ freed' /\ monitors' \intersect freed' = {}
    BY <1>1, <2>1, EnableStep DEF RegistryInv, Removing
  <2>6. call'.pc \notin {"idle", "draining", "advancing", "inserting", "deleting", "restoring"}
    BY <1>1, EnableStep
  <2>7. QED
    BY <2>1, <2>a, <2>2, <2>3, <2>4, <2>5, <2>6, <1>1, EnableStep DEF RegistryInv
<1>2. CASE DrainPending \/ DisableAll \/ \E m \in Monitors : Disable(m)
  BY <1>2, DrainStep, RegistryUntouched DEF Enabling, Removing, monitorVars, RegistryInv
<1>3. CASE TakeEvent \/ CallbackReturns \/ CallbackReenters \/ Advance \/ DrainEnds
  <2>1. UNCHANGED <<monitors, freed, registered, nextMonId, ranges>> /\ ~Enabling /\ ~Removing
    BY <1>3, TakeStep, CallbackStep, AdvanceStep, DrainEndStep
    DEF monitorVars, Goes, Enabling, Removing
  <2>2. /\ call'.pc \in {"idle", "draining", "callback", "advancing", "locking"}
        /\ call'.pc \in {"idle", "draining", "advancing"} => ~mutex'
    <3>1. CASE TakeEvent
      BY <3>1, TakeStep DEF Goes
    <3>2. CASE CallbackReturns \/ CallbackReenters
      BY <3>2, CallbackStep DEF Goes
    <3>3. CASE Advance
      BY <3>3, AdvanceStep DEF RegistryInv
    <3>4. CASE DrainEnds
      BY <3>4, DrainEndStep DEF RegistryInv, Goes, IdleAgain
    <3>5. QED
      BY <1>3, <3>1, <3>2, <3>3, <3>4
  <2>3. QED
    BY <2>1, <2>2, RegistryUntouched
<1>4. CASE ProtectRange
  <2>1. /\ Enabling /\ Enabling' /\ ~Removing /\ ~Removing'
    BY <1>4, ProtectStep DEF Enabling, Removing
  <2>2. DOMAIN ranges[call.mon] = 1 .. call.at - 1 /\ call.at \in Nat
    BY <1>4, ProtectStep DEF RegistryInv, TypeInv, TypeOK, Calls
  <2>3. /\ DOMAIN ranges'[call.mon] = 1 .. call.at
        /\ \A n \in Monitors \ {call.mon} : ranges'[n] = ranges[n]
    <3>1. /\ ranges[call.mon] \in Seq(WatchedRanges) /\ DOMAIN ranges[call.mon] = 1 .. Len(ranges[call.mon])
          /\ Len(ranges[call.mon]) \in Nat
      BY <1>4, ProtectStep, RangesOfMonitor DEF TypeInv
    <3>2. Len(ranges[call.mon]) + 1 = call.at \/ call.at = 0
      BY <2>2, <3>1
    <3>3. call.at # 0
      BY <1>4, ProtectStep, RequestFacts
    <3>4. QED
      BY <1>4, <2>2, <3>2, <3>3, ProtectTypes
  <2>4. \A m \in Monitors : m >= nextMonId => DOMAIN ranges'[m] = {}
    <3>1. call.mon < nextMonId
      BY <2>1, ConstantFacts DEF RegistryInv, TypeInv, TypeOK
    <3>a. nextMonId \in Nat
      BY ConstantFacts DEF TypeInv, TypeOK
    <3>2. nextMonId \in Nat /\ Monitors \subseteq Nat /\ call.mon \in Monitors
      BY <3>a, <1>4, ProtectStep, ConstantFacts
    <3>3. QED
      BY <2>3, <3>1, <3>2 DEF RegistryInv
  <2>5. call'.pc = "protecting" => DOMAIN ranges'[call'.mon] = 1 .. call'.at - 1
    BY <1>4, <2>2, <2>3, ProtectStep
  <2>6. QED
    BY <1>4, <2>1, <2>4, <2>5, ProtectStep DEF RegistryInv
<1>5. CASE RegisterHandlers
  <2>1. /\ Enabling /\ Enabling' /\ ~Removing /\ ~Removing' /\ call.pc = "registering"
        /\ call'.pc = "inserting"
    BY <1>5, RegisterStep DEF Enabling, Removing, Goes
  <2>2. QED
    BY <1>5, <2>1, RegisterStep DEF RegistryInv, Goes
<1>6. CASE Insert
  <2>1. /\ Enabling /\ ~Enabling' /\ ~Removing /\ ~Removing' /\ call.pc = "inserting"
        /\ call'.pc = "idle"
    BY <1>6, InsertStep DEF Enabling, Removing, IdleAgain
  <2>2. call.mon < nextMonId
    BY <2>1, ConstantFacts DEF RegistryInv, TypeInv, TypeOK
  <2>3. QED
    BY <1>6, <2>1, <2>2, InsertStep DEF RegistryInv
<1>7. CASE Lock
  <2>1. /\ ~Enabling /\ ~Enabling' /\ ~Removing /\ Removing' /\ call.pc = "locking"
        /\ call'.pc = "choosing"
    BY <1>7, LockStep DEF Enabling, Removing
  <2>2. monitors \intersect freed = {} /\ registered = monitors \ freed
    BY <2>1 DEF RegistryInv, Removing
  <2>3. QED
    BY <1>7, <2>1, <2>2, LockStep DEF RegistryInv, monitorVars
<1>8. CASE ChooseMonitor
  <2>1. /\ ~Enabling /\ ~Enabling' /\ Removing /\ Removing' /\ call.pc = "choosing"
        /\ call'.pc = "restoring"
    BY <1>8, ChooseStep DEF Enabling, Removing
  <2>2. QED
    BY <1>8, <2>1, ChooseStep DEF RegistryInv, monitorVars
<1>9. CASE RestoreRange
  <2>1. /\ ~Enabling /\ ~Enabling' /\ Removing /\ Removing' /\ call.pc = "restoring"
        /\ call'.pc = "restoring"
    BY <1>9, RestoreStep DEF Enabling, Removing
  <2>2. QED
    BY <1>9, <2>1, RestoreStep DEF RegistryInv, monitorVars
<1>10. CASE UnregisterHandlers
  <2>1. /\ ~Enabling /\ ~Enabling' /\ Removing /\ Removing' /\ call.pc = "restoring"
        /\ call'.pc = "deleting"
    BY <1>10, UnregisterStep DEF Enabling, Removing, Goes
  <2>2. QED
    BY <1>10, <2>1, UnregisterStep DEF RegistryInv, Goes
<1>11. CASE Delete
  <2>1. /\ ~Enabling /\ ~Enabling' /\ Removing /\ Removing' /\ call.pc = "deleting"
        /\ call'.pc = "choosing"
    BY <1>11, DeleteStep DEF Enabling, Removing
  <2>2. call.mon \in monitors \ freed /\ call.mon \in call.todo
    BY <2>1 DEF RegistryInv
  <2>3. \A m \in monitors' \union freed' : m < nextMonId'
    BY <1>11, <2>2, DeleteStep DEF RegistryInv
  <2>4. call'.todo \subseteq monitors' \ freed'
    BY <1>11, <2>1, DeleteStep DEF RegistryInv
  <2>5. IF Removing' /\ call'.all THEN monitors' \ freed' \subseteq call'.todo
        ELSE monitors' \intersect freed' = {}
    BY <1>11, <2>1, DeleteStep DEF RegistryInv
  <2>6. registered' = monitors' \ freed'
    BY <1>11, <2>1, <2>2, DeleteStep DEF RegistryInv
  <2>7. QED
    BY <1>11, <2>1, <2>3, <2>4, <2>5, <2>6, DeleteStep DEF RegistryInv
<1>12. CASE DisableReturns
  <2>1. /\ ~Enabling /\ ~Enabling' /\ Removing /\ ~Removing' /\ call.pc = "choosing"
        /\ call'.pc = "idle"
    BY <1>12, ReturnStep DEF Enabling, Removing, IdleAgain
  <2>2. monitors' \intersect freed' = {} /\ monitors' \ freed' = monitors \ freed
    BY <1>12, <2>1, ReturnStep DEF RegistryInv
  <2>3. QED
    BY <1>12, <2>1, <2>2, ReturnStep DEF RegistryInv
<1>13. QED
  BY <1>1, <1>2, <1>3, <1>4, <1>5, <1>6, <1>7, <1>8, <1>9, <1>10, <1>11, <1>12 DEF CallStep

LEMMA RegistryThrow ==
  ASSUME TypeInv, RegistryInv, AddressThrows
  PROVE  RegistryInv'
<1>1. /\ Enabling /\ ~Enabling' /\ ~Removing /\ ~Removing' /\ call'.pc = "idle"
      /\ call.pc = "protecting"
  BY ThrowStep DEF Enabling, Removing, IdleAgain
<1>2. QED
  BY <1>1, ThrowStep DEF RegistryInv

\* Whoever calls the API and whenever, g_monitors, the monitors that were freed, the call under way
\* and the registered handlers agree: a monitor without a handler is the one enable() is still
\* registering or a removal has just taken out (native_memory_access_monitor.cc:184-298).
THEOREM RegistryHolds == Spec => []RegistryInv
<1>1. Init => RegistryInv
  BY IdleTypes DEF Init, RegistryInv, Enabling, Removing
<1>2. TypeInv /\ RegistryInv /\ [Next]_vars => RegistryInv'
  <2> SUFFICES ASSUME TypeInv, RegistryInv, [Next]_vars PROVE RegistryInv'
    OBVIOUS
  <2>1. CASE UNCHANGED vars
    BY <2>1, RegistryUntouched DEF vars, monitorVars
  <2>2. QED
    BY <2>1, RegistryHandlers, RegistryCalls, RegistryThrow DEF Next
<1>3. QED
  BY <1>1, <1>2, TypesHold, PTL DEF Spec
--------------------------------------------------------------------------------
(* No page is forgotten *)

LEMMA KeepersAreMonitors ==
  ASSUME TypeInv
  PROVE  Keepers \subseteq Monitors
BY DEF TypeInv, TypeOK, Calls, Keepers

\* No step takes a page away from those that are left behind.
LEMMA LeftStays ==
  ASSUME TypeInv, RegistryInv, [Next]_vars
  PROVE  Left \subseteq Left'
<1>1. \A m \in Monitors : \A i \in DOMAIN ranges[m] :
        i \in DOMAIN ranges'[m] /\ ranges'[m][i].pages = ranges[m][i].pages
  <2>1. CASE ProtectRange
    BY <2>1, ProtectTypes
  <2>2. CASE \E t \in Threads : MarkFired(t)
    BY <2>2, MarkFiredStep DEF Fires
  <2>3. CASE ~ProtectRange /\ ~\E t \in Threads : MarkFired(t)
    <3>1. ranges' = ranges
      BY <2>3 DEF Next, HandlerStep, DanglingEntry, Touch, CopyChain, Found, NotFound,
         RestorePages, ReserveSlot, WriteEvent, Publish, Enable, DrainPending, DisableAll, Disable,
         CallStep, RegisterHandlers, Insert, TakeEvent, CallbackReturns, CallbackReenters,
         Advance, DrainEnds, Lock, ChooseMonitor, RestoreRange, UnregisterHandlers, Delete,
         DisableReturns, AddressThrows, vars, monitorVars
    <3>2. QED
      BY <3>1
  <2>4. QED
    BY <2>1, <2>2, <2>3
<1>2. Abandoned \subseteq Abandoned'
  <2> SUFFICES ASSUME NEW m \in Monitors, m < nextMonId, m # call.mon,
                      m \notin monitors, m \notin freed
               PROVE  /\ m < nextMonId' /\ m # call'.mon
                      /\ m \notin monitors' /\ m \notin freed'
    BY DEF Abandoned
  <2>0. m \in Nat /\ m # 0 /\ nextMonId \in Nat
    BY ConstantFacts DEF TypeInv, TypeOK
  <2>1. CASE UNCHANGED <<monitors, freed, nextMonId>> /\ (call'.mon = call.mon \/ call'.mon = 0)
    BY <2>0, <2>1
  <2>2. CASE \E request \in Requests : Enable(request)
    <3>1. /\ call'.mon = nextMonId /\ nextMonId' = nextMonId + 1
          /\ UNCHANGED <<monitors, freed>>
      BY <2>2, EnableStep
    <3>2. QED
      BY <2>0, <3>1
  <2>3. CASE Insert
    BY <2>0, <2>3, InsertStep DEF IdleAgain
  <2>4. CASE ChooseMonitor
    <3>1. call'.mon \in call.todo /\ call.pc = "choosing"
          /\ UNCHANGED <<monitors, freed, nextMonId>>
      BY <2>4, ChooseStep DEF monitorVars
    <3>2. call'.mon \in monitors
      BY <3>1 DEF RegistryInv, Removing
    <3>3. QED
      BY <3>1, <3>2
  <2>5. CASE Delete \/ DisableReturns
    BY <2>0, <2>5, DeleteStep, ReturnStep DEF IdleAgain
  <2>6. CASE DrainPending \/ DisableAll \/ \E n \in Monitors : Disable(n)
    BY <2>1, <2>6, DrainStep DEF monitorVars
  <2>7. CASE ProtectRange \/ RegisterHandlers \/ AddressThrows
    BY <2>1, <2>7, ProtectStep, RegisterStep, ThrowStep DEF Goes, IdleAgain
  <2>8. CASE \/ TakeEvent \/ CallbackReturns \/ CallbackReenters \/ Advance \/ DrainEnds
             \/ UnregisterHandlers
    BY <2>1, <2>8, TakeStep, CallbackStep, AdvanceStep, DrainEndStep, UnregisterStep
    DEF Goes, IdleAgain, monitorVars
  <2>9. CASE Lock \/ RestoreRange
    BY <2>1, <2>9, LockStep, RestoreStep DEF monitorVars
  <2>10. CASE \E t \in Threads : HandlerStep(t) \/ DanglingEntry(t) \/ \E p \in Pages : Touch(t, p)
    <3>1. UNCHANGED <<monitors, freed, nextMonId, call>>
      BY <2>10 DEF HandlerStep, DanglingEntry, Touch, CopyChain, Found, NotFound, MarkFired,
         RestorePages, ReserveSlot, WriteEvent, Publish, monitorVars
    <3>2. QED
      BY <2>1, <3>1
  <2>11. CASE UNCHANGED vars
    BY <2>1, <2>11 DEF vars, monitorVars
  <2>12. QED
    BY <2>2, <2>3, <2>4, <2>5, <2>6, <2>7, <2>8, <2>9, <2>10, <2>11 DEF Next, CallStep
<1>3. Abandoned \subseteq Monitors
  BY DEF Abandoned
<1>4. QED
  BY <1>1, <1>2, <1>3 DEF Left

\* Steps that leave pages and ranges as they are.
LEMMA OrphanUntouched ==
  ASSUME TypeInv, OrphanInv, Left \subseteq Left', Alive, UNCHANGED <<prot, ranges>>, Keepers \subseteq Keepers',
         \A t \in Threads : thread[t].phase = "marked" => thread'[t] = thread[t]
  PROVE  OrphanInv'
<1> SUFFICES ASSUME NEW p \in Pages \ Left', prot'[p] = "none"
             PROVE  Kept(p)' \/ Held(p)'
  BY DEF OrphanInv
<1>1. Kept(p) => Kept(p)'
  BY DEF Kept
<1>2. Held(p) => Held(p)'
  BY DEF Held, RangeOf
<1>3. QED
  BY <1>1, <1>2 DEF OrphanInv

LEMMA OrphanHandlers ==
  ASSUME TypeInv, OrphanInv, Left \subseteq Left', NEW t \in Threads,
         HandlerStep(t) \/ DanglingEntry(t) \/ \E p \in Pages : Touch(t, p)
  PROVE  OrphanInv'
<1>1. Alive /\ UNCHANGED <<monitors, freed, call>> /\ Keepers' = Keepers
  BY DEF HandlerStep, DanglingEntry, Touch, CopyChain, Found, NotFound, MarkFired, RestorePages,
         ReserveSlot, WriteEvent, Publish, monitorVars, Keepers
<1>2. CASE MarkFired(t)
  <2> DEFINE e == thread[t].range
  <2>1. /\ prot' = prot /\ Fires(e) /\ Moves(t, "marked") /\ thread[t].phase = "found"
        /\ e.mon \in Monitors /\ e.at \in DOMAIN ranges[e.mon]
    BY <1>2, MarkFiredStep DEF MarkFired, TypeInv, ClaimInv, Claimed
  <2> HIDE DEF e
  <2> SUFFICES ASSUME NEW p \in Pages \ Left', prot'[p] = "none"
               PROVE  Kept(p)' \/ Held(p)'
    BY DEF OrphanInv
  <2>2. ASSUME Kept(p) PROVE Kept(p)' \/ Held(p)'
    <3>1. PICK m \in Keepers : \E i \in DOMAIN ranges[m] :
                  ~ranges[m][i].fired /\ p \in ranges[m][i].pages
      BY <2>2 DEF Kept
    <3>2. PICK i \in DOMAIN ranges[m] : ~ranges[m][i].fired /\ p \in ranges[m][i].pages
      BY <3>1
    <3>3. m \in Monitors
      BY KeepersAreMonitors
    <3>4. CASE m = e.mon /\ i = e.at
      <4>1. p \in ranges'[e.mon][e.at].pages
        BY <2>1, <3>2, <3>3, <3>4 DEF Fires
      <4>2. thread'[t].phase = "marked" /\ thread'[t].range = e
        BY <2>1 DEF Moves, e
      <4>3. QED
        BY <4>1, <4>2 DEF Held, RangeOf
    <3>5. CASE ~(m = e.mon /\ i = e.at)
      <4>1. i \in DOMAIN ranges'[m] /\ ~ranges'[m][i].fired /\ p \in ranges'[m][i].pages
        BY <2>1, <3>2, <3>3, <3>5 DEF Fires
      <4>2. QED
        BY <1>1, <4>1 DEF Kept
    <3>6. QED
      BY <3>4, <3>5
  <2>3. ASSUME Held(p) PROVE Held(p)'
    <3>1. PICK u \in Threads : thread[u].phase = "marked" /\ p \in RangeOf(thread[u].range).pages
      BY <2>3 DEF Held
    <3>2. u # t /\ thread'[u] = thread[u]
      BY <2>1, <3>1 DEF Moves, Others
    <3>3. thread[u].range.mon \in Monitors /\ thread[u].range.at \in DOMAIN ranges[thread[u].range.mon]
      BY <3>1 DEF TypeInv, ClaimInv, Claimed
    <3>4. ranges'[thread[u].range.mon][thread[u].range.at].pages
            = ranges[thread[u].range.mon][thread[u].range.at].pages
      BY <2>1, <3>3 DEF Fires
    <3>5. QED
      BY <3>1, <3>2, <3>4 DEF Held, RangeOf
  <2>4. QED
    BY <1>1, <2>1, <2>2, <2>3 DEF OrphanInv
<1>3. CASE RestorePages(t)
  <2>1. /\ ranges' = ranges /\ Moves(t, "restored") /\ thread[t].phase = "marked"
        /\ \A p \in Pages : prot'[p] = IF p \in RangeOf(thread[t].range).pages THEN "rw" ELSE prot[p]
    BY <1>3, RestorePagesStep DEF RestorePages, monitorVars
  <2> SUFFICES ASSUME NEW p \in Pages \ Left', prot'[p] = "none"
               PROVE  Kept(p)' \/ Held(p)'
    BY DEF OrphanInv
  <2>2. prot[p] = "none" /\ p \notin RangeOf(thread[t].range).pages
    BY <2>1
  <2>3. Kept(p) => Kept(p)'
    BY <1>1, <2>1 DEF Kept
  <2>4. ASSUME Held(p) PROVE Held(p)'
    <3>1. PICK u \in Threads : thread[u].phase = "marked" /\ p \in RangeOf(thread[u].range).pages
      BY <2>4 DEF Held
    <3>2. u # t /\ thread'[u] = thread[u]
      BY <2>1, <2>2, <3>1 DEF Moves, Others
    <3>3. QED
      BY <2>1, <3>1, <3>2 DEF Held, RangeOf
  <2>5. QED
    BY <1>1, <2>2, <2>3, <2>4 DEF OrphanInv
<1>4. CASE ~MarkFired(t) /\ ~RestorePages(t)
  <2>1. \/ UNCHANGED <<prot, ranges>> /\ thread[t].phase # "marked"
        \/ thread'[t].phase = "killed"
    BY <1>4, DanglingStep DEF HandlerStep, DanglingEntry, Touch, CopyChain, Found, NotFound,
         ReserveSlot, WriteEvent, Publish, monitorVars, Moves
  <2>2. \A u \in Threads \ {t} : thread'[u] = thread[u]
    BY <1>4, DanglingStep, TouchStep, CopyChainStep, FoundStep, NotFoundStep, ReserveSlotStep,
       WriteEventStep, PublishStep DEF HandlerStep, Moves, Others
  <2>3. CASE thread'[t].phase = "killed"
    BY <2>3 DEF OrphanInv, Alive
  <2>4. CASE thread'[t].phase # "killed"
    BY <1>1, <2>1, <2>2, <2>4, OrphanUntouched
  <2>5. QED
    BY <2>3, <2>4
<1>5. QED
  BY <1>2, <1>3, <1>4

LEMMA OrphanCalls ==
  ASSUME TypeInv, RegistryInv, RestoredInv, OrphanInv, Left \subseteq Left',
         \/ \E request \in Requests : Enable(request)
         \/ DrainPending \/ DisableAll \/ \E m \in Monitors : Disable(m)
         \/ CallStep \/ CallbackReenters
  PROVE  OrphanInv'
<1>0. Alive /\ thread' = thread /\ Alive' = Alive
  BY DEF Enable, DrainPending, DisableAll, Disable, CallStep, ProtectRange, RegisterHandlers, Insert,
         TakeEvent, CallbackReturns, CallbackReenters, Advance, DrainEnds, Lock, ChooseMonitor,
         RestoreRange, UnregisterHandlers, Delete, DisableReturns, Ready, ScriptRuns, Alive
<1>1. ASSUME NEW request \in Requests, Enable(request)
      PROVE  OrphanInv'
  <2>1. call.mon = 0
    BY <1>1, EnableStep DEF TypeInv, CallInv
  <2>2. Keepers \subseteq Keepers'
    BY <1>1, <2>1, EnableStep DEF Keepers
  <2>3. QED
    BY <1>0, <1>1, <2>2, EnableStep, OrphanUntouched
<1>2. CASE DrainPending \/ DisableAll \/ \E m \in Monitors : Disable(m)
  <2>1. call.mon = 0 /\ UNCHANGED <<prot, ranges, monitors, freed>>
    BY <1>2, DrainStep DEF TypeInv, CallInv, monitorVars
  <2>2. Keepers \subseteq Keepers'
    BY <2>1 DEF Keepers
  <2>3. QED
    BY <1>0, <2>1, <2>2, OrphanUntouched
<1>3. CASE \/ RegisterHandlers \/ Insert \/ TakeEvent \/ CallbackReturns \/ CallbackReenters
           \/ Advance \/ DrainEnds \/ Lock \/ UnregisterHandlers \/ Delete
  <2>1. UNCHANGED <<prot, ranges>>
    BY <1>3 DEF RegisterHandlers, Insert, TakeEvent, CallbackReturns, CallbackReenters,
         Advance, DrainEnds, Lock, UnregisterHandlers, Delete, monitorVars
  <2>2. CASE RegisterHandlers \/ UnregisterHandlers
    <3>1. Keepers \subseteq Keepers'
      BY <2>2, RegisterStep, UnregisterStep DEF Goes, Keepers
    <3>2. QED
      BY <1>0, <2>1, <3>1, OrphanUntouched
  <2>3. CASE Insert
    <3>1. call.mon \notin freed
      BY <2>3, InsertStep DEF RegistryInv, Enabling
    <3>2. Keepers \subseteq Keepers'
      BY <2>3, <3>1, InsertStep DEF Keepers
    <3>3. QED
      BY <1>0, <2>1, <3>2, OrphanUntouched
  <2>4. CASE TakeEvent \/ CallbackReturns \/ CallbackReenters \/ Advance \/ DrainEnds \/ Lock
    <3>1. call.mon = 0 /\ UNCHANGED <<monitors, freed>>
      BY <2>4, TakeStep, CallbackStep, AdvanceStep, DrainEndStep, LockStep
      DEF Goes, TypeInv, CallInv, monitorVars
    <3>2. Keepers \subseteq Keepers'
      BY <3>1 DEF Keepers
    <3>3. QED
      BY <1>0, <2>1, <3>2, OrphanUntouched
  <2>5. CASE Delete
    <3>1. Keepers \subseteq Keepers'
      BY <2>5, DeleteStep DEF Keepers
    <3>2. QED
      BY <1>0, <2>1, <3>1, OrphanUntouched
  <2>6. QED
    BY <1>3, <2>2, <2>3, <2>4, <2>5
<1>4. CASE ChooseMonitor \/ DisableReturns
  <2>1. /\ call.pc = "choosing" /\ UNCHANGED <<prot, ranges, freed>>
        /\ Keepers \ {call.mon} \subseteq Keepers'
    <3>1. CASE ChooseMonitor
      BY <3>1, ChooseStep DEF monitorVars, Keepers
    <3>2. CASE DisableReturns
      <4>1. monitors \ freed \subseteq monitors'
        BY <3>2, ReturnStep DEF RegistryInv, Removing
      <4>2. QED
        BY <3>2, <4>1, ReturnStep DEF Keepers
    <3>3. QED
      BY <1>4, <3>1, <3>2
  <2> SUFFICES ASSUME NEW p \in Pages \ Left', prot'[p] = "none"
               PROVE  Kept(p)' \/ Held(p)'
    BY DEF OrphanInv
  <2>2. ASSUME Kept(p) PROVE Kept(p)'
    <3>1. PICK m \in Keepers : \E i \in DOMAIN ranges[m] :
                  ~ranges[m][i].fired /\ p \in ranges[m][i].pages
      BY <2>2 DEF Kept
    <3>2. m \in Monitors
      BY KeepersAreMonitors
    <3>3. m # call.mon
      BY <2>1, <3>1, <3>2 DEF RestoredInv
    <3>4. QED
      BY <2>1, <3>1, <3>3 DEF Kept
  <2>3. Held(p) => Held(p)'
    BY <1>0, <2>1 DEF Held, RangeOf
  <2>4. QED
    BY <1>0, <2>1, <2>2, <2>3 DEF OrphanInv
<1>5. CASE RestoreRange
  <2> DEFINE range == ranges[call.mon][call.at]
  <2>1. /\ ranges' = ranges /\ Keepers' = Keepers
        /\ \A p \in Pages : prot'[p] = IF ~range.fired /\ p \in range.pages THEN "rw" ELSE prot[p]
    BY <1>5, RestoreStep DEF monitorVars, Keepers
  <2> SUFFICES ASSUME NEW p \in Pages \ Left', prot'[p] = "none"
               PROVE  Kept(p)' \/ Held(p)'
    BY DEF OrphanInv
  <2>2. prot[p] = "none"
    BY <2>1
  <2>3. Kept(p) => Kept(p)'
    BY <2>1 DEF Kept
  <2>4. Held(p) => Held(p)'
    BY <1>0, <2>1 DEF Held, RangeOf
  <2>5. QED
    BY <1>0, <2>2, <2>3, <2>4 DEF OrphanInv
<1>6. CASE ProtectRange
  <2> DEFINE m == call.mon
             new == Len(ranges[m]) + 1
             pages == PagesOf(call.request[call.at])
  <2>1. /\ m \in Monitors /\ Keepers' = Keepers /\ call'.mon = m
        /\ \A p \in Pages : prot'[p] = IF p \in pages THEN "none" ELSE prot[p]
    BY <1>6, ProtectStep DEF Keepers
  <2>2. /\ new \in DOMAIN ranges'[m] /\ ranges'[m][new] = [pages |-> pages, fired |-> FALSE]
        /\ \A n \in Monitors : \A i \in DOMAIN ranges[n] :
             i \in DOMAIN ranges'[n] /\ ranges'[n][i] = ranges[n][i]
    BY <1>6, ProtectTypes
  <2>3. m \in Keepers'
    BY <2>1, ConstantFacts DEF Keepers
  <2> HIDE DEF m, new, pages
  <2> SUFFICES ASSUME NEW p \in Pages \ Left', prot'[p] = "none"
               PROVE  Kept(p)' \/ Held(p)'
    BY DEF OrphanInv
  <2>4. CASE p \in pages
    <3>1. ~ranges'[m][new].fired /\ p \in ranges'[m][new].pages
      BY <2>2, <2>4
    <3>2. QED
      BY <2>2, <2>3, <3>1 DEF Kept
  <2>5. CASE p \notin pages
    <3>1. prot[p] = "none"
      BY <2>1, <2>5
    <3>2. ASSUME Kept(p) PROVE Kept(p)'
      <4>1. PICK n \in Keepers : \E i \in DOMAIN ranges[n] :
                  ~ranges[n][i].fired /\ p \in ranges[n][i].pages
        BY <3>2 DEF Kept
      <4>2. n \in Monitors /\ n \in Keepers'
        BY <2>1, KeepersAreMonitors
      <4>3. QED
        BY <2>2, <4>1, <4>2 DEF Kept
    <3>3. ASSUME Held(p) PROVE Held(p)'
      <4>1. PICK u \in Threads : thread[u].phase = "marked" /\ p \in RangeOf(thread[u].range).pages
        BY <3>3 DEF Held
      <4>2. thread[u].range.mon \in Monitors /\ thread[u].range.at \in DOMAIN ranges[thread[u].range.mon]
        BY <4>1 DEF TypeInv, ClaimInv, Claimed
      <4>3. RangeOf(thread[u].range)' = RangeOf(thread[u].range)
        BY <1>0, <2>2, <4>2 DEF RangeOf
      <4>4. QED
        BY <1>0, <4>1, <4>3 DEF Held
    <3>4. QED
      BY <1>0, <3>1, <3>2, <3>3 DEF OrphanInv
  <2>6. QED
    BY <2>4, <2>5
<1>7. QED
  BY <1>1, <1>2, <1>3, <1>4, <1>5, <1>6 DEF CallStep

LEMMA OrphanThrow ==
  ASSUME TypeInv, RegistryInv, OrphanInv, Left \subseteq Left', AddressThrows
  PROVE  OrphanInv'
<1>1. /\ UNCHANGED <<prot, ranges, monitors, freed, nextMonId, thread>> /\ Alive /\ call'.mon = 0
      /\ call.pc = "protecting"
  BY ThrowStep DEF IdleAgain
<1>2. call.mon \in Monitors /\ call.mon < nextMonId /\ call.mon \notin monitors \union freed
  BY <1>1, ConstantFacts DEF RegistryInv, Enabling, TypeInv, TypeOK, CallInv
<1>3. call.mon \in Abandoned'
  BY <1>1, <1>2, ConstantFacts DEF Abandoned
<1> SUFFICES ASSUME NEW p \in Pages \ Left', prot'[p] = "none"
             PROVE  Kept(p)' \/ Held(p)'
  BY DEF OrphanInv
<1>4. ASSUME Kept(p) PROVE Kept(p)'
  <2>1. PICK m \in Keepers : \E i \in DOMAIN ranges[m] :
               ~ranges[m][i].fired /\ p \in ranges[m][i].pages
    BY <1>4 DEF Kept
  <2>2. m # call.mon
    BY <1>1, <1>3, <2>1 DEF Left
  <2>3. m \in Keepers'
    BY <1>1, <2>2 DEF Keepers
  <2>4. QED
    BY <1>1, <2>1, <2>3 DEF Kept
<1>5. Held(p) => Held(p)'
  BY <1>1 DEF Held, RangeOf
<1>6. QED
  BY <1>1, <1>4, <1>5 DEF OrphanInv

\* A step after which no page is inaccessible that was not before.
LEMMA RestoredUntouched ==
  ASSUME TypeInv, RestoredInv,
         \A m \in Monitors : DOMAIN ranges'[m] = DOMAIN ranges[m],
         \A m \in Monitors : \A i \in DOMAIN ranges[m] :
           /\ ranges'[m][i].pages = ranges[m][i].pages
           /\ ranges[m][i].fired => ranges'[m][i].fired,
         \A p \in Pages : prot[p] = "rw" => prot'[p] = "rw",
         \/ call'.pc \notin {"restoring", "deleting", "choosing"}
         \/ call'.mon = 0
         \/ call'.pc = "restoring" /\ call'.at = 1
         \/ /\ call'.mon = call.mon
            /\ call'.pc = "restoring" => call.pc = "restoring" /\ call'.at = call.at
            /\ call'.pc \in {"deleting", "choosing"} => call.pc \in {"deleting", "choosing"}
  PROVE  RestoredInv'
<1> SUFFICES ASSUME NEW m \in Monitors, NEW i \in DOMAIN ranges'[m],
                    m = call'.mon, ~ranges'[m][i].fired,
                    \/ call'.pc \in {"deleting", "choosing"}
                    \/ call'.pc = "restoring" /\ i < call'.at,
                    NEW p \in ranges'[m][i].pages
             PROVE  prot'[p] = "rw"
  BY DEF RestoredInv
<1>1. i \in DOMAIN ranges[m] /\ ~ranges[m][i].fired /\ p \in ranges[m][i].pages /\ i \in Nat \ {0}
  BY RangesOfMonitor DEF TypeInv
<1>2. p \in Pages
  BY <1>1, RangesOfMonitor DEF WatchedRanges, TypeInv
<1>3. ~(call'.pc = "restoring" /\ call'.at = 1) /\ call'.mon # 0
  BY <1>1, ConstantFacts
<1>4. m = call.mon /\ (call.pc \in {"deleting", "choosing"} \/ (call.pc = "restoring" /\ i < call.at))
  BY <1>3
<1>5. prot[p] = "rw"
  BY <1>1, <1>4 DEF RestoredInv
<1>6. QED
  BY <1>2, <1>5

LEMMA RestoredHandlers ==
  ASSUME TypeInv, RestoredInv, NEW t \in Threads,
         HandlerStep(t) \/ DanglingEntry(t) \/ \E p \in Pages : Touch(t, p)
  PROVE  RestoredInv'
<1>1. call' = call
  BY DEF HandlerStep, DanglingEntry, Touch, CopyChain, Found, NotFound, MarkFired, RestorePages,
         ReserveSlot, WriteEvent, Publish
<1>2. CASE MarkFired(t)
  <2>1. prot' = prot /\ Fires(thread[t].range)
    BY <1>2, MarkFiredStep DEF MarkFired
  <2>2. QED
    BY ZenonT(30), <1>1, <2>1, RestoredUntouched DEF Fires
<1>3. CASE ~MarkFired(t)
  <2>1. ranges' = ranges
    BY <1>3 DEF HandlerStep, DanglingEntry, Touch, CopyChain, Found, NotFound, RestorePages,
         ReserveSlot, WriteEvent, Publish, monitorVars
  <2>2. \A p \in Pages : prot[p] = "rw" => prot'[p] = "rw"
    BY <1>3 DEF HandlerStep, DanglingEntry, Touch, CopyChain, Found, NotFound, RestorePages,
         ReserveSlot, WriteEvent, Publish
  <2>3. QED
    BY <1>1, <2>1, <2>2, RestoredUntouched
<1>4. QED
  BY <1>2, <1>3

LEMMA RestoredCalls ==
  ASSUME TypeInv, RestoredInv,
         \/ \E request \in Requests : Enable(request)
         \/ DrainPending \/ DisableAll \/ \E m \in Monitors : Disable(m)
         \/ CallStep \/ CallbackReenters
  PROVE  RestoredInv'
<1>1. CASE ProtectRange
  BY <1>1, ProtectStep DEF RestoredInv
<1>2. CASE RestoreRange
  <2> DEFINE range == ranges[call.mon][call.at]
  <2>1. /\ ranges' = ranges /\ call.pc = "restoring" /\ call'.pc = "restoring"
        /\ call'.mon = call.mon /\ call'.at = call.at + 1 /\ call.at \in Nat
        /\ \A p \in Pages : prot'[p] = IF ~range.fired /\ p \in range.pages THEN "rw" ELSE prot[p]
    BY <1>2, RestoreStep DEF monitorVars
  <2> SUFFICES ASSUME NEW i \in DOMAIN ranges[call.mon], call.mon \in Monitors,
                      ~ranges[call.mon][i].fired, i < call.at + 1,
                      NEW p \in ranges[call.mon][i].pages
               PROVE  prot'[p] = "rw"
    BY <2>1 DEF RestoredInv
  <2>2. i \in Nat /\ p \in Pages
    BY RangesOfMonitor DEF WatchedRanges, TypeInv
  <2>3. CASE i = call.at
    BY <2>1, <2>2, <2>3
  <2>4. CASE i # call.at
    <3>1. i < call.at
      BY <2>1, <2>2, <2>4
    <3>2. prot[p] = "rw"
      BY <2>1, <3>1 DEF RestoredInv
    <3>3. QED
      BY <2>1, <2>2, <3>2
  <2>5. QED
    BY <2>3, <2>4
<1>3. CASE UnregisterHandlers
  <2>1. /\ UNCHANGED <<prot, ranges>> /\ call.pc = "restoring" /\ call'.pc = "deleting"
        /\ call'.mon = call.mon /\ call.at > Len(ranges[call.mon]) /\ call.at \in Nat
        /\ call.mon \in Monitors
    BY <1>3, UnregisterStep DEF Goes, TypeInv, CallInv
  <2>2. \A i \in DOMAIN ranges[call.mon] : i < call.at
    BY <2>1, RangesOfMonitor DEF TypeInv
  <2>3. QED
    BY <2>1, <2>2 DEF RestoredInv
<1>4. CASE ~ProtectRange /\ ~RestoreRange /\ ~UnregisterHandlers
  <2>1. UNCHANGED <<prot, ranges>>
    BY <1>4 DEF Enable, DrainPending, DisableAll, Disable, CallStep, RegisterHandlers, Insert,
         TakeEvent, CallbackReturns, CallbackReenters, Advance, DrainEnds, Lock, ChooseMonitor,
         Delete, DisableReturns, monitorVars
  <2>2. \/ call'.pc \notin {"restoring", "deleting", "choosing"}
        \/ call'.mon = 0
        \/ call'.pc = "restoring" /\ call'.at = 1
        \/ call'.mon = call.mon /\ call.pc = "deleting" /\ call'.pc = "choosing"
    <3>1. CASE \E request \in Requests : Enable(request)
      BY <3>1, EnableStep
    <3>2. CASE DrainPending \/ DisableAll \/ \E m \in Monitors : Disable(m)
      BY <3>2, DrainStep
    <3>3. CASE RegisterHandlers \/ Insert \/ DisableReturns
      BY <3>3, RegisterStep, InsertStep, ReturnStep DEF Goes, IdleAgain
    <3>4. CASE TakeEvent
      BY <3>4, TakeStep DEF Goes
    <3>5. CASE CallbackReturns \/ CallbackReenters
      BY <3>5, CallbackStep DEF Goes
    <3>6. CASE Advance
      BY <3>6, AdvanceStep
    <3>7. CASE DrainEnds
      BY <3>7, DrainEndStep DEF Goes, IdleAgain
    <3>8. CASE Lock
      BY <3>8, LockStep DEF TypeInv, CallInv
    <3>9. CASE ChooseMonitor \/ Delete
      BY <3>9, ChooseStep, DeleteStep
    <3>10. QED
      BY <1>4, <3>1, <3>2, <3>3, <3>4, <3>5, <3>6, <3>7, <3>8, <3>9 DEF CallStep
  <2>3. QED
    BY <2>1, <2>2, RestoredUntouched
<1>5. QED
  BY <1>1, <1>2, <1>3, <1>4

LEMMA RestoredThrow ==
  ASSUME TypeInv, RestoredInv, AddressThrows
  PROVE  RestoredInv'
BY ThrowStep, RestoredUntouched DEF IdleAgain

LEMMA OrphanInitially == Init => RestoredInv /\ OrphanInv
<1> SUFFICES ASSUME Init PROVE RestoredInv /\ OrphanInv
  OBVIOUS
<1>1. /\ \A p \in Pages : prot[p] = "rw"
      /\ call.pc = "idle"
  BY IdleTypes DEF Init
<1>2. QED
  BY <1>1 DEF RestoredInv, OrphanInv

LEMMA OrphanHolds == Spec => [](RestoredInv /\ OrphanInv)
<1>1. TypeInv /\ RegistryInv /\ RestoredInv /\ OrphanInv /\ [Next]_vars => RestoredInv' /\ OrphanInv'
  <2> SUFFICES ASSUME TypeInv, RegistryInv, RestoredInv, OrphanInv, [Next]_vars
               PROVE  RestoredInv' /\ OrphanInv'
    OBVIOUS
  <2>1. CASE UNCHANGED vars
    BY <2>1 DEF vars, monitorVars, RestoredInv, OrphanInv, Alive, Kept, Held, Keepers, RangeOf,
       Left, Abandoned
  <2>2. QED
    BY <2>1, LeftStays, OrphanHandlers, OrphanCalls, OrphanThrow, RestoredHandlers, RestoredCalls,
       RestoredThrow DEF Next
<1>2. QED
  BY <1>1, OrphanInitially, TypesHold, RegistryHolds, PTL DEF Spec

\* Whoever calls the API and whenever, no page is left inaccessible for good: a monitor, the
\* enable() under way or the handler that claimed the page still knows of it.  Of the pages an
\* enable() closed before it threw at a later address nobody does
\* (native_memory_access_monitor.cc:205, native_memory_access_monitor.h:17-19).
THEOREM NoPageForgotten == Spec => []NoOrphanPage
<1>1. OrphanInv => NoOrphanPage
  <2>0. \A p \in Left : \E e \in Watched(Abandoned) : p \in RangeOf(e).pages
    <3> SUFFICES ASSUME NEW m \in Abandoned, NEW i \in DOMAIN ranges[m], NEW p \in ranges[m][i].pages
                 PROVE  \E e \in Watched(Abandoned) : p \in RangeOf(e).pages
      BY DEF Left
    <3>1. [mon |-> m, at |-> i] \in Watched(Abandoned)
      BY DEF Watched
    <3>2. QED
      BY <3>1 DEF RangeOf
  <2> SUFFICES ASSUME OrphanInv, Alive, NEW p \in Pages, prot[p] = "none", Kept(p)
               PROVE  \E e \in Watched(Keepers) : ~RangeOf(e).fired /\ p \in RangeOf(e).pages
    BY <2>0 DEF OrphanInv, NoOrphanPage, Held, Keepers
  <2>1. PICK m \in Keepers : \E i \in DOMAIN ranges[m] :
               ~ranges[m][i].fired /\ p \in ranges[m][i].pages
    BY DEF Kept
  <2>2. PICK i \in DOMAIN ranges[m] : ~ranges[m][i].fired /\ p \in ranges[m][i].pages
    BY <2>1
  <2>3. [mon |-> m, at |-> i] \in Watched(Keepers)
    BY DEF Watched
  <2>4. QED
    BY <2>2, <2>3 DEF RangeOf
<1>2. QED
  BY <1>1, OrphanHolds, PTL

--------------------------------------------------------------------------------
(* A user who does not touch a watched page while a call changes what is watched *)

LEMMA QuietHandlers ==
  ASSUME Quiesced, TypeInv, QuietInv, NEW t \in Threads,
         HandlerStep(t) \/ DanglingEntry(t) \/ \E p \in Pages : Touch(t, p)
  PROVE  QuietInv'
<1>0. UNCHANGED <<call, mutex, monitors>>
  BY DEF HandlerStep, DanglingEntry, Touch, CopyChain, Found, NotFound, MarkFired, RestorePages,
         ReserveSlot, WriteEvent, Publish, monitorVars
<1>1. monitors' = monitors /\ (Changing' <=> Changing) /\ (Reentered' <=> Reentered)
  BY <1>0 DEF Changing, Reentered
<1>2. ~(Changing /\ ~Reentered)
  <2>1. CASE \E p \in Pages : Touch(t, p)
    BY <2>1 DEF Touch, Quiesced
  <2>2. CASE HandlerStep(t)
    BY <2>2 DEF QuietInv, HandlerStep, CopyChain, Found, NotFound, MarkFired, RestorePages,
       ReserveSlot, WriteEvent, Publish, Handling
  <2>3. CASE DanglingEntry(t)
    BY <2>3 DEF QuietInv, DanglingEntry, Handling
  <2>4. QED
    BY <2>1, <2>2, <2>3
<1>3. /\ Others(t)
      /\ thread'[t].phase \in Claimed => thread'[t].range.mon \in monitors
  <2>1. CASE \E p \in Pages : Touch(t, p)
    BY <2>1, TouchStep DEF Claimed
  <2>2. CASE CopyChain(t) \/ NotFound(t) \/ DanglingEntry(t)
    BY <2>2, CopyChainStep, NotFoundStep, DanglingStep DEF Moves, Claimed
  <2>3. CASE Found(t)
    BY <2>3, FoundStep, GuardsAre DEF TypeInv
  <2>4. CASE MarkFired(t) \/ RestorePages(t) \/ WriteEvent(t)
    <3>1. /\ thread[t].phase \in {"found", "marked", "reserved"}
          /\ Others(t) /\ thread'[t].range = thread[t].range
      BY <2>4, MarkFiredStep, RestorePagesStep, WriteEventStep DEF Moves
    <3>2. QED
      BY <3>1 DEF QuietInv, Claimed
  <2>5. CASE ReserveSlot(t)
    BY <2>5, ReserveSlotStep DEF QuietInv, Claimed
  <2>6. CASE Publish(t)
    BY <2>6, PublishStep, IdleTypes DEF Claimed
  <2>7. QED
    BY <2>1, <2>2, <2>3, <2>4, <2>5, <2>6 DEF HandlerStep
<1>4. QED
  BY <1>1, <1>2, <1>3 DEF QuietInv, Others

LEMMA QuietCalls ==
  ASSUME Quiesced, TypeInv, QuietInv, call.pc = "callback" => mutex,
         \/ \E request \in Requests : Enable(request)
         \/ DrainPending \/ DisableAll \/ \E m \in Monitors : Disable(m)
         \/ CallStep \/ CallbackReenters
  PROVE  QuietInv'
<1>1. thread' = thread /\ \A t \in Threads : Handling(t)' = Handling(t)
  BY DEF Enable, DrainPending, DisableAll, Disable, CallStep, ProtectRange, RegisterHandlers, Insert,
         TakeEvent, CallbackReturns, CallbackReenters, Advance, DrainEnds, Lock, ChooseMonitor,
         RestoreRange, UnregisterHandlers, Delete, DisableReturns, Handling
<1>2. CASE Delete \/ DisableReturns
  <2>1. Changing /\ ~Reentered
    BY <1>2, DeleteStep, ReturnStep DEF Changing, Reentered
  <2>2. \A t \in Threads : ~Handling(t)
    BY <2>1 DEF QuietInv
  <2>3. QED
    BY <1>1, <2>2 DEF QuietInv, Handling, Claimed
<1>3. CASE ~Delete /\ ~DisableReturns
  <2>1. monitors \subseteq monitors'
    BY <1>3 DEF Enable, DrainPending, DisableAll, Disable, CallStep, ProtectRange, RegisterHandlers,
         Insert, TakeEvent, CallbackReturns, CallbackReenters, Advance, DrainEnds, Lock,
         ChooseMonitor, RestoreRange, UnregisterHandlers, monitorVars
  <2>2. ASSUME Changing', ~Reentered' PROVE \A t \in Threads : ~Handling(t)
    <3>1. CASE (\E request \in Requests : Enable(request)) \/ DisableAll
               \/ \E m \in Monitors : Disable(m)
      BY <3>1 DEF Enable, DisableAll, Disable, Quiet, Quiesced
    <3>2. CASE DrainPending
      BY <2>2, <3>2 DEF DrainPending, Draining, Idle, Changing
    <3>3. CASE ProtectRange \/ RegisterHandlers
      BY <3>3, ProtectStep, RegisterStep DEF Goes, QuietInv, Changing, Reentered
    <3>4. CASE Insert
      BY <2>2, <3>4, InsertStep DEF IdleAgain, Changing
    <3>5. CASE TakeEvent \/ CallbackReturns \/ CallbackReenters \/ Advance
      <4>1. /\ call.pc \in {"draining", "callback", "advancing"}
            /\ \/ call'.pc \in {"draining", "callback", "advancing"}
               \/ call.pc = "callback" /\ call'.pc = "locking" /\ mutex' = mutex
            /\ call'.todo = call.todo /\ call'.all = call.all
        BY <3>5, TakeStep, CallbackStep, AdvanceStep DEF Goes
      <4>2. QED
        BY <2>2, <4>1 DEF QuietInv, Changing, Reentered
    <3>6. CASE DrainEnds
      BY <2>2, <3>6, DrainEndStep DEF Goes, IdleAgain, QuietInv, Changing, Reentered
    <3>7. CASE Lock \/ ChooseMonitor \/ RestoreRange \/ UnregisterHandlers
      BY <3>7, LockStep, ChooseStep, RestoreStep, UnregisterStep DEF Goes, QuietInv, Changing, Reentered
    <3>8. QED
      BY <1>3, <3>1, <3>2, <3>3, <3>4, <3>5, <3>6, <3>7 DEF CallStep
  <2>3. QED
    BY <1>1, <2>1, <2>2 DEF QuietInv
<1>4. QED
  BY <1>2, <1>3

LEMMA QuietThrow ==
  ASSUME QuietInv, AddressThrows
  PROVE  QuietInv'
BY ThrowStep DEF QuietInv, IdleAgain, Changing, Handling

\* The lock is held while a callback runs.
LockedInv == call.pc = "callback" => mutex

LEMMA LockedHolds == Spec => []LockedInv
<1>1. Init => LockedInv
  BY IdleTypes DEF Init, LockedInv
<1>2. TypeInv /\ LockedInv /\ [Next]_vars => LockedInv'
  <2> SUFFICES ASSUME TypeInv, LockedInv, [Next]_vars, call'.pc = "callback" PROVE mutex'
    BY DEF LockedInv
  <2>1. CASE UNCHANGED vars
    BY <2>1 DEF vars, LockedInv
  <2>2. CASE \E t \in Threads : HandlerStep(t) \/ DanglingEntry(t) \/ \E p \in Pages : Touch(t, p)
    <3>1. UNCHANGED <<call, mutex>>
      BY <2>2 DEF HandlerStep, DanglingEntry, Touch, CopyChain, Found, NotFound, MarkFired,
         RestorePages, ReserveSlot, WriteEvent, Publish
    <3>2. QED
      BY <3>1 DEF LockedInv
  <2>3. CASE TakeEvent
    BY <2>3, TakeStep DEF Goes
  <2>4. CASE \/ \E request \in Requests : Enable(request)
             \/ DrainPending \/ DisableAll \/ \E m \in Monitors : Disable(m)
    BY <2>4, EnableStep, DrainStep
  <2>5. CASE \/ ProtectRange \/ RegisterHandlers \/ Insert \/ CallbackReturns \/ CallbackReenters
             \/ Advance \/ DrainEnds
    BY <2>5, ProtectStep, RegisterStep, InsertStep, CallbackStep, AdvanceStep, DrainEndStep
    DEF Goes, IdleAgain
  <2>6. CASE Lock \/ ChooseMonitor \/ RestoreRange \/ UnregisterHandlers \/ Delete \/ DisableReturns
    BY <2>6, LockStep, ChooseStep, RestoreStep, UnregisterStep, DeleteStep, ReturnStep
    DEF Goes, IdleAgain
  <2>7. QED
    BY <2>1, <2>2, <2>3, <2>4, <2>5, <2>6, ThrowStep DEF Next, CallStep, IdleAgain
<1>3. QED
  BY <1>1, <1>2, TypesHold, PTL DEF Spec

\* With "quiesced" no thread is in the handler while enable(), disable() or disableAll() works,
\* and what a handler has claimed is there until it is through.
THEOREM QuietHolds ==
  ASSUME Quiesced
  PROVE  Spec => []QuietInv
<1>1. Init => QuietInv
  BY IdleTypes DEF Init, QuietInv, Handling, Claimed
<1>2. TypeInv /\ LockedInv /\ QuietInv /\ [Next]_vars => QuietInv'
  <2> SUFFICES ASSUME TypeInv, LockedInv, QuietInv, [Next]_vars PROVE QuietInv'
    OBVIOUS
  <2>1. CASE UNCHANGED vars
    BY <2>1 DEF vars, monitorVars, QuietInv, Changing, Reentered, Handling
  <2>2. QED
    BY <2>1, QuietHandlers, QuietCalls, QuietThrow DEF Next, LockedInv
<1>3. QED
  BY <1>1, <1>2, TypesHold, LockedHolds, PTL DEF Spec

LEMMA WatchedAre ==
  ASSUME TypeInv, NEW e \in Watched(monitors)
  PROVE  /\ e.mon \in monitors /\ e.mon \in Monitors /\ e.at \in DOMAIN ranges[e.mon]
         /\ e = [mon |-> e.mon, at |-> e.at] /\ e.at \in Nat \ {0}
<1>1. PICK m \in monitors : \E i \in DOMAIN ranges[m] : e = [mon |-> m, at |-> i]
  BY DEF Watched
<1>2. PICK i \in DOMAIN ranges[m] : e = [mon |-> m, at |-> i]
  BY <1>1
<1>3. m \in Monitors
  BY DEF TypeInv, TypeOK
<1>4. i \in Nat \ {0}
  BY <1>3, RangesOfMonitor DEF TypeInv
<1>5. QED
  BY <1>2, <1>3, <1>4

\* While a handler runs no call changes what is watched.
LEMMA NobodyChanges ==
  ASSUME TypeInv, RegistryInv, QuietInv, ~Changing \/ \E t \in Threads : Handling(t)
  PROVE  /\ ~Changing \/ Reentered
         /\ call.pc \in {"idle", "draining", "callback", "advancing", "locking"} /\ call.mon = 0
         /\ monitors \intersect freed = {} /\ registered = monitors
<1>1. ~Changing \/ Reentered
  BY DEF QuietInv
<1>2. call.pc \in {"idle", "draining", "callback", "advancing", "locking"}
  BY <1>1 DEF Changing, Reentered
<1>3. call.mon = 0
  BY <1>2 DEF TypeInv, CallInv
<1>4. monitors \intersect freed = {} /\ registered = monitors
  BY <1>2 DEF RegistryInv, Removing
<1>5. QED
  BY <1>1, <1>2, <1>3, <1>4

\* Nobody's ids are left where every address can be read.
LEMMA KnownHolds ==
  ASSUME Parseable
  PROVE  Spec => []KnownInv
<1>1. Init => KnownInv
  BY ConstantFacts DEF Init, KnownInv
<1>2. TypeInv /\ RegistryInv /\ KnownInv /\ [Next]_vars => KnownInv'
  <2> SUFFICES ASSUME TypeInv, RegistryInv, KnownInv, [Next]_vars, NEW m \in Monitors,
                      m < nextMonId', ~(Enabling' /\ m = call'.mon), m \notin monitors', m \notin freed'
               PROVE  FALSE
    BY DEF KnownInv
  <2>0. m \in Nat /\ nextMonId \in Nat
    BY ConstantFacts DEF TypeInv, TypeOK
  <2>1. CASE UNCHANGED <<monitors, freed, nextMonId>> /\ ~Enabling
    BY <2>0, <2>1 DEF KnownInv
  <2>2. CASE UNCHANGED <<monitors, freed, nextMonId>> /\ Enabling /\ Enabling' /\ call'.mon = call.mon
    BY <2>0, <2>2 DEF KnownInv
  <2>3. CASE \E request \in Requests : Enable(request)
    <3>1. /\ call.pc = "idle" /\ call'.mon = nextMonId /\ nextMonId' = nextMonId + 1 /\ Enabling'
          /\ UNCHANGED <<monitors, freed>>
      BY <2>3, EnableStep DEF Enabling
    <3>2. m < nextMonId /\ ~Enabling
      BY <2>0, <3>1 DEF Enabling
    <3>3. QED
      BY <3>1, <3>2 DEF KnownInv
  <2>4. CASE Insert
    BY <2>0, <2>4, InsertStep DEF KnownInv
  <2>5. CASE Delete \/ DisableReturns
    <3>1. ~Enabling /\ nextMonId' = nextMonId /\ monitors \union freed \subseteq monitors' \union freed'
      <4>1. CASE Delete
        BY <4>1, DeleteStep DEF Enabling
      <4>2. CASE DisableReturns
        BY <4>2, ReturnStep DEF Enabling, RegistryInv, Removing
      <4>3. QED
        BY <2>5, <4>1, <4>2
    <3>2. QED
      BY <2>0, <3>1 DEF KnownInv
  <2>6. CASE DrainPending \/ DisableAll \/ \E n \in Monitors : Disable(n)
    BY <2>1, <2>6, DrainStep DEF monitorVars, Enabling
  <2>7. CASE ProtectRange \/ RegisterHandlers
    BY <2>2, <2>7, ProtectStep, RegisterStep DEF Goes, Enabling
  <2>8. CASE \/ TakeEvent \/ CallbackReturns \/ CallbackReenters \/ Advance \/ DrainEnds
             \/ UnregisterHandlers
    BY <2>1, <2>8, TakeStep, CallbackStep, AdvanceStep, DrainEndStep, UnregisterStep
    DEF Goes, Enabling, monitorVars
  <2>9. CASE Lock \/ ChooseMonitor \/ RestoreRange
    BY <2>1, <2>9, LockStep, ChooseStep, RestoreStep DEF Enabling, monitorVars
  <2>10. CASE UNCHANGED <<monitors, freed, nextMonId, call>>
    BY <2>1, <2>2, <2>10 DEF Enabling
  <2>11. CASE \E t \in Threads : HandlerStep(t) \/ DanglingEntry(t) \/ \E p \in Pages : Touch(t, p)
    <3>1. UNCHANGED <<monitors, freed, nextMonId, call>>
      BY <2>11 DEF HandlerStep, DanglingEntry, Touch, CopyChain, Found, NotFound, MarkFired,
         RestorePages, ReserveSlot, WriteEvent, Publish, monitorVars
    <3>2. QED
      BY <2>10, <3>1
  <2>12. CASE UNCHANGED vars
    BY <2>10, <2>12 DEF vars, monitorVars
  <2>13. QED
    BY <2>3, <2>4, <2>5, <2>6, <2>7, <2>8, <2>9, <2>11, <2>12, ThrowStep DEF Next, CallStep
<1>3. QED
  BY <1>1, <1>2, TypesHold, RegistryHolds, PTL DEF Spec

\* A step of one thread that leaves what is watched alone.
LEMMA AloneUntouched ==
  ASSUME AloneInv, NEW t \in Threads, Others(t), UNCHANGED <<monitors, ranges>>,
         thread'[t].phase # "killed", thread'[t].phase = "running" \/ thread'[t].page = thread[t].page,
         Handling(t),
         thread'[t].phase \in Entered => thread[t].phase \in Entered,
         thread'[t].phase \in Claimed =>
           /\ thread'[t].range \in Watched(monitors)
           /\ thread[t].page \in RangeOf(thread'[t].range).pages
           /\ RangeOf(thread'[t].range).fired <=> thread'[t].phase # "found"
  PROVE  AloneInv'
<1>2. \A u \in Threads \ {t} : thread'[u] = thread[u]
  BY DEF Others
<1>3. Alive'
  BY <1>2 DEF AloneInv, Alive
<1>4. Watched(monitors)' = Watched(monitors)
  BY DEF Watched
<1>5. \A e : RangeOf(e)' = RangeOf(e)
  BY DEF RangeOf
<1>6. \A p : Guards(p)' = Guards(p)
  BY <1>4, <1>5 DEF Guards
<1>7. \A u : /\ Guards(thread[u].page)' = Guards(thread'[u].page)
              /\ RangeOf(thread[u].range)' = RangeOf(thread'[u].range)
  BY <1>5, <1>6 DEF RangeOf, Guards
<1>8. ASSUME NEW u \in Threads PROVE Claims(u)'
  <2>1. CASE u = t
    BY <1>4, <1>5, <1>6, <1>7, <2>1 DEF AloneInv, Claims, Entered, Claimed
  <2>2. CASE u # t
    <3>1. thread'[u] = thread[u] /\ Claims(u)
      BY <1>2, <2>2 DEF AloneInv
    <3>2. QED
      BY <1>4, <1>5, <1>6, <1>7, <3>1 DEF Claims
  <2>3. QED
    BY <2>1, <2>2
<1>9. \A u \in Threads : Handling(u)' => Handling(u) /\ thread'[u].page = thread[u].page
  BY <1>2 DEF Handling
<1>10. ASSUME NEW u \in Threads, NEW v \in Threads, Handling(u)', Handling(v)', u # v
      PROVE  ~Together(u, v)'
  <2>1. ~Together(u, v) /\ thread'[u].page = thread[u].page /\ thread'[v].page = thread[v].page
    BY <1>9, <1>10 DEF AloneInv
  <2>2. QED
    BY SMTT(30), <2>1 DEF Together, RangeOf, Watched
<1>11. QED
  BY <1>3, <1>8, <1>10 DEF AloneInv

LEMMA AloneTouch ==
  ASSUME Quiesced, OneAtATime, TypeInv, RegistryInv, OrphanInv, KnownInv, QuietInv, AloneInv,
         NEW t \in Threads, NEW p \in Pages, Touch(t, p)
  PROVE  AloneInv'
<1>1. /\ thread[t].phase = "running" /\ prot[p] = "none" /\ ~Changing /\ ~Contended(t, p)
      /\ UNCHANGED <<monitors, ranges>>
  BY DEF Touch, Quiesced, OneAtATime, monitorVars
<1>2. /\ thread'[t].phase = "entered" /\ thread'[t].page = p
      /\ \A u \in Threads \ {t} : thread'[u] = thread[u]
  BY TouchStep DEF Others
<1>3. call.mon = 0
  BY <1>1, NobodyChanges
<1>4. ASSUME NEW u \in Threads, u # t, Handling(u), NEW e \in Watched(monitors),
             {p, thread[u].page} \subseteq RangeOf(e).pages
      PROVE  FALSE
  BY <1>1, <1>4 DEF Contended
<1>5. ~Held(p)
  <2> SUFFICES ASSUME NEW u \in Threads, thread[u].phase = "marked",
                      p \in RangeOf(thread[u].range).pages
               PROVE  FALSE
    BY DEF Held
  <2>1. u # t /\ Handling(u)
    BY <1>1 DEF Handling
  <2>2. thread[u].range \in Watched(monitors) /\ thread[u].page \in RangeOf(thread[u].range).pages
    BY DEF AloneInv, Claims, Claimed
  <2>3. QED
    BY <1>4, <2>1, <2>2
<1>6. Guards(p) # {}
  <2>0. p \notin Left
    <3>1. ~Enabling
      BY <1>1, NobodyChanges DEF Enabling
    <3>2. QED
      BY <3>1 DEF KnownInv, Left, Abandoned
  <2>1. Kept(p)
    BY <1>1, <1>5, <2>0 DEF OrphanInv, AloneInv
  <2>2. PICK m \in Keepers : \E i \in DOMAIN ranges[m] :
               ~ranges[m][i].fired /\ p \in ranges[m][i].pages
    BY <2>1 DEF Kept
  <2>3. PICK i \in DOMAIN ranges[m] : ~ranges[m][i].fired /\ p \in ranges[m][i].pages
    BY <2>2
  <2>4. m \in monitors
    BY <1>3 DEF Keepers
  <2>5. [mon |-> m, at |-> i] \in Guards(p)
    BY <2>3, <2>4 DEF Guards, Watched, RangeOf
  <2>6. QED
    BY <2>5
<1>7. Alive'
  BY <1>2 DEF AloneInv, Alive
<1>8. ASSUME NEW u \in Threads PROVE Claims(u)'
  <2>1. CASE u = t
    <3>1. Guards(thread[t].page)' # {}
      BY <1>1, <1>2, <1>6 DEF Guards, Watched, RangeOf
    <3>2. QED
      BY <1>2, <2>1, <3>1 DEF Claims, Claimed
  <2>2. CASE u # t
    <3>1. thread'[u] = thread[u] /\ Claims(u)
      BY <1>2, <2>2 DEF AloneInv
    <3>2. QED
      BY SMTT(30), <1>1, <3>1 DEF Claims, RangeOf, Guards, Watched
  <2>3. QED
    BY <2>1, <2>2
<1>9. ASSUME NEW u \in Threads, NEW v \in Threads, Handling(u)', Handling(v)', u # v
      PROVE  ~Together(u, v)'
  <2>1. CASE u # t /\ v # t
    <3>1. thread'[u] = thread[u] /\ thread'[v] = thread[v] /\ Handling(u) /\ Handling(v)
      BY <1>2, <1>9, <2>1 DEF Handling
    <3>2. ~Together(u, v)
      BY <1>9, <3>1 DEF AloneInv
    <3>3. QED
      BY <1>1, <3>1, <3>2 DEF Together, RangeOf, Watched
  <2>2. ASSUME NEW w \in Threads, w # t, Handling(w)'
        PROVE  \A e \in Watched(monitors) : ~({p, thread[w].page} \subseteq RangeOf(e).pages)
    BY <1>2, <1>4, <2>2 DEF Handling
  <2>3. CASE u = t
    BY <1>1, <1>2, <1>9, <2>2, <2>3 DEF Together, RangeOf, Watched
  <2>4. CASE v = t
    BY <1>1, <1>2, <1>9, <2>2, <2>4 DEF Together, RangeOf, Watched
  <2>5. QED
    BY <2>1, <2>3, <2>4
<1>10. QED
  BY <1>7, <1>8, <1>9 DEF AloneInv

\* The range that fires claims nobody else's page.
LEMMA AloneMark ==
  ASSUME TypeInv, AloneInv, NEW t \in Threads, MarkFired(t)
  PROVE  AloneInv'
<1> DEFINE e == thread[t].range
<1>1. /\ thread[t].phase = "found" /\ Moves(t, "marked") /\ Fires(e) /\ monitors' = monitors
  BY MarkFiredStep DEF MarkFired
<1>2. /\ e \in Watched(monitors) /\ thread[t].page \in RangeOf(e).pages /\ Handling(t)
  BY <1>1 DEF AloneInv, Claims, Claimed, Handling
<1>3. e.mon \in Monitors /\ e.at \in DOMAIN ranges[e.mon] /\ e = [mon |-> e.mon, at |-> e.at]
  BY <1>2, WatchedAre
<1> HIDE DEF e
<1>4. monitors \subseteq Monitors
  BY DEF TypeInv, TypeOK
<1>5. Watched(monitors)' = Watched(monitors)
  BY <1>1, <1>4 DEF Fires, Watched
<1>6. ASSUME NEW f \in Watched(monitors)
      PROVE  /\ (ranges'[f.mon][f.at]).pages = RangeOf(f).pages
             /\ (ranges'[f.mon][f.at]).fired <=> RangeOf(f).fired \/ f = e
  <2>1. f.mon \in Monitors /\ f.at \in DOMAIN ranges[f.mon] /\ f = [mon |-> f.mon, at |-> f.at]
    BY WatchedAre
  <2>2. f = e <=> f.mon = e.mon /\ f.at = e.at
    BY <1>3, <2>1
  <2>3. QED
    BY <1>1, <2>1, <2>2 DEF Fires, RangeOf
<1>7. ASSUME NEW u \in Threads, u # t, Handling(u)
      PROVE  thread'[u] = thread[u] /\ thread[u].page \notin RangeOf(e).pages
  BY <1>1, <1>2, <1>7 DEF AloneInv, Together, Moves, Others
<1>8. Alive'
  BY <1>1 DEF AloneInv, Alive, Moves, Others
<1>9. ASSUME NEW u \in Threads PROVE Claims(u)'
  <2>1. CASE u = t
    <3>1. thread'[u].phase = "marked" /\ thread'[u].range = e /\ thread'[u].page = thread[t].page
      BY <1>1, <2>1 DEF Moves, e
    <3>2. (ranges'[e.mon][e.at]).pages = RangeOf(e).pages /\ (ranges'[e.mon][e.at]).fired
      BY <1>2, <1>6
    <3>3. QED
      BY <1>2, <1>5, <3>1, <3>2 DEF Claims, RangeOf, Entered, Claimed
  <2>2. CASE u # t /\ Handling(u)
    <3>1. thread'[u] = thread[u] /\ thread[u].page \notin RangeOf(e).pages /\ Claims(u)
      BY <1>7, <2>2 DEF AloneInv
    <3>2. ASSUME thread[u].phase \in Entered PROVE Guards(thread[u].page)' # {}
      <4>1. PICK g \in Watched(monitors) : ~RangeOf(g).fired /\ thread[u].page \in RangeOf(g).pages
        BY <3>1, <3>2 DEF Claims, Guards
      <4>2. g # e
        BY <3>1, <4>1
      <4>3. g \in Guards(thread[u].page)'
        BY <1>5, <1>6, <3>1, <4>1, <4>2 DEF Guards, RangeOf
      <4>4. QED
        BY <4>3
    <3>3. ASSUME thread[u].phase \in Claimed
          PROVE  LET f == thread[u].range
                 IN /\ f \in Watched(monitors)' /\ thread[u].page \in (ranges'[f.mon][f.at]).pages
                    /\ (ranges'[f.mon][f.at]).fired <=> thread[u].phase # "found"
      <4> DEFINE f == thread[u].range
      <4>1. /\ f \in Watched(monitors) /\ thread[u].page \in RangeOf(f).pages
            /\ RangeOf(f).fired <=> thread[u].phase # "found"
        BY <3>1, <3>3 DEF Claims
      <4>2. f # e
        BY <3>1, <4>1
      <4> HIDE DEF f
      <4>3. QED
        BY <1>5, <1>6, <4>1, <4>2 DEF f
    <3>4. QED
      BY <3>1, <3>2, <3>3 DEF Claims, RangeOf
  <2>3. CASE u # t /\ ~Handling(u)
    BY <1>1, <2>3 DEF Moves, Others, Handling, Claims, Entered, Claimed
  <2>4. QED
    BY <2>1, <2>2, <2>3
<1>10. ASSUME NEW u \in Threads, NEW v \in Threads, Handling(u)', Handling(v)', u # v
       PROVE  ~Together(u, v)'
  <2>1. /\ Handling(u) /\ Handling(v)
        /\ thread'[u].page = thread[u].page /\ thread'[v].page = thread[v].page
    BY <1>1, <1>10 DEF Handling, Moves, Others
  <2>2. ~Together(u, v)
    BY <1>10, <2>1 DEF AloneInv
  <2>3. QED
    BY <1>5, <1>6, <2>1, <2>2 DEF Together, RangeOf
<1>11. QED
  BY <1>8, <1>9, <1>10 DEF AloneInv

LEMMA AloneHandlers ==
  ASSUME TypeInv, RegistryInv, QuietInv, AloneInv, NEW t \in Threads,
         HandlerStep(t) \/ DanglingEntry(t)
  PROVE  AloneInv'
<1>1. CASE MarkFired(t)
  BY <1>1, AloneMark
<1>2. CASE ~MarkFired(t)
  <2>1. Handling(t) /\ UNCHANGED <<monitors, ranges>>
    BY <1>2 DEF HandlerStep, DanglingEntry, CopyChain, Found, NotFound, RestorePages, ReserveSlot,
       WriteEvent, Publish, Handling, monitorVars
  <2>2. monitors \intersect freed = {} /\ registered = monitors
    BY <2>1, NobodyChanges
  <2>3. Claims(t)
    BY DEF AloneInv
  <2>4. CASE CopyChain(t)
    <3>1. Guards(thread[t].page) # {}
      BY <2>3, <2>4 DEF CopyChain, Claims, Entered
    <3>2. monitors # {}
      BY <3>1, GuardsAre DEF TypeInv
    <3>3. Moves(t, "scanning") /\ thread[t].phase = "entered"
      BY <2>2, <2>4, <3>2, CopyChainStep DEF CopyChain
    <3>4. QED
      BY <2>1, <3>3, AloneUntouched DEF Moves, Entered, Claimed
  <2>5. CASE Found(t)
    <3>1. /\ Others(t) /\ thread'[t].phase = "found" /\ thread'[t].page = thread[t].page
          /\ thread'[t].range \in Guards(thread[t].page)
      BY <2>5, FoundStep
    <3>2. /\ thread'[t].range \in Watched(monitors) /\ ~RangeOf(thread'[t].range).fired
          /\ thread[t].page \in RangeOf(thread'[t].range).pages
      BY <3>1 DEF Guards
    <3>3. QED
      BY <2>1, <3>1, <3>2, AloneUntouched DEF Entered
  <2>6. CASE NotFound(t)
    BY <2>3, <2>6 DEF NotFound, Claims, Entered
  <2>7. CASE DanglingEntry(t)
    <3>1. PICK e \in Watched(monitors) : e.mon \in freed
      BY <2>2, <2>3, <2>7 DEF DanglingEntry, Claims, Claimed
    <3>2. QED
      BY <2>2, <3>1, WatchedAre
  <2>8. CASE RestorePages(t) \/ ReserveSlot(t) \/ WriteEvent(t)
    <3>1. /\ thread[t].phase \in {"marked", "restored", "reserved"} /\ Others(t)
          /\ thread'[t].phase \in {"restored", "reserved", "written"}
          /\ thread'[t].page = thread[t].page /\ thread'[t].range = thread[t].range
      BY <2>8, RestorePagesStep, ReserveSlotStep, WriteEventStep DEF Moves
    <3>2. /\ thread[t].range \in Watched(monitors) /\ RangeOf(thread[t].range).fired
          /\ thread[t].page \in RangeOf(thread[t].range).pages
      BY <2>3, <3>1 DEF Claims, Claimed
    <3>3. QED
      BY <2>1, <3>1, <3>2, AloneUntouched DEF Entered
  <2>9. CASE Publish(t)
    <3>1. Others(t) /\ thread'[t].phase = "running"
      BY <2>9, PublishStep, IdleTypes
    <3>2. QED
      BY <2>1, <3>1, AloneUntouched DEF Entered, Claimed
  <2>10. QED
    BY <1>2, <2>4, <2>5, <2>6, <2>7, <2>8, <2>9 DEF HandlerStep
<1>3. QED
  BY <1>1, <1>2

LEMMA AloneCalls ==
  ASSUME TypeInv, RegistryInv, QuietInv, AloneInv,
         \/ \E request \in Requests : Enable(request)
         \/ DrainPending \/ DisableAll \/ \E m \in Monitors : Disable(m)
         \/ CallStep \/ CallbackReenters
  PROVE  AloneInv'
<1>1. thread' = thread
  BY DEF Enable, DrainPending, DisableAll, Disable, CallStep, ProtectRange, RegisterHandlers, Insert,
         TakeEvent, CallbackReturns, CallbackReenters, Advance, DrainEnds, Lock, ChooseMonitor,
         RestoreRange, UnregisterHandlers, Delete, DisableReturns
<1>2. CASE UNCHANGED <<monitors, ranges>>
  BY SMTT(30), <1>1, <1>2 DEF AloneInv, Alive, Claims, Together, Handling, Guards, Watched, RangeOf
<1>3. CASE ~UNCHANGED <<monitors, ranges>>
  <2>1. ProtectRange \/ Insert \/ Delete \/ DisableReturns
    BY <1>3 DEF Enable, DrainPending, DisableAll, Disable, CallStep, RegisterHandlers,
         TakeEvent, CallbackReturns, CallbackReenters, Advance, DrainEnds, Lock, ChooseMonitor,
         RestoreRange, UnregisterHandlers, monitorVars
  <2>2. Changing /\ ~Reentered
    BY <2>1, ProtectStep, InsertStep, DeleteStep, ReturnStep DEF Changing, Reentered
  <2>3. \A t \in Threads : ~Handling(t)
    BY <2>2 DEF QuietInv
  <2>4. QED
    BY <1>1, <2>3 DEF AloneInv, Alive, Claims, Handling, Entered, Claimed
<1>4. QED
  BY <1>2, <1>3

LEMMA AloneHolds ==
  ASSUME Quiesced, OneAtATime, Parseable
  PROVE  Spec => []AloneInv
<1>1. Init => AloneInv
  BY IdleTypes DEF Init, AloneInv, Alive, Claims, Handling, Entered, Claimed
<1>2. /\ TypeInv /\ RegistryInv /\ OrphanInv /\ KnownInv /\ QuietInv /\ AloneInv
      /\ [Next]_vars
      => AloneInv'
  <2> SUFFICES ASSUME TypeInv, RegistryInv, OrphanInv, KnownInv, QuietInv, AloneInv, [Next]_vars
               PROVE  AloneInv'
    OBVIOUS
  <2>1. CASE UNCHANGED vars
    BY SMTT(30), <2>1 DEF vars, monitorVars, AloneInv, Alive, Claims, Together, Handling, Guards, Watched,
       RangeOf
  <2>2. QED
    BY <2>1, AloneTouch, AloneHandlers, AloneCalls, ThrowStep DEF Next
<1>3. QED
  BY <1>1, <1>2, TypesHold, RegistryHolds, OrphanHolds, KnownHolds, QuietHolds, PTL DEF Spec

\* No access to watched memory ends the process as long as nobody touches a watched page while a
\* call changes what is watched, no two threads the same one at once, and enable() is given
\* addresses it can read (native_memory_access_monitor.h:17-19).
THEOREM NobodyIsKilled ==
  ASSUME Quiesced, OneAtATime, Parseable
  PROVE  Spec => []AccessSurvives
<1>1. AloneInv => AccessSurvives
  BY DEF AloneInv, AccessSurvives
<1>2. QED
  BY <1>1, AloneHolds, PTL

--------------------------------------------------------------------------------
(* A user who does not watch a page twice at a time *)

LEMMA WatchedFacts ==
  ASSUME TypeInv
  PROVE  /\ \A S \in SUBSET Monitors : \A e \in Watched(S) :
              /\ e.mon \in S /\ e.mon \in Monitors /\ e.at \in DOMAIN ranges[e.mon]
              /\ e = [mon |-> e.mon, at |-> e.at]
         /\ \A S \in SUBSET Monitors : \A m \in S : \A i \in DOMAIN ranges[m] :
              [mon |-> m, at |-> i] \in Watched(S)
         /\ monitors \in SUBSET Monitors /\ freed \in SUBSET Monitors
BY DEF Watched, TypeInv, TypeOK

LEMMA GuardHandlers ==
  ASSUME Quiesced, TypeInv, QuietInv, GuardInv, NEW t \in Threads,
         HandlerStep(t) \/ DanglingEntry(t) \/ \E p \in Pages : Touch(t, p)
  PROVE  GuardInv'
<1>0. UNCHANGED <<call, monitors, freed>>
  BY DEF HandlerStep, DanglingEntry, Touch, CopyChain, Found, NotFound, MarkFired, RestorePages,
         ReserveSlot, WriteEvent, Publish, monitorVars
<1>1. ~Enabling /\ ~Enabling'
  <2>1. ~Changing \/ Reentered
    <3>1. CASE \E p \in Pages : Touch(t, p)
      BY <3>1 DEF Touch, Quiesced
    <3>2. CASE HandlerStep(t) \/ DanglingEntry(t)
      <4>1. Handling(t)
        BY <3>2 DEF HandlerStep, DanglingEntry, CopyChain, Found, NotFound, MarkFired, RestorePages,
           ReserveSlot, WriteEvent, Publish, Handling
      <4>2. QED
        BY <4>1 DEF QuietInv
    <3>3. QED
      BY <3>1, <3>2
  <2>2. QED
    BY <1>0, <2>1 DEF Changing, Reentered, Enabling
<1>2. RequestInv'
  BY <1>1 DEF RequestInv
<1>3. (call.pc = "choosing" => call.mon \notin monitors \ freed)'
  BY <1>0 DEF GuardInv, DoneInv
<1>4. CASE MarkFired(t)
  <2> DEFINE e == thread[t].range
  <2>1. /\ thread[t].phase = "found" /\ Moves(t, "marked") /\ Fires(e) /\ prot' = prot
        /\ e.mon \in Monitors /\ e.at \in DOMAIN ranges[e.mon]
    BY <1>4, MarkFiredStep DEF MarkFired, TypeInv, ClaimInv, Claimed
  <2> HIDE DEF e
  <2>2. /\ Watched(monitors)' = Watched(monitors)
        /\ Watched(monitors \ freed)' = Watched(monitors \ freed)
    BY <1>0, <2>1 DEF Fires, Watched, TypeInv, TypeOK
  <2>3. ASSUME NEW f \in Watched(Monitors)
        PROVE  /\ (ranges'[f.mon][f.at]).pages = RangeOf(f).pages
               /\ RangeOf(f).fired => (ranges'[f.mon][f.at]).fired
    <3>1. f.mon \in Monitors /\ f.at \in DOMAIN ranges[f.mon]
      BY WatchedFacts
    <3>2. (ranges'[f.mon][f.at]).pages = RangeOf(f).pages
      BY <2>1, <3>1 DEF Fires, RangeOf
    <3>3. (ranges'[f.mon][f.at]).fired = IF f.mon = e.mon /\ f.at = e.at THEN TRUE
                                         ELSE ranges[f.mon][f.at].fired
      BY <2>1, <3>1 DEF Fires
    <3>4. QED
      BY <3>2, <3>3 DEF RangeOf
  <2>4. Watched(monitors) \subseteq Watched(Monitors) /\ Watched(monitors \ freed) \subseteq Watched(monitors)
    BY DEF Watched, TypeInv, TypeOK
  <2>5. ASSUME NEW f \in Watched(monitors), Pending(f)' PROVE Pending(f)
    <3>1. CASE ~(ranges'[f.mon][f.at]).fired
      BY <2>3, <2>4, <3>1 DEF Pending
    <3>2. CASE \E u \in Threads : thread'[u].phase \in {"found", "marked"} /\ thread'[u].range = f
      <4>1. PICK u \in Threads : thread'[u].phase \in {"found", "marked"} /\ thread'[u].range = f
        BY <3>2
      <4>2. thread[u].phase \in {"found", "marked"} /\ thread[u].range = f
        BY <2>1, <4>1 DEF Moves, Others
      <4>3. QED
        BY <4>2 DEF Pending
    <3>3. QED
      BY <2>5, <3>1, <3>2 DEF Pending, RangeOf
  <2>6. ApartInv'
    <3> SUFFICES ASSUME NEW f \in Watched(monitors), NEW g \in Watched(monitors), f # g,
                        Pending(f)', ~(ranges'[g.mon][g.at]).fired
                 PROVE  (ranges'[f.mon][f.at]).pages \intersect (ranges'[g.mon][g.at]).pages = {}
      BY <2>2 DEF ApartInv, Apart, RangeOf
    <3>1. Pending(f) /\ ~RangeOf(g).fired
      BY <2>3, <2>4, <2>5
    <3>2. Apart(f, g)
      BY <3>1 DEF GuardInv, ApartInv
    <3>3. QED
      BY <2>3, <2>4, <3>2 DEF Apart
  <2>7. UnfiredStaysGuarded'
    <3> SUFFICES ASSUME NEW f \in Watched(monitors \ freed), ~(ranges'[f.mon][f.at]).fired,
                        f.mon # call.mon, NEW p \in (ranges'[f.mon][f.at]).pages
                 PROVE  prot[p] = "none"
      BY <1>0, <2>1, <2>2 DEF UnfiredStaysGuarded, RangeOf
    <3>1. ~RangeOf(f).fired /\ p \in RangeOf(f).pages
      BY <2>3, <2>4
    <3>2. QED
      BY <3>1 DEF GuardInv, UnfiredStaysGuarded
  <2>8. DoneInv'
    <3>1. ASSUME NEW u \in Threads, thread'[u].phase = "marked"
          PROVE  (RangeOf(thread[u].range).fired)'
      <4>1. CASE u = t
        <5>1. thread'[u].range = e
          BY <2>1, <4>1 DEF Moves, e
        <5>2. (ranges'[e.mon][e.at]).fired
          BY <2>1 DEF Fires
        <5>3. QED
          BY <5>1, <5>2 DEF RangeOf
      <4>2. CASE u # t
        <5>1. thread'[u] = thread[u]
          BY <2>1, <4>2 DEF Moves, Others
        <5>2. /\ RangeOf(thread[u].range).fired
              /\ thread[u].range.mon \in Monitors
              /\ thread[u].range.at \in DOMAIN ranges[thread[u].range.mon]
          BY <3>1, <5>1 DEF GuardInv, DoneInv, TypeInv, ClaimInv, Claimed
        <5>3. QED
          BY <2>1, <5>1, <5>2 DEF Fires, RangeOf
      <4>3. QED
        BY <4>1, <4>2
    <3>2. QED
      BY <1>3, <3>1 DEF DoneInv
  <2>9. QED
    BY <1>2, <2>6, <2>7, <2>8 DEF GuardInv
<1>5. CASE ~MarkFired(t)
  <2>1. ranges' = ranges
    BY <1>5 DEF HandlerStep, DanglingEntry, Touch, CopyChain, Found, NotFound, RestorePages,
       ReserveSlot, WriteEvent, Publish, monitorVars
  <2>2. /\ \A u \in Threads \ {t} : thread'[u] = thread[u]
        /\ thread'[t].phase # "marked"
        /\ thread'[t].phase = "found" => ~RangeOf(thread'[t].range).fired
    <3>1. CASE \E p \in Pages : Touch(t, p)
      BY <3>1, TouchStep DEF Others
    <3>2. CASE CopyChain(t) \/ NotFound(t) \/ DanglingEntry(t)
      BY <3>2, CopyChainStep, NotFoundStep, DanglingStep DEF Moves, Others
    <3>3. CASE Found(t)
      BY <3>3, FoundStep DEF Others, Guards
    <3>4. CASE RestorePages(t) \/ ReserveSlot(t) \/ WriteEvent(t) \/ Publish(t)
      BY <3>4, RestorePagesStep, ReserveSlotStep, WriteEventStep, PublishStep, IdleTypes
      DEF Moves, Others
    <3>5. QED
      BY <1>5, <3>1, <3>2, <3>3, <3>4 DEF HandlerStep
  <2>3. ASSUME NEW f \in Watched(monitors), Pending(f)' PROVE Pending(f)
    BY <2>1, <2>2, <2>3 DEF Pending, RangeOf
  <2>4. ApartInv'
    <3>1. Watched(monitors)' = Watched(monitors)
      BY <1>0, <2>1 DEF Watched
    <3>2. ASSUME NEW f \in Watched(monitors), NEW g \in Watched(monitors), f # g, Pending(f)',
                 ~RangeOf(g).fired
          PROVE  Apart(f, g)
      BY <2>3, <3>2 DEF GuardInv, ApartInv
    <3>3. QED
      BY <2>1, <3>1, <3>2 DEF ApartInv, Apart, RangeOf
  <2>5. DoneInv'
    BY <1>3, <2>1, <2>2 DEF GuardInv, DoneInv, RangeOf
  <2>6. UnfiredStaysGuarded'
    <3> SUFFICES ASSUME NEW f \in Watched(monitors \ freed), ~RangeOf(f).fired, f.mon # call.mon,
                        NEW p \in RangeOf(f).pages
                 PROVE  prot'[p] = "none"
      BY <1>0, <2>1 DEF UnfiredStaysGuarded, Watched, RangeOf
    <3>1. prot[p] = "none"
      BY DEF GuardInv, UnfiredStaysGuarded
    <3>2. CASE RestorePages(t)
      <4> DEFINE e == thread[t].range
      <4>1. thread[t].phase = "marked" /\ RangeOf(e).fired /\ e.mon \in monitors
            /\ e.at \in DOMAIN ranges[e.mon]
        BY <3>2 DEF RestorePages, GuardInv, DoneInv, QuietInv, Claimed, TypeInv, ClaimInv
      <4>2. e \in Events
        <5>1. e \in Events \union {NoEvent}
          BY DEF TypeInv, TypeOK, ThreadStates
        <5>2. 0 \notin monitors
          BY ConstantFacts DEF TypeInv, TypeOK
        <5>3. e.mon # 0
          BY <4>1, <5>2
        <5>4. QED
          BY <5>1, <5>3 DEF NoEvent
      <4>3. e \in Watched(monitors)
        BY <4>1, <4>2 DEF Watched, Events
      <4>4. f \in Watched(monitors)
        BY DEF Watched
      <4>5. Pending(e)
        BY <4>1 DEF Pending
      <4>6. Apart(e, f)
        BY <4>1, <4>3, <4>4, <4>5 DEF GuardInv, ApartInv
      <4>7. p \notin RangeOf(e).pages
        BY <4>6 DEF Apart
      <4>8. p \in Pages
        <5>1. f.mon \in Monitors /\ f.at \in DOMAIN ranges[f.mon]
          BY WatchedFacts
        <5>2. RangeOf(f) \in WatchedRanges
          BY <5>1, RangesOfMonitor DEF RangeOf, TypeInv
        <5>3. QED
          BY <5>2 DEF WatchedRanges
      <4>9. QED
        BY <3>1, <3>2, <4>7, <4>8 DEF RestorePages
    <3>3. CASE ~RestorePages(t)
      <4>1. prot' = prot
        BY <1>5, <3>3 DEF HandlerStep, DanglingEntry, Touch, CopyChain, Found, NotFound,
           ReserveSlot, WriteEvent, Publish
      <4>2. QED
        BY <3>1, <4>1
    <3>4. QED
      BY <3>2, <3>3
  <2>7. QED
    BY <1>2, <2>4, <2>5, <2>6 DEF GuardInv
<1>6. QED
  BY <1>4, <1>5

\* A step of a call that changes no page and no range.
LEMMA GuardUntouched ==
  ASSUME TypeInv, GuardInv, UNCHANGED <<prot, ranges, thread>>,
         monitors' \subseteq monitors, monitors' \ freed' \subseteq monitors \ freed,
         \A m \in monitors' \ freed' : m = call.mon => m = call'.mon,
         RequestInv', call'.pc = "choosing" => call'.mon \notin monitors' \ freed'
  PROVE  GuardInv'
<1>1. /\ Watched(monitors)' \subseteq Watched(monitors)
      /\ Watched(monitors \ freed)' \subseteq Watched(monitors \ freed)
  BY DEF Watched
<1>2. \A e : RangeOf(e)' = RangeOf(e) /\ (Pending(e)' => Pending(e))
  BY DEF RangeOf, Pending
<1>3. ApartInv'
  BY <1>1, <1>2 DEF GuardInv, ApartInv, Apart
<1>4. UnfiredStaysGuarded'
  <2> SUFFICES ASSUME NEW e \in Watched(monitors' \ freed'), ~RangeOf(e).fired, e.mon # call'.mon,
                      NEW p \in RangeOf(e).pages
               PROVE  prot[p] = "none"
    BY <1>2 DEF UnfiredStaysGuarded, Watched
  <2>1. e \in Watched(monitors \ freed) /\ e.mon \in monitors' \ freed'
    BY DEF Watched
  <2>2. e.mon # call.mon
    BY <2>1
  <2>3. QED
    BY <2>1, <2>2 DEF GuardInv, UnfiredStaysGuarded
<1>5. DoneInv'
  BY <1>2 DEF GuardInv, DoneInv
<1>6. QED
  BY <1>3, <1>4, <1>5 DEF GuardInv

LEMMA GuardInsert ==
  ASSUME TypeInv, RegistryInv, QuietInv, GuardInv, Insert
  PROVE  GuardInv'
<1> DEFINE m == call.mon
<1>1. /\ call.pc = "inserting" /\ monitors' = monitors \union {m} /\ m \in Monitors
      /\ m \notin monitors \union freed /\ IdleAgain
      /\ UNCHANGED <<prot, ranges, freed, thread>>
  BY InsertStep DEF RegistryInv, Enabling, TypeInv, CallInv
<1>2. \A t \in Threads : ~Handling(t)
  BY <1>1 DEF QuietInv, Changing, Reentered
<1>3. Enabling
  BY <1>1 DEF Enabling
<1>4. /\ Disjoint(call.request)
      /\ \A i \in DOMAIN ranges[m] :
           /\ i \in DOMAIN call.request /\ ~ranges[m][i].fired
           /\ ranges[m][i].pages = PagesOf(call.request[i])
           /\ \A p \in ranges[m][i].pages : prot[p] = "none"
  BY <1>3 DEF GuardInv, RequestInv
<1> HIDE DEF m
<1>5. ASSUME NEW e \in Watched(monitors')
      PROVE  /\ e.mon = m \/ e \in Watched(monitors)
             /\ e.at \in DOMAIN ranges[e.mon] /\ e = [mon |-> e.mon, at |-> e.at]
  BY <1>1 DEF Watched
<1>6. Watched(monitors)' = Watched(monitors') /\ Watched(monitors \ freed)' = Watched(monitors' \ freed)
  BY <1>1 DEF Watched
<1>7. ASSUME NEW e \in Watched(monitors'), NEW f \in Watched(monitors'), e # f,
             ~RangeOf(e).fired, ~RangeOf(f).fired, e.mon = m, NEW p \in RangeOf(e).pages,
             p \in RangeOf(f).pages
      PROVE  FALSE
  <2>1. e.at \in DOMAIN call.request /\ p \in PagesOf(call.request[e.at])
    BY <1>4, <1>5, <1>7 DEF RangeOf
  <2>2. p \in Pages
    BY <2>1, ConstantFacts
  <2>3. Guards(p) = {} /\ \A j \in DOMAIN call.request : p \in PagesOf(call.request[j]) => j = e.at
    BY <1>4, <2>1, <2>2 DEF Disjoint
  <2>4. CASE f.mon = m
    <3>1. f.at \in DOMAIN call.request /\ p \in PagesOf(call.request[f.at])
      BY <1>4, <1>5, <1>7, <2>4 DEF RangeOf
    <3>2. QED
      BY <1>5, <1>7, <2>3, <2>4, <3>1
  <2>5. CASE f.mon # m
    BY <1>5, <1>7, <2>3, <2>5 DEF Guards
  <2>6. QED
    BY <2>4, <2>5
<1>8. ApartInv'
  <2> SUFFICES ASSUME NEW e \in Watched(monitors'), NEW f \in Watched(monitors'), e # f,
                      Pending(e)', ~RangeOf(f).fired
               PROVE  Apart(e, f)
    <3>1. \A e : RangeOf(e)' = RangeOf(e)
      BY <1>1 DEF RangeOf
    <3>2. QED
      BY <1>6, <3>1 DEF ApartInv, Apart
  <2>1. ~RangeOf(e).fired
    BY <1>1, <1>2 DEF Pending, Handling, RangeOf
  <2>2. CASE e.mon = m \/ f.mon = m
    BY <1>7, <2>1, <2>2 DEF Apart
  <2>3. CASE e.mon # m /\ f.mon # m
    <3>1. e \in Watched(monitors) /\ f \in Watched(monitors)
      BY <1>5, <2>3
    <3>2. Pending(e)
      BY <2>1 DEF Pending
    <3>3. QED
      BY <3>1, <3>2 DEF GuardInv, ApartInv
  <2>4. QED
    BY <2>2, <2>3
<1>9. UnfiredStaysGuarded'
  <2> SUFFICES ASSUME NEW e \in Watched(monitors' \ freed), ~RangeOf(e).fired,
                      NEW p \in RangeOf(e).pages
               PROVE  prot[p] = "none"
    BY <1>1, <1>6 DEF UnfiredStaysGuarded, RangeOf
  <2>1. e.at \in DOMAIN ranges[e.mon] /\ (e.mon = m \/ e \in Watched(monitors \ freed))
    BY <1>1 DEF Watched
  <2>2. CASE e.mon = m
    BY <1>4, <2>1, <2>2 DEF RangeOf
  <2>3. CASE e.mon # m
    BY <2>1, <2>3 DEF GuardInv, UnfiredStaysGuarded, m
  <2>4. QED
    BY <2>2, <2>3
<1>10. RequestInv' /\ DoneInv'
  BY <1>1 DEF IdleAgain, RequestInv, Enabling, GuardInv, DoneInv, RangeOf
<1>11. QED
  BY <1>8, <1>9, <1>10 DEF GuardInv

LEMMA GuardRestore ==
  ASSUME TypeInv, RegistryInv, GuardInv, RestoreRange
  PROVE  GuardInv'
<1> DEFINE e == [mon |-> call.mon, at |-> call.at]
<1>1. /\ call.pc = "restoring" /\ call'.pc = "restoring" /\ call'.mon = call.mon
      /\ call.mon \in Monitors /\ call.at \in DOMAIN ranges[call.mon]
      /\ \A p \in Pages : prot'[p] = IF ~RangeOf(e).fired /\ p \in RangeOf(e).pages THEN "rw"
                                     ELSE prot[p]
      /\ UNCHANGED <<ranges, monitors, freed, thread>>
  BY RestoreStep DEF monitorVars, RangeOf
<1>2. call.mon \in monitors
  BY <1>1 DEF RegistryInv, Removing
<1>3. e \in Watched(monitors) /\ e.mon = call.mon
  BY <1>1, <1>2 DEF Watched
<1> HIDE DEF e
<1>4. ApartInv'
  BY <1>1 DEF GuardInv, ApartInv, Apart, Pending, Watched, RangeOf
<1>5. UnfiredStaysGuarded'
  <2> SUFFICES ASSUME NEW f \in Watched(monitors \ freed), ~RangeOf(f).fired, f.mon # call.mon,
                      NEW p \in RangeOf(f).pages
               PROVE  prot'[p] = "none"
    BY <1>1 DEF UnfiredStaysGuarded, Watched, RangeOf
  <2>1. prot[p] = "none"
    BY DEF GuardInv, UnfiredStaysGuarded
  <2>2. f \in Watched(monitors) /\ f # e
    BY <1>3 DEF Watched
  <2>3. p \in Pages
    <3>1. f.mon \in Monitors /\ f.at \in DOMAIN ranges[f.mon]
      BY <2>2, WatchedFacts
    <3>2. RangeOf(f) \in WatchedRanges
      BY <3>1, RangesOfMonitor DEF RangeOf, TypeInv
    <3>3. QED
      BY <3>2 DEF WatchedRanges
  <2>4. ~RangeOf(e).fired => p \notin RangeOf(e).pages
    BY <1>3, <2>2 DEF GuardInv, ApartInv, Pending, Apart
  <2>5. QED
    BY <1>1, <2>1, <2>3, <2>4
<1>6. RequestInv' /\ DoneInv'
  BY <1>1 DEF RequestInv, Enabling, GuardInv, DoneInv, RangeOf
<1>7. QED
  BY <1>4, <1>5, <1>6 DEF GuardInv

LEMMA GuardProtect ==
  ASSUME TypeInv, RegistryInv, QuietInv, GuardInv, ProtectRange
  PROVE  GuardInv'
<1> DEFINE m == call.mon
           pages == PagesOf(call.request[call.at])
<1>1. /\ call.pc = "protecting" /\ m \in Monitors /\ call.at \in DOMAIN call.request
      /\ call'.pc \in {"protecting", "registering"} /\ call'.mon = m
      /\ call'.request = call.request
      /\ \A p \in Pages : prot'[p] = IF p \in pages THEN "none" ELSE prot[p]
      /\ UNCHANGED <<monitors, freed, thread>>
  BY ProtectStep
<1>2. Enabling /\ m \notin monitors \union freed /\ DOMAIN ranges[m] = 1 .. call.at - 1
  BY <1>1 DEF Enabling, RegistryInv
<1>3. call.at \in Nat \ {0}
  BY <1>1, RequestFacts
<1>4. Len(ranges[m]) + 1 = call.at
  <2>1. Len(ranges[m]) \in Nat /\ 1 .. Len(ranges[m]) = 1 .. call.at - 1
    BY <1>1, <1>2, RangesOfMonitor DEF TypeInv
  <2>2. QED
    BY <1>3, <2>1
<1>5. /\ ranges'[m][call.at] = [pages |-> pages, fired |-> FALSE]
      /\ DOMAIN ranges'[m] = DOMAIN ranges[m] \union {call.at}
      /\ \A i \in DOMAIN ranges[m] : ranges'[m][i] = ranges[m][i]
      /\ \A n \in Monitors \ {m} : ranges'[n] = ranges[n]
  BY <1>4, ProtectTypes
<1>6. \A n \in monitors : ranges'[n] = ranges[n]
  BY <1>2, <1>5 DEF TypeInv, TypeOK
<1>7. /\ Disjoint(call.request)
      /\ \A i \in DOMAIN ranges[m] :
           /\ i \in DOMAIN call.request /\ ~ranges[m][i].fired
           /\ ranges[m][i].pages = PagesOf(call.request[i])
           /\ \A p \in ranges[m][i].pages : prot[p] = "none"
  BY <1>2 DEF GuardInv, RequestInv
<1> HIDE DEF m, pages
<1>8. /\ Watched(monitors)' = Watched(monitors)
      /\ Watched(monitors \ freed)' = Watched(monitors \ freed)
  BY <1>1, <1>6 DEF Watched
<1>9. /\ \A e \in Watched(monitors) : RangeOf(e)' = RangeOf(e) /\ (Pending(e)' => Pending(e))
      /\ Watched(monitors \ freed) \subseteq Watched(monitors)
  BY <1>1, <1>6 DEF Watched, RangeOf, Pending
<1>10. \A p : Guards(p)' = Guards(p)
  BY <1>8, <1>9 DEF Guards
<1>11. ApartInv'
  BY <1>8, <1>9 DEF GuardInv, ApartInv, Apart
<1>12. \A p \in Pages : prot[p] = "none" => prot'[p] = "none"
  BY <1>1
<1>13. UnfiredStaysGuarded'
  <2> SUFFICES ASSUME NEW f \in Watched(monitors \ freed), ~RangeOf(f).fired, f.mon # m,
                      NEW p \in RangeOf(f).pages
               PROVE  prot'[p] = "none"
    BY <1>1, <1>8, <1>9 DEF UnfiredStaysGuarded
  <2>1. prot[p] = "none"
    BY DEF GuardInv, UnfiredStaysGuarded, m
  <2>2. f.mon \in Monitors /\ f.at \in DOMAIN ranges[f.mon]
    BY <1>9, WatchedFacts
  <2>3. RangeOf(f) \in WatchedRanges
    BY <2>2, RangesOfMonitor DEF RangeOf, TypeInv
  <2>4. p \in Pages
    BY <2>3 DEF WatchedRanges
  <2>5. QED
    BY <1>12, <2>1, <2>4
<1>14. RequestInv'
  <2>1. Disjoint(call.request)'
    BY <1>1, <1>7, <1>10 DEF Disjoint
  <2>2. ASSUME NEW i \in DOMAIN ranges'[m]
        PROVE  /\ i \in DOMAIN call.request /\ ~ranges'[m][i].fired
               /\ ranges'[m][i].pages = PagesOf(call.request[i])
               /\ \A p \in ranges'[m][i].pages : prot'[p] = "none"
    <3>1. CASE i = call.at
      <4>1. ~ranges'[m][i].fired /\ ranges'[m][i].pages = pages
        BY <1>5, <3>1
      <4>2. \A p \in pages : prot'[p] = "none"
        BY <1>1, ConstantFacts DEF pages
      <4>3. QED
        BY <1>1, <3>1, <4>1, <4>2 DEF pages
    <3>2. CASE i # call.at
      <4>1. i \in DOMAIN ranges[m] /\ ranges'[m][i] = ranges[m][i]
        BY <1>5, <3>2
      <4>2. PagesOf(call.request[i]) \subseteq Pages
        BY ConstantFacts
      <4>3. QED
        BY <1>7, <1>12, <4>1, <4>2
    <3>3. QED
      BY <3>1, <3>2
  <2>3. QED
    BY <1>1, <2>1, <2>2 DEF RequestInv, m
<1>15. DoneInv'
  <2>1. \A t \in Threads : ~Handling(t)
    BY <1>1 DEF QuietInv, Changing, Reentered
  <2>2. QED
    BY <1>1, <2>1 DEF DoneInv, Handling
<1>16. QED
  BY <1>11, <1>13, <1>14, <1>15 DEF GuardInv

LEMMA GuardCalls ==
  ASSUME DisjointOnly, TypeInv, RegistryInv, QuietInv, GuardInv,
         \/ \E request \in Requests : Enable(request)
         \/ DrainPending \/ DisableAll \/ \E m \in Monitors : Disable(m)
         \/ CallStep \/ CallbackReenters
  PROVE  GuardInv'
<1>0. 0 \notin monitors
  BY ConstantFacts DEF TypeInv, TypeOK
<1>1. ASSUME NEW request \in Requests, Enable(request)
      PROVE  GuardInv'
  <2>1. /\ call.pc = "idle" /\ call'.mon = nextMonId /\ call'.request = request
        /\ call'.pc # "choosing" /\ nextMonId \in Monitors
        /\ UNCHANGED <<prot, ranges, monitors, freed, thread>>
    BY <1>1, EnableStep
  <2>2. call.mon = 0
    BY <2>1 DEF TypeInv, CallInv
  <2>3. DOMAIN ranges'[call'.mon] = {}
    BY <2>1 DEF RegistryInv, TypeInv, TypeOK
  <2>4. Disjoint(request)'
    <3>1. Disjoint(request)
      BY <1>1 DEF Enable, DisjointOnly
    <3>2. \A p : Guards(p)' = Guards(p)
      BY <2>1 DEF Guards, Watched, RangeOf
    <3>3. QED
      BY <3>1, <3>2 DEF Disjoint
  <2>5. RequestInv'
    BY <2>1, <2>3, <2>4 DEF RequestInv
  <2>6. QED
    BY <1>0, <2>1, <2>2, <2>5, GuardUntouched
<1>2. CASE DrainPending \/ DisableAll \/ \E m \in Monitors : Disable(m)
  <2>1. /\ call.pc = "idle" /\ call'.pc = "draining"
        /\ UNCHANGED <<prot, ranges, monitors, freed, thread>>
    BY <1>2, DrainStep DEF monitorVars
  <2>2. call.mon = 0 /\ RequestInv'
    BY <2>1 DEF TypeInv, CallInv, RequestInv, Enabling
  <2>3. QED
    BY <1>0, <2>1, <2>2, GuardUntouched
<1>3. CASE TakeEvent \/ CallbackReturns \/ CallbackReenters \/ Advance \/ DrainEnds \/ Lock
  <2>1. /\ call.pc \in {"draining", "callback", "advancing", "locking"}
        /\ call'.pc \in {"idle", "draining", "callback", "advancing", "locking", "choosing"}
        /\ call'.pc = "choosing" => call'.mon = call.mon
        /\ UNCHANGED <<prot, ranges, monitors, freed, thread>>
    BY <1>3, TakeStep, CallbackStep, AdvanceStep, DrainEndStep, LockStep
    DEF Goes, IdleAgain, monitorVars
  <2>2. call.mon = 0 /\ RequestInv'
    BY <2>1 DEF TypeInv, CallInv, RequestInv, Enabling
  <2>3. QED
    BY <1>0, <2>1, <2>2, GuardUntouched
<1>4. CASE RegisterHandlers \/ UnregisterHandlers
  <2>1. /\ call'.mon = call.mon /\ call'.request = call.request /\ call'.pc # "choosing"
        /\ UNCHANGED <<prot, ranges, monitors, freed, thread>>
        /\ Enabling' => Enabling
    BY <1>4, RegisterStep, UnregisterStep DEF Goes, Enabling
  <2>2. RequestInv'
    BY <2>1 DEF GuardInv, RequestInv, Disjoint, Guards, Watched, RangeOf
  <2>3. QED
    BY <2>1, <2>2, GuardUntouched
<1>5. CASE ChooseMonitor \/ Delete \/ DisableReturns
  <2>1. /\ UNCHANGED <<prot, ranges, thread>>
        /\ monitors' \subseteq monitors /\ monitors' \ freed' \subseteq monitors \ freed
        /\ call.pc = "choosing" \/ call'.mon = call.mon
        /\ call'.pc = "choosing" => call'.mon \in freed'
        /\ call'.pc \in {"restoring", "choosing", "idle"}
    BY <1>5, ChooseStep, DeleteStep, ReturnStep DEF IdleAgain, monitorVars
  <2>2. RequestInv'
    BY <2>1 DEF RequestInv, Enabling
  <2>3. \A m \in monitors' \ freed' : m = call.mon => m = call'.mon
    BY <2>1 DEF GuardInv, DoneInv
  <2>4. QED
    BY <2>1, <2>2, <2>3, GuardUntouched
<1>6. QED
  BY <1>1, <1>2, <1>3, <1>4, <1>5, GuardInsert, GuardRestore, GuardProtect DEF CallStep

LEMMA GuardThrow ==
  ASSUME TypeInv, RegistryInv, GuardInv, AddressThrows
  PROVE  GuardInv'
<1>1. UNCHANGED <<prot, ranges, thread, monitors, freed>> /\ call'.pc = "idle" /\ call.pc = "protecting"
  BY ThrowStep DEF IdleAgain
<1>2. call.mon \notin monitors
  BY <1>1 DEF RegistryInv, Enabling
<1>3. RequestInv'
  BY <1>1 DEF RequestInv, Enabling
<1>4. QED
  BY <1>1, <1>2, <1>3, GuardUntouched

LEMMA GuardInitially == Init => GuardInv
<1> SUFFICES ASSUME Init PROVE GuardInv
  OBVIOUS
<1>1. /\ monitors = {} /\ call.pc = "idle" /\ \A t \in Threads : thread[t].phase = "running"
  BY IdleTypes DEF Init
<1>2. QED
  BY <1>1 DEF GuardInv, ApartInv, UnfiredStaysGuarded, RequestInv, DoneInv, Enabling, Watched

LEMMA GuardHolds ==
  ASSUME Quiesced, DisjointOnly
  PROVE  Spec => []GuardInv
<1>1. TypeInv /\ RegistryInv /\ QuietInv /\ GuardInv /\ [Next]_vars => GuardInv'
  <2> SUFFICES ASSUME TypeInv, RegistryInv, QuietInv, GuardInv, [Next]_vars
               PROVE  GuardInv'
    OBVIOUS
  <2>1. CASE UNCHANGED vars
    BY SMTT(30), <2>1 DEF vars, monitorVars, GuardInv, ApartInv, UnfiredStaysGuarded, RequestInv, DoneInv,
       Pending, Apart, Enabling, Disjoint, Guards, Watched, RangeOf
  <2>2. QED
    BY <2>1, GuardHandlers, GuardCalls, GuardThrow DEF Next
<1>2. QED
  BY <1>1, GuardInitially, TypesHold, RegistryHolds, QuietHolds, PTL DEF Spec

\* A range that has not fired stays guarded, page by page, as long as nobody touches a watched page
\* while a call changes what is watched and no page is watched twice at a time
\* (memory-access-monitor.ts:28, "one-shot per range").
THEOREM WatchedStaysGuarded ==
  ASSUME Quiesced, DisjointOnly
  PROVE  Spec => []UnfiredStaysGuarded
<1>1. GuardInv => UnfiredStaysGuarded
  BY DEF GuardInv
<1>2. QED
  BY <1>1, GuardHolds, PTL

--------------------------------------------------------------------------------
(* The ring, and what the callbacks are told through it *)

\* Accesses recorded and not yet passed by the drain, by their place in recorded (less one).
Window   == readIdx .. writeIdx - 1
Drawn(t) == thread[t].phase \in {"reserved", "written"}

\* What the drain relies on.
ReadsInv ==
  /\ Reading => call.read = readIdx
  /\ ~overrun /\ Alive =>
       /\ Reading => readIdx <= call.limit /\ call.limit <= writeIdx
       /\ call.pc \in {"callback", "advancing"} =>
            readIdx < call.limit /\ slots[readIdx % RingSize].ready

\* A slot that is ready has the event of its place; one that is not, and whose place is
\* taken, is about to be written by a handler.
SlotsInv ==
  /\ \A s \in 0 .. RingSize - 1 : slots[s].ready =>
       \E k \in Window : s = k % RingSize /\ slots[s].event = recorded[k + 1]
  /\ \A k \in Window : ~slots[k % RingSize].ready =>
       \E t \in Threads : Drawn(t) /\ thread[t].slot = k % RingSize

\* A handler that has drawn a slot has it for itself.
DrawnInv ==
  /\ \A t \in Threads : Drawn(t) =>
       /\ ~slots[thread[t].slot].ready
       /\ \E k \in Window : thread[t].slot = k % RingSize /\ thread[t].range = recorded[k + 1]
  /\ \A t \in Threads : thread[t].phase = "written" => slots[thread[t].slot].event = thread[t].range
  /\ \A t, u \in Threads : Drawn(t) /\ Drawn(u) /\ t # u => thread[t].slot # thread[u].slot

RingInv ==
  /\ writeIdx = Len(recorded)
  /\ ReadsInv
  /\ ~overrun /\ Alive => /\ readIdx <= writeIdx /\ writeIdx - readIdx <= RingSize
                          /\ SlotsInv /\ DrawnInv

\* How many of the recorded accesses the drain has dealt with.
Passed == IF call.pc \in {"callback", "advancing"} \/ Reentered THEN readIdx + 1 ELSE readIdx

Told(told) ==
  /\ Cardinality(told) = Len(reported)
  /\ \A i \in told : recorded[i] = reported[Cardinality({j \in told : j <= i})]

ToldInv ==
  ~overrun => /\ Passed <= Len(recorded)
              /\ \E told \in SUBSET (1 .. Passed) : Told(told)

\* What is still to be reported is of monitors that are there, and nothing is when one of
\* them goes.
Drained == Removing \/ (call.pc = "locking" /\ ~mutex)

WaitingInv == \A i \in readIdx + 1 .. Len(recorded) : recorded[i].mon \in monitors

DrainedInv == /\ Drained => readIdx = writeIdx
              /\ Reading /\ Changing => call.limit = writeIdx

ReportedInv == /\ Passed <= Len(recorded) /\ Len(reported) = Passed
               /\ \A i \in 1 .. Passed : reported[i] = recorded[i]

ExactInv == ~overrun => WaitingInv /\ DrainedInv /\ ReportedInv

--------------------------------------------------------------------------------
(* Places in the ring *)

LEMMA DivMod ==
  ASSUME NEW N \in Nat \ {0}, NEW i \in Nat
  PROVE  i \div N \in Nat /\ i = N * (i \div N) + (i % N) /\ i % N \in 0 .. N - 1
BY Z3

LEMMA NoSmallMultiple ==
  ASSUME NEW N \in Nat \ {0}, NEW d \in Int, d # 0
  PROVE  N * d >= N \/ N * d <= -N
BY Z3

\* Two places less than the size of the ring apart have different slots.
LEMMA SlotsDiffer ==
  ASSUME NEW N \in Nat \ {0}, NEW i \in Nat, NEW j \in Nat, i < j, j - i < N
  PROVE  i % N # j % N
<1> SUFFICES ASSUME i % N = j % N PROVE FALSE
  OBVIOUS
<1> DEFINE a == i \div N
           b == j \div N
<1>1. a \in Int /\ b \in Int /\ i = N * a + (i % N) /\ j = N * b + (j % N) /\ i % N \in Int
  BY DivMod
<1> HIDE DEF a, b
<1>2. j - i = N * (b - a)
  BY <1>1, Z3
<1>3. b - a # 0 /\ b - a \in Int
  BY <1>1, <1>2
<1>4. N * (b - a) >= N \/ N * (b - a) <= -N
  BY <1>3, NoSmallMultiple
<1>5. QED
  BY <1>2, <1>4

\* A place is found by its slot as long as the ring has not overrun.
LEMMA OnePlace ==
  ASSUME TypeInv, writeIdx - readIdx <= RingSize,
         NEW i \in Window, NEW j \in Window, i % RingSize = j % RingSize
  PROVE  i = j
<1>1. readIdx \in Nat /\ writeIdx \in Nat /\ RingSize \in Nat \ {0}
  BY ConstantFacts DEF TypeInv, TypeOK
<1>2. i \in Nat /\ j \in Nat /\ i - j < RingSize /\ j - i < RingSize
  BY <1>1 DEF Window
<1>3. ~(i < j) /\ ~(j < i)
  BY <1>1, <1>2, SlotsDiffer
<1>4. QED
  BY <1>2, <1>3

LEMMA PlacesAreSlots ==
  ASSUME TypeInv
  PROVE  /\ readIdx \in Nat /\ writeIdx \in Nat /\ Window \subseteq Nat
         /\ \A k \in Window : k % RingSize \in 0 .. RingSize - 1
         /\ readIdx % RingSize \in 0 .. RingSize - 1 /\ writeIdx % RingSize \in 0 .. RingSize - 1
<1>1. readIdx \in Nat /\ writeIdx \in Nat
  BY DEF TypeInv, TypeOK
<1>2. Window \subseteq Nat
  BY <1>1 DEF Window
<1>3. QED
  BY <1>1, <1>2, ConstantFacts

--------------------------------------------------------------------------------
(* The ring protocol *)

\* Steps that leave the ring and the handlers that write to it alone.
LEMMA RingUntouched ==
  ASSUME TypeInv, RingInv, Alive, ReadsInv', UNCHANGED <<slots, writeIdx, readIdx, recorded, overrun>>,
         \A t \in Threads : /\ Drawn(t)' <=> Drawn(t)
                            /\ Drawn(t) => thread'[t] = thread[t]
  PROVE  RingInv'
<1>1. Window' = Window
  BY DEF Window
<1>2. SlotsInv => SlotsInv'
  BY <1>1 DEF SlotsInv
<1>3. DrawnInv => DrawnInv'
  BY <1>1 DEF DrawnInv, Drawn
<1>4. QED
  BY <1>2, <1>3 DEF RingInv

\* Handlers that have not drawn a slot yet, or are killed.
LEMMA RingHandlers ==
  ASSUME TypeInv, RingInv, NEW t \in Threads,
         \/ CopyChain(t) \/ Found(t) \/ NotFound(t) \/ MarkFired(t) \/ RestorePages(t)
         \/ DanglingEntry(t) \/ \E p \in Pages : Touch(t, p)
  PROVE  RingInv'
<1>1. Alive /\ UNCHANGED <<slots, writeIdx, readIdx, recorded, overrun, call>>
  BY DEF DanglingEntry, Touch, CopyChain, Found, NotFound, MarkFired, RestorePages, ringVars,
         historyVars
<1>2. ReadsInv'
  BY <1>1 DEF RingInv, ReadsInv, Reading
<1>3. CASE DanglingEntry(t)
  <2>1. ~Alive'
    BY <1>3, DanglingStep DEF Alive, Moves
  <2>2. QED
    BY <1>1, <1>2, <2>1 DEF RingInv
<1>4. CASE ~DanglingEntry(t)
  <2>1. /\ thread[t].phase \in {"running", "entered", "scanning", "found", "marked"}
        /\ thread'[t].phase \in {"entered", "scanning", "found", "marked", "restored", "killed"}
        /\ Others(t)
    BY ZenonT(30), <1>4, TouchStep, CopyChainStep, FoundStep, NotFoundStep, MarkFiredStep, RestorePagesStep
    DEF Touch, CopyChain, Moves
  <2>2. \A u \in Threads : (Drawn(u)' <=> Drawn(u)) /\ (Drawn(u) => thread'[u] = thread[u])
    BY <2>1 DEF Drawn, Others
  <2>3. QED
    BY <1>1, <1>2, <2>2, RingUntouched
<1>5. QED
  BY <1>3, <1>4

LEMMA RingReserve ==
  ASSUME TypeInv, RingInv, NEW t \in Threads, ReserveSlot(t)
  PROVE  RingInv'
<1> DEFINE new == writeIdx % RingSize
<1>1. /\ Alive /\ UNCHANGED <<slots, readIdx, call>> /\ writeIdx' = writeIdx + 1
      /\ overrun' = (overrun \/ writeIdx - readIdx >= RingSize)
  BY DEF ReserveSlot
<1>2. /\ Others(t) /\ thread[t].phase = "restored" /\ thread'[t].phase = "reserved"
      /\ thread'[t].range = thread[t].range /\ thread'[t].slot = new
      /\ Len(recorded') = Len(recorded) + 1 /\ recorded'[Len(recorded) + 1] = thread[t].range
      /\ \A i \in 1 .. Len(recorded) : recorded'[i] = recorded[i]
  BY ReserveSlotStep
<1>3. /\ readIdx \in Nat /\ writeIdx \in Nat /\ Window \subseteq Nat /\ new \in 0 .. RingSize - 1
      /\ RingSize \in Nat \ {0} /\ writeIdx = Len(recorded)
  BY PlacesAreSlots, ConstantFacts DEF RingInv
<1> HIDE DEF new
<1>a. Reading' = Reading
  BY <1>1 DEF Reading
<1>b. call.limit \in Nat
  BY DEF TypeInv, TypeOK, Calls
<1>4. ReadsInv'
  <2>1. Reading' => call'.read = readIdx'
    BY <1>1, <1>a DEF RingInv, ReadsInv
  <2>2. ASSUME ~overrun', Alive' PROVE ~overrun
    BY <1>1, <2>2
  <2>3. ASSUME ~overrun, Reading PROVE readIdx <= call.limit /\ call.limit <= writeIdx + 1
    BY <1>1, <1>3, <1>b, <2>3 DEF RingInv, ReadsInv
  <2>4. QED
    BY <1>1, <1>a, <2>1, <2>2, <2>3 DEF RingInv, ReadsInv
<1> SUFFICES ASSUME ~overrun'
             PROVE  readIdx' <= writeIdx' /\ writeIdx' - readIdx' <= RingSize /\ SlotsInv' /\ DrawnInv'
  BY <1>1, <1>2, <1>3, <1>4 DEF RingInv
<1>5. ~overrun /\ writeIdx - readIdx < RingSize
  <2>1. ~overrun /\ ~(writeIdx - readIdx >= RingSize)
    BY <1>1
  <2>2. writeIdx - readIdx < RingSize
    BY <1>3, <2>1
  <2>3. QED
    BY <2>1, <2>2
<1>6. readIdx <= writeIdx /\ SlotsInv /\ DrawnInv
  BY <1>1, <1>5 DEF RingInv
<1>7. readIdx' <= writeIdx' /\ writeIdx' - readIdx' <= RingSize
  BY <1>1, <1>3, <1>5, <1>6
<1>8. /\ Window' = Window \union {writeIdx} /\ writeIdx \notin Window
      /\ \A k \in Window : recorded'[k + 1] = recorded[k + 1]
      /\ recorded'[writeIdx + 1] = thread[t].range
  BY <1>1, <1>2, <1>3, <1>6 DEF Window
<1>9. ASSUME NEW k \in Window PROVE k % RingSize # new
  <2>1. k \in Nat /\ k < writeIdx /\ writeIdx - k < RingSize
    BY <1>3, <1>5 DEF Window
  <2>2. QED
    BY <1>3, <2>1, SlotsDiffer DEF new
<1>10. ~slots[new].ready
  BY <1>3, <1>6, <1>9 DEF SlotsInv
<1>11. /\ ~Drawn(t) /\ Drawn(t)' /\ thread'[t].phase # "written"
       /\ \A u \in Threads \ {t} : (Drawn(u)' <=> Drawn(u)) /\ thread'[u] = thread[u]
  BY <1>2 DEF Drawn, Others
<1>12. SlotsInv'
  <2>1. ASSUME NEW s \in 0 .. RingSize - 1, slots'[s].ready
        PROVE  \E k \in Window' : s = k % RingSize /\ slots'[s].event = recorded'[k + 1]
    <3>1. PICK k \in Window : s = k % RingSize /\ slots[s].event = recorded[k + 1]
      BY <1>1, <1>6, <2>1 DEF SlotsInv
    <3>2. k \in Window' /\ slots'[s].event = recorded'[k + 1]
      BY <1>1, <1>8, <3>1
    <3>3. QED
      BY <3>1, <3>2
  <2>2. ASSUME NEW k \in Window', ~slots'[k % RingSize].ready
        PROVE  \E u \in Threads : Drawn(u)' /\ thread'[u].slot = k % RingSize
    <3>1. CASE k = writeIdx
      BY <1>2, <1>11, <3>1 DEF new
    <3>2. CASE k \in Window
      <4>1. PICK u \in Threads : Drawn(u) /\ thread[u].slot = k % RingSize
        BY <1>1, <1>6, <2>2, <3>2 DEF SlotsInv
      <4>2. u # t
        BY <1>11, <4>1
      <4>3. QED
        BY <1>11, <4>1, <4>2
    <3>3. QED
      BY <1>8, <3>1, <3>2
  <2>3. QED
    BY <2>1, <2>2 DEF SlotsInv
<1>13. DrawnInv'
  <2>1. ASSUME NEW u \in Threads, Drawn(u)'
        PROVE  /\ ~slots'[thread'[u].slot].ready
               /\ \E k \in Window' : /\ thread'[u].slot = k % RingSize
                                     /\ thread'[u].range = recorded'[k + 1]
    <3>1. CASE u = t
      BY <1>1, <1>2, <1>8, <1>10, <3>1 DEF new
    <3>2. CASE u # t
      <4>1. Drawn(u) /\ thread'[u] = thread[u]
        BY <1>11, <2>1, <3>2
      <4>2. ~slots[thread[u].slot].ready
        BY <1>6, <4>1 DEF DrawnInv
      <4>3. PICK k \in Window : thread[u].slot = k % RingSize /\ thread[u].range = recorded[k + 1]
        BY <1>6, <4>1 DEF DrawnInv
      <4>4. k \in Window' /\ thread'[u].range = recorded'[k + 1]
        BY <1>8, <4>1, <4>3
      <4>5. QED
        BY <1>1, <4>1, <4>2, <4>3, <4>4
    <3>3. QED
      BY <3>1, <3>2
  <2>2. \A u \in Threads : thread'[u].phase = "written" =>
          slots'[thread'[u].slot].event = thread'[u].range
    BY <1>1, <1>6, <1>11 DEF DrawnInv
  <2>3. ASSUME NEW u \in Threads, u # t, Drawn(u) PROVE thread[u].slot # new
    BY <1>6, <1>9, <2>3 DEF DrawnInv
  <2>4. \A u, v \in Threads : Drawn(u)' /\ Drawn(v)' /\ u # v => thread'[u].slot # thread'[v].slot
    BY <1>2, <1>6, <1>11, <2>3 DEF DrawnInv
  <2>5. QED
    BY <2>1, <2>2, <2>4 DEF DrawnInv
<1>14. QED
  BY <1>7, <1>12, <1>13

LEMMA RingWrite ==
  ASSUME TypeInv, RingInv, NEW t \in Threads, WriteEvent(t)
  PROVE  RingInv'
<1>1. Alive /\ UNCHANGED <<readIdx, writeIdx, call, recorded, overrun>>
  BY DEF WriteEvent, historyVars
<1>2. /\ thread[t].phase = "reserved" /\ Moves(t, "written") /\ thread[t].slot \in 0 .. RingSize - 1
      /\ \A s \in 0 .. RingSize - 1 :
           /\ slots'[s].ready = slots[s].ready
           /\ slots'[s].event = IF s = thread[t].slot THEN thread[t].range ELSE slots[s].event
  BY WriteEventStep
<1>3. Window' = Window /\ \A k \in Window : k % RingSize \in 0 .. RingSize - 1
  BY <1>1, PlacesAreSlots DEF Window
<1>4. ReadsInv'
  <2>1. slots'[readIdx % RingSize].ready = slots[readIdx % RingSize].ready
    BY <1>2, PlacesAreSlots
  <2>2. QED
    BY <1>1, <2>1 DEF RingInv, ReadsInv, Reading
<1>5. \A u \in Threads : /\ Drawn(u)' <=> Drawn(u)
                         /\ thread'[u].slot = thread[u].slot /\ thread'[u].range = thread[u].range
                         /\ u # t => thread'[u] = thread[u]
  BY <1>2 DEF Moves, Others, Drawn
<1> SUFFICES ASSUME ~overrun, SlotsInv, DrawnInv PROVE SlotsInv' /\ DrawnInv'
  BY <1>1, <1>4 DEF RingInv
<1>6. Drawn(t) /\ ~slots[thread[t].slot].ready
  BY <1>2 DEF Drawn, DrawnInv
<1>7. SlotsInv'
  <2>1. \A s \in 0 .. RingSize - 1 : slots'[s].ready =>
          slots[s].ready /\ slots'[s].event = slots[s].event
    BY <1>2, <1>6
  <2>2. QED
    BY <1>1, <1>2, <1>3, <1>5, <2>1 DEF SlotsInv
<1>8. DrawnInv'
  <2>1. \A u \in Threads : thread[u].slot \in 0 .. RingSize - 1
    BY DEF TypeInv, TypeOK, ThreadStates
  <2>2. ASSUME NEW u \in Threads, thread'[u].phase = "written"
        PROVE  slots'[thread'[u].slot].event = thread'[u].range
    <3>1. CASE u = t
      BY <1>2, <1>5, <3>1
    <3>2. CASE u # t
      <4>1. thread[u].phase = "written" /\ Drawn(u)
        BY <1>5, <2>2, <3>2 DEF Drawn
      <4>2. thread[u].slot # thread[t].slot
        BY <1>6, <3>2, <4>1 DEF DrawnInv
      <4>3. QED
        BY <1>2, <1>5, <2>1, <4>1, <4>2 DEF DrawnInv
    <3>3. QED
      BY <3>1, <3>2
  <2>3. \A u \in Threads : Drawn(u)' =>
          /\ ~slots'[thread'[u].slot].ready
          /\ \E k \in Window' : thread'[u].slot = k % RingSize /\ thread'[u].range = recorded'[k + 1]
    BY <1>1, <1>2, <1>3, <1>5, <2>1 DEF DrawnInv
  <2>4. \A u, v \in Threads : Drawn(u)' /\ Drawn(v)' /\ u # v => thread'[u].slot # thread'[v].slot
    BY <1>5 DEF DrawnInv
  <2>5. QED
    BY <2>2, <2>3, <2>4 DEF DrawnInv
<1>9. QED
  BY <1>7, <1>8

LEMMA RingPublish ==
  ASSUME TypeInv, RingInv, NEW t \in Threads, Publish(t)
  PROVE  RingInv'
<1>1. Alive /\ UNCHANGED <<readIdx, writeIdx, call, recorded, overrun>>
  BY DEF Publish, historyVars
<1>2. /\ thread[t].phase = "written" /\ Others(t) /\ thread'[t] = Running
      /\ thread[t].slot \in 0 .. RingSize - 1
      /\ \A s \in 0 .. RingSize - 1 :
           /\ slots'[s].ready = IF s = thread[t].slot THEN TRUE ELSE slots[s].ready
           /\ slots'[s].event = slots[s].event
  BY PublishStep
<1>3. Window' = Window /\ \A k \in Window : k % RingSize \in 0 .. RingSize - 1
  BY <1>1, PlacesAreSlots DEF Window
<1>4. ReadsInv'
  <2>1. slots[readIdx % RingSize].ready => slots'[readIdx % RingSize].ready
    BY <1>2, PlacesAreSlots
  <2>2. QED
    BY <1>1, <2>1 DEF RingInv, ReadsInv, Reading
<1>5. /\ Drawn(t) /\ ~Drawn(t)'
      /\ \A u \in Threads \ {t} : (Drawn(u)' <=> Drawn(u)) /\ thread'[u] = thread[u]
  BY <1>2, IdleTypes DEF Others, Drawn
<1> SUFFICES ASSUME ~overrun, SlotsInv, DrawnInv PROVE SlotsInv' /\ DrawnInv'
  BY <1>1, <1>4 DEF RingInv
<1>6. slots[thread[t].slot].event = thread[t].range
  BY <1>2 DEF DrawnInv
<1>7. PICK k \in Window : thread[t].slot = k % RingSize /\ thread[t].range = recorded[k + 1]
  BY <1>5 DEF DrawnInv
<1>8. SlotsInv'
  <2>1. ASSUME NEW s \in 0 .. RingSize - 1, slots'[s].ready
        PROVE  \E j \in Window' : s = j % RingSize /\ slots'[s].event = recorded'[j + 1]
    <3>1. CASE s = thread[t].slot
      BY <1>1, <1>2, <1>3, <1>6, <1>7, <3>1
    <3>2. CASE s # thread[t].slot
      <4>1. slots[s].ready
        BY <1>2, <2>1, <3>2
      <4>2. PICK j \in Window : s = j % RingSize /\ slots[s].event = recorded[j + 1]
        BY <4>1 DEF SlotsInv
      <4>3. QED
        BY <1>1, <1>2, <1>3, <4>2
    <3>3. QED
      BY <3>1, <3>2
  <2>2. ASSUME NEW j \in Window', ~slots'[j % RingSize].ready
        PROVE  \E u \in Threads : Drawn(u)' /\ thread'[u].slot = j % RingSize
    <3>1. j % RingSize # thread[t].slot /\ ~slots[j % RingSize].ready
      BY <1>2, <1>3, <2>2
    <3>2. PICK u \in Threads : Drawn(u) /\ thread[u].slot = j % RingSize
      BY <1>3, <3>1 DEF SlotsInv
    <3>3. QED
      BY <1>5, <3>1, <3>2
  <2>3. QED
    BY <2>1, <2>2 DEF SlotsInv
<1>9. DrawnInv'
  <2>1. ASSUME NEW u \in Threads, Drawn(u)'
        PROVE  /\ u # t /\ Drawn(u) /\ thread'[u] = thread[u] /\ thread[u].slot # thread[t].slot
               /\ thread[u].slot \in 0 .. RingSize - 1
    <3>1. u # t /\ Drawn(u) /\ thread'[u] = thread[u]
      BY <1>5, <2>1
    <3>2. QED
      BY <1>5, <3>1 DEF DrawnInv, TypeInv, TypeOK, ThreadStates
  <2>2. ASSUME NEW u \in Threads, Drawn(u)'
        PROVE  /\ ~slots'[thread'[u].slot].ready
               /\ \E j \in Window' : /\ thread'[u].slot = j % RingSize
                                     /\ thread'[u].range = recorded'[j + 1]
    <3>1. u # t /\ Drawn(u) /\ thread'[u] = thread[u] /\ thread[u].slot # thread[t].slot
          /\ thread[u].slot \in 0 .. RingSize - 1
      BY <2>1, <2>2
    <3>2. ~slots[thread[u].slot].ready
      BY <3>1 DEF DrawnInv
    <3>3. PICK j \in Window : thread[u].slot = j % RingSize /\ thread[u].range = recorded[j + 1]
      BY <3>1 DEF DrawnInv
    <3>4. QED
      BY <1>1, <1>2, <1>3, <3>1, <3>2, <3>3
  <2>3. ASSUME NEW u \in Threads, thread'[u].phase = "written"
        PROVE  slots'[thread'[u].slot].event = thread'[u].range
    <3>1. Drawn(u)'
      BY <2>3 DEF Drawn
    <3>2. thread'[u] = thread[u] /\ thread[u].slot \in 0 .. RingSize - 1
      BY <2>1, <3>1
    <3>3. slots[thread[u].slot].event = thread[u].range
      BY <2>3, <3>2 DEF DrawnInv
    <3>4. QED
      BY <1>2, <3>2, <3>3
  <2>4. \A u, v \in Threads : Drawn(u)' /\ Drawn(v)' /\ u # v => thread'[u].slot # thread'[v].slot
    BY <2>1 DEF DrawnInv
  <2>5. QED
    BY <2>2, <2>3, <2>4 DEF DrawnInv
<1>10. QED
  BY <1>8, <1>9

LEMMA RingAdvance ==
  ASSUME TypeInv, RingInv, Advance
  PROVE  RingInv'
<1> DEFINE old == readIdx % RingSize
<1>1. /\ Alive /\ UNCHANGED <<writeIdx, thread, recorded, overrun>>
      /\ call.pc = "advancing" /\ call'.pc = "draining" /\ call'.limit = call.limit
      /\ call'.read = call.read + 1 /\ readIdx' = call.read + 1
      /\ \A s \in 0 .. RingSize - 1 :
           /\ slots'[s].ready = IF s = call.read % RingSize THEN FALSE ELSE slots[s].ready
           /\ slots'[s].event = slots[s].event
  BY AdvanceStep DEF Advance, Ready, ScriptRuns, historyVars
<1>2. call.read = readIdx
  BY <1>1 DEF RingInv, ReadsInv, Reading
<1>3. /\ readIdx \in Nat /\ writeIdx \in Nat /\ Window \subseteq Nat /\ old \in 0 .. RingSize - 1
      /\ \A k \in Window : k % RingSize \in 0 .. RingSize - 1
  BY PlacesAreSlots
<1>4. call.limit \in Nat
  BY DEF TypeInv, TypeOK, Calls
<1>5. /\ ~overrun => readIdx < call.limit /\ call.limit <= writeIdx
      /\ writeIdx = Len(recorded)
  BY <1>1 DEF RingInv, ReadsInv, Reading
<1>6. ReadsInv'
  <2>1. ~overrun => readIdx + 1 <= call.limit /\ call.limit <= writeIdx
    BY <1>3, <1>4, <1>5
  <2>2. QED
    BY <1>1, <1>2, <2>1 DEF ReadsInv
<1> SUFFICES ASSUME ~overrun
             PROVE  readIdx' <= writeIdx' /\ writeIdx' - readIdx' <= RingSize /\ SlotsInv' /\ DrawnInv'
  BY <1>1, <1>5, <1>6 DEF RingInv
<1>7. writeIdx - readIdx <= RingSize /\ SlotsInv /\ DrawnInv
  BY <1>1 DEF RingInv
<1>8. readIdx < writeIdx
  BY <1>3, <1>4, <1>5
<1>9. readIdx' <= writeIdx' /\ writeIdx' - readIdx' <= RingSize
  BY <1>1, <1>2, <1>3, <1>7, <1>8, ConstantFacts
<1>10. readIdx \in Window /\ Window' = Window \ {readIdx}
  BY <1>1, <1>2, <1>3, <1>8 DEF Window
<1>11. \A k \in Window' : k % RingSize # old
  BY <1>7, <1>10, OnePlace
<1> HIDE DEF old
<1>12. /\ \A s \in 0 .. RingSize - 1 : slots'[s].ready <=> (slots[s].ready /\ s # old)
       /\ \A s \in 0 .. RingSize - 1 : slots'[s].event = slots[s].event
  BY <1>1, <1>2 DEF old, TypeInv, TypeOK
<1>13. SlotsInv'
  <2>1. ASSUME NEW s \in 0 .. RingSize - 1, slots'[s].ready
        PROVE  \E k \in Window' : s = k % RingSize /\ slots'[s].event = recorded'[k + 1]
    <3>1. slots[s].ready /\ s # old
      BY <1>12, <2>1
    <3>2. PICK k \in Window : s = k % RingSize /\ slots[s].event = recorded[k + 1]
      BY <1>7, <3>1 DEF SlotsInv
    <3>3. k \in Window'
      BY <1>10, <3>1, <3>2 DEF old
    <3>4. QED
      BY <1>1, <1>12, <3>2, <3>3
  <2>2. ASSUME NEW k \in Window', ~slots'[k % RingSize].ready
        PROVE  \E t \in Threads : Drawn(t)' /\ thread'[t].slot = k % RingSize
    <3>1. ~slots[k % RingSize].ready
      BY <1>3, <1>10, <1>11, <1>12, <2>2
    <3>2. QED
      BY <1>1, <1>7, <1>10, <3>1 DEF SlotsInv, Drawn
  <2>3. QED
    BY <2>1, <2>2 DEF SlotsInv
<1>14. DrawnInv'
  <2>1. \A t \in Threads : thread[t].slot \in 0 .. RingSize - 1
    BY DEF TypeInv, TypeOK, ThreadStates
  <2>2. ASSUME NEW t \in Threads, Drawn(t)
        PROVE  /\ ~slots'[thread[t].slot].ready
               /\ \E k \in Window' : /\ thread[t].slot = k % RingSize
                                     /\ thread[t].range = recorded[k + 1]
    <3>1. ~slots[thread[t].slot].ready
      BY <1>7, <2>2 DEF DrawnInv
    <3>2. PICK k \in Window : thread[t].slot = k % RingSize /\ thread[t].range = recorded[k + 1]
      BY <1>7, <2>2 DEF DrawnInv
    <3>3. slots[old].ready
      BY <1>1 DEF RingInv, ReadsInv, old
    <3>4. k \in Window'
      BY <1>10, <3>1, <3>2, <3>3 DEF old
    <3>5. QED
      BY <1>12, <2>1, <3>1, <3>2, <3>4
  <2>3. \A t \in Threads : thread[t].phase = "written" =>
          slots'[thread[t].slot].event = thread[t].range
    BY <1>7, <1>12, <2>1 DEF DrawnInv
  <2>4. QED
    BY <1>1, <1>7, <2>2, <2>3 DEF DrawnInv, Drawn
<1>15. QED
  BY <1>9, <1>13, <1>14

LEMMA RingCalls ==
  ASSUME TypeInv, RingInv,
         \/ \E request \in Requests : Enable(request)
         \/ DrainPending \/ DisableAll \/ \E m \in Monitors : Disable(m)
         \/ CallStep \/ CallbackReenters
  PROVE  RingInv'
<1>1. CASE Advance
  BY <1>1, RingAdvance
<1>2. CASE ~Advance
  <2>1. /\ Alive /\ UNCHANGED <<slots, writeIdx, readIdx, recorded, overrun, thread>>
    BY <1>2 DEF Enable, DrainPending, DisableAll, Disable, CallStep, ProtectRange, RegisterHandlers,
         Insert, TakeEvent, CallbackReturns, CallbackReenters, DrainEnds, Lock, ChooseMonitor,
         RestoreRange, UnregisterHandlers, Delete, DisableReturns, Ready, ScriptRuns, ringVars,
         historyVars
  <2>2. ReadsInv'
    <3>0. /\ readIdx \in Nat /\ writeIdx \in Nat /\ call.limit \in Nat
      BY DEF TypeInv, TypeOK, Calls
    <3>1. CASE DrainPending \/ DisableAll \/ \E m \in Monitors : Disable(m)
      <4>1. call'.pc = "draining" /\ call'.limit = writeIdx /\ call'.read = readIdx
        BY <3>1, DrainStep
      <4>2. ~overrun /\ Alive => readIdx <= writeIdx
        BY DEF RingInv
      <4>3. QED
        BY <2>1, <3>0, <4>1, <4>2 DEF ReadsInv
    <3>2. CASE TakeEvent
      <4>1. /\ call.pc = "draining" /\ call'.pc \in {"callback", "advancing"}
            /\ call'.limit = call.limit /\ call'.read = call.read
            /\ call.read # call.limit /\ slots[call.read % RingSize].ready
        BY <3>2, TakeStep DEF Goes, Slot
      <4>2. call.read = readIdx /\ (~overrun /\ Alive => readIdx <= call.limit /\ call.limit <= writeIdx)
        BY <4>1 DEF RingInv, ReadsInv, Reading
      <4>3. ~overrun /\ Alive => readIdx < call.limit
        BY <3>0, <4>1, <4>2
      <4>4. QED
        BY <2>1, <4>1, <4>2, <4>3 DEF ReadsInv
    <3>3. CASE CallbackReturns \/ CallbackReenters
      <4>1. /\ call.pc = "callback" /\ call'.limit = call.limit /\ call'.read = call.read
            /\ call'.pc \in {"advancing", "locking"}
        BY <3>3, CallbackStep DEF Goes
      <4>2. QED
        BY <2>1, <4>1 DEF RingInv, ReadsInv, Reading
    <3>4. CASE ~TakeEvent /\ ~CallbackReturns /\ ~CallbackReenters /\ ~DrainPending /\ ~DisableAll
               /\ ~\E m \in Monitors : Disable(m)
      <4>1. call'.pc \notin {"draining", "callback", "advancing"}
        <5>1. CASE \E request \in Requests : Enable(request)
          BY <5>1, EnableStep
        <5>2. CASE ProtectRange \/ RegisterHandlers \/ Insert
          BY <5>2, ProtectStep, RegisterStep, InsertStep DEF Goes, IdleAgain
        <5>3. CASE DrainEnds \/ Lock \/ ChooseMonitor \/ RestoreRange
          BY <5>3, DrainEndStep, LockStep, ChooseStep, RestoreStep DEF Goes, IdleAgain
        <5>4. CASE UnregisterHandlers \/ Delete \/ DisableReturns
          BY <5>4, UnregisterStep, DeleteStep, ReturnStep DEF Goes, IdleAgain
        <5>5. QED
          BY <1>2, <3>4, <5>1, <5>2, <5>3, <5>4 DEF CallStep
      <4>2. QED
        BY <4>1 DEF ReadsInv, Reading
    <3>5. QED
      BY <3>1, <3>2, <3>3, <3>4
  <2>3. QED
    BY <2>1, <2>2, RingUntouched DEF Drawn
<1>3. QED
  BY <1>1, <1>2

LEMMA RingThrow ==
  ASSUME TypeInv, RingInv, AddressThrows
  PROVE  RingInv'
<1>1. /\ UNCHANGED <<slots, writeIdx, readIdx, recorded, overrun, thread>> /\ Alive
      /\ call'.pc = "idle"
  BY ThrowStep DEF IdleAgain
<1>2. ReadsInv'
  BY <1>1 DEF ReadsInv, Reading
<1>3. QED
  BY <1>1, <1>2, RingUntouched DEF Drawn

\* A slot that is marked ready holds the access recorded at its place, and every place the
\* drain has not passed is ready or about to be, until more accesses wait than the ring holds.
THEOREM RingHolds == Spec => []RingInv
<1>1. Init => RingInv
  <2> SUFFICES ASSUME Init PROVE RingInv
    OBVIOUS
  <2>1. /\ \A s \in 0 .. RingSize - 1 : ~slots[s].ready
        /\ writeIdx = 0 /\ readIdx = 0 /\ Len(recorded) = 0 /\ call.pc = "idle"
        /\ \A t \in Threads : ~Drawn(t)
    BY IdleTypes, EmptySeq DEF Init, Drawn
  <2>2. Window = {}
    BY <2>1 DEF Window
  <2>3. SlotsInv /\ DrawnInv /\ ReadsInv
    BY <2>1, <2>2 DEF SlotsInv, DrawnInv, ReadsInv, Reading, Drawn
  <2>4. QED
    BY <2>1, <2>3, ConstantFacts DEF RingInv
<1>2. TypeInv /\ RingInv /\ [Next]_vars => RingInv'
  <2> SUFFICES ASSUME TypeInv, RingInv, [Next]_vars PROVE RingInv'
    OBVIOUS
  <2>1. CASE UNCHANGED vars
    <3>1. UNCHANGED <<slots, writeIdx, readIdx, recorded, overrun, call, thread>>
      BY <2>1 DEF vars, ringVars, historyVars
    <3>2. Window' = Window
      BY <3>1 DEF Window
    <3>3. QED
      BY <3>1, <3>2 DEF RingInv, ReadsInv, SlotsInv, DrawnInv, Drawn, Reading, Alive
  <2>2. ASSUME NEW t \in Threads, HandlerStep(t) \/ DanglingEntry(t)
        PROVE  RingInv'
    BY <2>2, RingHandlers, RingReserve, RingWrite, RingPublish DEF HandlerStep
  <2>3. QED
    BY <2>1, <2>2, RingHandlers, RingCalls, RingThrow DEF Next
<1>3. QED
  BY <1>1, <1>2, TypesHold, PTL DEF Spec

--------------------------------------------------------------------------------
(* What the callbacks are told *)

\* Of the steps of the call only one that takes an event gets past a place.
LEMMA PassedStep ==
  ASSUME TypeInv, RegistryInv, RingInv, LockedInv,
         \/ \E request \in Requests : Enable(request)
         \/ DrainPending \/ DisableAll \/ \E m \in Monitors : Disable(m)
         \/ CallStep \/ CallbackReenters
  PROVE  /\ UNCHANGED <<recorded, overrun>>
         /\ IF TakeEvent THEN Passed = readIdx /\ Passed' = readIdx + 1
            ELSE Passed' = Passed /\ reported' = reported
<1>0. UNCHANGED <<recorded, overrun>> /\ (~TakeEvent => reported' = reported)
  BY DEF Enable, DrainPending, DisableAll, Disable, CallStep, ProtectRange, RegisterHandlers,
       Insert, TakeEvent, CallbackReturns, CallbackReenters, Advance, DrainEnds, Lock, ChooseMonitor,
       RestoreRange, UnregisterHandlers, Delete, DisableReturns, historyVars
<1>1. CASE TakeEvent
  <2>1. /\ call.pc = "draining" /\ call'.pc \in {"callback", "advancing"} /\ readIdx' = readIdx
    BY <1>1, TakeStep DEF Goes, ringVars
  <2>2. QED
    BY <1>0, <1>1, <2>1 DEF Passed, Reentered
<1>2. CASE ~TakeEvent
  <2> SUFFICES Passed' = Passed
    BY <1>0, <1>2
  <2>1. CASE Advance
    <3>1. call.pc = "advancing" /\ call'.pc = "draining" /\ readIdx' = call.read + 1
      BY <2>1, AdvanceStep
    <3>2. call.read = readIdx
      BY <3>1 DEF RingInv, ReadsInv, Reading
    <3>3. QED
      BY <3>1, <3>2 DEF Passed, Reentered
  <2>2. CASE CallbackReturns \/ CallbackReenters
    <3>1. /\ call.pc = "callback" /\ readIdx' = readIdx
          /\ call'.pc = "advancing" \/ (call'.pc = "locking" /\ mutex')
      BY <2>2, CallbackStep DEF Goes, ringVars, LockedInv
    <3>2. QED
      BY <3>1 DEF Passed, Reentered
  <2>3. CASE DrainEnds \/ Lock
    <3>1. /\ call.pc \in {"draining", "locking"} /\ call'.pc \in {"idle", "locking", "choosing"}
          /\ readIdx' = readIdx
          /\ call.pc = "locking" => ~mutex
          /\ call'.pc = "locking" => ~mutex'
      <4>1. CASE DrainEnds
        BY <4>1, DrainEndStep DEF Goes, IdleAgain, ringVars, RegistryInv
      <4>2. CASE Lock
        BY <4>2, LockStep DEF ringVars
      <4>3. QED
        BY <2>3, <4>1, <4>2
    <3>2. QED
      BY <3>1 DEF Passed, Reentered
  <2>4. CASE ~Advance /\ ~CallbackReturns /\ ~CallbackReenters /\ ~DrainEnds /\ ~Lock
    <3>1. /\ call.pc \notin {"callback", "advancing", "locking"} /\ readIdx' = readIdx
          /\ call'.pc \notin {"callback", "advancing", "locking"}
      <4>1. CASE \E request \in Requests : Enable(request)
        BY <4>1, EnableStep
      <4>2. CASE DrainPending \/ DisableAll \/ \E m \in Monitors : Disable(m)
        BY <4>2, DrainStep DEF ringVars
      <4>3. CASE ProtectRange \/ RegisterHandlers \/ Insert
        BY <4>3, ProtectStep, RegisterStep, InsertStep DEF Goes, IdleAgain, ringVars
      <4>4. CASE ChooseMonitor \/ RestoreRange
        BY <4>4, ChooseStep, RestoreStep DEF ringVars
      <4>5. CASE UnregisterHandlers \/ Delete \/ DisableReturns
        BY <4>5, UnregisterStep, DeleteStep, ReturnStep DEF Goes, IdleAgain, ringVars
      <4>6. QED
        BY <1>2, <2>4, <4>1, <4>2, <4>3, <4>4, <4>5 DEF CallStep
    <3>2. QED
      BY <3>1 DEF Passed, Reentered
  <2>5. QED
    BY <2>1, <2>2, <2>3, <2>4
<1>3. QED
  BY <1>1, <1>2

\* The drain takes the access whose turn it is.
LEMMA TakesNext ==
  ASSUME TypeInv, RingInv, TakeEvent, ~overrun
  PROVE  /\ readIdx \in Nat /\ readIdx + 1 <= Len(recorded)
         /\ Slot.event = recorded[readIdx + 1]
<1>1. call.read # call.limit /\ Slot.ready /\ call.pc = "draining" /\ Alive
  BY TakeStep DEF Goes, ScriptRuns
<1>2. /\ readIdx \in Nat /\ writeIdx \in Nat /\ call.limit \in Nat /\ writeIdx = Len(recorded)
      /\ readIdx % RingSize \in 0 .. RingSize - 1
  BY PlacesAreSlots DEF TypeInv, TypeOK, Calls, RingInv
<1>3. /\ call.read = readIdx /\ readIdx <= call.limit /\ call.limit <= writeIdx
      /\ writeIdx - readIdx <= RingSize /\ SlotsInv
  BY <1>1 DEF RingInv, ReadsInv, Reading
<1>4. readIdx < writeIdx /\ readIdx \in Window
  BY <1>1, <1>2, <1>3 DEF Window
<1>5. PICK k \in Window : /\ readIdx % RingSize = k % RingSize
                          /\ slots[readIdx % RingSize].event = recorded[k + 1]
  BY <1>1, <1>2, <1>3 DEF SlotsInv, Slot
<1>6. k = readIdx
  BY <1>3, <1>4, <1>5, OnePlace
<1>7. QED
  BY <1>2, <1>3, <1>4, <1>5, <1>6 DEF Slot

LEMMA PassedType ==
  ASSUME TypeInv
  PROVE  readIdx \in Nat /\ Passed \in Nat /\ Len(recorded) \in Nat /\ Len(reported) \in Nat
<1>1. readIdx \in Nat /\ recorded \in Seq(Events) /\ reported \in Seq(Events)
  BY DEF TypeInv, TypeOK
<1>2. QED
  BY <1>1, LenProperties DEF Passed

\* One more access is told of.
LEMMA ToldOneMore ==
  ASSUME TypeInv, NEW n \in Nat, NEW told \in SUBSET (1 .. n), Told(told), NEW e \in Events,
         recorded' = recorded, recorded[n + 1] = e, reported' = Append(reported, e)
  PROVE  Told(told \union {n + 1})'
<1> DEFINE more == told \union {n + 1}
<1>a. IsFiniteSet(1 .. n)
  BY FS_Interval
<1>b. \A j \in told : j \in Nat /\ j <= n
  OBVIOUS
<1>c. IsFiniteSet(told)
  BY <1>a, FS_Subset
<1>d. n + 1 \notin told
  BY <1>b
<1>1. IsFiniteSet(told) /\ n + 1 \notin told
  BY <1>c, <1>d
<1>2. Cardinality(more) = Cardinality(told) + 1 /\ Cardinality(told) \in Nat
  BY <1>1, FS_AddElement, FS_CardinalityType
<1>3. /\ Len(reported') = Len(reported) + 1 /\ reported'[Len(reported) + 1] = e
      /\ \A i \in 1 .. Len(reported) : reported'[i] = reported[i]
  BY AppendProperties DEF TypeInv, TypeOK
<1>4. Cardinality(told) = Len(reported)
  BY DEF Told
<1>5. ASSUME NEW i \in more
      PROVE  recorded[i] = reported'[Cardinality({j \in more : j <= i})]
  <2>1. CASE i = n + 1
    <3>a. \A j \in more : j <= i
      BY <1>b, <2>1
    <3>1. {j \in more : j <= i} = more
      BY <3>a
    <3>2. QED
      BY <1>2, <1>3, <1>4, <2>1, <3>1
  <2>2. CASE i \in told
    <3> DEFINE below == {j \in told : j <= i}
    <3>1. {j \in more : j <= i} = below
      BY <2>2
    <3>2. below \subseteq told /\ i \in below
      BY <2>2
    <3>3. IsFiniteSet(below) /\ Cardinality(below) <= Cardinality(told) /\ Cardinality(below) \in Nat
      BY <1>1, <3>2, FS_Subset, FS_CardinalityType
    <3>4. Cardinality(below) # 0
      BY <3>2, <3>3, FS_EmptySet
    <3>5. recorded[i] = reported[Cardinality(below)]
      BY <2>2 DEF Told
    <3> HIDE DEF below
    <3>6. Cardinality(below) \in 1 .. Len(reported)
      BY <1>2, <1>4, <3>3, <3>4
    <3>7. QED
      BY <1>3, <3>1, <3>5, <3>6
  <2>3. QED
    BY <2>1, <2>2
<1>6. QED
  BY <1>2, <1>3, <1>4, <1>5 DEF Told

\* Nothing more is told of, and what was recorded stays.
LEMMA ToldUntouched ==
  ASSUME TypeInv, ToldInv, overrun => overrun',
         Passed' \in Nat, Passed <= Passed', Passed' <= Len(recorded'), reported' = reported,
         \A i \in 1 .. Len(recorded) : recorded'[i] = recorded[i]
  PROVE  ToldInv'
<1> SUFFICES ASSUME ~overrun'
             PROVE  \E told \in SUBSET (1 .. Passed') : Told(told)'
  BY DEF ToldInv
<1>1. PICK told \in SUBSET (1 .. Passed) : Told(told)
  BY DEF ToldInv
<1>2. Passed \in Nat /\ Len(recorded) \in Nat /\ Passed <= Len(recorded)
  BY PassedType DEF ToldInv
<1>3. told \in SUBSET (1 .. Passed')
  BY <1>2
<1>4. \A i \in told : recorded'[i] = recorded[i]
  BY <1>2
<1>5. Told(told)'
  BY <1>1, <1>4 DEF Told
<1>6. QED
  BY <1>3, <1>5

LEMMA ToldHandlers ==
  ASSUME TypeInv, ToldInv, NEW t \in Threads,
         HandlerStep(t) \/ DanglingEntry(t) \/ \E p \in Pages : Touch(t, p)
  PROVE  ToldInv'
<1>0. overrun => overrun'
  <2>1. overrun' = overrun \/ \E late \in BOOLEAN : overrun' = (overrun \/ late)
    BY DEF HandlerStep, DanglingEntry, Touch, CopyChain, Found, NotFound, MarkFired, RestorePages,
           ReserveSlot, WriteEvent, Publish, historyVars
  <2>2. QED
    BY <2>1
<1>1. UNCHANGED <<readIdx, call, mutex, reported>>
  BY DEF HandlerStep, DanglingEntry, Touch, CopyChain, Found, NotFound, MarkFired, RestorePages,
         ReserveSlot, WriteEvent, Publish, ringVars, historyVars
<1>2. Passed' = Passed /\ Passed \in Nat
  BY <1>1, PassedType DEF Passed, Reentered
<1>3. /\ Len(recorded') >= Len(recorded)
      /\ \A i \in 1 .. Len(recorded) : recorded'[i] = recorded[i]
  <2>1. CASE ReserveSlot(t)
    BY <2>1, ReserveSlotStep, PassedType
  <2>2. CASE ~ReserveSlot(t)
    <3>1. recorded' = recorded
      BY <2>2 DEF HandlerStep, DanglingEntry, Touch, CopyChain, Found, NotFound, MarkFired,
         RestorePages, WriteEvent, Publish, historyVars
    <3>2. QED
      BY <3>1, PassedType
  <2>3. QED
    BY <2>1, <2>2
<1>4. Len(recorded') \in Nat /\ Len(recorded) \in Nat
  <2>1. CASE ReserveSlot(t)
    BY <2>1, ReserveSlotStep, PassedType
  <2>2. CASE ~ReserveSlot(t)
    <3>1. recorded' = recorded
      BY <2>2 DEF HandlerStep, DanglingEntry, Touch, CopyChain, Found, NotFound, MarkFired,
         RestorePages, WriteEvent, Publish, historyVars
    <3>2. QED
      BY <3>1, PassedType
  <2>3. QED
    BY <2>1, <2>2
<1>5. ~overrun' => Passed' <= Len(recorded')
  BY <1>0, <1>2, <1>3, <1>4 DEF ToldInv
<1>6. CASE overrun'
  BY <1>1, <1>6 DEF ToldInv
<1>7. CASE ~overrun'
  BY <1>0, <1>1, <1>2, <1>3, <1>5, <1>7, ToldUntouched DEF ToldInv
<1>8. QED
  BY <1>6, <1>7

LEMMA ToldCalls ==
  ASSUME TypeInv, RegistryInv, RingInv, LockedInv, ToldInv,
         \/ \E request \in Requests : Enable(request)
         \/ DrainPending \/ DisableAll \/ \E m \in Monitors : Disable(m)
         \/ CallStep \/ CallbackReenters
  PROVE  ToldInv'
<1>1. /\ UNCHANGED <<recorded, overrun>>
      /\ IF TakeEvent THEN Passed = readIdx /\ Passed' = readIdx + 1
         ELSE Passed' = Passed /\ reported' = reported
  BY PassedStep DEF ToldInv
<1>2. readIdx \in Nat /\ Passed \in Nat /\ Len(recorded) \in Nat
  BY PassedType
<1>3. CASE overrun
  BY <1>1, <1>3 DEF ToldInv
<1>4. CASE ~overrun /\ ~TakeEvent
  BY <1>1, <1>2, <1>4, ToldUntouched DEF ToldInv
<1>5. CASE ~overrun /\ TakeEvent
  <2>1. readIdx + 1 <= Len(recorded) /\ Slot.event = recorded[readIdx + 1]
    BY <1>5, TakesNext
  <2>2. CASE reported' = reported
    BY <1>1, <1>2, <1>5, <2>1, <2>2, ToldUntouched
  <2>3. CASE reported' = Append(reported, Slot.event)
    <3>1. Slot.event \in Events
      BY <1>2, <2>1, ElementOfSeq DEF TypeInv, TypeOK
    <3>2. PICK told \in SUBSET (1 .. readIdx) : Told(told)
      BY <1>1, <1>5 DEF ToldInv
    <3>a. PICK n \in Nat, e \in Events : n = readIdx /\ e = Slot.event
      BY <1>2, <3>1
    <3>3. /\ told \in SUBSET (1 .. n) /\ recorded' = recorded
          /\ recorded[n + 1] = e /\ reported' = Append(reported, e)
      BY <1>1, <2>1, <2>3, <3>2, <3>a
    <3>4. Told(told \union {n + 1})'
      BY <3>2, <3>3, ToldOneMore
    <3>5. Passed' = n + 1 /\ n + 1 <= Len(recorded')
      BY <1>1, <1>5, <2>1, <3>a
    <3>6. told \union {n + 1} \in SUBSET (1 .. n + 1)
      BY <3>3
    <3>7. \E more \in SUBSET (1 .. Passed') : Told(more)'
      BY <3>4, <3>5, <3>6 DEF Told
    <3>8. QED
      BY <1>1, <3>5, <3>7 DEF ToldInv
  <2>4. QED
    BY <1>5, <2>2, <2>3 DEF TakeEvent
<1>6. QED
  BY <1>3, <1>4, <1>5

LEMMA ThrowPasses ==
  ASSUME AddressThrows
  PROVE  /\ UNCHANGED <<readIdx, writeIdx, recorded, overrun, reported, monitors, thread>>
         /\ Passed' = Passed /\ ~Changing' /\ ~Drained'
         /\ call'.pc = "idle" /\ call.pc = "protecting"
BY ThrowStep DEF IdleAgain, Passed, Reentered, Changing, Drained, Removing

LEMMA ToldThrow ==
  ASSUME TypeInv, ToldInv, AddressThrows
  PROVE  ToldInv'
<1>1. \A told : Told(told)' <=> Told(told)
  BY ThrowPasses DEF Told
<1>2. QED
  BY <1>1, ThrowPasses DEF ToldInv

\* Until the ring overruns, what the callbacks were told are places of the record that the drain
\* has passed, each once and in order (native_memory_access_monitor.cc:300-331).
THEOREM ToldHolds == Spec => []ToldInv
<1>1. Init => ToldInv
  <2> SUFFICES ASSUME Init PROVE ToldInv
    OBVIOUS
  <2>1. Passed = 0 /\ call.pc = "idle" /\ Len(recorded) = 0 /\ Len(reported) = 0
    BY IdleTypes, EmptySeq DEF Init, Passed, Reentered
  <2>2. Told({})
    BY <2>1, FS_EmptySet DEF Told
  <2>3. {} \in SUBSET (1 .. Passed)
    OBVIOUS
  <2>4. QED
    BY <2>1, <2>2, <2>3 DEF ToldInv
<1>2. TypeInv /\ RegistryInv /\ RingInv /\ LockedInv /\ ToldInv /\ [Next]_vars => ToldInv'
  <2> SUFFICES ASSUME TypeInv, RegistryInv, RingInv, LockedInv, ToldInv, [Next]_vars
               PROVE  ToldInv'
    OBVIOUS
  <2>1. CASE UNCHANGED vars
    <3>1. UNCHANGED <<readIdx, recorded, overrun, reported, call, mutex>>
      BY <2>1 DEF vars, ringVars, historyVars
    <3>2. Passed' = Passed /\ \A told : Told(told)' <=> Told(told)
      BY <3>1 DEF Passed, Reentered, Told
    <3>3. QED
      BY <3>1, <3>2 DEF ToldInv
  <2>2. QED
    BY <2>1, ToldHandlers, ToldCalls, ToldThrow DEF Next
<1>3. QED
  BY <1>1, <1>2, TypesHold, RegistryHolds, RingHolds, LockedHolds, PTL DEF Spec

\* Whatever the user does, the callbacks are told of recorded accesses only, of each once and
\* in the order of the record, until the ring overruns (drainPending and the ring protocol of
\* monitorSegvHandler).
THEOREM ReportsFollowTheRecord == Spec => []ReportsInOrder
<1>1. TypeInv /\ ToldInv => ReportsInOrder
  <2> SUFFICES ASSUME TypeInv, ToldInv, ~overrun
               PROVE  \E told \in SUBSET (1 .. Len(recorded)) : Told(told)
    BY DEF ReportsInOrder, Told
  <2>1. PICK told \in SUBSET (1 .. Passed) : Told(told)
    BY DEF ToldInv
  <2>2. told \in SUBSET (1 .. Len(recorded))
    BY PassedType DEF ToldInv
  <2>3. QED
    BY <2>1, <2>2
<1>2. QED
  BY <1>1, TypesHold, ToldHolds, PTL

--------------------------------------------------------------------------------
(* What the callbacks are told when nobody touches a watched page during a call *)

\* Nothing waits any more when disable() or disableAll() takes the lock.
LEMMA DrainedStep ==
  ASSUME TypeInv, RegistryInv, RingInv, LockedInv, QuietInv, ExactInv, ~overrun,
         \/ \E request \in Requests : Enable(request)
         \/ DrainPending \/ DisableAll \/ \E m \in Monitors : Disable(m)
         \/ CallStep \/ CallbackReenters
  PROVE  DrainedInv'
<1>0. writeIdx' = writeIdx
  BY DEF Enable, DrainPending, DisableAll, Disable, CallStep, ProtectRange, RegisterHandlers,
       Insert, TakeEvent, CallbackReturns, CallbackReenters, Advance, DrainEnds, Lock, ChooseMonitor,
       RestoreRange, UnregisterHandlers, Delete, DisableReturns, ringVars
<1>1. CASE DrainPending \/ DisableAll \/ \E m \in Monitors : Disable(m)
  BY <1>0, <1>1, DrainStep DEF DrainedInv, Drained, Removing
<1>2. CASE \/ \E request \in Requests : Enable(request)
           \/ ProtectRange \/ RegisterHandlers \/ Insert \/ DisableReturns
  <2>1. call'.pc \in {"idle", "protecting", "registering", "inserting"}
    BY <1>2, EnableStep, ProtectStep, RegisterStep, InsertStep, ReturnStep DEF Goes, IdleAgain
  <2>2. QED
    BY <2>1 DEF DrainedInv, Drained, Removing, Reading
<1>3. CASE TakeEvent \/ CallbackReturns \/ Advance
  <2>1. /\ Reading /\ call'.pc \in {"draining", "callback", "advancing"}
        /\ call'.todo = call.todo /\ call'.all = call.all /\ call'.limit = call.limit
    <3>1. CASE TakeEvent \/ Advance
      BY <3>1, TakeStep, AdvanceStep DEF Goes, Reading
    <3>2. CASE CallbackReturns
      <4>1. Goes("callback", "advancing")
        BY <3>2, PcStep DEF CallbackReturns
      <4>2. QED
        BY <4>1 DEF Goes, Reading
    <3>3. QED
      BY <1>3, <3>1, <3>2
  <2>2. Changing' <=> Changing
    BY <2>1 DEF Changing, Reading
  <2>3. QED
    BY <1>0, <2>1, <2>2 DEF ExactInv, DrainedInv, Drained, Removing
<1>4. CASE CallbackReenters
  <2>1. call'.pc = "locking" /\ call.pc = "callback" /\ mutex' = mutex
    BY <1>4, PcStep DEF CallbackReenters, Goes
  <2>2. mutex'
    BY <2>1 DEF LockedInv
  <2>3. QED
    BY <2>1, <2>2 DEF DrainedInv, Drained, Removing, Reading
<1>5. CASE DrainEnds
  <2>1. CASE call.todo = {} /\ ~call.all
    BY <1>5, <2>1, DrainEndStep DEF IdleAgain, DrainedInv, Drained, Removing, Reading
  <2>2. CASE ~(call.todo = {} /\ ~call.all)
    <3>1. /\ Alive /\ call.pc = "draining" /\ call'.pc = "locking" /\ readIdx' = readIdx
          /\ call.read = call.limit \/ ~slots[call.read % RingSize].ready
      BY <1>5, <2>2, DrainEndStep DEF Goes, ScriptRuns, Slot, ringVars
    <3>2. /\ Changing /\ ~Reentered /\ Reading
      BY <2>2, <3>1 DEF Changing, Reentered, Reading
    <3>3. /\ call.limit = writeIdx /\ call.read = readIdx /\ readIdx <= writeIdx
          /\ SlotsInv
      BY <3>1, <3>2 DEF ExactInv, DrainedInv, RingInv, ReadsInv
    <3>4. \A t \in Threads : ~Drawn(t)
      BY <3>2 DEF QuietInv, Handling, Drawn
    <3>5. readIdx \in Nat /\ writeIdx \in Nat
      BY PlacesAreSlots
    <3>6. readIdx = writeIdx
      <4> SUFFICES ASSUME readIdx # writeIdx PROVE FALSE
        OBVIOUS
      <4>1. readIdx \in Window
        BY <3>3, <3>5 DEF Window
      <4>2. ~slots[readIdx % RingSize].ready
        BY <3>1, <3>3
      <4>3. QED
        BY <3>3, <3>4, <4>1, <4>2 DEF SlotsInv
    <3>7. QED
      BY <1>0, <3>1, <3>6 DEF DrainedInv, Reading
  <2>3. QED
    BY <2>1, <2>2
<1>6. CASE Lock \/ ChooseMonitor \/ RestoreRange \/ UnregisterHandlers \/ Delete
  <2>1. /\ Drained /\ readIdx' = readIdx
        /\ call'.pc \in {"choosing", "restoring", "deleting"}
    BY <1>6, LockStep, ChooseStep, RestoreStep, UnregisterStep, DeleteStep
    DEF Goes, Drained, Removing, ringVars
  <2>2. QED
    BY <1>0, <2>1 DEF ExactInv, DrainedInv, Reading
<1>7. QED
  BY <1>1, <1>2, <1>3, <1>4, <1>5, <1>6 DEF CallStep

LEMMA ExactCalls ==
  ASSUME TypeInv, RegistryInv, RingInv, LockedInv, QuietInv, ExactInv,
         \/ \E request \in Requests : Enable(request)
         \/ DrainPending \/ DisableAll \/ \E m \in Monitors : Disable(m)
         \/ CallStep \/ CallbackReenters
  PROVE  ExactInv'
<1>1. /\ UNCHANGED <<recorded, overrun>>
      /\ IF TakeEvent THEN Passed = readIdx /\ Passed' = readIdx + 1
         ELSE Passed' = Passed /\ reported' = reported
  BY PassedStep
<1>2. readIdx \in Nat /\ Passed \in Nat /\ Len(recorded) \in Nat /\ writeIdx = Len(recorded)
  BY PassedType DEF RingInv
<1> SUFFICES ASSUME ~overrun
             PROVE  WaitingInv' /\ DrainedInv' /\ ReportedInv'
  BY <1>1 DEF ExactInv
<1>3. WaitingInv /\ DrainedInv /\ ReportedInv
  BY DEF ExactInv
<1>4. WaitingInv'
  <2>1. CASE Delete \/ DisableReturns
    <3>1. Drained /\ readIdx' = readIdx
      BY <2>1, DeleteStep, ReturnStep DEF Drained, Removing, ringVars
    <3>2. readIdx' = Len(recorded')
      BY <1>1, <1>2, <1>3, <3>1 DEF DrainedInv
    <3>3. QED
      BY <1>1, <1>2, <3>2 DEF WaitingInv
  <2>2. CASE Advance
    <3>1. readIdx' = readIdx + 1 /\ monitors' = monitors
      BY <2>2, AdvanceStep DEF RingInv, ReadsInv, Reading, monitorVars
    <3>2. readIdx' + 1 .. Len(recorded) \subseteq readIdx + 1 .. Len(recorded)
      BY <1>2, <3>1
    <3>3. QED
      BY <1>1, <1>3, <3>1, <3>2 DEF WaitingInv
  <2>3. CASE ~Delete /\ ~DisableReturns /\ ~Advance
    <3>1. readIdx' = readIdx /\ monitors \subseteq monitors'
      BY <2>3 DEF Enable, DrainPending, DisableAll, Disable, CallStep, ProtectRange,
         RegisterHandlers, Insert, TakeEvent, CallbackReturns, CallbackReenters, DrainEnds, Lock,
         ChooseMonitor, RestoreRange, UnregisterHandlers, monitorVars, ringVars
    <3>2. QED
      BY <1>1, <1>3, <3>1 DEF WaitingInv
  <2>4. QED
    BY <2>1, <2>2, <2>3
<1>5. ReportedInv'
  <2>1. CASE ~TakeEvent
    BY <1>1, <1>3, <2>1 DEF ReportedInv
  <2>2. CASE TakeEvent
    <3>1. readIdx + 1 <= Len(recorded) /\ Slot.event = recorded[readIdx + 1]
      BY <2>2, TakesNext
    <3>2. Slot.event \in Events
      BY <1>2, <3>1, ElementOfSeq DEF TypeInv, TypeOK
    <3>3. Slot.event.mon \in monitors
      BY <1>2, <1>3, <3>1 DEF WaitingInv
    <3>4. reported' = Append(reported, Slot.event)
      BY <2>2, <3>3 DEF TakeEvent
    <3>5. /\ Len(reported') = Len(reported) + 1 /\ reported'[Len(reported) + 1] = Slot.event
          /\ \A i \in 1 .. Len(reported) : reported'[i] = reported[i]
      BY <3>2, <3>4, AppendProperties DEF TypeInv, TypeOK
    <3>6. Len(reported) = readIdx /\ \A i \in 1 .. readIdx : reported[i] = recorded[i]
      BY <1>1, <1>3, <2>2 DEF ReportedInv
    <3>7. \A i \in 1 .. readIdx + 1 : reported'[i] = recorded[i]
      BY <1>2, <3>1, <3>5, <3>6
    <3>8. QED
      BY <1>1, <2>2, <3>1, <3>5, <3>6, <3>7 DEF ReportedInv
  <2>3. QED
    BY <2>1, <2>2
<1>6. QED
  BY <1>4, <1>5, DrainedStep

LEMMA ExactHandlers ==
  ASSUME Quiesced, TypeInv, RingInv, QuietInv, ExactInv, NEW t \in Threads,
         HandlerStep(t) \/ DanglingEntry(t) \/ \E p \in Pages : Touch(t, p)
  PROVE  ExactInv'
<1>1. UNCHANGED <<readIdx, call, mutex, reported, monitors>>
  BY DEF HandlerStep, DanglingEntry, Touch, CopyChain, Found, NotFound, MarkFired, RestorePages,
         ReserveSlot, WriteEvent, Publish, ringVars, historyVars, monitorVars
<1>2. /\ Passed' = Passed /\ (Drained' <=> Drained) /\ (Reading' <=> Reading)
      /\ (Changing' <=> Changing)
  BY <1>1 DEF Passed, Reentered, Drained, Removing, Reading, Changing
<1>3. CASE ~ReserveSlot(t)
  <2>1. UNCHANGED <<recorded, writeIdx, overrun>>
    BY <1>3 DEF HandlerStep, DanglingEntry, Touch, CopyChain, Found, NotFound, MarkFired,
         RestorePages, WriteEvent, Publish, ringVars, historyVars
  <2>2. QED
    BY <1>1, <1>2, <2>1 DEF ExactInv, WaitingInv, DrainedInv, ReportedInv
<1>4. CASE ReserveSlot(t)
  <2>1. overrun => overrun'
    BY <1>4 DEF ReserveSlot
  <2> SUFFICES ASSUME WaitingInv, DrainedInv, ReportedInv
               PROVE  WaitingInv' /\ DrainedInv' /\ ReportedInv'
    BY <2>1 DEF ExactInv
  <2>2. /\ thread[t].phase = "restored"
        /\ Len(recorded') = Len(recorded) + 1 /\ recorded'[Len(recorded) + 1] = thread[t].range
        /\ \A i \in 1 .. Len(recorded) : recorded'[i] = recorded[i]
    BY <1>4, ReserveSlotStep
  <2>3. thread[t].range.mon \in monitors /\ (Reentered \/ ~Changing)
    BY <2>2 DEF QuietInv, Claimed, Handling
  <2>4. readIdx \in Nat /\ Passed \in Nat /\ Len(recorded) \in Nat
    BY PassedType
  <2>5. WaitingInv'
    BY <1>1, <2>2, <2>3, <2>4 DEF WaitingInv
  <2>6. DrainedInv'
    <3>1. ~Drained /\ ~(Reading /\ Changing)
      BY <2>3 DEF Drained, Reentered, Changing, Removing, Reading
    <3>2. QED
      BY <1>2, <3>1 DEF DrainedInv
  <2>7. ReportedInv'
    <3>1. Passed <= Len(recorded) /\ Len(reported) = Passed
      BY DEF ReportedInv
    <3>2. Passed <= Len(recorded')
      BY <2>2, <2>4, <3>1
    <3>3. \A i \in 1 .. Passed : reported[i] = recorded'[i]
      BY <2>2, <2>4, <3>1 DEF ReportedInv
    <3>4. QED
      BY <1>1, <1>2, <3>1, <3>2, <3>3 DEF ReportedInv
  <2>8. QED
    BY <2>5, <2>6, <2>7
<1>5. QED
  BY <1>3, <1>4

LEMMA ExactThrow ==
  ASSUME ExactInv, AddressThrows
  PROVE  ExactInv'
BY ThrowPasses DEF ExactInv, WaitingInv, DrainedInv, ReportedInv, Reading


\* If nobody touches a watched page while a call changes what is watched, then until the ring
\* overruns everything in it is of a monitor that exists, a removal begins with an empty ring, and
\* the drain passes no place without telling of it (native_memory_access_monitor.cc:300-331).
THEOREM ExactHolds ==
  ASSUME Quiesced
  PROVE  Spec => []ExactInv
<1>1. Init => ExactInv
  <2> SUFFICES ASSUME Init PROVE ExactInv
    OBVIOUS
  <2>1. /\ Passed = 0 /\ call.pc = "idle" /\ Len(recorded) = 0 /\ Len(reported) = 0
        /\ readIdx = 0 /\ ~Changing
    BY IdleTypes, EmptySeq DEF Init, Passed, Reentered, Changing, Idle
  <2>2. QED
    BY <2>1 DEF ExactInv, WaitingInv, DrainedInv, ReportedInv, Drained, Removing
<1>2. /\ TypeInv /\ RegistryInv /\ RingInv /\ LockedInv /\ QuietInv /\ ExactInv
      /\ [Next]_vars
      => ExactInv'
  <2> SUFFICES ASSUME TypeInv, RegistryInv, RingInv, LockedInv, QuietInv, ExactInv, [Next]_vars
               PROVE  ExactInv'
    OBVIOUS
  <2>1. CASE UNCHANGED vars
    <3>1. UNCHANGED <<readIdx, writeIdx, recorded, overrun, reported, call, mutex, monitors>>
      BY <2>1 DEF vars, ringVars, historyVars, monitorVars
    <3>2. Passed' = Passed /\ (Drained' <=> Drained) /\ (Changing' <=> Changing)
      BY <3>1 DEF Passed, Reentered, Drained, Removing, Changing
    <3>3. QED
      BY <3>1, <3>2 DEF ExactInv, WaitingInv, DrainedInv, ReportedInv, Reading
  <2>2. QED
    BY <2>1, ExactHandlers, ExactCalls, ExactThrow DEF Next
<1>3. QED
  BY <1>1, <1>2, TypesHold, RegistryHolds, RingHolds, LockedHolds, QuietHolds, PTL DEF Spec

\* As long as nobody touches a watched page while enable(), disable() or disableAll() runs, the
\* callbacks are told of every access, once and in the order of the record, until the ring
\* overruns.
THEOREM EveryAccessIsReported ==
  ASSUME Quiesced
  PROVE  Spec => []ReportedAsRecorded
<1>1. TypeInv /\ ExactInv => ReportedAsRecorded
  <2> SUFFICES ASSUME TypeInv, ReportedInv PROVE ReportedAsRecorded
    BY DEF ExactInv, ReportedAsRecorded
  <2> DEFINE n == Len(reported)
  <2>1. /\ n = Passed /\ n <= Len(recorded) /\ n \in Nat /\ Len(recorded) \in Nat
        /\ \A i \in 1 .. n : reported[i] = recorded[i]
    BY PassedType DEF ReportedInv
  <2>2. readIdx <= n
    BY <2>1, PassedType DEF Passed
  <2>3. recorded \in Seq(Events) /\ reported \in Seq(Events)
    BY DEF TypeInv, TypeOK
  <2> HIDE DEF n
  <2>4. \A i \in 1 .. n : recorded[i] \in Events
    BY <2>1, <2>3, ElementOfSeq
  <2>5. /\ SubSeq(recorded, 1, n) \in Seq(Events) /\ Len(SubSeq(recorded, 1, n)) = n
        /\ \A i \in 1 .. n : SubSeq(recorded, 1, n)[i] = recorded[i]
    BY <2>1, <2>4, SubSeqProperties
  <2>6. reported = SubSeq(recorded, 1, n)
    BY <2>1, <2>3, <2>5, SeqEqual DEF n
  <2>7. QED
    BY <2>1, <2>2, <2>6 DEF ReportedAsRecorded, n
<1>2. QED
  BY <1>1, TypesHold, ExactHolds, PTL

--------------------------------------------------------------------------------
(* The log the script is promised *)

\* A monitor has no more ranges than the request it was made for.
PlacesInv == Watched(Monitors) \subseteq Places

LEMMA PlacesHold == Spec => []PlacesInv
<1>1. Init => PlacesInv
  BY EmptySeq DEF Init, PlacesInv, Watched
<1>2. TypeInv /\ RegistryInv /\ PlacesInv /\ [Next]_vars => PlacesInv'
  <2> SUFFICES ASSUME TypeInv, RegistryInv, PlacesInv, [Next]_vars
               PROVE  PlacesInv'
    OBVIOUS
  <2>1. CASE ProtectRange
    <3> DEFINE m == call.mon
               new == Len(ranges[m]) + 1
    <3>1. m \in Monitors /\ call.at \in DOMAIN call.request /\ call.pc = "protecting"
      BY <2>1, ProtectStep
    <3>2. call.request \in Requests
      <4>1. call.request \in Requests \union {<<>>}
        BY DEF TypeInv, TypeOK, Calls
      <4>2. QED
        BY <3>1, <4>1
    <3>3. DOMAIN ranges[m] = 1 .. call.at - 1 /\ call.at \in Nat \ {0}
      BY <3>1, RequestFacts DEF RegistryInv
    <3>4. Len(ranges[m]) \in Nat /\ 1 .. Len(ranges[m]) = 1 .. call.at - 1
      BY <3>1, <3>3, RangesOfMonitor DEF TypeInv
    <3>5. new = call.at
      BY <3>3, <3>4
    <3>6. /\ DOMAIN ranges'[m] = DOMAIN ranges[m] \union {call.at}
          /\ \A n \in Monitors \ {m} : ranges'[n] = ranges[n]
      BY <2>1, <3>5, ProtectTypes
    <3>7. [mon |-> m, at |-> call.at] \in Places
      BY <3>1, <3>2 DEF Places
    <3> HIDE DEF m
    <3> SUFFICES ASSUME NEW n \in Monitors, NEW i \in DOMAIN ranges'[n]
                 PROVE  [mon |-> n, at |-> i] \in Places
      BY DEF PlacesInv, Watched
    <3>8. CASE n = m /\ i = call.at
      BY <3>7, <3>8
    <3>9. CASE ~(n = m /\ i = call.at)
      <4>1. i \in DOMAIN ranges[n]
        BY <3>6, <3>9
      <4>2. QED
        BY <4>1 DEF PlacesInv, Watched
    <3>10. QED
      BY <3>8, <3>9
  <2>2. CASE ~ProtectRange
    <3>1. \A m \in Monitors : DOMAIN ranges'[m] = DOMAIN ranges[m]
      <4>1. CASE \E t \in Threads : MarkFired(t)
        BY <4>1, MarkFiredStep DEF Fires
      <4>2. CASE ~\E t \in Threads : MarkFired(t)
        <5>1. ranges' = ranges
          BY <2>2, <4>2 DEF Next, HandlerStep, DanglingEntry, Touch, CopyChain, Found, NotFound,
             RestorePages, ReserveSlot, WriteEvent, Publish, Enable, DrainPending, DisableAll, Disable,
             CallStep, RegisterHandlers, Insert, TakeEvent, CallbackReturns, CallbackReenters,
             Advance, DrainEnds, Lock, ChooseMonitor, RestoreRange, UnregisterHandlers, Delete,
             DisableReturns, AddressThrows, vars, monitorVars
        <5>2. QED
          BY <5>1
      <4>3. QED
        BY <4>1, <4>2
    <3>2. QED
      BY <3>1 DEF PlacesInv, Watched
  <2>3. QED
    BY <2>1, <2>2
<1>3. QED
  BY <1>1, <1>2, TypesHold, RegistryHolds, PTL DEF Spec

LEMMA LogReserve ==
  ASSUME TypeInv, RingInv, QuietInv, AloneInv, ~overrun, NEW t \in Threads, ReserveSlot(t)
  PROVE  Log!Record(thread[t].range)
<1> DEFINE r == thread[t].range
           n == Len(recorded)
<1>1. /\ Others(t) /\ thread[t].phase = "restored" /\ thread'[t].phase = "reserved"
      /\ recorded' = Append(recorded, r)
      /\ UNCHANGED <<ranges, monitors, freed, readIdx>>
      /\ overrun' = (overrun \/ writeIdx - readIdx >= RingSize)
  BY ReserveSlotStep DEF ReserveSlot, monitorVars
<1>2. readIdx \in Nat /\ n \in Nat /\ writeIdx = n /\ readIdx <= n /\ recorded \in Seq(Events)
  BY PassedType DEF RingInv, AloneInv, TypeInv, TypeOK
<1>3. /\ r \in Watched(monitors) /\ thread[t].page \in RangeOf(r).pages /\ RangeOf(r).fired
  BY <1>1 DEF AloneInv, Claims, Claimed
<1>4. r \in Events
  <2>1. r \in Events \union {NoEvent} /\ r.mon \in Monitors
    BY <1>1 DEF TypeInv, TypeOK, ThreadStates, ClaimInv, Claimed
  <2>2. QED
    BY <2>1, ConstantFacts DEF NoEvent
<1>5. \A u \in Threads \ {t} : thread[u].phase \in {"marked", "restored"} => thread[u].range # r
  <2> SUFFICES ASSUME NEW u \in Threads \ {t}, thread[u].phase \in {"marked", "restored"},
                      thread[u].range = r
               PROVE  FALSE
    OBVIOUS
  <2>1. thread[u].page \in RangeOf(r).pages
    BY DEF AloneInv, Claims, Claimed
  <2>2. Together(t, u)
    BY <1>3, <2>1 DEF Together
  <2>3. QED
    BY <1>1, <2>2 DEF AloneInv, Handling
<1> HIDE DEF r, n
<1>6. Serving' = Serving \ {r} /\ r \in Serving
  BY <1>1, <1>5 DEF Serving, Others, r
<1>7. Armed' = Armed \ {r} /\ r \in Armed
  BY <1>1, <1>3, <1>6 DEF Armed, Watched, RangeOf
<1>8. Unread' = Append(Unread, r) /\ Len(Unread) = n - readIdx
  <2>1. /\ recorded' \in Seq(Events) /\ Len(recorded') = n + 1 /\ recorded'[n + 1] = r
        /\ \A i \in 1 .. n : recorded'[i] = recorded[i]
    BY <1>1, <1>2, <1>4, AppendProperties DEF n
  <2>2. \A i \in 1 .. n : recorded[i] \in Events
    BY <1>2, ElementOfSeq DEF n
  <2>3. /\ Unread \in Seq(Events) /\ Len(Unread) = n - readIdx
        /\ \A i \in 1 .. n - readIdx : Unread[i] = recorded[readIdx + i]
    <3>1. \A i \in readIdx + 1 .. n : recorded[i] \in Events
      BY <1>2, <2>2
    <3>2. /\ SubSeq(recorded, readIdx + 1, n) \in Seq(Events)
          /\ Len(SubSeq(recorded, readIdx + 1, n)) = IF readIdx + 1 <= n THEN n - (readIdx + 1) + 1
                                                     ELSE 0
          /\ \A i \in 1 .. n - (readIdx + 1) + 1 :
               SubSeq(recorded, readIdx + 1, n)[i] = recorded[readIdx + 1 + i - 1]
      BY <1>2, <3>1, SubSeqProperties
    <3>3. QED
      BY <1>2, <3>2 DEF Unread, n
  <2>4. /\ Unread' \in Seq(Events) /\ Len(Unread') = n + 1 - readIdx
        /\ \A i \in 1 .. n + 1 - readIdx : Unread'[i] = recorded'[readIdx + i]
    <3>1. \A i \in readIdx + 1 .. n + 1 : recorded'[i] \in Events
      BY <1>2, <1>4, <2>1, <2>2
    <3>2. /\ SubSeq(recorded', readIdx + 1, n + 1) \in Seq(Events)
          /\ Len(SubSeq(recorded', readIdx + 1, n + 1)) = IF readIdx + 1 <= n + 1
                                                          THEN n + 1 - (readIdx + 1) + 1 ELSE 0
          /\ \A i \in 1 .. n + 1 - (readIdx + 1) + 1 :
               SubSeq(recorded', readIdx + 1, n + 1)[i] = recorded'[readIdx + 1 + i - 1]
      BY <1>2, <3>1, SubSeqProperties
    <3>3. QED
      BY <1>1, <1>2, <2>1, <3>2 DEF Unread
  <2>5. /\ Append(Unread, r) \in Seq(Events) /\ Len(Append(Unread, r)) = n - readIdx + 1
        /\ \A i \in 1 .. n - readIdx : Append(Unread, r)[i] = Unread[i]
        /\ Append(Unread, r)[n - readIdx + 1] = r
    BY <1>4, <2>3, AppendProperties
  <2>6. ASSUME NEW i \in 1 .. n + 1 - readIdx PROVE Unread'[i] = Append(Unread, r)[i]
    <3>1. Unread'[i] = recorded'[readIdx + i]
      BY <2>4
    <3>2. CASE i = n - readIdx + 1
      <4>1. readIdx + i = n + 1
        BY <1>2, <3>2
      <4>2. QED
        BY <2>1, <2>5, <3>1, <3>2, <4>1
    <3>3. CASE i # n - readIdx + 1
      <4>1. i \in 1 .. n - readIdx /\ readIdx + i \in 1 .. n
        BY <1>2, <3>3
      <4>2. QED
        BY <2>1, <2>3, <2>5, <3>1, <4>1
    <3>4. QED
      BY <3>2, <3>3
  <2>7. QED
    BY <1>2, <2>3, <2>4, <2>5, <2>6, SeqEqual
<1>9. overrun' = (Len(Unread) >= RingSize)
  BY <1>1, <1>2, <1>8
<1>10. QED
  BY <1>7, <1>8, <1>9 DEF Log!Record, r

LEMMA LogHandlers ==
  ASSUME TypeInv, RegistryInv, RingInv, QuietInv, AloneInv, Alive', PlacesInv, NEW t \in Threads,
         HandlerStep(t) \/ DanglingEntry(t) \/ \E p \in Pages : Touch(t, p)
  PROVE  [Log!Next]_(Log!vars)
<1>0. UNCHANGED <<monitors, freed, readIdx>>
  BY DEF HandlerStep, DanglingEntry, Touch, CopyChain, Found, NotFound, MarkFired, RestorePages,
         ReserveSlot, WriteEvent, Publish, monitorVars, ringVars
<1>1. CASE overrun
  <2>1. overrun'
    <3>1. overrun' = overrun \/ \E late \in BOOLEAN : overrun' = (overrun \/ late)
      BY DEF HandlerStep, DanglingEntry, Touch, CopyChain, Found, NotFound, MarkFired, RestorePages,
             ReserveSlot, WriteEvent, Publish, historyVars
    <3>2. QED
      BY <1>1, <3>1
  <2>2. QED
    BY <1>1, <2>1 DEF Log!Next
<1>2. CASE ~overrun /\ ReserveSlot(t)
  <2>1. Log!Record(thread[t].range)
    BY <1>2, LogReserve
  <2>2. thread[t].range \in Places
    <3>1. thread[t].range \in Watched(monitors)
      BY <1>2 DEF ReserveSlot, AloneInv, Claims, Claimed
    <3>2. QED
      BY <3>1 DEF PlacesInv, Watched, TypeInv, TypeOK
  <2>3. QED
    BY <1>2, <2>1, <2>2 DEF Log!Next
<1>3. CASE ~ReserveSlot(t)
  <2>1. UNCHANGED <<recorded, overrun>>
    BY <1>3 DEF HandlerStep, DanglingEntry, Touch, CopyChain, Found, NotFound, MarkFired,
       RestorePages, WriteEvent, Publish, historyVars
  <2>2. Unread' = Unread
    BY <1>0, <2>1 DEF Unread
  <2>3. CASE ~MarkFired(t)
    <3>1. ranges' = ranges
      BY <1>3, <2>3 DEF HandlerStep, DanglingEntry, Touch, CopyChain, Found, NotFound, RestorePages,
         WriteEvent, Publish, monitorVars
    <3>2. \A u \in Threads \ {t} : thread'[u] = thread[u]
      BY ZenonT(30), <1>3, <2>3, TouchStep, CopyChainStep, FoundStep, NotFoundStep, DanglingStep,
         RestorePagesStep, WriteEventStep, PublishStep DEF HandlerStep, Moves, Others
    <3>3. \/ /\ thread[t].phase \notin {"marked", "restored"}
             /\ thread'[t].phase \notin {"marked", "restored"}
          \/ /\ thread[t].phase = "marked" /\ thread'[t].phase = "restored"
             /\ thread'[t].range = thread[t].range
      <4>1. CASE RestorePages(t)
        BY <4>1, RestorePagesStep DEF Moves
      <4>2. CASE DanglingEntry(t)
        BY <4>2, DanglingStep DEF Moves, Alive
      <4>3. CASE CopyChain(t) \/ Found(t) \/ NotFound(t)
        BY <4>3, CopyChainStep, FoundStep, NotFoundStep DEF CopyChain, Moves
      <4>4. CASE WriteEvent(t) \/ Publish(t)
        BY <4>4, WriteEventStep, PublishStep, IdleTypes DEF Moves
      <4>5. CASE \E p \in Pages : Touch(t, p)
        BY <4>5, TouchStep DEF Touch
      <4>6. QED
        BY <1>3, <2>3, <4>1, <4>2, <4>3, <4>4, <4>5 DEF HandlerStep
    <3>4. Serving' = Serving
      BY <3>2, <3>3 DEF Serving
    <3>5. Armed' = Armed
      BY <1>0, <3>1, <3>4 DEF Armed, Watched, RangeOf
    <3>6. QED
      BY <2>1, <2>2, <3>5 DEF Log!vars
  <2>4. CASE MarkFired(t)
    <3> DEFINE r == thread[t].range
    <3>1. thread[t].phase = "found" /\ Moves(t, "marked") /\ Fires(r)
      BY <2>4, MarkFiredStep
    <3>2. r \in Watched(monitors) /\ ~RangeOf(r).fired
      BY <3>1 DEF AloneInv, Claims, Claimed
    <3>3. ~Removing /\ monitors \intersect freed = {}
      <4>1. ~Changing \/ Reentered
        BY <3>1 DEF QuietInv, Handling
      <4>2. ~Removing
        BY <4>1 DEF Changing, Reentered, Removing
      <4>3. QED
        BY <4>2 DEF RegistryInv
    <3> HIDE DEF r
    <3>4. monitors \ freed = monitors
      BY <3>3
    <3>5. Serving' = Serving \union {r}
      BY <3>1 DEF Serving, Moves, Others, r
    <3>6. Watched(monitors)' = Watched(monitors)
      BY <1>0, <3>1 DEF Fires, Watched, TypeInv, TypeOK
    <3>7. ASSUME NEW e \in Watched(monitors)
          PROVE  (ranges'[e.mon][e.at]).fired <=> RangeOf(e).fired \/ e = r
      <4>1. e.mon \in Monitors /\ e.at \in DOMAIN ranges[e.mon] /\ e = [mon |-> e.mon, at |-> e.at]
        BY WatchedFacts
      <4>2. r = [mon |-> r.mon, at |-> r.at]
        BY <3>2, WatchedFacts
      <4>3. (ranges'[e.mon][e.at]).fired = IF e.mon = r.mon /\ e.at = r.at THEN TRUE
                                           ELSE ranges[e.mon][e.at].fired
        BY <3>1, <4>1 DEF Fires
      <4>4. QED
        BY <4>1, <4>2, <4>3 DEF RangeOf
    <3>8. {e \in Watched(monitors) : ~RangeOf(e).fired}'
            = {e \in Watched(monitors) : ~RangeOf(e).fired} \ {r}
      BY <3>6, <3>7 DEF RangeOf
    <3>9. Armed = {e \in Watched(monitors) : ~RangeOf(e).fired} \union Serving
      BY <3>4 DEF Armed
    <3>10. Armed' = {e \in Watched(monitors) : ~RangeOf(e).fired}' \union Serving'
      BY <1>0, <3>4 DEF Armed
    <3>11. Armed' = Armed
      BY <3>2, <3>5, <3>8, <3>9, <3>10
    <3>12. QED
      BY <2>1, <2>2, <3>11 DEF Log!vars
  <2>5. QED
    BY <2>3, <2>4
<1>4. QED
  BY <1>1, <1>2, <1>3

LEMMA LogCalls ==
  ASSUME TypeInv, RegistryInv, RingInv, QuietInv, ExactInv, PlacesInv, Alive,
         \/ \E request \in Requests : Enable(request)
         \/ DrainPending \/ DisableAll \/ \E m \in Monitors : Disable(m)
         \/ CallStep \/ CallbackReenters
  PROVE  [Log!Next]_(Log!vars)
<1>a. UNCHANGED <<recorded, overrun, thread>>
  BY DEF Enable, DrainPending, DisableAll, Disable, CallStep, ProtectRange, RegisterHandlers, Insert,
         TakeEvent, CallbackReturns, CallbackReenters, Advance, DrainEnds, Lock, ChooseMonitor,
         RestoreRange, UnregisterHandlers, Delete, DisableReturns, historyVars
<1>0. UNCHANGED <<recorded, overrun, thread>> /\ Serving' = Serving
  BY <1>a DEF Serving
<1>1. CASE overrun
  BY <1>0, <1>1 DEF Log!Next
<1>2. CASE Advance /\ ~overrun
  <2>1. /\ call.pc = "advancing" /\ readIdx' = call.read + 1
        /\ UNCHANGED <<ranges, monitors, freed>>
    BY <1>2, AdvanceStep DEF monitorVars
  <2>2. /\ readIdx \in Nat /\ Len(recorded) \in Nat /\ recorded \in Seq(Events)
        /\ call.limit \in Nat /\ writeIdx = Len(recorded)
    BY PassedType DEF TypeInv, TypeOK, Calls, RingInv
  <2>3. call.read = readIdx /\ readIdx < Len(recorded)
    BY <1>2, <2>1, <2>2 DEF RingInv, ReadsInv, Reading
  <2>4. Tail(SubSeq(recorded, readIdx + 1, Len(recorded)))
          = SubSeq(recorded, (readIdx + 1) + 1, Len(recorded))
    <3>1. readIdx + 1 \in 1 .. Len(recorded) /\ Len(recorded) \in readIdx + 1 .. Len(recorded)
      BY <2>2, <2>3
    <3>2. QED
      BY <2>2, <3>1, HeadTailOfSubSeq
  <2>5. Unread # <<>>
    <3>1. \A i \in readIdx + 1 .. Len(recorded) : recorded[i] \in Events
      BY <2>2, ElementOfSeq
    <3>2. Len(Unread) = Len(recorded) - (readIdx + 1) + 1
      BY <2>2, <2>3, <3>1, SubSeqProperties DEF Unread
    <3>3. QED
      BY <2>2, <2>3, <3>2, EmptySeq
  <2>6. Unread' = Tail(Unread)
    BY <1>0, <2>1, <2>3, <2>4 DEF Unread
  <2>7. Armed' = Armed
    BY <1>0, <2>1 DEF Armed, Watched, RangeOf
  <2>8. QED
    BY <1>0, <1>2, <2>5, <2>6, <2>7 DEF Log!Next, Log!Report
<1>3. CASE ~Advance /\ ~overrun
  <2>1. readIdx' = readIdx
    BY <1>3 DEF Enable, DrainPending, DisableAll, Disable, CallStep, ProtectRange, RegisterHandlers,
       Insert, TakeEvent, CallbackReturns, CallbackReenters, DrainEnds, Lock, ChooseMonitor,
       RestoreRange, UnregisterHandlers, Delete, DisableReturns, ringVars
  <2>2. Unread' = Unread
    BY <1>0, <2>1 DEF Unread
  <2>3. CASE Insert
    <3> DEFINE m == call.mon
               new == {e \in Watched({m}) : ~RangeOf(e).fired}
    <3>1. /\ monitors' = monitors \union {m} /\ m \in Monitors /\ m \notin monitors \union freed
          /\ UNCHANGED <<ranges, freed>>
      BY <2>3, InsertStep DEF RegistryInv, Enabling, TypeInv, CallInv
    <3> HIDE DEF m
    <3>2. Watched(monitors \ freed)' = Watched(monitors \ freed) \union Watched({m})
      BY <3>1 DEF Watched
    <3>3. Armed' = Armed \union new
      BY <1>0, <3>1, <3>2 DEF Armed, RangeOf
    <3>4. \A e \in new : e \in Places /\ e.mon = m
      BY <3>1 DEF PlacesInv, Watched
    <3>5. CASE new = {}
      BY <1>0, <2>2, <3>3, <3>5 DEF Log!vars
    <3>6. CASE new # {}
      <4>1. m \in {r.mon : r \in Places} /\ new \in SUBSET {r \in Places : r.mon = m}
        BY <3>4, <3>6
      <4>2. Log!Watch(new)
        BY <1>0, <2>2, <3>3 DEF Log!Watch
      <4>3. QED
        BY <1>3, <4>1, <4>2 DEF Log!Next
    <3>7. QED
      BY <3>5, <3>6
  <2>4. CASE Delete
    <3> DEFINE m == call.mon
    <3>1. /\ call.pc = "deleting" /\ monitors' \ freed' = (monitors \ freed) \ {m} /\ ranges' = ranges
          /\ m \in Monitors
      BY <2>4, DeleteStep DEF TypeInv, CallInv
    <3>2. \A t \in Threads : ~Handling(t)
      BY <3>1 DEF QuietInv, Changing, Reentered
    <3>3. Serving = {}
      BY <3>2 DEF Serving, Handling
    <3> HIDE DEF m
    <3>4. /\ Watched(monitors \ freed)' = {e \in Watched(monitors \ freed) : e.mon # m}
      BY <3>1 DEF Watched
    <3>5. Armed' = {e \in Armed : e.mon # m}
      BY <1>0, <3>1, <3>3, <3>4 DEF Armed, RangeOf
    <3>6. Unread = <<>>
      <4>1. readIdx = Len(recorded) /\ readIdx \in Nat
        BY <1>3, <3>1, PassedType DEF ExactInv, DrainedInv, Drained, Removing, RingInv
      <4>2. QED
        BY <4>1, SubSeqEmpty DEF Unread
    <3>7. CASE \E e \in Armed : e.mon = m
      <4>1. PICK e \in Armed : e.mon = m
        BY <3>7
      <4>2. e \in Places
        BY <3>3 DEF Armed, PlacesInv, Watched, TypeInv, TypeOK
      <4>3. Log!Withdraw(m)
        BY <1>0, <2>2, <3>5, <3>6 DEF Log!Withdraw
      <4>4. QED
        BY <1>3, <4>1, <4>2, <4>3 DEF Log!Next
    <3>8. CASE ~\E e \in Armed : e.mon = m
      <4>1. Armed' = Armed
        BY <3>5, <3>8
      <4>2. QED
        BY <1>0, <2>2, <4>1 DEF Log!vars
    <3>9. QED
      BY <3>7, <3>8
  <2>5. CASE ~Insert /\ ~Delete
    <3>1. monitors' \ freed' = monitors \ freed
      <4>1. CASE DisableReturns
        BY <4>1, ReturnStep DEF RegistryInv, Removing
      <4>2. CASE ~DisableReturns
        <5>1. UNCHANGED <<monitors, freed>>
          BY <1>3, <2>5, <4>2 DEF Enable, DrainPending, DisableAll, Disable, CallStep, ProtectRange,
             RegisterHandlers, TakeEvent, CallbackReturns, CallbackReenters, DrainEnds, Lock,
             ChooseMonitor, RestoreRange, UnregisterHandlers, monitorVars
        <5>2. QED
          BY <5>1
      <4>3. QED
        BY <4>1, <4>2
    <3>2. \A m \in monitors \ freed : ranges'[m] = ranges[m]
      <4>1. CASE ProtectRange
        <5>1. call.mon \notin monitors
          BY <4>1, ProtectStep DEF RegistryInv, Enabling
        <5>2. QED
          BY <4>1, <5>1, ProtectTypes DEF TypeInv, TypeOK
      <4>2. CASE ~ProtectRange
        <5>1. ranges' = ranges
          BY <1>3, <2>5, <4>2 DEF Enable, DrainPending, DisableAll, Disable, CallStep,
             RegisterHandlers, TakeEvent, CallbackReturns, CallbackReenters, DrainEnds, Lock,
             ChooseMonitor, RestoreRange, UnregisterHandlers, DisableReturns, monitorVars
        <5>2. QED
          BY <5>1
      <4>3. QED
        BY <4>1, <4>2
    <3>3. Watched(monitors \ freed)' = Watched(monitors \ freed)
      BY <3>1, <3>2 DEF Watched
    <3>4. \A e \in Watched(monitors \ freed) : RangeOf(e)' = RangeOf(e)
      BY <3>2 DEF Watched, RangeOf
    <3>5. Armed' = Armed
      BY <1>0, <3>3, <3>4 DEF Armed
    <3>6. QED
      BY <1>0, <2>2, <3>5 DEF Log!vars
  <2>6. QED
    BY <2>3, <2>4, <2>5
<1>4. QED
  BY <1>1, <1>2, <1>3

\* The monitor implements the log of AccessLog as long as nobody touches a watched page while a call
\* changes what is watched, no two threads the same one at once, and enable() is given addresses
\* it can read: a range is reported once, in the order of the accesses, and no report of a
\* withdrawn monitor is outstanding.
THEOREM MonitorKeepsItsLog ==
  ASSUME Quiesced, OneAtATime, Parseable
  PROVE  Spec => ImplementsLog
<1>1. Init => Log!Init
  <2> SUFFICES ASSUME Init PROVE Log!Init
    OBVIOUS
  <2>1. /\ monitors = {} /\ recorded = <<>> /\ readIdx = 0 /\ overrun = FALSE
        /\ \A t \in Threads : thread[t].phase = "running"
    BY IdleTypes DEF Init
  <2>2. Armed = {}
    BY <2>1 DEF Armed, Serving, Watched
  <2>3. Unread = <<>>
    BY <2>1, EmptySeq, SubSeqEmpty DEF Unread
  <2>4. QED
    BY <2>1, <2>2, <2>3 DEF Log!Init
<1>2. /\ TypeInv /\ RegistryInv /\ RingInv /\ QuietInv /\ AloneInv /\ AloneInv' /\ ExactInv /\ PlacesInv
      /\ [Next]_vars
      => [Log!Next]_(Log!vars)
  <2> SUFFICES ASSUME TypeInv, RegistryInv, RingInv, QuietInv, AloneInv, AloneInv', ExactInv,
                      PlacesInv, [Next]_vars
               PROVE  [Log!Next]_(Log!vars)
    OBVIOUS
  <2>1. Alive /\ Alive'
    BY DEF AloneInv
  <2>2. CASE UNCHANGED vars
    BY <2>2 DEF vars, monitorVars, ringVars, historyVars, Log!vars, Armed, Serving, Unread, Watched,
       RangeOf
  <2>3. QED
    BY <2>1, <2>2, LogHandlers, LogCalls, ThrowStep DEF Next
<1>3. QED
  BY <1>1, <1>2, TypesHold, RegistryHolds, RingHolds, QuietHolds, AloneHolds, ExactHolds, PlacesHold,
     PTL DEF Spec, ImplementsLog, Log!Spec
=================================================================================
