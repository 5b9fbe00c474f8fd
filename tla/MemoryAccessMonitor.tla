--------------------------- MODULE MemoryAccessMonitor ---------------------------
(****************************************************************************)
(* native_memory_access_monitor.cc on POSIX: pages are made inaccessible,   *)
(* the signal handler of the first access restores them and records the     *)
(* access in a ring, and the script drains the ring.                        *)
(*                                                                          *)
(* The API runs on the script's thread, one call at a time; a call is split *)
(* wherever another thread can see its effect.  Every thread, the script's  *)
(* included, may touch a watched page and then runs monitorSegvHandler, also *)
(* one effect at a time.  The code documents no rules for its users; Rules  *)
(* names those a user may keep to, and the runs say which of them the       *)
(* promises of the code depend on.                                          *)
(****************************************************************************)
EXTENDS Integers, Sequences, FiniteSets

CONSTANTS
  Threads,       \* threads of the program, the script's own one among them
  Script,        \* the script's thread
  PageCount,     \* pages of the process
  PageSize,      \* bytes in a page
  Requests,      \* what the script may ask enable() to watch: [addr, size] sequences
  RingSize,      \* MAX_PENDING
  MaxMonitors,   \* bound on the calls of enable()
  Rules          \* the rules the user of the API keeps to

\* "quiesced": nobody touches a watched page while enable(), disable() or
\*   disableAll() runs.
\* "one-at-a-time": no two threads touch the same watched page at once.
\* "disjoint": no page is watched twice at a time.
\* "no-reentry": the callback does not call the API.
\* "addresses-parse": parseHexAddr can read every address enable() is given.
AllRules == {"quiesced", "one-at-a-time", "disjoint", "no-reentry", "addresses-parse"}

Pages    == 0 .. PageCount - 1
Monitors == 1 .. MaxMonitors

ASSUME MonitorConstants ==
  /\ Script \in Threads
  /\ PageCount \in Nat /\ PageSize \in Nat \ {0} /\ RingSize \in Nat \ {0}
  /\ MaxMonitors \in Nat
  /\ Requests \subseteq Seq([addr : Nat, size : Nat])
  /\ Rules \subseteq AllRules

VARIABLES
  prot,          \* the protection of each page
  ranges,        \* for each MonitorEntry, its WatchedRanges
  monitors,      \* the keys of g_monitors
  freed,         \* monitors whose MonitorEntry is deleted
  nextMonId,     \* g_nextMonId
  registered,    \* monitors whose handlers are in the exception handler's chain
  mutex,         \* g_monMutex is held
  slots,         \* g_pending.entries
  writeIdx,      \* g_pending.writeIdx
  readIdx,       \* g_pending.readIdx
  call,          \* where the script's thread is inside an API call
  thread,        \* where each thread is inside monitorSegvHandler
  recorded,      \* history: the accesses in the order of their slots
  reported,      \* history: the accesses the callbacks were told of
  overrun        \* history: more than RingSize accesses were waiting at once

monitorVars == <<ranges, monitors, freed, nextMonId, registered>>
ringVars    == <<slots, writeIdx, readIdx>>
historyVars == <<recorded, reported, overrun>>
vars == <<prot, monitorVars, mutex, ringVars, call, thread, historyVars>>

--------------------------------------------------------------------------------
(* Values *)

\* The page alignment of enable(): from the page of addr to that of the last byte.
PagesOf(r) ==
  LET pageBase  == r.addr - (r.addr % PageSize)
      totalSize == ((r.addr + r.size - pageBase + PageSize - 1) \div PageSize) * PageSize
  IN {p \in Pages : pageBase <= p * PageSize /\ p * PageSize < pageBase + totalSize}

NoEvent == [mon |-> 0, at |-> 0]

Idle == [pc |-> "idle", mon |-> 0, at |-> 0, limit |-> 0, read |-> 0,
         request |-> <<>>, todo |-> {}, all |-> FALSE]

Running == [phase |-> "running", page |-> 0, runs |-> 0, range |-> NoEvent, slot |-> 0]

Alive == \A t \in Threads : thread[t].phase # "killed"

\* The script's thread goes on with its API call (it is not in a signal handler).
ScriptRuns == Alive /\ thread[Script].phase = "running"

Ready(pc) == ScriptRuns /\ call.pc = pc

RangeOf(e) == ranges[e.mon][e.at]

Watched(S) == UNION {{[mon |-> m, at |-> i] : i \in DOMAIN ranges[m]} : m \in S}

\* The ranges of g_monitors that a scan for page p would stop at.
Guards(p) == {e \in Watched(monitors) : ~RangeOf(e).fired /\ p \in RangeOf(e).pages}

Handling(t) == thread[t].phase \notin {"running", "killed"}

\* enable(), disable() or disableAll() is running.
Changing == \/ call.pc \notin {"idle", "draining", "callback", "advancing"}
            \/ call.todo # {} \/ call.all

Quiet == "quiesced" \in Rules => \A t \in Threads : ~Handling(t)

--------------------------------------------------------------------------------
(* Initial state *)

Init ==
  /\ prot = [p \in Pages |-> "rw"]
  /\ ranges = [m \in Monitors |-> <<>>]
  /\ monitors = {} /\ freed = {} /\ nextMonId = 1 /\ registered = {}
  /\ mutex = FALSE
  /\ slots = [i \in 0 .. RingSize - 1 |-> [ready |-> FALSE, event |-> NoEvent]]
  /\ writeIdx = 0 /\ readIdx = 0
  /\ call = Idle
  /\ thread = [t \in Threads |-> Running]
  /\ recorded = <<>> /\ reported = <<>> /\ overrun = FALSE

--------------------------------------------------------------------------------
(* enable() *)

\* The pages of a request, each once and none watched already.
Disjoint(request) ==
  \A i \in DOMAIN request, p \in Pages :
    p \in PagesOf(request[i]) =>
      /\ Guards(p) = {}
      /\ \A j \in DOMAIN request : p \in PagesOf(request[j]) => j = i

\* The lock is taken, the exception handler counted in and the id drawn.
Enable(request) ==
  /\ Ready("idle") /\ Quiet
  /\ "disjoint" \in Rules => Disjoint(request)
  /\ nextMonId <= MaxMonitors
  /\ ~mutex
  /\ mutex' = TRUE
  /\ nextMonId' = nextMonId + 1
  /\ call' = [Idle EXCEPT !.pc = IF request = <<>> THEN "registering" ELSE "protecting",
                          !.mon = nextMonId, !.at = 1, !.request = request]
  /\ UNCHANGED <<prot, ranges, monitors, freed, registered, ringVars, thread, historyVars>>

\* One range: appended to the entry, then its pages lose all permissions.
ProtectRange ==
  /\ Ready("protecting")
  /\ LET pages == PagesOf(call.request[call.at])
     IN /\ ranges' = [ranges EXCEPT ![call.mon] =
                        Append(@, [pages |-> pages, fired |-> FALSE])]
        /\ prot' = [p \in Pages |-> IF p \in pages THEN "none" ELSE prot[p]]
  /\ call' = IF call.at < Len(call.request) THEN [call EXCEPT !.at = @ + 1]
             ELSE [call EXCEPT !.pc = "registering"]
  /\ UNCHANGED <<monitors, freed, nextMonId, registered, mutex, ringVars, thread, historyVars>>

\* parseHexAddr throws at the next address: the guard releases the lock, and what was
\* done stays done: the entry is nobody's, and its ranges so far are closed.
AddressThrows ==
  /\ Ready("protecting")
  /\ "addresses-parse" \notin Rules
  /\ mutex' = FALSE
  /\ call' = Idle
  /\ UNCHANGED <<prot, monitorVars, ringVars, thread, historyVars>>

RegisterHandlers ==
  /\ Ready("registering")
  /\ registered' = registered \union {call.mon}
  /\ call' = [call EXCEPT !.pc = "inserting"]
  /\ UNCHANGED <<prot, ranges, monitors, freed, nextMonId, mutex, ringVars, thread, historyVars>>

\* g_monitors gets the entry and the lock is released.
Insert ==
  /\ Ready("inserting")
  /\ monitors' = monitors \union {call.mon}
  /\ mutex' = FALSE
  /\ call' = Idle
  /\ UNCHANGED <<prot, ranges, freed, nextMonId, registered, ringVars, thread, historyVars>>

--------------------------------------------------------------------------------
(* drainPending(), by itself or as the first thing disable() and disableAll() do *)

\* The bounds of the drain are read once, when it starts.
Draining == [Idle EXCEPT !.pc = "draining", !.limit = writeIdx, !.read = readIdx]

DrainPending ==
  /\ Ready("idle")
  /\ call' = Draining
  /\ UNCHANGED <<prot, monitorVars, mutex, ringVars, thread, historyVars>>

Slot == slots[call.read % RingSize]

\* An entry that is ready; the lock is held while its callback runs.  An entry
\* whose monitor is gone is skipped.
TakeEvent ==
  /\ Ready("draining")
  /\ call.read # call.limit /\ Slot.ready
  /\ ~mutex
  /\ IF Slot.event.mon \in monitors
     THEN /\ mutex' = TRUE
          /\ reported' = Append(reported, Slot.event)
          /\ call' = [call EXCEPT !.pc = "callback"]
     ELSE /\ call' = [call EXCEPT !.pc = "advancing"]
          /\ UNCHANGED <<mutex, reported>>
  /\ UNCHANGED <<prot, monitorVars, ringVars, thread, recorded, overrun>>

\* Fault: a callback that throws leaves the lock held.
CallbackLeavesLock ==
  /\ Ready("callback")
  /\ call' = [call EXCEPT !.pc = "advancing"]
  /\ UNCHANGED <<prot, monitorVars, mutex, ringVars, thread, historyVars>>

\* onAccess returns, or throws what is swallowed.
CallbackReturns ==
  /\ Ready("callback")
  /\ mutex' = FALSE
  /\ call' = [call EXCEPT !.pc = "advancing"]
  /\ UNCHANGED <<prot, monitorVars, ringVars, thread, historyVars>>

\* onAccess calls enable(), drain(), disable() or disableAll(): each comes to take
\* the lock its own caller holds.
CallbackReenters ==
  /\ Ready("callback")
  /\ "no-reentry" \notin Rules
  /\ call' = [call EXCEPT !.pc = "locking"]
  /\ UNCHANGED <<prot, monitorVars, mutex, ringVars, thread, historyVars>>

\* Fault: the entry is not marked as free again.
AdvanceKeepsReady ==
  /\ Ready("advancing")
  /\ readIdx' = call.read + 1
  /\ call' = [call EXCEPT !.pc = "draining", !.read = @ + 1]
  /\ UNCHANGED <<prot, monitorVars, mutex, slots, writeIdx, thread, historyVars>>

Advance ==
  /\ Ready("advancing")
  /\ slots' = [slots EXCEPT ![call.read % RingSize].ready = FALSE]
  /\ readIdx' = call.read + 1
  /\ call' = [call EXCEPT !.pc = "draining", !.read = @ + 1]
  /\ UNCHANGED <<prot, monitorVars, mutex, writeIdx, thread, historyVars>>

\* Nothing is left below the limit, or the next entry is not written yet.
DrainEnds ==
  /\ Ready("draining")
  /\ call.read = call.limit \/ ~Slot.ready
  /\ call' = IF call.todo = {} /\ ~call.all THEN Idle ELSE [call EXCEPT !.pc = "locking"]
  /\ UNCHANGED <<prot, monitorVars, mutex, ringVars, thread, historyVars>>

--------------------------------------------------------------------------------
(* disable() and disableAll() *)

\* Fault: disable() does not drain first.
DisableUndrained(m) ==
  /\ Ready("idle") /\ Quiet
  /\ m < nextMonId
  /\ call' = [Idle EXCEPT !.pc = "locking", !.todo = {m}]
  /\ UNCHANGED <<prot, monitorVars, mutex, ringVars, thread, historyVars>>

Disable(m) ==
  /\ Ready("idle") /\ Quiet
  /\ m < nextMonId
  /\ call' = [Draining EXCEPT !.todo = {m}]
  /\ UNCHANGED <<prot, monitorVars, mutex, ringVars, thread, historyVars>>

DisableAll ==
  /\ Ready("idle") /\ Quiet
  /\ call' = [Draining EXCEPT !.all = TRUE]
  /\ UNCHANGED <<prot, monitorVars, mutex, ringVars, thread, historyVars>>

\* With the lock held: the monitor is looked up, or the walk over all of them begins.
Lock ==
  /\ Ready("locking")
  /\ ~mutex
  /\ mutex' = TRUE
  /\ call' = [call EXCEPT !.pc = "choosing",
                          !.todo = IF call.all THEN monitors ELSE @ \intersect monitors]
  /\ UNCHANGED <<prot, monitorVars, ringVars, thread, historyVars>>

ChooseMonitor ==
  /\ Ready("choosing")
  /\ \E m \in call.todo :
       call' = [call EXCEPT !.pc = "restoring", !.mon = m, !.at = 1]
  /\ UNCHANGED <<prot, monitorVars, mutex, ringVars, thread, historyVars>>

\* Fault: the test of the fired flag is the wrong way round.
RestoreFiredRange ==
  /\ Ready("restoring")
  /\ call.at <= Len(ranges[call.mon])
  /\ LET range == ranges[call.mon][call.at]
     IN prot' = [p \in Pages |-> IF range.fired /\ p \in range.pages THEN "rw" ELSE prot[p]]
  /\ call' = [call EXCEPT !.at = @ + 1]
  /\ UNCHANGED <<monitorVars, mutex, ringVars, thread, historyVars>>

\* One range: its pages become accessible unless it has fired.
RestoreRange ==
  /\ Ready("restoring")
  /\ call.at <= Len(ranges[call.mon])
  /\ LET range == ranges[call.mon][call.at]
     IN prot' = [p \in Pages |-> IF ~range.fired /\ p \in range.pages THEN "rw" ELSE prot[p]]
  /\ call' = [call EXCEPT !.at = @ + 1]
  /\ UNCHANGED <<monitorVars, mutex, ringVars, thread, historyVars>>

\* Fault: the function is withdrawn, for every monitor, and not the monitor's ids.
UnregisterFunction ==
  /\ Ready("restoring")
  /\ call.at > Len(ranges[call.mon])
  /\ registered' = {}
  /\ call' = [call EXCEPT !.pc = "deleting"]
  /\ UNCHANGED <<prot, ranges, monitors, freed, nextMonId, mutex, ringVars, thread, historyVars>>

UnregisterHandlers ==
  /\ Ready("restoring")
  /\ call.at > Len(ranges[call.mon])
  /\ registered' = registered \ {call.mon}
  /\ call' = [call EXCEPT !.pc = "deleting"]
  /\ UNCHANGED <<prot, ranges, monitors, freed, nextMonId, mutex, ringVars, thread, historyVars>>

\* disable() erases the key first; disableAll() keeps the keys until the last
\* entry is deleted.
Delete ==
  /\ Ready("deleting")
  /\ freed' = freed \union {call.mon}
  /\ monitors' = IF call.all THEN monitors ELSE monitors \ {call.mon}
  /\ call' = [call EXCEPT !.pc = "choosing", !.todo = @ \ {call.mon}]
  /\ UNCHANGED <<prot, ranges, nextMonId, registered, mutex, ringVars, thread, historyVars>>

DisableReturns ==
  /\ Ready("choosing")
  /\ call.todo = {}
  /\ monitors' = IF call.all THEN {} ELSE monitors
  /\ mutex' = FALSE
  /\ call' = Idle
  /\ UNCHANGED <<prot, ranges, freed, nextMonId, registered, ringVars, thread, historyVars>>

--------------------------------------------------------------------------------
(* A thread touches a watched page *)

\* A page that shares a range with one another thread is being served for.
Contended(t, p) ==
  \E u \in Threads \ {t} :
    Handling(u) /\ \E e \in Watched(monitors) : {p, thread[u].page} \subseteq RangeOf(e).pages

\* The access faults.  The script's thread runs program code between its calls and
\* in the callback.
Touch(t, p) ==
  /\ Alive /\ thread[t].phase = "running"
  /\ t = Script => call.pc \in {"idle", "callback"}
  /\ "quiesced" \in Rules => ~Changing
  /\ "one-at-a-time" \in Rules => ~Contended(t, p)
  /\ prot[p] = "none"
  /\ thread' = [thread EXCEPT ![t] = [Running EXCEPT !.phase = "entered", !.page = p]]
  /\ UNCHANGED <<prot, monitorVars, mutex, ringVars, call, historyVars>>

\* globalSignalHandler copies the chain; every monitor has put the same function
\* into it.  With none left the fault is the process's own.
CopyChain(t) ==
  /\ Alive /\ thread[t].phase = "entered"
  /\ thread' = [thread EXCEPT ![t].runs = Cardinality(registered),
                              ![t].phase = IF registered = {} THEN "killed" ELSE "scanning"]
  /\ UNCHANGED <<prot, monitorVars, mutex, ringVars, call, historyVars>>

\* Fault: the scan waits for the lock of g_monitors.
FoundUnderLock(t) ==
  /\ Alive /\ thread[t].phase = "scanning"
  /\ ~mutex
  /\ \E e \in Guards(thread[t].page) :
       thread' = [thread EXCEPT ![t].phase = "found", ![t].range = e]
  /\ UNCHANGED <<prot, monitorVars, mutex, ringVars, call, historyVars>>

\* The walk over g_monitors, in no particular order of the monitors but in order
\* within each, stops at an unfired range over the page.
Found(t) ==
  /\ Alive /\ thread[t].phase = "scanning"
  /\ \E e \in Guards(thread[t].page) :
       /\ \A f \in Guards(thread[t].page) : f.mon = e.mon => e.at <= f.at
       /\ thread' = [thread EXCEPT ![t].phase = "found", ![t].range = e]
  /\ UNCHANGED <<prot, monitorVars, mutex, ringVars, call, historyVars>>

\* No range claims the fault: the next copy of the function runs, and after the
\* last one the fault is the process's own.
NotFound(t) ==
  /\ Alive /\ thread[t].phase = "scanning"
  /\ Guards(thread[t].page) = {}
  /\ thread' = [thread EXCEPT ![t].runs = @ - 1,
                              ![t].phase = IF thread[t].runs = 1 THEN "killed" ELSE @]
  /\ UNCHANGED <<prot, monitorVars, mutex, ringVars, call, historyVars>>

\* A deleted entry is read through g_monitors or through the reference the scan
\* holds; the other outcome, that the memory is still intact, is the other actions.
DanglingEntry(t) ==
  /\ Alive
  /\ \/ thread[t].phase = "scanning" /\ monitors \intersect freed # {}
     \/ thread[t].phase \in {"found", "marked", "reserved"} /\ thread[t].range.mon \in freed
  /\ thread' = [thread EXCEPT ![t].phase = "killed"]
  /\ UNCHANGED <<prot, monitorVars, mutex, ringVars, call, historyVars>>

MarkFired(t) ==
  /\ Alive /\ thread[t].phase = "found"
  /\ LET e == thread[t].range IN ranges' = [ranges EXCEPT ![e.mon][e.at].fired = TRUE]
  /\ thread' = [thread EXCEPT ![t].phase = "marked"]
  /\ UNCHANGED <<prot, monitors, freed, nextMonId, registered, mutex, ringVars, call, historyVars>>

\* Fault: the pages of the whole monitor are restored and not those of the range.
RestoreMonitor(t) ==
  /\ Alive /\ thread[t].phase = "marked"
  /\ LET own == Watched({thread[t].range.mon})
     IN prot' = [p \in Pages |-> IF \E e \in own : p \in RangeOf(e).pages THEN "rw" ELSE prot[p]]
  /\ thread' = [thread EXCEPT ![t].phase = "restored"]
  /\ UNCHANGED <<monitorVars, mutex, ringVars, call, historyVars>>

RestorePages(t) ==
  /\ Alive /\ thread[t].phase = "marked"
  /\ prot' = [p \in Pages |-> IF p \in RangeOf(thread[t].range).pages THEN "rw" ELSE prot[p]]
  /\ thread' = [thread EXCEPT ![t].phase = "restored"]
  /\ UNCHANGED <<monitorVars, mutex, ringVars, call, historyVars>>

\* Fault: the slot is published when it is drawn, before it is written.
ReservePublishes(t) ==
  /\ Alive /\ thread[t].phase = "restored"
  /\ writeIdx' = writeIdx + 1
  /\ slots' = [slots EXCEPT ![writeIdx % RingSize].ready = TRUE]
  /\ recorded' = Append(recorded, thread[t].range)
  /\ overrun' = (overrun \/ writeIdx - readIdx >= RingSize)
  /\ thread' = [thread EXCEPT ![t].phase = "reserved", ![t].slot = writeIdx % RingSize]
  /\ UNCHANGED <<prot, monitorVars, mutex, readIdx, call, reported>>

\* The fetch_add that draws a slot; whether the slot is free is not looked at.
ReserveSlot(t) ==
  /\ Alive /\ thread[t].phase = "restored"
  /\ writeIdx' = writeIdx + 1
  /\ recorded' = Append(recorded, thread[t].range)
  /\ overrun' = (overrun \/ writeIdx - readIdx >= RingSize)
  /\ thread' = [thread EXCEPT ![t].phase = "reserved", ![t].slot = writeIdx % RingSize]
  /\ UNCHANGED <<prot, monitorVars, mutex, slots, readIdx, call, reported>>

WriteEvent(t) ==
  /\ Alive /\ thread[t].phase = "reserved"
  /\ slots' = [slots EXCEPT ![thread[t].slot].event = thread[t].range]
  /\ thread' = [thread EXCEPT ![t].phase = "written"]
  /\ UNCHANGED <<prot, monitorVars, mutex, writeIdx, readIdx, call, historyVars>>

\* The entry becomes visible and the instruction runs again.
Publish(t) ==
  /\ Alive /\ thread[t].phase = "written"
  /\ slots' = [slots EXCEPT ![thread[t].slot].ready = TRUE]
  /\ thread' = [thread EXCEPT ![t] = Running]
  /\ UNCHANGED <<prot, monitorVars, mutex, writeIdx, readIdx, call, historyVars>>

--------------------------------------------------------------------------------
(* Specification *)

CallStep ==
  \/ ProtectRange \/ RegisterHandlers \/ Insert
  \/ TakeEvent \/ CallbackReturns \/ Advance \/ DrainEnds
  \/ Lock \/ ChooseMonitor \/ RestoreRange \/ UnregisterHandlers \/ Delete \/ DisableReturns

HandlerStep(t) ==
  \/ CopyChain(t) \/ Found(t) \/ NotFound(t) \/ MarkFired(t) \/ RestorePages(t)
  \/ ReserveSlot(t) \/ WriteEvent(t) \/ Publish(t)

Next ==
  \/ \E request \in Requests : Enable(request)
  \/ DrainPending
  \/ \E m \in Monitors : Disable(m)
  \/ DisableAll
  \/ CallStep \/ CallbackReenters \/ AddressThrows
  \/ \E t \in Threads : \E p \in Pages : Touch(t, p)
  \/ \E t \in Threads : HandlerStep(t) \/ DanglingEntry(t)

Spec == Init /\ [][Next]_vars

\* A call that has begun and a handler that has been entered keep running.
Fairness == WF_vars(CallStep) /\ \A t \in Threads : WF_vars(HandlerStep(t))

FairSpec == Spec /\ Fairness

--------------------------------------------------------------------------------
(* Properties *)

WatchedRanges == [pages : SUBSET Pages, fired : BOOLEAN]

Events == [mon : Monitors, at : Nat \ {0}]

Calls == [pc : {"idle", "protecting", "registering", "inserting", "draining", "callback",
                "advancing", "locking", "choosing", "restoring", "deleting"},
          mon : Monitors \union {0}, at : Nat, limit : Nat, read : Nat,
          request : Requests \union {<<>>}, todo : SUBSET Monitors, all : BOOLEAN]

ThreadStates == [phase : {"running", "entered", "scanning", "found", "marked", "restored",
                          "reserved", "written", "killed"},
                 page : Pages \union {0}, runs : Nat, range : Events \union {NoEvent},
                 slot : 0 .. RingSize - 1]

\* Every variable has its type.
TypeOK ==
  /\ prot \in [Pages -> {"rw", "none"}]
  /\ ranges \in [Monitors -> Seq(WatchedRanges)]
  /\ monitors \subseteq Monitors /\ freed \subseteq Monitors
  /\ nextMonId \in 1 .. MaxMonitors + 1
  /\ registered \subseteq Monitors
  /\ mutex \in BOOLEAN
  /\ slots \in [0 .. RingSize - 1 -> [ready : BOOLEAN, event : Events \union {NoEvent}]]
  /\ writeIdx \in Nat /\ readIdx \in Nat
  /\ call \in Calls
  /\ thread \in [Threads -> ThreadStates]
  /\ recorded \in Seq(Events) /\ reported \in Seq(Events)
  /\ overrun \in BOOLEAN

\* native_memory_access_monitor.h:17-19, "Removes permissions via mprotect, catches
\* SIGSEGV on first access. When a watched range is accessed, permissions are
\* permanently restored": touching watched memory never ends the process.
AccessSurvives == Alive

\* A range that has not fired is still watched: none of its pages can be touched
\* unnoticed ("one-shot per range", memory-access-monitor.ts:28).
UnfiredStaysGuarded ==
  \A e \in Watched(monitors \ freed) :
    ~RangeOf(e).fired /\ e.mon # call.mon =>
      \A p \in RangeOf(e).pages : prot[p] = "none"

\* The monitors whose enable() threw: their id is drawn and g_monitors never had them.
Abandoned ==
  {m \in Monitors : m < nextMonId /\ m # call.mon /\ m \notin monitors \union freed}

\* No page is left inaccessible for good: somebody still knows that it has to be
\* restored (a monitor, the enable() under way, or the handler that claimed it).  Only
\* an enable() that throws at a later address leaves the pages it had closed behind.
NoOrphanPage ==
  Alive => \A p \in Pages : prot[p] = "none" =>
    \/ \E e \in Watched(((monitors \ freed) \union {call.mon}) \ {0}) :
         ~RangeOf(e).fired /\ p \in RangeOf(e).pages
    \/ \E t \in Threads : /\ thread[t].phase = "marked"
                          /\ p \in RangeOf(thread[t].range).pages
    \/ \E e \in Watched(Abandoned) : p \in RangeOf(e).pages

\* The callbacks are told of every access once and in the order in which the
\* accesses were recorded, as long as the ring has not overrun
\* (drainPending and the ring protocol of monitorSegvHandler).
ReportedAsRecorded ==
  ~overrun => /\ Len(reported) <= Len(recorded)
              /\ reported = SubSeq(recorded, 1, Len(reported))
              /\ readIdx <= Len(reported)

\* Whatever the user does, no event is made up or told twice: as long as the ring
\* has not overrun, what the callbacks are told is what was recorded, in that
\* order, with the events of withdrawn monitors left out.
ReportsInOrder ==
  ~overrun =>
    \E told \in SUBSET (1 .. Len(recorded)) :
      /\ Cardinality(told) = Len(reported)
      /\ \A i \in told :
           recorded[i] = reported[Cardinality({j \in told : j <= i})]

\* A thread that faults gets out of the handler, or the process ends: the handler
\* waits for nobody (native_memory_access_monitor.cc:122, "no mutex").
FaultResolved ==
  \A t \in Threads : (thread[t].phase = "entered") ~> (thread[t].phase = "running" \/ ~Alive)

\* Every call of the API returns, the drain included
\* (native_memory_access_monitor.h:36, "safe for JS callbacks").
CallsReturn == (call.pc # "idle") ~> (call.pc = "idle" \/ ~Alive)

\* Every range a monitor can have.
Places == [mon : Monitors, at : UNION {DOMAIN request : request \in Requests}]

\* The ranges handlers have claimed and not recorded yet.
Serving == {thread[t].range : t \in {u \in Threads : thread[u].phase \in {"marked", "restored"}}}

Armed == {e \in Watched(monitors \ freed) : ~RangeOf(e).fired} \union Serving

Unread == SubSeq(recorded, readIdx + 1, Len(recorded))

\* The promise to the script.
Log == INSTANCE AccessLog WITH
  Ranges <- Places, Capacity <- RingSize, armed <- Armed, log <- Unread, overrun <- overrun

ImplementsLog == Log!Spec
================================================================================
