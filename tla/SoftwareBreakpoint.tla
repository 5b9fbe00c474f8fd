--------------------------- MODULE SoftwareBreakpoint ---------------------------
(****************************************************************************)
(* native_breakpoint.cc: set(), remove() and removeAll(), and the handler   *)
(* that sends a thread that ran into a BRK or INT3 to the trampoline.  The  *)
(* handler runs on the thread that trapped, without the lock.               *)
(****************************************************************************)
EXTENDS CodeMemory

VARIABLES
  bpById,            \* the entries of g_bpById
  bpByAddress,       \* g_bpByAddress
  handlerInstalled   \* g_handlerInstalled: the exception handler is counted in

bpVars == <<bpById, bpByAddress, handlerInstalled>>

BreakpointInit ==
  /\ bpById = {} /\ bpByAddress = <<>> /\ handlerInstalled = FALSE

\* A call that is inside set(), remove() or removeAll() for this breakpoint.
Working(t, pc) == At(t, pc) /\ call[t].patch.of = "breakpoint"

--------------------------------------------------------------------------------
(* set() *)

CanSet(t, a) ==
  /\ MayCall(t) /\ ~Locked("breakpoint")
  /\ a \notin DOMAIN bpByAddress

SetBreakpoint(t, a) ==
  /\ CanSet(t, a)
  /\ handlerInstalled' = TRUE
  /\ Build(t, "breakpoint", "breakpoint", a, 1)
  /\ UNCHANGED <<bpById, bpByAddress>>

\* What cannot be relocated is given up; the handler stays counted in.
SetFails(t, a) ==
  /\ CanSet(t, a)
  /\ "relocation" \in Failures
  /\ handlerInstalled' = TRUE
  /\ UNCHANGED <<codeVars, call, thread, crashed, bpById, bpByAddress>>

RegisterBreakpoint(t) ==
  /\ Working(t, "registering")
  /\ LET p == call[t].patch
         a == entry[p].address
     IN /\ bpById' = bpById \union {p}
        /\ bpByAddress' = [c \in DOMAIN bpByAddress \union {a} |->
                             IF c = a THEN p ELSE bpByAddress[c]]
  /\ call' = [call EXCEPT ![t] = Idle]
  /\ UNCHANGED <<codeVars, thread, crashed, handlerInstalled>>

--------------------------------------------------------------------------------
(* remove() and removeAll() *)

CanRemove(t) == MayCall(t) /\ ~Locked("breakpoint")

RemoveBreakpoint(t, p) ==
  /\ CanRemove(t)
  /\ p \in bpById
  /\ StartUndo(t, p, {}, FALSE)
  /\ UNCHANGED bpVars

RemoveAll(t) ==
  /\ CanRemove(t)
  /\ \E p \in bpById : StartUndo(t, p, bpById \ {p}, TRUE)
  /\ UNCHANGED bpVars

\* Fault: the handler goes while there is one breakpoint left.
NeededByMore(map) == Cardinality(DOMAIN map) > 1

\* maybeRemoveHandler()
Needed(map) == DOMAIN map # {}

RemoveAllOfNone(t) ==
  /\ CanRemove(t)
  /\ bpById = {}
  /\ handlerInstalled' = FALSE
  /\ UNCHANGED <<codeVars, call, thread, crashed, bpById, bpByAddress>>

\* Fault: the second map is not updated.
EraseById(t) ==
  /\ Working(t, "erasing")
  /\ bpById' = bpById \ IF call[t].all THEN bpById ELSE {call[t].patch}
  /\ handlerInstalled' = (handlerInstalled /\ Needed(bpByAddress))
  /\ call' = [call EXCEPT ![t] = Idle]
  /\ UNCHANGED <<codeVars, thread, crashed, bpByAddress>>

\* The maps forget the breakpoint, or all of them, and the entry is deleted.
EraseBreakpoint(t) ==
  /\ Working(t, "erasing")
  /\ LET gone == IF call[t].all THEN bpById ELSE {call[t].patch}
     IN /\ bpById' = bpById \ gone
        /\ bpByAddress' = [c \in DOMAIN bpByAddress \ {entry[p].address : p \in gone} |->
                             bpByAddress[c]]
  /\ handlerInstalled' = (handlerInstalled /\ Needed(bpByAddress'))
  /\ call' = [call EXCEPT ![t] = Idle]
  /\ UNCHANGED <<codeVars, thread, crashed>>

--------------------------------------------------------------------------------
(* breakpointSigtrapHandler(), through the exception handler *)

Trapped(t) == ~crashed /\ thread[t].phase = "trapped"

Claims(a) == handlerInstalled /\ a \in DOMAIN bpByAddress

\* Another thread is changing the map the handler reads.
Racing == \E t \in Threads : Working(t, "registering") \/ Working(t, "erasing")

Redirect(t) ==
  /\ Trapped(t)
  /\ Claims(thread[t].pc)
  /\ thread' = [thread EXCEPT ![t] =
                  [Outside EXCEPT !.phase = "trampoline", !.patch = bpByAddress[thread[t].pc]]]
  /\ UNCHANGED <<codeVars, call, crashed, bpVars>>

\* Nobody claims the signal, or the lookup goes astray, and the process dies.
Unclaimed(t) ==
  /\ Trapped(t)
  /\ ~Claims(thread[t].pc) \/ Racing
  /\ crashed' = TRUE
  /\ UNCHANGED <<codeVars, call, thread, bpVars>>
================================================================================
