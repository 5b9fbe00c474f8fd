------------------------------- MODULE CodePatches -------------------------------
(****************************************************************************)
(* Software breakpoints and hooks on the same code, and the threads that    *)
(* run it: through the function, the trap of a breakpoint, the trampolines, *)
(* the callbacks and the relocated code.                                    *)
(****************************************************************************)
EXTENDS SoftwareBreakpoint, Interceptor

vars == <<codeVars, call, thread, crashed, bpVars, hookVars>>

Init == CodeInit /\ BreakpointInit /\ InterceptorInit

--------------------------------------------------------------------------------
(* A thread in the function *)

\* A thread that is outside the API, or in what an API call has called.
Runs(t, phase) ==
  /\ ~crashed /\ thread[t].phase = phase
  /\ call[t] # Idle => call[t].from = "outside" /\ phase # "outside"

Move(t, phase, pc, patch, told) ==
  /\ thread' = [thread EXCEPT ![t] = [phase |-> phase, pc |-> pc, patch |-> patch, told |-> told]]
  /\ UNCHANGED <<codeVars, call, crashed, bpVars, hookVars>>

Dies(t) ==
  /\ crashed' = TRUE
  /\ UNCHANGED <<codeVars, call, thread, bpVars, hookVars>>

Enter(t) ==
  /\ Runs(t, "outside")
  /\ "stopped" \in Rules => NoCalls
  /\ Move(t, "code", 0, NoPatch, FALSE)

\* The insertion into the maps allocates: a breakpoint on malloc is then reached
\* from inside the call that sets it.
EnterFromCall(t) ==
  /\ "not-the-allocator" \notin Rules
  /\ At(t, "registering") /\ call[t].from = "outside"
  /\ Move(t, "code", 0, NoPatch, FALSE)

InCode(t) == Runs(t, "code") /\ thread[t].pc < Size

Here(t) == code[thread[t].pc]

\* All of the jump that starts here is in place.
WholeJump(t) ==
  /\ Here(t).kind = "jump"
  /\ \A n \in 1 .. PatchSize : /\ thread[t].pc + n <= Size
                               /\ code[thread[t].pc + n - 1] = Jump(Here(t).patch, n)

Execute(t) ==
  /\ InCode(t) /\ page = "rx" /\ Here(t).kind = "insn"
  /\ Move(t, "code", thread[t].pc + 1, NoPatch, FALSE)

Trap(t) ==
  /\ InCode(t) /\ page = "rx" /\ Here(t).kind = "brk"
  /\ Move(t, "trapped", thread[t].pc, NoPatch, FALSE)

TakeJump(t) ==
  /\ InCode(t) /\ page = "rx" /\ WholeJump(t)
  /\ LET p == Here(t).patch
     IN Move(t, IF entry[p].kind = "attached" THEN "trampoline" ELSE "replacement", 0, p, FALSE)

\* The page is not executable, or what is here is the middle or the rest of a jump.
RunsAstray(t) ==
  /\ InCode(t)
  /\ page = "rx" => Here(t).kind = "jump" /\ ~WholeJump(t)
  /\ Dies(t)

Leave(t) ==
  /\ Runs(t, "code") /\ thread[t].pc = Size
  /\ Move(t, "outside", 0, NoPatch, FALSE)

--------------------------------------------------------------------------------
(* A thread in the code asmjit allocated *)

\* Fault: the trampoline does not call back.
SkipCallback(t) ==
  /\ Runs(t, "trampoline")
  /\ Move(t, "relocated", 1, thread[t].patch, thread[t].told)

\* The trampoline calls onHit or onEnter ...
CallCallback(t) ==
  /\ Runs(t, "trampoline")
  /\ Move(t, "callback", 0, thread[t].patch, TRUE)

\* ... and for a hook onLeave, at once.
CallOnLeave(t) ==
  /\ Runs(t, "callback") /\ thread[t].patch.of = "hook"
  /\ Move(t, "leaving", 0, thread[t].patch, thread[t].told)

RunRelocated(t) ==
  /\ \/ Runs(t, "callback") /\ thread[t].patch.of = "breakpoint"
     \/ Runs(t, "leaving")
  /\ Move(t, "relocated", 1, thread[t].patch, thread[t].told)

Body(t) == entry[thread[t].patch].body

ExecuteRelocated(t) ==
  /\ Runs(t, "relocated") /\ thread[t].pc <= Len(Body(t))
  /\ Body(t)[thread[t].pc].kind = "insn"
  /\ Move(t, "relocated", thread[t].pc + 1, thread[t].patch, FALSE)

\* A breakpoint or a jump that was copied: its trap is not found under the address
\* of the copy, and it jumps to something else than an address.
RunsCopiedPatch(t) ==
  /\ Runs(t, "relocated") /\ thread[t].pc <= Len(Body(t))
  /\ Body(t)[thread[t].pc].kind # "insn"
  /\ Dies(t)

\* A fault: the jump at the end goes back to the patch.
BackToSource(p) == entry[p].address

\* source + bytesConsumed
BackTo(p) == entry[p].address + Len(entry[p].body)

JumpBack(t) ==
  /\ Runs(t, "relocated") /\ thread[t].pc > Len(Body(t))
  /\ Move(t, "code", BackTo(thread[t].patch), NoPatch, FALSE)

\* The replacement returns, or calls the original through what replace() returned
\* (and does nothing more when that has returned).
ReplacementReturns(t) ==
  /\ Runs(t, "replacement")
  /\ Move(t, "outside", 0, NoPatch, FALSE)

CallOriginal(t) ==
  /\ Runs(t, "replacement")
  /\ Move(t, "relocated", 1, thread[t].patch, TRUE)

\* The memory of a released patch may have been given back or reused.
RunsReleased(t) ==
  /\ \/ Runs(t, "trampoline") \/ Runs(t, "callback") \/ Runs(t, "leaving")
     \/ Runs(t, "relocated")
  /\ thread[t].patch \in released
  /\ Dies(t)

--------------------------------------------------------------------------------
(* The specification *)

BreakpointCall(t) ==
  /\ \/ \E a \in Cells : SetBreakpoint(t, a) \/ SetFails(t, a)
     \/ \E p \in bpById : RemoveBreakpoint(t, p)
     \/ RemoveAll(t) \/ RemoveAllOfNone(t)
     \/ RegisterBreakpoint(t) \/ EraseBreakpoint(t)
  /\ UNCHANGED hookVars

HookCall(t) ==
  /\ \/ \E a \in Cells : Attach(t, a) \/ Replace(t, a) \/ Revert(t, a)
     \/ \E p \in hooksById : Detach(t, p)
     \/ DetachAll(t) \/ RegisterHook(t) \/ EraseHook(t)
  /\ UNCHANGED bpVars

CodeCall(t) ==
  /\ MakeWritable(t) \/ Copy(t) \/ MakeExecutable(t) \/ ProtectFails(t) \/ Release(t)
  /\ UNCHANGED <<bpVars, hookVars>>

SignalStep(t) == (Redirect(t) \/ Unclaimed(t)) /\ UNCHANGED hookVars

ThreadStep(t) ==
  \/ Execute(t) \/ Trap(t) \/ TakeJump(t) \/ RunsAstray(t) \/ Leave(t)
  \/ CallCallback(t) \/ CallOnLeave(t) \/ RunRelocated(t)
  \/ ExecuteRelocated(t) \/ RunsCopiedPatch(t) \/ JumpBack(t)
  \/ ReplacementReturns(t) \/ CallOriginal(t) \/ RunsReleased(t)
  \/ SignalStep(t)

Next == \E t \in Threads : Enter(t) \/ EnterFromCall(t) \/ BreakpointCall(t) \/ HookCall(t)
                           \/ CodeCall(t) \/ ThreadStep(t)

Spec == Init /\ [][Next]_vars

\* The threads of the program are scheduled.
FairSpec == Spec /\ \A t \in Threads : WF_vars(ThreadStep(t))

--------------------------------------------------------------------------------
(* Properties *)

\* No patch kills the program: no thread executes half a jump, a page that is not
\* executable, a trap nobody claims or code that was given back.
Survives == ~crashed

Registered == bpById \union hooksById

\* When every patch is undone the code is what it was before the first of them
\* (native_breakpoint.h:15, "Restores original byte(s)").
Restored == NoCalls /\ Registered = {} => code = Original /\ page = "rx"

\* Nothing in the function leads into code that was given back to asmjit.
JumpsLead == \A c \in Cells : code[c].kind = "jump" => code[c].patch \notin released

\* What the maps say is what the entries say, and the two maps of each kind name the
\* same patches: remove() by id and revert() by address undo the same thing.
MapsAgree ==
  NoCalls => /\ bpById = {bpByAddress[a] : a \in DOMAIN bpByAddress}
             /\ hooksById = {hooksByTarget[a] : a \in DOMAIN hooksByTarget}
             /\ \A a \in DOMAIN bpByAddress : entry[bpByAddress[a]].address = a
             /\ \A a \in DOMAIN hooksByTarget : entry[hooksByTarget[a]].address = a

\* A thread that has entered the function gets out of it (the relocated code leads
\* back behind the patch, every trampoline into its relocated code).
GetsOut == \A t \in Threads : thread[t].phase # "outside" ~> thread[t].phase = "outside"

\* Where a thread is in the original function, whatever code it is executing.
Position(t) ==
  LET th == thread[t]
      a  == entry[th.patch].address
  IN CASE th.phase = "outside" -> Size + 1
       [] th.phase = "replacement" -> Size + 2
       [] th.phase \in {"code", "trapped"} -> th.pc
       [] th.phase \in {"trampoline", "callback", "leaving"} -> a
       [] th.phase = "relocated" -> a + th.pc - 1

Positions == [t \in Threads |-> Position(t)]
Reported  == [t \in Threads |-> thread[t].told]
Diverting == {h \in hooksById : entry[h].kind = "replaced"}
Reporting == bpById \union {h \in hooksById : entry[h].kind = "attached"}
AddressesOf(patches) == {entry[p].address : p \in patches}

Contract == INSTANCE Instrumentation WITH
  at <- Positions, told <- Reported,
  armed <- AddressesOf(Reporting), replaced <- AddressesOf(Diverting)

\* Breakpoints and hooks are transparent: every thread runs every instruction of the
\* function once and in order, and reports at each patched one (breakpoint.ts:14-16).
ImplementsContract == Contract!Spec
================================================================================
