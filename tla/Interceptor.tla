------------------------------- MODULE Interceptor -------------------------------
(****************************************************************************)
(* native_interceptor.cc: attach(), replace(), detach(), revert() and       *)
(* detachAll().  A hook overwrites PatchSize cells with a jump to its       *)
(* trampoline, or to the replacement.                                       *)
(****************************************************************************)
EXTENDS CodeMemory

VARIABLES
  hooksById,       \* the entries of hooksById
  hooksByTarget    \* hooksByTarget

hookVars == <<hooksById, hooksByTarget>>

InterceptorInit == hooksById = {} /\ hooksByTarget = <<>>

Hooking(t, pc) == At(t, pc) /\ call[t].patch.of = "hook"

--------------------------------------------------------------------------------
(* attach() and replace() *)

InstallHook(t, kind, a) ==
  /\ MayCall(t) /\ ~Locked("hook")
  /\ a \notin DOMAIN hooksByTarget
  /\ Build(t, "hook", kind, a, PatchSize)
  /\ UNCHANGED hookVars

Attach(t, a)  == InstallHook(t, "attached", a)
Replace(t, a) == InstallHook(t, "replaced", a)

RegisterHook(t) ==
  /\ Hooking(t, "registering")
  /\ LET p == call[t].patch
         a == entry[p].address
     IN /\ hooksById' = hooksById \union {p}
        /\ hooksByTarget' = [c \in DOMAIN hooksByTarget \union {a} |->
                               IF c = a THEN p ELSE hooksByTarget[c]]
  /\ call' = [call EXCEPT ![t] = Idle]
  /\ UNCHANGED <<codeVars, thread, crashed>>

--------------------------------------------------------------------------------
(* detach(), revert() and detachAll() *)

CanDetach(t) == MayCall(t) /\ ~Locked("hook")

\* replace() does not return the id of its hook.
Detach(t, p) ==
  /\ CanDetach(t)
  /\ p \in hooksById /\ entry[p].kind = "attached"
  /\ StartUndo(t, p, {}, FALSE)
  /\ UNCHANGED hookVars

Revert(t, a) ==
  /\ CanDetach(t)
  /\ a \in DOMAIN hooksByTarget
  /\ StartUndo(t, hooksByTarget[a], {}, FALSE)
  /\ UNCHANGED hookVars

DetachAll(t) ==
  /\ CanDetach(t)
  /\ \E p \in hooksById : StartUndo(t, p, hooksById \ {p}, TRUE)
  /\ UNCHANGED hookVars

EraseHook(t) ==
  /\ Hooking(t, "erasing")
  /\ LET gone == IF call[t].all THEN hooksById ELSE {call[t].patch}
     IN /\ hooksById' = hooksById \ gone
        /\ hooksByTarget' = [c \in DOMAIN hooksByTarget \ {entry[p].address : p \in gone} |->
                               hooksByTarget[c]]
  /\ call' = [call EXCEPT ![t] = Idle]
  /\ UNCHANGED <<codeVars, thread, crashed>>
================================================================================
