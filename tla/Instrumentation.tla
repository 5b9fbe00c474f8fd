----------------------------- MODULE Instrumentation -----------------------------
(****************************************************************************)
(* What breakpoints and hooks promise the program and the script            *)
(* (breakpoint.ts: the callback fires and the original instruction is       *)
(* re-executed transparently): every thread runs the function's own         *)
(* instructions one after the other; it reports at an armed instruction,    *)
(* once, before it runs it; and a replaced function is not run unless its   *)
(* replacement asks for it.                                                 *)
(****************************************************************************)
EXTENDS Integers

CONSTANTS Threads, Size

VARIABLES at,        \* the instruction each thread runs next
          told,      \* the thread has reported at this instruction
          armed,     \* instructions that report
          replaced   \* instructions that divert the thread

vars == <<at, told, armed, replaced>>

Outside == Size + 1
Diverted == Size + 2

Init == /\ at = [t \in Threads |-> Outside] /\ told = [t \in Threads |-> FALSE]
        /\ armed = {} /\ replaced = {}

Goes(t, to, reported) ==
  /\ at' = [at EXCEPT ![t] = to] /\ told' = [told EXCEPT ![t] = reported]
  /\ UNCHANGED <<armed, replaced>>

Enter(t) == at[t] = Outside /\ Goes(t, 0, FALSE)

Report(t) == at[t] \in armed /\ ~told[t] /\ Goes(t, at[t], TRUE)

Execute(t) == /\ at[t] < Size
              /\ at[t] \in armed \union replaced => told[t]
              /\ Goes(t, at[t] + 1, FALSE)

Divert(t) == at[t] \in replaced /\ ~told[t] /\ Goes(t, Diverted, FALSE)

RunOriginal(t) == at[t] = Diverted /\ \E c \in replaced : Goes(t, c, TRUE)

Leave(t) == at[t] \in {Size, Diverted} /\ Goes(t, Outside, FALSE)

\* The script arms and disarms while the threads are elsewhere.
Configure == /\ \A t \in Threads : at[t] = Outside
             /\ armed' \subseteq 0 .. Size - 1 /\ replaced' \subseteq 0 .. Size - 1
             /\ armed' \intersect replaced' = {}
             /\ UNCHANGED <<at, told>>

Next == \/ \E t \in Threads : \/ Enter(t) \/ Report(t) \/ Execute(t) \/ Divert(t)
                              \/ RunOriginal(t) \/ Leave(t)
        \/ Configure

Spec == Init /\ [][Next]_vars
================================================================================
