------------------------------ MODULE FaultContract ------------------------------
(****************************************************************************)
(* What safeReadMemory() promises the rest of the process: seen from outside  *)
(* the table of handlers changes only when chromatic's exception handler is   *)
(* enabled or disabled, every fault of the program is answered by the handler *)
(* the table holds for it, and no read of the script's ever is one of those.  *)
(* The promise is void once a read has thrown: nothing is said of what follows. *)
(****************************************************************************)
CONSTANTS Signals, Own   \* Own: the process's handler of each signal, or "default"

VARIABLES table, dead, answered, void

vars == <<table, dead, answered, void>>

Unanswered == [signal |-> "none", by |-> "nobody", of |-> "nobody"]

Init == table = Own /\ dead = "no" /\ answered = Unanswered /\ void = FALSE

Enable  == table' = [s \in Signals |-> "chromatic"] /\ UNCHANGED <<dead, answered>>
Disable == table' = Own /\ UNCHANGED <<dead, answered>>

\* chromatic answers for the pages it watches and passes on the rest.
Answerers(s) == IF table[s] = "chromatic" THEN {"chromatic", Own[s]} ELSE {table[s]}

Fault(s) ==
  /\ dead = "no"
  /\ \E by \in Answerers(s), of \in {"program", "patch"} :
       /\ answered' = [signal |-> s, by |-> by, of |-> of]
       /\ dead' = IF by = "default" THEN s ELSE "no"
  /\ UNCHANGED table

Next == \/ void'
        \/ UNCHANGED void /\ (Enable \/ Disable \/ \E s \in Signals : Fault(s))

Spec == Init /\ [][Next]_vars
================================================================================
