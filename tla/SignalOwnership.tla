---------------------------- MODULE SignalOwnership ----------------------------
(****************************************************************************)
(* What the exception handler promises to the parts of the library that     *)
(* arm traps (software breakpoints, hardware breakpoints, the memory access *)
(* monitor): the signals of the process belong either to the process or to  *)
(* chromatic, and they are never handed back while a subsystem relies on    *)
(* them.  ExceptionHandler implements this specification.                   *)
(****************************************************************************)
CONSTANT Subsystems     \* the clients of refEnable / refDisable

VARIABLES owner,        \* who answers the signals
          users         \* the subsystems whose traps may be raised

Init == owner = "process" /\ users = {}

TakeOver == /\ owner = "process"
            /\ owner' = "chromatic"
            /\ UNCHANGED users

Rely(s) == /\ owner = "chromatic"
           /\ s \notin users
           /\ users' = users \union {s}
           /\ UNCHANGED owner

Withdraw(s) == /\ s \in users
               /\ users' = users \ {s}
               /\ UNCHANGED owner

GiveBack == /\ owner = "chromatic"
            /\ users = {}
            /\ owner' = "process"
            /\ UNCHANGED users

Next == \/ TakeOver
        \/ GiveBack
        \/ \E s \in Subsystems : Rely(s) \/ Withdraw(s)

Spec == Init /\ [][Next]_<<owner, users>>
================================================================================
