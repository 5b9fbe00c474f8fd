-------------------------------- MODULE AccessLog --------------------------------
(****************************************************************************)
(* What the memory access monitor promises (native_memory_access_monitor.h, *)
(* memory-access-monitor.ts): a watched range is reported at most once,     *)
(* reports reach the script in the order in which the accesses were logged, *)
(* and a monitor that is withdrawn has no report outstanding.  The promise  *)
(* holds for a log of Capacity reports; beyond that nothing is promised.    *)
(****************************************************************************)
EXTENDS Integers, Sequences

CONSTANTS Ranges,      \* the ranges that can be watched: [mon, at] records
          Capacity     \* how many reports the log can hold

VARIABLES armed,       \* the watched ranges nobody has touched yet
          log,         \* accesses recorded and not yet reported, in order
          overrun      \* the log once held more than Capacity reports

vars == <<armed, log, overrun>>

Init == armed = {} /\ log = <<>> /\ overrun = FALSE

Watch(new) == /\ armed' = armed \union new
              /\ UNCHANGED <<log, overrun>>

Record(r) == /\ r \in armed
             /\ armed' = armed \ {r}
             /\ log' = Append(log, r)
             /\ overrun' = (Len(log) >= Capacity)

Report == /\ log # <<>>
          /\ log' = Tail(log)
          /\ UNCHANGED <<armed, overrun>>

Withdraw(m) == /\ \A i \in DOMAIN log : log[i].mon # m
               /\ armed' = {r \in armed : r.mon # m}
               /\ UNCHANGED <<log, overrun>>

Next == IF overrun THEN overrun'
        ELSE \/ \E r \in Ranges : Record(r) \/ Withdraw(r.mon)
             \/ \E m \in {r.mon : r \in Ranges} :
                  \E new \in SUBSET {r \in Ranges : r.mon = m} : Watch(new)
             \/ Report

Spec == Init /\ [][Next]_vars
================================================================================
