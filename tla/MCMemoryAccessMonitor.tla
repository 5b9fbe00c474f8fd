------------------------- MODULE MCMemoryAccessMonitor -------------------------
(* MemoryAccessMonitor for TLC: two pages of two bytes.  A request may end in *)
(* the middle of a page, span two pages, or name two ranges.                    *)
EXTENDS MemoryAccessMonitor

CONSTANTS t1, t2

OneRange  == <<[addr |-> 1, size |-> 2]>>
TwoRanges == <<[addr |-> 0, size |-> 1], [addr |-> 2, size |-> 2]>>

MCRequests == {OneRange, TwoRanges}
MCOneRequest == {OneRange}

RulesButOneAtATime == AllRules \ {"one-at-a-time"}
RulesButDisjoint   == AllRules \ {"disjoint"}
RulesButNoReentry  == AllRules \ {"no-reentry"}
NoRules            == {}
================================================================================
