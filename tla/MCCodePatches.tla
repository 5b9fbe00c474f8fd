----------------------------- MODULE MCCodePatches -----------------------------
(* CodePatches for TLC: a function of three instructions, of which a hook takes *)
(* two, so that patches can meet at the same, an earlier or a later instruction. *)
EXTENDS CodePatches

CONSTANTS t1, t2

RulesKept          == AllRules
RulesNestedOnly    == {"nested"}
RulesButDisjoint   == AllRules \ {"disjoint", "nested"}
RulesButAllocator  == AllRules \ {"not-the-allocator"}

RelocationFails == {"relocation"}
OpeningFails    == {"relocation", "writable"}
================================================================================
