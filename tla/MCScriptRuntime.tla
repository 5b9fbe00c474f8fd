----------------------------- MODULE MCScriptRuntime -----------------------------
EXTENDS ScriptRuntime, TLC

CONSTANTS t1, t2, o1, o2, a1

MCThreads   == {t1, t2}
MCObjects   == {o1, o2}
MCAddresses == {a1}

\* A register of six bits, an int of four, a short of three, a char of two; a number
\* holds 2^5 exactly.
MCSize   == (8 :> 4) @@ (16 :> 8) @@ (32 :> 16) @@ (64 :> 64)
MCExact  == 32
MCValues == {-8, -2, 1, 3, 7, 32}

MCRefusing == {"sw", "hooks"}
MCRules    == AllRules

Symmetry == Permutations(MCThreads) \union Permutations(MCObjects)
================================================================================
