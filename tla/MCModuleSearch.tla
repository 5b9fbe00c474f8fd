----------------------------- MODULE MCModuleSearch -----------------------------
(* Small instance of ModuleSearch: three files, mapped at five addresses or far apart. *)
EXTENDS ModuleSearch

CONSTANTS a, b, ab, anonymous, any, noHex

\* a and b are files of one name in two directories; the path of ab is that of a, a
\* blank and more.
MCPaths == {a, b, ab}
MCPathRead == [p \in MCPaths |-> IF p = ab THEN a ELSE p]
MCName == [p \in MCPaths |-> IF p = ab THEN "ab.so" ELSE "x.so"]

Line(s, e, p) == [start |-> s, end |-> e, path |-> p]

MCMapFiles ==
  { {Line(1, 3, a), Line(3, 6, a)},
    {Line(1, 3, a), Line(5, 6, a), Line(3, 4, b)},
    {Line(1, 3, a), Line(3, 4, anonymous), Line(4, 6, a)},
    {Line(1, 3, ab), Line(3, 6, ab)},
    {Line(1, 3, b), Line(4, 5, ab), Line(5, 6, a)},
    {Line(1, 3, a), Line(3, 8, b), Line(8, 9, a)},      \* the size of a is negative
    {Line(1, 3, a), Line(14, 16, a), Line(4, 5, b)} }   \* and here it is cut

\* Bytes to search a pattern in, and code: one instruction and then what comes.
MCMemories ==
  {[k \in 0 .. Top |-> IF k \in 2 .. 5 THEN c[k] ELSE IF k = 1 \/ k > 6 THEN 1 ELSE 0] :
     c \in [2 .. 5 -> {0, 1}] \union [2 .. 5 -> {0, 2, 3}]}

MCTokens ==
  {<<>>, <<0>>, <<any>>, <<5>>, <<noHex>>, <<1, noHex>>}
  \union [1 .. 2 -> {0, 1, any}] \union [1 .. 3 -> {0, 1, any}]

\* A small instruction set: 0 is no instruction, 1 has no operand, 2 calls the address
\* in the byte behind it, 3 reads what is that far behind it.
MCDecode(bytes) ==
  LET none == [size |-> 0, groups |-> {}, operands |-> <<>>]
      two(groups, op) ==
        IF Len(bytes) < 2 THEN none
        ELSE [size |-> 2, groups |-> groups,
              operands |-> <<[type |-> "reg", value |-> 0], [type |-> op, value |-> bytes[2]]>>]
  IN CASE bytes[1] = 0 -> none
       [] bytes[1] = 1 -> [size |-> 1, groups |-> {}, operands |-> <<>>]
       [] bytes[1] = 2 -> two({"call"}, "imm")
       [] bytes[1] = 3 -> two({}, "rip")
================================================================================
