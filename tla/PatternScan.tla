------------------------------- MODULE PatternScan -------------------------------
(****************************************************************************)
(* parsePattern() and bmhScan() of native_memory.cc: a Boyer-Moore-Horspool  *)
(* search with wildcards, one comparison and the shift after it in a step.   *)
(* Positions count from 0 as in the code.                                    *)
(****************************************************************************)
EXTENDS Integers, Sequences

CONSTANTS
  Values,  \* number of values of a byte (2^8 in the code)
  Any,     \* a wildcard, "?" or "??"
  NoHex    \* a token that is no hexadecimal number

ASSUME ScanConstants ==
  /\ Values \in Nat \ {0}
  /\ Any \notin Nat /\ NoHex \notin Nat /\ Any # NoHex

Byte == 0 .. Values - 1

VARIABLES
  haystack,  \* the bytes of the range that is searched
  readable,  \* the positions of it that are mapped
  pattern,   \* bytes and wildcards
  i,         \* the position compared next
  results,   \* positions pushed to the results, in order
  scan       \* "none", "scanning", "done", "threw" or "fault"

scanVars == <<haystack, readable, pattern, i, results, scan>>

--------------------------------------------------------------------------------
At(s, k) == s[k + 1]

m == Len(pattern)

\* A token is a number, a wildcard or neither; a number is cut to a byte.
ParsePattern(tokens) ==
  [k \in DOMAIN tokens |-> IF tokens[k] = Any THEN Any ELSE tokens[k] % Values]

Fits(j, b) == At(pattern, j) \in {Any, b}

\* The pattern is at position k.
MatchesAt(k) == \A j \in 0 .. m - 1 : Fits(j, At(haystack, k + j))

\* The bytes looked at to compare position k: from right to left up to the first that
\* does not fit, wildcards left out; then the last one again for the shift.
Reads(k) ==
  {k + j : j \in {n \in 0 .. m - 1 :
                    /\ At(pattern, n) # Any
                    /\ \A l \in n + 1 .. m - 1 : Fits(l, At(haystack, k + l))}}
  \union (IF MatchesAt(k) THEN {} ELSE {k + m - 1})

\* What the loops that fill the table offer as shift[b].
ShiftsOfBytes(b) == {m} \union {m - 1 - j : j \in {n \in 0 .. m - 2 : At(pattern, n) = b}}
ShiftsToLast(b) == {m} \union {m - 1 - j : j \in {n \in 0 .. m - 1 : Fits(n, b)}}
Shifts(b) ==
  {m} \union {m - 1 - j : j \in {n \in 0 .. m - 2 : Fits(n, b)}}
      \union (IF At(pattern, m - 1) = Any THEN {1} ELSE {})

Shift(b) == CHOOSE s \in Shifts(b) : \A t \in Shifts(b) : s <= t

Inside == i + m <= Len(haystack)

--------------------------------------------------------------------------------
(* The search *)

ScanInit ==
  /\ haystack = <<>> /\ readable = {} /\ pattern = <<>>
  /\ i = 0 /\ results = <<>> /\ scan = "none"

\* scanMemory(): of the bytes h, of which those at the positions r are mapped.
ScanMemory(h, r, tokens) ==
  /\ scan = "none"
  /\ haystack' = h /\ readable' = r /\ i' = 0 /\ results' = <<>>
  /\ \/ /\ \E k \in DOMAIN tokens : tokens[k] = NoHex
        /\ scan' = "threw" /\ pattern' = <<>>
     \/ /\ \A k \in DOMAIN tokens : tokens[k] # NoHex
        /\ scan' = IF tokens = <<>> THEN "done" ELSE "scanning"
        /\ pattern' = ParsePattern(tokens)

Match ==
  /\ scan = "scanning" /\ Inside /\ Reads(i) \subseteq readable
  /\ MatchesAt(i)
  /\ results' = Append(results, i)
  /\ i' = i + 1
  /\ UNCHANGED <<haystack, readable, pattern, scan>>

Mismatch ==
  /\ scan = "scanning" /\ Inside /\ Reads(i) \subseteq readable
  /\ ~MatchesAt(i)
  /\ i' = i + Shift(At(haystack, i + m - 1))
  /\ UNCHANGED <<haystack, readable, pattern, results, scan>>

\* A byte of the range is not mapped: SIGSEGV, which nothing handles.
Fault ==
  /\ scan = "scanning" /\ Inside /\ ~(Reads(i) \subseteq readable)
  /\ scan' = "fault"
  /\ UNCHANGED <<haystack, readable, pattern, i, results>>

ScanReturns ==
  /\ scan = "scanning" /\ ~Inside
  /\ scan' = "done"
  /\ UNCHANGED <<haystack, readable, pattern, i, results>>

ScanStep == Match \/ Mismatch \/ Fault \/ ScanReturns

--------------------------------------------------------------------------------
(* Properties *)

\* The results are in order and are all the places before i where the pattern is, in the
\* end all there are: no
\* shift has jumped over one, overlapping ones and those under a wildcard included
\* (the shift table, native_memory.cc:163-194).
FindsEveryMatch ==
  /\ \A n \in 1 .. Len(results) - 1 : results[n] < results[n + 1]
  /\ scan \in {"scanning", "done"} =>
       {results[n] : n \in 1 .. Len(results)}
         = {k \in 0 .. Len(haystack) - m :
              /\ m > 0
              /\ k < i \/ scan = "done"
              /\ MatchesAt(k)}

================================================================================
