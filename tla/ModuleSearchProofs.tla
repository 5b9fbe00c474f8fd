--------------------------- MODULE ModuleSearchProofs ---------------------------
(****************************************************************************)
(* Theorems about ModuleSearch, for every memory, memory map, alphabet,      *)
(* pattern and instruction set: the search with the shift table finds every  *)
(* match, the sweep every reference, both over the module the memory map     *)
(* shows, whatever is unloaded meanwhile.                                    *)
(****************************************************************************)
EXTENDS ModuleSearch, SequenceTheorems, FiniteSetTheorems, WellFoundedInduction, TLAPS

Modules == [name : {Name[p] : p \in Paths}, path : Paths, base : 0 .. Top, end : 0 .. Top]
Xrefs   == [at : Nat, type : {"call", "branch", "data"}]

ScanTypes ==
  /\ haystack \in Seq(Byte) /\ pattern \in Seq(Byte \union {Any})
  /\ i \in Nat /\ results \in Seq(Nat)
  /\ scan \in {"none", "scanning", "sweeping", "done", "threw", "fault"}

SweepTypes == ScanTypes /\ xrefs \in Seq(Xrefs) /\ start \in Nat

MapTypes ==
  /\ maps \subseteq Mapping /\ Apart(maps) /\ memory \in [0 .. Top -> Byte]
  /\ at \in 0 .. Top /\ modules \in Seq(Modules)
  /\ call \in {"idle", "maps", "not-found", "search"}

\* No shift has jumped over a match.
ScanInv ==
  /\ scan = "scanning" => m > 0
  /\ scan \in {"none", "sweeping"} => m = 0
  /\ m = 0 => results = <<>>
  /\ \A n \in 1 .. Len(results) - 1 : results[n] < results[n + 1]
  /\ \A n \in 1 .. Len(results) : results[n] < i
  /\ m > 0 /\ scan \in {"scanning", "done"} =>
       {results[n] : n \in 1 .. Len(results)} =
         {k \in 0 .. Len(haystack) - m : k < i /\ MatchesAt(k)}
  /\ m > 0 /\ scan = "done" => ~Inside

\* The sweep is at the start of an instruction and has passed no other it has not seen.
Sweeping == start # 0 /\ target # 0

SweepInv ==
  /\ scan = "sweeping" => Sweeping
  /\ Sweeping =>
       /\ scan \in {"sweeping", "done", "fault"}
       /\ i \in Starts
       /\ \A k \in Starts : k < i => Behind(k) <= i
       /\ \A n \in 1 .. Len(xrefs) - 1 : xrefs[n].at < xrefs[n + 1].at
       /\ \A n \in DOMAIN xrefs : xrefs[n].at < i
       /\ {xrefs[n].at : n \in DOMAIN xrefs}
            = {k \in 0 .. Len(haystack) - 1 :
                 k < i /\ k \in Starts /\ Insn(k).size > 0 /\ TargetOf(k) = target}
       /\ scan = "done" => i = Len(haystack)

\* Every line that was read and whose file is still there is inside its module.
Covers(mod, l) == mod.path = PathRead[l.path] /\ mod.base <= l.start /\ l.end <= mod.end

ModuleInv ==
  /\ \A n \in DOMAIN modules : /\ modules[n].base < modules[n].end
                               /\ modules[n].name = Name[modules[n].path]
  /\ \A n, k \in DOMAIN modules : modules[n].path = modules[k].path => n = k
  /\ call # "idle" => \A l \in maps : l.start < at =>
       /\ l.end <= at
       /\ l.path # NoPath => \E n \in DOMAIN modules : Covers(modules[n], l)
  /\ call \in {"not-found", "search"} => NoLineLeft
  /\ call = "not-found" => \A n \in DOMAIN modules : modules[n].name # name

\* What is searched is the memory of the module that was found, as it was.
Shown(k) == \E l \in maps : l.start <= found.base + k /\ found.base + k < l.end

FoundInv ==
  /\ scan = "none" <=> call # "search"
  /\ scan # "none" =>
       /\ \E n \in DOMAIN modules : found = modules[n]
       /\ FitsInt(found) => Len(haystack) = found.end - found.base
       /\ \A k \in 0 .. Len(haystack) - 1 :
            found.base + k <= Top => At(haystack, k) = memory[found.base + k]
       /\ readable = {k \in 0 .. Len(haystack) - 1 : Shown(k)}
       /\ scan = "fault" => readable # 0 .. Len(haystack) - 1

IInv == SweepTypes /\ MapTypes /\ ScanInv /\ SweepInv /\ ModuleInv /\ FoundInv

--------------------------------------------------------------------------------
(* The shift table *)

LEMMA LeastExists ==
  ASSUME NEW S, S \subseteq Nat, S # {}
  PROVE  \E s \in S : \A t \in S : s <= t
<1> DEFINE Less == {p \in Nat \X Nat : p[1] < p[2]}
<1>1. IsWellFoundedOn(Less, Nat)
  BY NatLessThanWellFounded DEF OpToRel
<1>2. PICK s \in S : \A t \in S : <<t, s>> \notin Less
  BY <1>1, WFMin
<1>3. ASSUME NEW t \in S, t < s
      PROVE  FALSE
  <2>1. t \in Nat /\ s \in Nat /\ <<t, s>> \in Nat \X Nat /\ <<t, s>>[1] = t /\ <<t, s>>[2] = s
    OBVIOUS
  <2>2. <<t, s>> \in Less
    BY <1>3, <2>1
  <2>3. QED
    BY <1>2, <2>2
<1>4. QED
  BY <1>3

LEMMA ShiftIsLeast ==
  ASSUME pattern \in Seq(Byte \union {Any}), m > 0, NEW b
  PROVE  Shift(b) \in Shifts(b) /\ Shift(b) \in 1 .. m /\ \A t \in Shifts(b) : Shift(b) <= t
<1>1. m \in Nat
  BY DEF m
<1>2. m \in Shifts(b) /\ Shifts(b) \subseteq 1 .. m
  BY <1>1 DEF Shifts
<1>3. \E s \in Shifts(b) : \A t \in Shifts(b) : s <= t
  <2>1. Shifts(b) \subseteq Nat /\ Shifts(b) # {}
    BY <1>1, <1>2
  <2>2. QED
    BY <2>1, LeastExists
<1>4. QED
  BY <1>2, <1>3 DEF Shift

\* A match closer than the shift would have the byte the shift was taken for.
LEMMA NoMatchPassed ==
  ASSUME pattern \in Seq(Byte \union {Any}), m > 0, i \in Nat, ~MatchesAt(i),
         NEW k \in Nat, i <= k, k < i + Shift(At(haystack, i + m - 1))
  PROVE  ~MatchesAt(k)
<1> DEFINE b == At(haystack, i + m - 1)
<1>1. m \in Nat
  BY DEF m
<1>2. Shift(b) \in 1 .. m /\ \A t \in Shifts(b) : Shift(b) <= t
  BY ShiftIsLeast
<1>3. CASE k = i
  BY <1>3
<1>4. CASE k # i /\ MatchesAt(k)
  <2> DEFINE n == m - 1 - (k - i)
  <2>1. n \in 0 .. m - 2 /\ n \in 0 .. m - 1 /\ k + n = i + m - 1 /\ m - 1 - n = k - i
    BY <1>1, <1>2, <1>4
  <2> HIDE DEF n
  <2>2. Fits(n, b)
    BY <1>4, <2>1 DEF MatchesAt
  <2>3. k - i \in Shifts(b)
    BY <2>1, <2>2 DEF Shifts
  <2>4. Shift(b) <= k - i
    BY <1>2, <2>3
  <2>5. QED
    BY <1>1, <1>2, <2>4
<1>5. QED
  BY <1>3, <1>4

--------------------------------------------------------------------------------
(* The search *)

LEMMA MatchKeeps ==
  ASSUME ScanTypes, ScanInv, Match
  PROVE  ScanTypes' /\ ScanInv'
<1>1. /\ scan = "scanning" /\ Inside /\ MatchesAt(i) /\ i' = i + 1 /\ results' = Append(results, i)
      /\ haystack' = haystack /\ pattern' = pattern /\ scan' = scan
  BY DEF Match
<1>2. /\ m' = m /\ m \in Nat /\ m > 0 /\ Len(haystack) \in Nat /\ (\A k : MatchesAt(k)' <=> MatchesAt(k))
  BY <1>1 DEF m, MatchesAt, Fits, At, ScanTypes, ScanInv
<1>3. /\ results' \in Seq(Nat) /\ Len(results') = Len(results) + 1 /\ Len(results) \in Nat
      /\ \A n \in 1 .. Len(results) : results'[n] = results[n]
      /\ results'[Len(results) + 1] = i
  BY <1>1 DEF ScanTypes
<1>4. ScanTypes'
  BY <1>1, <1>3 DEF ScanTypes
<1>5. ASSUME NEW n \in 1 .. Len(results')
      PROVE  results'[n] < i'
  BY <1>1, <1>3 DEF ScanInv, ScanTypes
<1>6. ASSUME NEW n \in 1 .. Len(results') - 1
      PROVE  results'[n] < results'[n + 1]
  <2>1. CASE n = Len(results)
    BY <1>3, <2>1 DEF ScanInv, ScanTypes
  <2>2. CASE n # Len(results)
    <3>1. n \in 1 .. Len(results) - 1 /\ n + 1 \in 1 .. Len(results)
      BY <1>3, <2>2
    <3>2. QED
      BY <1>3, <3>1 DEF ScanInv
  <2>3. QED
    BY <2>1, <2>2
<1>7. {results'[n] : n \in 1 .. Len(results')} = {results[n] : n \in 1 .. Len(results)} \union {i}
  <2>1. 1 .. Len(results') = (1 .. Len(results)) \union {Len(results) + 1}
    BY <1>3
  <2>2. QED
    BY SMTT(30), <1>3, <2>1
<1>8. {k \in 0 .. Len(haystack) - m : k < i + 1 /\ MatchesAt(k)} =
        {k \in 0 .. Len(haystack) - m : k < i /\ MatchesAt(k)} \union {i}
  BY <1>1, <1>2 DEF ScanTypes, Inside
<1>9. {k \in 0 .. Len(haystack') - m' : k < i' /\ MatchesAt(k)'} =
        {k \in 0 .. Len(haystack) - m : k < i + 1 /\ MatchesAt(k)}
  BY <1>1, <1>2
<1>10. {results'[n] : n \in 1 .. Len(results')} =
         {k \in 0 .. Len(haystack') - m' : k < i' /\ MatchesAt(k)'}
  BY <1>1, <1>2, <1>7, <1>8, <1>9 DEF ScanInv
<1>11. QED
  BY <1>1, <1>2, <1>4, <1>5, <1>6, <1>10 DEF ScanInv

LEMMA MismatchKeeps ==
  ASSUME ScanTypes, ScanInv, Mismatch
  PROVE  ScanTypes' /\ ScanInv'
<1> DEFINE s == Shift(At(haystack, i + m - 1))
<1>1. /\ scan = "scanning" /\ Inside /\ ~MatchesAt(i) /\ i' = i + s /\ results' = results
      /\ haystack' = haystack /\ pattern' = pattern /\ scan' = scan
  BY DEF Mismatch
<1>2. /\ m' = m /\ m \in Nat /\ m > 0 /\ Len(haystack) \in Nat /\ (\A k : MatchesAt(k)' <=> MatchesAt(k))
  BY <1>1 DEF m, MatchesAt, Fits, At, ScanTypes, ScanInv
<1>3. s \in 1 .. m
  BY <1>2, ShiftIsLeast DEF ScanTypes
<1>4. \A k \in Nat : i <= k /\ k < i + s => ~MatchesAt(k)
  BY <1>1, <1>2, NoMatchPassed DEF ScanTypes
<1> HIDE DEF s
<1>5. ScanTypes' /\ i' >= i
  BY <1>1, <1>2, <1>3 DEF ScanTypes
<1>6. {k \in 0 .. Len(haystack') - m' : k < i' /\ MatchesAt(k)'} =
        {k \in 0 .. Len(haystack) - m : k < i /\ MatchesAt(k)}
  <2>1. ASSUME NEW k \in 0 .. Len(haystack) - m
        PROVE  k < i' /\ MatchesAt(k)' <=> k < i /\ MatchesAt(k)
    BY <1>1, <1>2, <1>3, <1>4 DEF ScanTypes
  <2>2. QED
    BY <1>1, <1>2, <2>1
<1>7. \A n \in 1 .. Len(results') : results'[n] < i'
  BY <1>1, <1>5 DEF ScanInv, ScanTypes
<1>8. QED
  BY <1>1, <1>2, <1>5, <1>6, <1>7 DEF ScanInv

LEMMA ScanStepKeeps ==
  ASSUME ScanTypes, ScanInv, ScanStep
  PROVE  ScanTypes' /\ ScanInv'
<1>1. CASE Match
  BY <1>1, MatchKeeps
<1>2. CASE Mismatch
  BY <1>2, MismatchKeeps
<1>3. CASE Fault \/ ScanReturns
  <2>1. /\ scan = "scanning" /\ UNCHANGED <<haystack, pattern, i, results>>
        /\ scan' = "fault" \/ (scan' = "done" /\ ~Inside)
    BY <1>3 DEF Fault, ScanReturns
  <2>2. m' = m /\ (Inside' <=> Inside) /\ (\A k : MatchesAt(k)' <=> MatchesAt(k))
    BY <2>1 DEF m, MatchesAt, Fits, At, Inside
  <2>3. {k \in 0 .. Len(haystack') - m' : k < i' /\ MatchesAt(k)'} =
          {k \in 0 .. Len(haystack) - m : k < i /\ MatchesAt(k)}
    BY <2>1, <2>2
  <2>4. {results'[n] : n \in 1 .. Len(results')} = {results[n] : n \in 1 .. Len(results)}
    BY <2>1
  <2>5. QED
    BY <2>1, <2>2, <2>3, <2>4 DEF ScanTypes, ScanInv
<1>4. QED
  BY <1>1, <1>2, <1>3 DEF ScanStep

LEMMA ScanBegins ==
  ASSUME ScanTypes, NEW h \in Seq(Byte), NEW r, NEW t \in Seq(Nat \union {Any, NoHex}), ScanMemory(h, r, t)
  PROVE  ScanTypes' /\ ScanInv' /\ scan' \in {"scanning", "done", "threw"}
<1>1. /\ haystack' = h /\ i' = 0 /\ results' = <<>>
      /\ \/ scan' = "threw" /\ pattern' = <<>>
         \/ /\ \A k \in DOMAIN t : t[k] # NoHex
            /\ scan' = IF t = <<>> THEN "done" ELSE "scanning"
            /\ pattern' = ParsePattern(t)
  BY DEF ScanMemory
<1>2. /\ <<>> \in Seq(Nat) /\ Len(<<>>) = 0 /\ <<>> \in Seq(Byte \union {Any})
      /\ Len(t) \in Nat /\ DOMAIN t = 1 .. Len(t) /\ (Len(t) = 0 <=> t = <<>>)
  OBVIOUS
<1>3. ASSUME \A k \in DOMAIN t : t[k] # NoHex
      PROVE  ParsePattern(t) \in Seq(Byte \union {Any}) /\ Len(ParsePattern(t)) = Len(t)
  <2>1. ASSUME NEW k \in 1 .. Len(t)
        PROVE  (IF t[k] = Any THEN Any ELSE t[k] % Values) \in Byte \union {Any}
    <3>1. t[k] = Any \/ t[k] \in Nat
      BY <1>2, <1>3
    <3>2. QED
      BY <3>1, ScanConstants DEF Byte
  <2>2. ParsePattern(t) = [k \in 1 .. Len(t) |-> IF t[k] = Any THEN Any ELSE t[k] % Values]
    BY <1>2 DEF ParsePattern
  <2>3. QED
    BY <1>2, <2>1, <2>2
<1>4. m' = Len(pattern')
  BY DEF m
<1>5. CASE scan' = "threw" /\ pattern' = <<>>
  BY <1>1, <1>2, <1>4, <1>5 DEF ScanTypes, ScanInv
<1>6. CASE /\ \A k \in DOMAIN t : t[k] # NoHex
           /\ scan' = IF t = <<>> THEN "done" ELSE "scanning"
           /\ pattern' = ParsePattern(t)
  <2>1. /\ pattern' \in Seq(Byte \union {Any}) /\ m' = Len(t)
        /\ scan' \in {"scanning", "done"} /\ (scan' = "scanning" => m' > 0) /\ (scan' = "done" => m' = 0)
    BY <1>2, <1>3, <1>4, <1>6
  <2>2. {results'[n] : n \in 1 .. Len(results')} = {}
    BY <1>1, <1>2
  <2>3. {k \in 0 .. Len(haystack') - m' : k < i' /\ MatchesAt(k)'} = {}
    BY <1>1
  <2>4. QED
    BY <1>1, <1>2, <2>1, <2>2, <2>3 DEF ScanTypes, ScanInv
<1>7. QED
  BY <1>1, <1>5, <1>6

LEMMA MatchesFound ==
  ASSUME ScanTypes, ScanInv
  PROVE  FindsEveryMatch
<1>1. m \in Nat /\ Len(haystack) \in Nat /\ Len(results) \in Nat
  BY DEF ScanTypes, m
<1>2. CASE m = 0
  BY <1>1, <1>2 DEF ScanInv, FindsEveryMatch
<1>3. CASE m > 0
  <2>1. ASSUME scan = "done", NEW k \in 0 .. Len(haystack) - m
        PROVE  k < i
    BY <1>1, <1>3, <2>1 DEF ScanInv, ScanTypes, Inside
  <2>2. scan \in {"scanning", "done"} =>
          {k \in 0 .. Len(haystack) - m : m > 0 /\ (k < i \/ scan = "done") /\ MatchesAt(k)}
            = {k \in 0 .. Len(haystack) - m : k < i /\ MatchesAt(k)}
    BY <1>3, <2>1
  <2>3. QED
    BY <1>3, <2>2 DEF ScanInv, FindsEveryMatch
<1>4. QED
  BY <1>1, <1>2, <1>3

--------------------------------------------------------------------------------
(* The sweep *)

\* An instruction ends inside the range.
LEMMA InsnInside ==
  ASSUME ScanTypes, NEW k \in 0 .. Len(haystack) - 1
  PROVE  /\ Insn(k).size \in Nat
         /\ Behind(k) = Advance(k) /\ Behind(k) \in k + 1 .. Len(haystack)
<1> DEFINE e == Lesser(Len(haystack), k + MaxInsn)
           bytes == SubSeq(haystack, k + 1, e)
<1>1. Len(haystack) \in Nat /\ MaxInsn \in Nat \ {0}
  BY SweepConstants DEF ScanTypes
<1>2. e \in k + 1 .. Len(haystack) /\ e - k \in 1 .. MaxInsn /\ k + 1 \in 1 .. Len(haystack)
  BY <1>1 DEF Lesser
<1> HIDE DEF e
<1>3. bytes \in [1 .. e - k -> Byte]
  <2>1. bytes = [j \in 1 .. e - k |-> haystack[k + j]]
    <3>1. \A j \in 1 .. e - k : (k + 1) + j - 1 = k + j
      BY <1>1, <1>2
    <3>2. e - (k + 1) + 1 = e - k /\ k + 1 \in Int /\ e \in Int
      BY <1>1, <1>2
    <3>3. bytes \in Seq(Byte) /\ Len(bytes) = e - k /\ \A j \in 1 .. e - k : bytes[j] = haystack[(k + 1) + j - 1]
      BY <1>1, <1>2, <3>2, SubSeqProperties DEF ScanTypes
    <3>4. QED
      BY <3>1, <3>3
  <2>2. \A j \in 1 .. e - k : k + j \in 1 .. Len(haystack)
    BY <1>1, <1>2
  <2>3. \A j \in 1 .. e - k : haystack[k + j] \in Byte
    BY <2>2 DEF ScanTypes
  <2>4. QED
    BY <2>1, <2>3
<1>4. Decode(bytes).size \in 0 .. e - k
  BY <1>2, <1>3, SweepConstants
<1>5. Insn(k) = Decode(bytes)
  BY DEF Insn, e
<1> HIDE DEF bytes
<1>6. Insn(k).size \in 0 .. e - k
  BY <1>4, <1>5
<1>7. QED
  BY <1>1, <1>2, <1>6 DEF Behind, Advance

LEMMA StartsClosed ==
  ASSUME ScanTypes
  PROVE  0 \in Starts /\ \A k \in Starts : k < Len(haystack) => Behind(k) \in Starts
<1>1. Len(haystack) \in Nat
  BY DEF ScanTypes
<1>2. 0 \in Starts
  BY <1>1 DEF Starts, Closed
<1>3. ASSUME NEW k \in Starts, k < Len(haystack)
      PROVE  Behind(k) \in Starts
  <2>1. k \in 0 .. Len(haystack) - 1
    BY <1>1, <1>3 DEF Starts
  <2>2. Behind(k) \in 0 .. Len(haystack)
    BY <1>1, <2>1, InsnInside
  <2>3. QED
    BY <1>3, <2>2 DEF Starts, Closed
<1>4. QED
  BY <1>2, <1>3

\* No instruction begins between the one the sweep is at and the one behind it.
LEMMA NoStartPassed ==
  ASSUME ScanTypes, i \in Starts, i < Len(haystack), \A k \in Starts : k < i => Behind(k) <= i,
         NEW k \in Starts, i < k
  PROVE  Behind(i) <= k
<1> DEFINE S == {j \in Starts : j <= i \/ Behind(i) <= j}
<1>1. Len(haystack) \in Nat /\ i \in 0 .. Len(haystack) - 1 /\ Starts \subseteq 0 .. Len(haystack)
  BY DEF ScanTypes, Starts
<1>2. Behind(i) \in i + 1 .. Len(haystack)
  BY <1>1, InsnInside
<1>3. S \in SUBSET (0 .. Len(haystack)) /\ 0 \in S
  <2>1. S \subseteq 0 .. Len(haystack)
    BY <1>1
  <2>2. 0 \in Starts /\ 0 <= i
    BY <1>1, StartsClosed
  <2>3. QED
    BY <2>1, <2>2
<1>4. ASSUME NEW j \in S, j < Len(haystack)
      PROVE  Behind(j) \in S
  <2>1. Behind(j) \in Starts /\ Behind(j) \in j + 1 .. Len(haystack) /\ j \in 0 .. Len(haystack) - 1
    BY <1>1, <1>4, StartsClosed, InsnInside
  <2>2. CASE j < i
    BY <2>1, <2>2, <1>4
  <2>3. CASE j = i
    BY <1>1, <1>2, <2>1, <2>3
  <2>4. CASE Behind(i) <= j
    BY <1>1, <1>2, <2>1, <2>4
  <2>5. QED
    BY <1>1, <1>4, <2>1, <2>2, <2>3, <2>4
<1>5. Closed(S)
  BY <1>3, <1>4 DEF Closed
<1>6. k \in S
  BY <1>3, <1>5 DEF Starts
<1>7. QED
  BY <1>1, <1>6

LEMMA XrefPlaces ==
  ASSUME SweepTypes
  PROVE  \A n \in DOMAIN xrefs : xrefs[n].at \in Nat
<1>1. \A n \in DOMAIN xrefs : xrefs[n] \in Xrefs
  BY DEF SweepTypes
<1>2. QED
  BY <1>1 DEF Xrefs

LEMMA SameRange ==
  ASSUME haystack' = haystack, start' = start
  PROVE  /\ \A k : Insn(k)' = Insn(k) /\ TargetOf(k)' = TargetOf(k) /\ Behind(k)' = Behind(k)
         /\ Starts' = Starts
BY DEF Insn, TargetOf, Referring, Behind, Starts, Closed, Lesser

LEMMA SweepInsnKeeps ==
  ASSUME SweepTypes, ScanInv, SweepInv, SweepInsn
  PROVE  SweepTypes' /\ ScanInv' /\ SweepInv'
<1> DEFINE Found == {k \in 0 .. Len(haystack) - 1 :
                       k < i /\ k \in Starts /\ Insn(k).size > 0 /\ TargetOf(k) = target}
           Refers == Insn(i).size > 0 /\ TargetOf(i) = target
           x == [at |-> i, type |-> TypeOfXref(Insn(i))]
<1>1. /\ scan = "sweeping" /\ i < Len(haystack) /\ i' = Advance(i) /\ scan' = scan
      /\ xrefs' = IF Refers THEN Append(xrefs, x) ELSE xrefs
      /\ haystack' = haystack /\ pattern' = pattern /\ results' = results
      /\ start' = start /\ target' = target
  BY DEF SweepInsn
<1>2. ScanTypes /\ Len(haystack) \in Nat /\ Sweeping /\ m = 0 /\ results = <<>> /\ m' = m
  BY <1>1 DEF SweepTypes, ScanTypes, SweepInv, ScanInv, m
<1>3. /\ i \in 0 .. Len(haystack) - 1 /\ i' = Behind(i) /\ i' \in i + 1 .. Len(haystack)
  BY <1>1, <1>2, InsnInside DEF ScanTypes
<1>4. /\ \A k : Insn(k)' = Insn(k) /\ TargetOf(k)' = TargetOf(k) /\ Behind(k)' = Behind(k)
      /\ Starts' = Starts
  BY <1>1, SameRange
<1>5. i \in Starts /\ \A k \in Starts : k < i => Behind(k) <= i
  BY <1>2 DEF SweepInv
<1>6. i' \in Starts /\ \A k \in Starts : k < i' => k <= i
  <2>1. i' \in Starts
    BY <1>1, <1>2, <1>3, <1>5, StartsClosed
  <2>2. Starts \subseteq 0 .. Len(haystack)
    BY DEF Starts
  <2>3. \A k \in Starts : i < k => i' <= k
    BY <1>1, <1>2, <1>3, <1>5, NoStartPassed
  <2>4. QED
    BY <1>2, <1>3, <2>1, <2>2, <2>3
<1>7. \A k \in Starts : k < i' => Behind(k) <= i'
  <2>1. ASSUME NEW k \in Starts, k < i'
        PROVE  Behind(k) <= i'
    <3>1. k \in 0 .. Len(haystack) - 1 /\ k <= i
      BY <1>2, <1>3, <1>6, <2>1 DEF Starts
    <3>2. Behind(k) \in Nat
      BY <1>2, <3>1, InsnInside
    <3>3. QED
      BY <1>3, <1>5, <3>1, <3>2
  <2>2. QED
    BY <2>1
<1>8. x \in Xrefs /\ x.at = i /\ xrefs' \in Seq(Xrefs)
  <2>1. x \in Xrefs /\ x.at = i
    BY <1>3 DEF Xrefs, TypeOfXref
  <2> HIDE DEF x, Refers
  <2>2. xrefs' = xrefs \/ xrefs' = Append(xrefs, x)
    BY <1>1
  <2>3. QED
    BY <2>1, <2>2 DEF SweepTypes
<1>9. SweepTypes'
  BY <1>1, <1>2, <1>3, <1>8 DEF SweepTypes, ScanTypes
<1>10. ScanInv'
  BY <1>1, <1>2 DEF ScanInv
<1>11. {k \in 0 .. Len(haystack') - 1 :
          k < i' /\ k \in Starts' /\ Insn(k)'.size > 0 /\ TargetOf(k)' = target'}
         = Found \union (IF Refers THEN {i} ELSE {})
  <2>1. ASSUME NEW k \in 0 .. Len(haystack) - 1
        PROVE  k < i' /\ k \in Starts <=> (k < i \/ k = i) /\ k \in Starts
    BY <1>2, <1>3, <1>6, <2>1
  <2>2. ASSUME NEW k \in 0 .. Len(haystack) - 1
        PROVE  k < i' /\ k \in Starts' /\ Insn(k)'.size > 0 /\ TargetOf(k)' = target'
                 <=> k \in Found \union (IF Refers THEN {i} ELSE {})
    <3>1. k \in Found <=> k < i /\ k \in Starts /\ Insn(k).size > 0 /\ TargetOf(k) = target
      OBVIOUS
    <3>2. k < i' /\ k \in Starts' /\ Insn(k)'.size > 0 /\ TargetOf(k)' = target'
            <=> (k < i \/ k = i) /\ k \in Starts /\ Insn(k).size > 0 /\ TargetOf(k) = target
      BY <1>1, <1>4, <2>1
    <3>3. k = i => k \in Starts /\ (Refers <=> Insn(k).size > 0 /\ TargetOf(k) = target)
      BY <1>5
    <3> HIDE DEF Found, Refers
    <3>4. QED
      BY <1>3, <3>1, <3>2, <3>3
  <2>3. Found \union (IF Refers THEN {i} ELSE {}) \subseteq 0 .. Len(haystack) - 1
    BY <1>3
  <2> HIDE DEF Found, Refers
  <2>4. QED
    BY <1>1, <2>2, <2>3
<1>12. /\ \A n \in 1 .. Len(xrefs) - 1 : xrefs[n].at < xrefs[n + 1].at
       /\ \A n \in DOMAIN xrefs : xrefs[n].at < i
       /\ {xrefs[n].at : n \in DOMAIN xrefs} = Found
  BY <1>2 DEF SweepInv
<1>13. /\ \A n \in 1 .. Len(xrefs') - 1 : xrefs'[n].at < xrefs'[n + 1].at
       /\ \A n \in DOMAIN xrefs' : xrefs'[n].at < i'
       /\ {xrefs'[n].at : n \in DOMAIN xrefs'} = Found \union (IF Refers THEN {i} ELSE {})
  <2>1. CASE ~Refers
    <3>1. xrefs' = xrefs
      BY <1>1, <2>1
    <3>2. \A n \in DOMAIN xrefs : xrefs[n].at \in Nat
      BY XrefPlaces
    <3>3. QED
      BY <1>3, <1>12, <2>1, <3>1, <3>2
  <2>2. CASE Refers
    <3> HIDE DEF Found, Refers
    <3> HIDE DEF x
    <3>1. /\ xrefs' = Append(xrefs, x) /\ x \in Xrefs /\ x.at = i
      BY <1>1, <1>8, <2>2
    <3>2. /\ Len(xrefs') = Len(xrefs) + 1 /\ Len(xrefs) \in Nat
          /\ DOMAIN xrefs = 1 .. Len(xrefs) /\ DOMAIN xrefs' = 1 .. Len(xrefs) + 1
          /\ \A n \in 1 .. Len(xrefs) : xrefs'[n] = xrefs[n]
          /\ xrefs'[Len(xrefs) + 1] = x
      BY <3>1 DEF SweepTypes
    <3>3. \A n \in 1 .. Len(xrefs) : xrefs[n].at \in Nat /\ xrefs[n].at < i
      BY <1>12, <3>2, XrefPlaces
    <3>4. ASSUME NEW n \in 1 .. Len(xrefs') - 1
          PROVE  xrefs'[n].at < xrefs'[n + 1].at
      <4>1. CASE n = Len(xrefs)
        BY <3>1, <3>2, <3>3, <4>1
      <4>2. CASE n # Len(xrefs)
        <5>1. n \in 1 .. (Len(xrefs) + 1) - 1 /\ Len(xrefs) \in Nat
          BY <3>2
        <5>2. n \in 1 .. Len(xrefs) - 1 /\ n \in 1 .. Len(xrefs) /\ n + 1 \in 1 .. Len(xrefs)
          BY <4>2, <5>1
        <5>3. QED
          BY <1>12, <3>2, <5>2
      <4>3. QED
        BY <4>1, <4>2
    <3>5. ASSUME NEW n \in DOMAIN xrefs'
          PROVE  xrefs'[n].at < i'
      <4>1. CASE n = Len(xrefs) + 1
        BY <1>3, <3>1, <3>2, <4>1
      <4>2. CASE n \in 1 .. Len(xrefs)
        BY <1>3, <3>2, <3>3, <4>2
      <4>3. QED
        BY <3>2, <4>1, <4>2
    <3>6. {xrefs'[n].at : n \in DOMAIN xrefs'} = {xrefs[n].at : n \in DOMAIN xrefs} \union {i}
      <4>1. DOMAIN xrefs' = DOMAIN xrefs \union {Len(xrefs) + 1}
        BY <3>2
      <4>2. QED
        BY <3>1, <3>2, <4>1
    <3>7. QED
      BY <1>12, <2>2, <3>4, <3>5, <3>6
  <2>3. QED
    BY <2>1, <2>2
<1>14. SweepInv'
  <2>1. Sweeping' /\ scan' = "sweeping"
    BY <1>1, <1>2 DEF Sweeping
  <2>2. /\ i' \in Starts' /\ \A k \in Starts' : k < i' => Behind(k)' <= i'
    BY <1>4, <1>6, <1>7
  <2>3. {xrefs'[n].at : n \in DOMAIN xrefs'}
          = {k \in 0 .. Len(haystack') - 1 :
              k < i' /\ k \in Starts' /\ Insn(k)'.size > 0 /\ TargetOf(k)' = target'}
    BY <1>11, <1>13
  <2>4. QED
    BY <1>13, <2>1, <2>2, <2>3 DEF SweepInv
<1>15. QED
  BY <1>9, <1>10, <1>14

LEMMA SweepEndsKeeps ==
  ASSUME SweepTypes, ScanInv, SweepInv, SweepEnds
  PROVE  SweepTypes' /\ ScanInv' /\ SweepInv'
<1>1. /\ scan = "sweeping" /\ UNCHANGED <<haystack, pattern, i, results, start, target, xrefs>>
      /\ scan' = "fault" \/ (scan' = "done" /\ i >= Len(haystack))
  BY DEF SweepEnds, sweepVars
<1>2. ScanTypes /\ Len(haystack) \in Nat /\ Sweeping /\ m = 0 /\ results = <<>> /\ m' = m
  BY <1>1 DEF SweepTypes, ScanTypes, SweepInv, ScanInv, m
<1>3. SweepTypes' /\ ScanInv'
  BY <1>1, <1>2 DEF SweepTypes, ScanTypes, ScanInv
<1>4. /\ \A k : Insn(k)' = Insn(k) /\ TargetOf(k)' = TargetOf(k) /\ Behind(k)' = Behind(k)
      /\ Starts' = Starts
  BY <1>1, SameRange
<1>5. scan' = "done" => i' = Len(haystack')
  BY <1>1, <1>2 DEF SweepInv, Starts
<1>6. {k \in 0 .. Len(haystack') - 1 :
          k < i' /\ k \in Starts' /\ Insn(k)'.size > 0 /\ TargetOf(k)' = target'}
        = {k \in 0 .. Len(haystack) - 1 :
             k < i /\ k \in Starts /\ Insn(k).size > 0 /\ TargetOf(k) = target}
  BY <1>1, <1>4
<1>7. SweepInv'
  BY <1>1, <1>2, <1>4, <1>5, <1>6 DEF SweepInv, Sweeping
<1>8. QED
  BY <1>3, <1>7

LEMMA SweepBegins ==
  ASSUME SweepTypes, ScanInv,
         NEW a \in Nat, NEW h \in Seq(Byte), NEW r, NEW t, FindXrefs(a, h, r, t)
  PROVE  SweepTypes' /\ ScanInv' /\ SweepInv' /\ scan' \in {"sweeping", "done"}
<1>1. /\ scan = "none" /\ start' = a /\ haystack' = h /\ target' = t /\ i' = 0 /\ xrefs' = <<>>
      /\ scan' = IF a = 0 \/ t = 0 \/ h = <<>> THEN "done" ELSE "sweeping"
      /\ pattern' = pattern /\ results' = results
  BY DEF FindXrefs
<1>2. m' = m /\ m = 0 /\ results = <<>> /\ Len(<<>>) = 0 /\ DOMAIN <<>> = {} /\ <<>> \in Seq(Xrefs)
  BY <1>1 DEF ScanInv, m
<1>3. SweepTypes'
  BY <1>1, <1>2 DEF SweepTypes, ScanTypes
<1>4. ScanInv'
  BY <1>1, <1>2 DEF ScanInv
<1>5. 0 \in Starts' /\ Starts' \subseteq 0 .. Len(haystack')
  BY <1>1 DEF Starts, Closed
<1>6. SweepInv'
  <2>1. Sweeping' => scan' = "sweeping" \/ (scan' = "done" /\ Len(haystack') = 0)
    BY <1>1, <1>2 DEF Sweeping
  <2>2. {xrefs'[n].at : n \in DOMAIN xrefs'} = {}
    BY <1>1, <1>2
  <2>3. Len(haystack') \in Nat /\ \A k \in 0 .. Len(haystack') : ~(k < i')
    BY <1>1
  <2>4. QED
    BY <1>1, <1>2, <1>5, <2>1, <2>2, <2>3 DEF SweepInv, Sweeping
<1>7. QED
  BY <1>1, <1>3, <1>4, <1>6

LEMMA XrefsFound ==
  ASSUME SweepTypes, SweepInv
  PROVE  FindsEveryXref
BY DEF SweepInv, Sweeping, FindsEveryXref

--------------------------------------------------------------------------------
(* The memory map *)

LEMMA LineFacts ==
  ASSUME MapTypes, NEW l \in maps
  PROVE  /\ l.start \in 0 .. Top /\ l.end \in 0 .. Top /\ l.start < l.end
         /\ l.path # NoPath => l.path \in Paths /\ PathRead[l.path] \in Paths
<1>1. l \in Mapping
  BY DEF MapTypes
<1>2. l.start < l.end
  BY DEF MapTypes, Apart
<1>3. QED
  BY <1>1, <1>2, SearchConstants DEF Mapping

LEMMA ModuleFacts ==
  ASSUME MapTypes, NEW n \in DOMAIN modules
  PROVE  /\ modules[n] \in Modules /\ modules[n].path \in Paths
         /\ modules[n].base \in 0 .. Top /\ modules[n].end \in 0 .. Top
<1>1. modules[n] \in Modules
  BY DEF MapTypes
<1>2. QED
  BY <1>1 DEF Modules

\* A line and the lines before it: none is passed over.
LEMMA LinesBefore ==
  ASSUME MapTypes, NEW l \in maps, NextLine(l), NEW o \in maps, o.start < l.end, ~(o.start < at)
  PROVE  o = l
<1>1. l.start <= o.start
  <2>1. o.start \in Nat /\ at \in Nat
    BY LineFacts DEF MapTypes
  <2>2. QED
    BY <2>1 DEF NextLine
<1>2. l = o \/ l.end <= o.start \/ o.end <= l.start
  BY DEF MapTypes, Apart
<1>3. QED
  BY <1>1, <1>2, LineFacts

\* The module of the line grows, or there is a new one; the others stay.
LEMMA ModulesAfter ==
  ASSUME MapTypes, ModuleInv, NEW l \in maps, l.path # NoPath,
         LET known == {n \in DOMAIN modules : modules[n].path = PathRead[l.path]}
         IN modules' = IF known = {} THEN Append(modules, Entry(l))
                       ELSE [n \in DOMAIN modules |->
                               IF n \in known THEN Grown(modules[n], l) ELSE modules[n]]
  PROVE  /\ modules' \in Seq(Modules)
         /\ \A n \in DOMAIN modules' : /\ modules'[n].base < modules'[n].end
                                       /\ modules'[n].name = Name[modules'[n].path]
         /\ \A n, k \in DOMAIN modules' : modules'[n].path = modules'[k].path => n = k
         /\ \A n \in DOMAIN modules : /\ n \in DOMAIN modules' /\ modules'[n].path = modules[n].path
                                      /\ modules'[n].base <= modules[n].base
                                      /\ modules[n].end <= modules'[n].end
         /\ \E n \in DOMAIN modules' : Covers(modules'[n], l)
<1> DEFINE known == {n \in DOMAIN modules : modules[n].path = PathRead[l.path]}
<1>1. /\ l.start \in 0 .. Top /\ l.end \in 0 .. Top /\ l.start < l.end
      /\ l.path \in Paths /\ PathRead[l.path] \in Paths
  BY LineFacts
<1>2. /\ modules \in Seq(Modules) /\ DOMAIN modules = 1 .. Len(modules) /\ Len(modules) \in Nat
      /\ \A n \in DOMAIN modules :
           /\ modules[n] \in Modules /\ modules[n].path \in Paths
           /\ modules[n].base \in 0 .. Top /\ modules[n].end \in 0 .. Top
           /\ modules[n].base < modules[n].end /\ modules[n].name = Name[modules[n].path]
      /\ \A n, k \in DOMAIN modules : modules[n].path = modules[k].path => n = k
  BY ModuleFacts DEF MapTypes, ModuleInv
<1>3. CASE known = {}
  <2>1. modules' = Append(modules, Entry(l))
    BY <1>3
  <2>2. /\ Entry(l) \in Modules /\ Entry(l).base = l.start /\ Entry(l).end = l.end
        /\ Entry(l).path = PathRead[l.path] /\ Entry(l).name = Name[Entry(l).path]
    BY <1>1 DEF Entry, Modules
  <2>3. /\ modules' \in Seq(Modules) /\ Len(modules') = Len(modules) + 1
        /\ DOMAIN modules' = 1 .. Len(modules) + 1
        /\ \A n \in 1 .. Len(modules) : modules'[n] = modules[n]
        /\ modules'[Len(modules) + 1] = Entry(l)
    <3>1. PICK e \in Modules : e = Entry(l)
      BY <2>2
    <3>2. modules \in Seq(Modules) /\ modules' = Append(modules, e) /\ Len(modules) \in Nat
      BY <1>2, <2>1, <3>1
    <3>3. QED
      BY <3>1, <3>2
  <2>4. \A n \in DOMAIN modules' : n \in DOMAIN modules \/ n = Len(modules) + 1
    BY <1>2, <2>3
  <2>5. \A n \in DOMAIN modules : modules[n].path # PathRead[l.path]
    BY <1>3
  <2>6. Len(modules) + 1 \in DOMAIN modules' /\ DOMAIN modules \subseteq DOMAIN modules'
    BY <1>2, <2>3
  <2>7. Covers(modules'[Len(modules) + 1], l)
    BY <1>1, <2>2, <2>3 DEF Covers
  <2>8. \A n, k \in DOMAIN modules' : modules'[n].path = modules'[k].path => n = k
    <3>1. ASSUME NEW n \in DOMAIN modules', NEW k \in DOMAIN modules', modules'[n].path = modules'[k].path
          PROVE  n = k
      <4>1. CASE n \in DOMAIN modules /\ k \in DOMAIN modules
        BY <1>2, <2>3, <3>1, <4>1
      <4>2. CASE n \in DOMAIN modules /\ k = Len(modules) + 1
        BY <1>2, <2>2, <2>3, <2>5, <3>1, <4>2
      <4>3. CASE n = Len(modules) + 1 /\ k \in DOMAIN modules
        BY <1>2, <2>2, <2>3, <2>5, <3>1, <4>3
      <4>4. QED
        BY <2>4, <4>1, <4>2, <4>3
    <3>2. QED
      BY <3>1
  <2>9. \A n \in DOMAIN modules' : /\ modules'[n].base < modules'[n].end
                                   /\ modules'[n].name = Name[modules'[n].path]
    BY SMTT(30), <1>1, <1>2, <2>2, <2>3, <2>4
  <2>10. \A n \in DOMAIN modules : /\ n \in DOMAIN modules' /\ modules'[n].path = modules[n].path
                                   /\ modules'[n].base <= modules[n].base
                                   /\ modules[n].end <= modules'[n].end
    BY <1>2, <2>3, <2>6
  <2>11. \E n \in DOMAIN modules' : Covers(modules'[n], l)
    BY <2>6, <2>7
  <2>12. QED
    BY <2>3, <2>8, <2>9, <2>10, <2>11
<1>4. CASE known # {}
  <2>1. modules' = [n \in DOMAIN modules |-> IF n \in known THEN Grown(modules[n], l) ELSE modules[n]]
    BY <1>4
  <2>2. ASSUME NEW n \in DOMAIN modules
        PROVE  /\ Grown(modules[n], l) \in Modules
               /\ Grown(modules[n], l).path = modules[n].path /\ Grown(modules[n], l).name = modules[n].name
               /\ Grown(modules[n], l).base <= modules[n].base /\ Grown(modules[n], l).base <= l.start
               /\ modules[n].end <= Grown(modules[n], l).end /\ l.end <= Grown(modules[n], l).end
               /\ Grown(modules[n], l).base < Grown(modules[n], l).end
    <3>1. PICK mod \in Modules : mod = modules[n]
      BY <1>2
    <3>2. mod.base \in 0 .. Top /\ mod.end \in 0 .. Top /\ mod.base < mod.end
      BY <1>2, <3>1
    <3> DEFINE low == IF l.start < mod.base THEN l.start ELSE mod.base
               high == IF l.end > mod.end THEN l.end ELSE mod.end
    <3>3. Grown(mod, l) = [[mod EXCEPT !.base = low] EXCEPT !.end = high]
      BY DEF Grown, Modules
    <3>4. /\ low \in 0 .. Top /\ low <= mod.base /\ low <= l.start
          /\ high \in 0 .. Top /\ mod.end <= high /\ l.end <= high /\ low < high
      BY <1>1, <3>2
    <3> HIDE DEF low, high
    <3>5. /\ Grown(mod, l) \in Modules
          /\ Grown(mod, l).path = mod.path /\ Grown(mod, l).name = mod.name
          /\ Grown(mod, l).base = low /\ Grown(mod, l).end = high
      BY <3>3, <3>4 DEF Modules
    <3>6. QED
      BY <3>1, <3>4, <3>5
  <2> HIDE DEF known
  <2>3. DOMAIN modules' = DOMAIN modules
    BY <2>1
  <2>4. \A n \in DOMAIN modules :
          /\ modules'[n] \in Modules /\ modules'[n].path = modules[n].path
          /\ modules'[n].name = modules[n].name
          /\ modules'[n].base <= modules[n].base /\ modules[n].end <= modules'[n].end
          /\ modules'[n].base < modules'[n].end
    <3>1. ASSUME NEW n \in DOMAIN modules
          PROVE  /\ modules'[n] \in Modules /\ modules'[n].path = modules[n].path
                 /\ modules'[n].name = modules[n].name
                 /\ modules'[n].base <= modules[n].base /\ modules[n].end <= modules'[n].end
                 /\ modules'[n].base < modules'[n].end
      <4>1. CASE n \in known
        BY <2>1, <2>2, <4>1
      <4>2. CASE n \notin known
        <5>1. modules'[n] = modules[n]
          BY <2>1, <4>2
        <5>2. QED
          BY <1>2, <5>1
      <4>3. QED
        BY <4>1, <4>2
    <3>2. QED
      BY <3>1
  <2>5. modules' \in Seq(Modules)
    <3>1. modules' \in [1 .. Len(modules) -> Modules]
      <4>1. modules' = [n \in 1 .. Len(modules) |-> modules'[n]]
        BY <1>2, <2>1
      <4>2. \A n \in 1 .. Len(modules) : modules'[n] \in Modules
        BY <1>2, <2>4
      <4>3. QED
        BY <4>1, <4>2
    <3>2. PICK len \in Nat : len = Len(modules)
      BY <1>2
    <3>3. modules' \in [1 .. len -> Modules]
      BY <3>1, <3>2
    <3>4. QED
      BY <3>3, SeqDef
  <2>6. PICK g \in DOMAIN modules : g \in known /\ modules[g].path = PathRead[l.path]
    BY <1>4 DEF known
  <2>7. Covers(modules'[g], l)
    BY <2>1, <2>2, <2>6 DEF Covers
  <2>8. \A n \in DOMAIN modules' : modules'[n].name = Name[modules'[n].path]
    BY <1>2, <2>3, <2>4
  <2>9. \A n, k \in DOMAIN modules' : modules'[n].path = modules'[k].path => n = k
    BY <1>2, <2>3, <2>4
  <2>10. \E n \in DOMAIN modules' : Covers(modules'[n], l)
    BY <2>3, <2>6, <2>7
  <2>11. QED
    BY <2>3, <2>4, <2>5, <2>8, <2>9, <2>10
<1>5. QED
  BY <1>3, <1>4

--------------------------------------------------------------------------------
(* Initial states and steps *)

LEMMA Initially ==
  ASSUME Init
  PROVE  IInv
<1>1. /\ maps \in MapFiles /\ memory \in Memories /\ call = "idle" /\ at = 0 /\ modules = <<>>
      /\ haystack = <<>> /\ readable = {} /\ pattern = <<>> /\ i = 0 /\ results = <<>> /\ scan = "none"
      /\ start = 0 /\ xrefs = <<>>
  BY DEF Init, ScanInit, SweepInit
<1>2. /\ <<>> \in Seq(Byte) /\ <<>> \in Seq(Byte \union {Any}) /\ <<>> \in Seq(Nat)
      /\ <<>> \in Seq(Xrefs) /\ <<>> \in Seq(Modules) /\ Len(<<>>) = 0 /\ DOMAIN <<>> = {}
  OBVIOUS
<1>3. SweepTypes
  BY <1>1, <1>2 DEF SweepTypes, ScanTypes
<1>4. MapTypes
  BY <1>1, <1>2, SearchConstants DEF MapTypes
<1>5. ScanInv /\ SweepInv
  BY <1>1, <1>2 DEF ScanInv, SweepInv, Sweeping, m
<1>6. ModuleInv /\ FoundInv
  BY <1>1, <1>2 DEF ModuleInv, FoundInv
<1>7. QED
  BY <1>3, <1>4, <1>5, <1>6 DEF IInv

\* What a step keeps that leaves the search alone.
LEMMA SearchAlone ==
  ASSUME SweepTypes, ScanInv, SweepInv,
         UNCHANGED <<haystack, pattern, i, results, scan, sweepVars>>
  PROVE  SweepTypes' /\ ScanInv' /\ SweepInv'
<1>1. /\ haystack' = haystack /\ pattern' = pattern /\ i' = i /\ results' = results /\ scan' = scan
      /\ start' = start /\ target' = target /\ xrefs' = xrefs
  BY DEF sweepVars
<1>2. SweepTypes'
  BY <1>1 DEF SweepTypes, ScanTypes
<1>3. ScanInv'
  <2>1. m' = m /\ (Inside' <=> Inside) /\ (\A k : MatchesAt(k)' <=> MatchesAt(k))
    BY <1>1 DEF m, MatchesAt, Fits, At, Inside
  <2>2. {k \in 0 .. Len(haystack') - m' : k < i' /\ MatchesAt(k)'} =
          {k \in 0 .. Len(haystack) - m : k < i /\ MatchesAt(k)}
    BY <1>1, <2>1
  <2>3. {results'[n] : n \in 1 .. Len(results')} = {results[n] : n \in 1 .. Len(results)}
    BY <1>1
  <2>4. QED
    BY <1>1, <2>1, <2>2, <2>3 DEF ScanInv
<1>4. SweepInv'
  <2>1. /\ \A k : Insn(k)' = Insn(k) /\ TargetOf(k)' = TargetOf(k) /\ Behind(k)' = Behind(k)
        /\ Starts' = Starts
    BY <1>1, SameRange
  <2>2. {k \in 0 .. Len(haystack') - 1 :
            k < i' /\ k \in Starts' /\ Insn(k)'.size > 0 /\ TargetOf(k)' = target'}
          = {k \in 0 .. Len(haystack) - 1 :
               k < i /\ k \in Starts /\ Insn(k).size > 0 /\ TargetOf(k) = target}
    BY <1>1, <2>1
  <2>3. QED
    BY <1>1, <2>1, <2>2 DEF SweepInv, Sweeping
<1>5. QED
  BY <1>2, <1>3, <1>4

LEMMA FindModuleKeeps ==
  ASSUME IInv, FindModule
  PROVE  IInv'
<1>1. /\ call = "idle" /\ call' = "maps" /\ at' = 0 /\ modules' = <<>>
      /\ UNCHANGED <<maps, memory, found, scanVars, sweepVars>>
  BY DEF FindModule
<1>2. scan = "none" /\ scan' = "none"
  BY <1>1 DEF IInv, FoundInv, scanVars
<1>3. SweepTypes' /\ ScanInv' /\ SweepInv'
  BY <1>1, SearchAlone DEF IInv, scanVars
<1>4. MapTypes'
  BY <1>1, SearchConstants DEF IInv, MapTypes, Apart
<1>5. ModuleInv'
  <2>1. \A l \in maps : ~(l.start < 0)
    BY LineFacts DEF IInv
  <2>2. QED
    BY <1>1, <2>1 DEF ModuleInv
<1>6. FoundInv'
  BY <1>1, <1>2 DEF FoundInv
<1>7. QED
  BY <1>3, <1>4, <1>5, <1>6 DEF IInv

LEMMA ReadLineKeeps ==
  ASSUME IInv, ReadLine
  PROVE  IInv'
<1>0. PICK l \in maps :
        /\ NextLine(l) /\ at' = l.end
        /\ \/ l.path = NoPath /\ UNCHANGED modules
           \/ /\ l.path # NoPath
              /\ LET known == {n \in DOMAIN modules : modules[n].path = PathRead[l.path]}
                 IN modules' = IF known = {} THEN Append(modules, Entry(l))
                               ELSE [n \in DOMAIN modules |->
                                       IF n \in known THEN Grown(modules[n], l) ELSE modules[n]]
  BY DEF ReadLine
<1>1. /\ call = "maps" /\ call' = call
      /\ UNCHANGED <<maps, memory, found, scanVars, sweepVars>>
  BY DEF ReadLine
<1>2. scan = "none" /\ scan' = "none"
  BY <1>1 DEF IInv, FoundInv, scanVars
<1>3. SweepTypes' /\ ScanInv' /\ SweepInv'
  BY <1>1, SearchAlone DEF IInv, scanVars
<1>4. FoundInv'
  BY <1>1, <1>2 DEF FoundInv
<1>5. /\ modules' \in Seq(Modules)
      /\ \A n \in DOMAIN modules' : /\ modules'[n].base < modules'[n].end
                                    /\ modules'[n].name = Name[modules'[n].path]
      /\ \A n, k \in DOMAIN modules' : modules'[n].path = modules'[k].path => n = k
      /\ \A n \in DOMAIN modules : /\ n \in DOMAIN modules' /\ modules'[n].path = modules[n].path
                                   /\ modules'[n].base <= modules[n].base
                                   /\ modules[n].end <= modules'[n].end
      /\ l.path # NoPath => \E n \in DOMAIN modules' : Covers(modules'[n], l)
  <2>1. CASE l.path = NoPath
    <3>1. modules' = modules
      BY <1>0, <2>1
    <3>2. \A n \in DOMAIN modules : modules[n].base \in Nat /\ modules[n].end \in Nat
      BY ModuleFacts DEF IInv
    <3>3. QED
      BY <2>1, <3>1, <3>2 DEF IInv, MapTypes, ModuleInv
  <2>2. CASE l.path # NoPath
    <3>1. LET known == {n \in DOMAIN modules : modules[n].path = PathRead[l.path]}
          IN modules' = IF known = {} THEN Append(modules, Entry(l))
                        ELSE [n \in DOMAIN modules |->
                                IF n \in known THEN Grown(modules[n], l) ELSE modules[n]]
      BY <1>0, <2>2
    <3>2. QED
      BY <2>2, <3>1, ModulesAfter DEF IInv
  <2>3. QED
    BY <2>1, <2>2
<1>6. MapTypes'
  BY <1>0, <1>1, <1>5, LineFacts DEF IInv, MapTypes, Apart
<1>7. ASSUME NEW o \in maps, o.start < l.end
      PROVE  /\ o.end <= l.end
             /\ o.path # NoPath => \E n \in DOMAIN modules' : Covers(modules'[n], o)
  <2>1. CASE o.start < at
    <3>1. o.end <= at /\ (o.path # NoPath => \E n \in DOMAIN modules : Covers(modules[n], o))
      BY <1>1, <2>1 DEF IInv, ModuleInv
    <3>2. at <= l.start /\ at \in Nat /\ l.start < l.end
          /\ l.start \in Nat /\ l.end \in Nat /\ o.start \in Nat /\ o.end \in Nat
      BY <1>0, LineFacts DEF IInv, MapTypes, NextLine
    <3>3. ASSUME o.path # NoPath
          PROVE  \E n \in DOMAIN modules' : Covers(modules'[n], o)
      <4>1. PICK n \in DOMAIN modules : Covers(modules[n], o)
        BY <3>1, <3>3
      <4>2. modules[n].base \in Nat /\ modules[n].end \in Nat
        BY ModuleFacts DEF IInv
      <4>3. modules'[n].base \in Nat /\ modules'[n].end \in Nat /\ n \in DOMAIN modules'
        <5>1. n \in DOMAIN modules'
          BY <1>5
        <5>2. modules'[n] \in Modules
          BY <1>5, <5>1
        <5>3. QED
          BY <5>1, <5>2, SearchConstants DEF Modules
      <4>4. Covers(modules'[n], o)
        BY SMTT(30), <1>5, <3>2, <4>1, <4>2, <4>3 DEF Covers
      <4>5. QED
        BY <4>3, <4>4
    <3>4. QED
      BY <3>1, <3>2, <3>3
  <2>2. CASE ~(o.start < at)
    <3>1. o = l
      BY <1>0, <1>7, <2>2, LinesBefore DEF IInv
    <3>2. QED
      BY <1>5, <3>1, LineFacts DEF IInv
  <2>3. QED
    BY <2>1, <2>2
<1>8. ModuleInv'
  BY <1>0, <1>1, <1>5, <1>7 DEF ModuleInv, Covers
<1>9. QED
  BY <1>3, <1>4, <1>6, <1>8 DEF IInv

\* An int and a size_t keep a size that fits.
LEMMA SizeConversions ==
  ASSUME NEW n \in Nat
  PROVE  /\ ToInt(n) \in Int /\ ToSizeT(ToInt(n)) \in Nat
         /\ n < HalfInt => ToInt(n) = n /\ ToSizeT(ToInt(n)) = n
<1>1. HalfInt \in Nat \ {0} /\ SizeTs \in Nat /\ 2 * HalfInt <= SizeTs
  BY SearchConstants
<1> DEFINE w == 2 * HalfInt
           r == (n + HalfInt) % w
<1>2. w \in Nat \ {0} /\ n + HalfInt \in Nat
  BY <1>1
<1>3. r \in 0 .. w - 1
  <2> HIDE DEF w
  <2>1. QED
    BY <1>2
<1>4. n < HalfInt => r = n + HalfInt
  <2>1. n < HalfInt => n + HalfInt \in 0 .. w - 1
    BY <1>1
  <2> HIDE DEF w
  <2>2. QED
    BY <1>2, <2>1
<1> HIDE DEF r
<1>5. ToInt(n) = r - HalfInt
  BY DEF ToInt, r
<1>6. QED
  BY <1>1, <1>3, <1>4, <1>5 DEF ToSizeT

LEMMA BytesOfRange ==
  ASSUME MapTypes, NEW b \in Nat, NEW n \in Int
  PROVE  /\ BytesFrom(b, n) \in Seq(Byte) /\ (n > 0 => Len(BytesFrom(b, n)) = n)
         /\ \A k \in 0 .. Len(BytesFrom(b, n)) - 1 :
              b + k <= Top => At(BytesFrom(b, n), k) = memory[b + k]
         /\ MappedFrom(b, n) = {k \in 0 .. Len(BytesFrom(b, n)) - 1 : Mapped(b + k)}
<1> DEFINE len == IF n > 0 THEN n ELSE 0
           bytes == BytesFrom(b, n)
<1>1. len \in Nat /\ 1 .. n = 1 .. len /\ 0 .. n - 1 = 0 .. len - 1 /\ (n > 0 => len = n)
  OBVIOUS
<1> HIDE DEF len
<1>2. bytes = [k \in 1 .. len |-> IF b + k - 1 <= Top THEN memory[b + k - 1] ELSE 0]
  BY <1>1 DEF BytesFrom
<1> HIDE DEF bytes
<1>3. ASSUME NEW k \in 1 .. len
      PROVE  (IF b + k - 1 <= Top THEN memory[b + k - 1] ELSE 0) \in Byte
  <2>1. b + k - 1 \in Nat /\ Top \in Nat
    BY <1>1, SearchConstants
  <2>2. 0 \in Byte
    BY ScanConstants DEF Byte
  <2>3. b + k - 1 <= Top => memory[b + k - 1] \in Byte
    BY <2>1 DEF MapTypes
  <2>4. QED
    BY <2>2, <2>3
<1>4. bytes \in Seq(Byte) /\ Len(bytes) = len
  BY <1>1, <1>2, <1>3
<1>5. ASSUME NEW k \in 0 .. len - 1, b + k <= Top
      PROVE  At(bytes, k) = memory[b + k]
  <2>1. k + 1 \in 1 .. len /\ b + (k + 1) - 1 = b + k
    BY <1>1
  <2>2. QED
    BY <1>2, <1>5, <2>1 DEF At
<1>6. QED
  BY <1>1, <1>4, <1>5 DEF MappedFrom, bytes

LEMMA LookupKeeps ==
  ASSUME IInv, Lookup
  PROVE  IInv'
<1> DEFINE named == {n \in DOMAIN modules : modules[n].name = name}
<1>1. /\ call = "maps" /\ NoLineLeft
      /\ UNCHANGED <<maps, unloaded, memory, name, at, modules>>
  BY DEF Lookup
<1>2. SweepTypes /\ MapTypes /\ ScanInv /\ SweepInv /\ ModuleInv /\ scan = "none"
  BY <1>1 DEF IInv, FoundInv
<1>3. call' \in {"not-found", "search"} /\ (call' = "not-found" => named = {})
  BY DEF Lookup
<1>4. MapTypes'
  BY <1>1, <1>2, <1>3 DEF MapTypes, Apart
<1>5. ModuleInv'
  BY <1>1, <1>2, <1>3 DEF ModuleInv, NoLineLeft, Covers
<1>6. CASE named = {}
  <2>1. call' = "not-found" /\ UNCHANGED <<found, scanVars, sweepVars>>
    BY <1>6 DEF Lookup
  <2>2. SweepTypes' /\ ScanInv' /\ SweepInv'
    BY <1>2, <2>1, SearchAlone DEF scanVars
  <2>3. FoundInv'
    BY <1>2, <2>1 DEF FoundInv, scanVars
  <2>4. QED
    BY <1>4, <1>5, <2>2, <2>3 DEF IInv
<1>7. CASE named # {}
  <2> DEFINE g == CHOOSE n \in named : \A o \in named : n <= o
             mod == modules[g]
             size == SizeOf(mod)
             len == ToSizeT(size)
             Scans(h, r) == (\E t \in Tokens : ScanMemory(h, r, t)) /\ UNCHANGED sweepVars
             Sweeps(h, r) == \E t \in Targets : FindXrefs(mod.base, h, r, t)
  <2>1. /\ call' = "search" /\ found' = mod
        /\ \/ Scans(BytesFrom(mod.base, len), MappedFrom(mod.base, len))
           \/ Sweeps(BytesFrom(mod.base, size), MappedFrom(mod.base, size))
    BY <1>7 DEF Lookup
  <2>2. g \in DOMAIN modules
    <3>1. named \subseteq Nat /\ named \subseteq DOMAIN modules
      BY <1>2 DEF MapTypes
    <3>2. \E n \in named : \A o \in named : n <= o
      BY <1>7, <3>1, LeastExists
    <3>3. g \in named
      BY <3>2
    <3>4. QED
      BY <3>1, <3>3
  <2> HIDE DEF g
  <2>3. mod \in Modules /\ mod.base \in Nat /\ mod.end \in Nat /\ mod.base < mod.end
    BY <1>2, <2>2, ModuleFacts, SearchConstants DEF ModuleInv
  <2> HIDE DEF mod
  <2>4. /\ size \in Int /\ len \in Nat
        /\ FitsInt(mod) => size = mod.end - mod.base /\ len = mod.end - mod.base
    <3>1. mod.end - mod.base \in Nat
      BY <2>3
    <3>2. QED
      BY <3>1, SizeConversions DEF SizeOf, FitsInt
  <2> HIDE DEF size, len
  <2>5. PICK n \in {size, len} :
          LET h == BytesFrom(mod.base, n)
              r == MappedFrom(mod.base, n)
          IN  Scans(h, r) \/ Sweeps(h, r)
    BY <2>1
  <2> DEFINE h == BytesFrom(mod.base, n)
             r == MappedFrom(mod.base, n)
  <2>6. /\ h \in Seq(Byte) /\ Len(h) \in Nat
        /\ FitsInt(mod) => Len(h) = mod.end - mod.base
        /\ \A k \in 0 .. Len(h) - 1 : mod.base + k <= Top => At(h, k) = memory[mod.base + k]
        /\ r = {k \in 0 .. Len(h) - 1 : Mapped(mod.base + k)}
    <3>1. n \in Int /\ (FitsInt(mod) => n = mod.end - mod.base /\ n > 0)
      BY <2>3, <2>4
    <3>2. h \in Seq(Byte) /\ (n > 0 => Len(h) = n)
      BY <1>2, <2>3, <3>1, BytesOfRange
    <3>3. Len(h) \in Nat /\ (FitsInt(mod) => Len(h) = mod.end - mod.base)
      BY <3>1, <3>2
    <3>4. QED
      BY <1>2, <2>3, <3>1, <3>2, <3>3, BytesOfRange
  <2>7. Scans(h, r) \/ Sweeps(h, r)
    BY <2>5
  <2> HIDE DEF h, r
  <2>8. SweepTypes' /\ ScanInv' /\ SweepInv' /\ scan' \notin {"none", "fault"}
        /\ haystack' = h /\ readable' = r
    <3>1. CASE Scans(h, r)
      <4>1. PICK t \in Tokens : ScanMemory(h, r, t)
        BY <3>1
      <4>2. t \in Seq(Nat \union {Any, NoHex})
        BY SearchConstants
      <4>3. ScanTypes' /\ ScanInv' /\ scan' \in {"scanning", "done", "threw"}
        BY <1>2, <2>6, <4>1, <4>2, ScanBegins DEF SweepTypes
      <4>4. ~Sweeping /\ (Sweeping' <=> Sweeping) /\ xrefs' = xrefs /\ start' = start
        BY <1>2, <3>1 DEF SweepInv, Sweeping, sweepVars
      <4>5. SweepInv' /\ SweepTypes'
        BY <1>2, <4>3, <4>4 DEF SweepInv, SweepTypes
      <4>6. QED
        BY <4>1, <4>3, <4>5 DEF ScanMemory
    <3>2. CASE Sweeps(h, r)
      <4>1. PICK t \in Targets : FindXrefs(mod.base, h, r, t)
        BY <3>2
      <4>2. SweepTypes' /\ ScanInv' /\ SweepInv' /\ scan' \in {"sweeping", "done"}
        BY <1>2, <2>3, <2>6, <4>1, SweepBegins
      <4>3. QED
        BY <4>1, <4>2 DEF FindXrefs
    <3>3. QED
      BY <2>7, <3>1, <3>2
  <2>9. FoundInv'
    <3>1. \E j \in DOMAIN modules' : found' = modules'[j]
      BY <1>1, <2>1, <2>2 DEF mod
    <3>2. FitsInt(found)' => Len(haystack') = found'.end - found'.base
      BY <2>1, <2>6, <2>8 DEF FitsInt
    <3>3. \A k \in 0 .. Len(haystack') - 1 :
            found'.base + k <= Top => At(haystack', k) = memory'[found'.base + k]
      BY <1>1, <2>1, <2>6, <2>8
    <3>4. readable' = {k \in 0 .. Len(haystack') - 1 : Shown(k)'}
      BY <1>1, <2>1, <2>6, <2>8 DEF Shown, Mapped
    <3>5. QED
      BY <2>1, <2>8, <3>1, <3>2, <3>3, <3>4 DEF FoundInv
  <2>10. QED
    BY <1>4, <1>5, <2>8, <2>9 DEF IInv
<1>8. QED
  BY <1>6, <1>7

\* A step of the search reads inside the range; if it dies, a byte of it was not readable.
LEMMA FaultInRange ==
  ASSUME IInv, Search, scan' = "fault"
  PROVE  readable # 0 .. Len(haystack) - 1
<1>1. ScanTypes /\ Len(haystack) \in Nat /\ m \in Nat
  BY DEF IInv, SweepTypes, ScanTypes, m
<1>2. CASE Fault
  <2>1. m > 0 /\ i \in Nat /\ i + m <= Len(haystack)
    BY <1>1, <1>2 DEF Fault, IInv, ScanInv, ScanTypes, Inside
  <2>2. \A j \in 0 .. m - 1 : i + j \in 0 .. Len(haystack) - 1
    BY <1>1, <2>1
  <2>3. i + m - 1 \in 0 .. Len(haystack) - 1
    BY <1>1, <2>1
  <2>4. Reads(i) \subseteq 0 .. Len(haystack) - 1
    BY <2>2, <2>3 DEF Reads
  <2>5. QED
    BY <1>2, <2>4 DEF Fault
<1>3. CASE SweepEnds
  <2>1. i \in 0 .. Len(haystack) - 1 /\ ~(i .. Advance(i) - 1 \subseteq readable)
    BY <1>1, <1>3 DEF SweepEnds, InsnReadable, ScanTypes
  <2>2. i .. Advance(i) - 1 \subseteq 0 .. Len(haystack) - 1
    <3>1. Advance(i) \in i + 1 .. Len(haystack)
      BY <1>1, <2>1, InsnInside
    <3>2. QED
      BY <1>1, <2>1, <3>1
  <2>3. QED
    BY <2>1, <2>2
<1>4. CASE scan = "fault"
  <2>1. FALSE
    BY <1>4 DEF Search, ScanStep, SweepStep, Match, Mismatch, Fault, ScanReturns, SweepInsn, SweepEnds
  <2>2. QED
    BY <2>1
<1>5. QED
  BY <1>2, <1>3, <1>4
  DEF Search, ScanStep, SweepStep, Match, Mismatch, ScanReturns, SweepInsn

LEMMA SearchKeeps ==
  ASSUME IInv, Search
  PROVE  IInv'
<1>1. UNCHANGED <<maps, unloaded, memory, call, name, at, modules, found>>
  BY DEF Search
<1>2. SweepTypes /\ MapTypes /\ ScanInv /\ SweepInv /\ ModuleInv /\ FoundInv
  BY DEF IInv
<1>3. /\ haystack' = haystack /\ readable' = readable /\ pattern' = pattern
      /\ scan # "none" /\ scan' # "none"
  BY DEF Search, ScanStep, SweepStep, Match, Mismatch, Fault, ScanReturns, SweepInsn, SweepEnds
<1>4. SweepTypes' /\ ScanInv' /\ SweepInv'
  <2>1. CASE ScanStep /\ UNCHANGED sweepVars
    <3>1. ScanTypes' /\ ScanInv'
      BY <1>2, <2>1, ScanStepKeeps DEF SweepTypes
    <3>2. scan = "scanning" /\ start' = start /\ target' = target /\ xrefs' = xrefs
      BY <2>1 DEF ScanStep, Match, Mismatch, Fault, ScanReturns, sweepVars
    <3>3. scan' # "sweeping"
      BY <2>1, <3>2 DEF ScanStep, Match, Mismatch, Fault, ScanReturns
    <3>4. QED
      BY <1>2, <3>1, <3>2, <3>3 DEF SweepTypes, SweepInv, Sweeping
  <2>2. CASE SweepStep
    BY <1>2, <2>2, SweepInsnKeeps, SweepEndsKeeps DEF SweepStep
  <2>3. QED
    BY <2>1, <2>2 DEF Search
<1>5. MapTypes' /\ ModuleInv'
  BY <1>1, <1>2 DEF MapTypes, Apart, ModuleInv, NoLineLeft, Covers
<1>6. FoundInv'
  <2>1. scan' = "fault" => readable' # 0 .. Len(haystack') - 1
    BY <1>3, FaultInRange
  <2>2. /\ \A k : At(haystack', k) = At(haystack, k)
        /\ \A k : Shown(k)' <=> Shown(k)
    BY <1>1, <1>3 DEF Shown
  <2>3. QED
    BY <1>1, <1>2, <1>3, <2>1, <2>2 DEF FoundInv
<1>7. QED
  BY <1>4, <1>5, <1>6 DEF IInv

LEMMA UnloadKeeps ==
  ASSUME IInv, NEW p \in Paths, Unload(p)
  PROVE  IInv'
<1>1. /\ maps' \subseteq maps
      /\ readable' = {k \in readable : Shown(k)'}
      /\ UNCHANGED <<memory, call, name, at, modules, found>>
      /\ UNCHANGED <<haystack, pattern, i, results, scan, sweepVars>>
  BY DEF Unload, Shown
<1>2. SweepTypes /\ MapTypes /\ ScanInv /\ SweepInv /\ ModuleInv /\ FoundInv
  BY DEF IInv
<1>3. SweepTypes' /\ ScanInv' /\ SweepInv'
  BY <1>1, <1>2, SearchAlone
<1>4. MapTypes' /\ ModuleInv'
  BY <1>1, <1>2 DEF MapTypes, Apart, ModuleInv, NoLineLeft, Covers
<1>5. FoundInv'
  <2>1. \A k : Shown(k)' => Shown(k)
    BY <1>1 DEF Shown
  <2>2. scan # "none" => /\ readable' = {k \in 0 .. Len(haystack') - 1 : Shown(k)'}
                         /\ scan' = "fault" => readable' # 0 .. Len(haystack') - 1
    <3>1. ASSUME scan # "none"
          PROVE  readable = {k \in 0 .. Len(haystack) - 1 : Shown(k)}
                 /\ (scan = "fault" => readable # 0 .. Len(haystack) - 1)
      BY <1>2, <3>1 DEF FoundInv
    <3>2. haystack' = haystack /\ scan' = scan
      BY <1>1
    <3>3. QED
      BY <1>1, <2>1, <3>1, <3>2
  <2>3. \A k : At(haystack', k) = At(haystack, k)
    BY <1>1 DEF At
  <2>4. QED
    BY <1>1, <1>2, <2>2, <2>3 DEF FoundInv
<1>6. QED
  BY <1>3, <1>4, <1>5 DEF IInv

--------------------------------------------------------------------------------
(* Theorems *)

\* The inductive invariant holds of every reachable state.
THEOREM SearchHolds == Spec => []IInv
<1>1. Init => IInv
  BY Initially
<1>2. IInv /\ [Next]_vars => IInv'
  <2> SUFFICES ASSUME IInv, [Next]_vars PROVE IInv'
    OBVIOUS
  <2>1. CASE Next
    BY <2>1, FindModuleKeeps, ReadLineKeeps, LookupKeeps, SearchKeeps, UnloadKeeps DEF Next
  <2>2. CASE UNCHANGED vars
    <3>1. UNCHANGED <<haystack, readable, pattern, i, results, scan, sweepVars>>
          /\ UNCHANGED <<maps, memory, call, name, at, modules, found>>
      BY <2>2 DEF vars, scanVars
    <3>2. SweepTypes' /\ ScanInv' /\ SweepInv'
      BY <3>1, SearchAlone DEF IInv
    <3>3. MapTypes' /\ ModuleInv' /\ FoundInv'
      BY <3>1 DEF IInv, MapTypes, Apart, ModuleInv, NoLineLeft, Covers, FoundInv, Shown, At
    <3>4. QED
      BY <3>2, <3>3 DEF IInv
  <2>3. QED
    BY <2>1, <2>2
<1>3. QED
  BY <1>1, <1>2, PTL DEF Spec

\* Every pattern is found in every memory, overlapping matches and those under wildcards
\* included: no shift of the table jumps over one (native_memory.cc:163-219).
THEOREM EveryMatchIsFound == Spec => []FindsEveryMatch
<1>1. IInv => FindsEveryMatch
  BY MatchesFound DEF IInv, SweepTypes
<1>2. QED
  BY <1>1, SearchHolds, PTL

\* The sweep reports every instruction that refers to the target, once and in order, for
\* every instruction set whose instructions end inside the bytes they are decoded from
\* (native_disassembler.cc:266-309).
THEOREM EveryXrefIsFound == Spec => []FindsEveryXref
<1>1. IInv => FindsEveryXref
  BY XrefsFound DEF IInv
<1>2. QED
  BY <1>1, SearchHolds, PTL

LEMMA ModuleSearched ==
  ASSUME IInv
  PROVE  WholeModuleSearched
<1> SUFFICES ASSUME scan = "done", m > 0, FitsInt(found), NEW l \in maps, NEW a \in 0 .. Top - 1,
                    l.path # NoPath, PathRead[l.path] = found.path, Occurs(a, l)
             PROVE  \E n \in DOMAIN results : found.base + results[n] = a
  BY DEF WholeModuleSearched
<1>1. /\ SweepTypes /\ MapTypes /\ ScanInv /\ ModuleInv /\ FoundInv /\ m \in Nat
      /\ Len(haystack) \in Nat /\ Top \in Nat /\ a \in Nat
  BY SearchConstants DEF IInv, SweepTypes, ScanTypes, m
<1>2. PICK g \in DOMAIN modules : found = modules[g]
  BY <1>1 DEF FoundInv
<1>3. call = "search" /\ l.start < at
  BY <1>1 DEF FoundInv, ModuleInv, MapTypes, NoLineLeft
<1>4. PICK f \in DOMAIN modules : Covers(modules[f], l)
  BY <1>1, <1>3 DEF ModuleInv
<1>5. found.base <= l.start /\ l.end <= found.end
  BY <1>1, <1>2, <1>4 DEF ModuleInv, Covers
<1>6. /\ found.base \in Nat /\ found.end \in Nat /\ l.start \in Nat /\ l.end \in Nat
      /\ l.start <= a /\ a + m <= l.end /\ l.end <= Top
  BY <1>1, <1>2, ModuleFacts, LineFacts DEF Occurs
<1> DEFINE k == a - found.base
<1>7. k \in 0 .. Len(haystack) - m /\ found.base + k = a
  BY SMTT(30), <1>1, <1>5, <1>6 DEF FoundInv
<1> HIDE DEF k
<1>8. MatchesAt(k)
  <2>1. ASSUME NEW j \in 0 .. m - 1
        PROVE  Fits(j, At(haystack, k + j))
    <3>1. k + j \in 0 .. Len(haystack) - 1 /\ found.base + (k + j) = a + j /\ a + j <= Top
      BY SMTT(30), <1>1, <1>6, <1>7
    <3>2. At(haystack, k + j) = memory[a + j]
      <4>1. \A q \in 0 .. Len(haystack) - 1 :
              found.base + q <= Top => At(haystack, q) = memory[found.base + q]
        BY <1>1 DEF FoundInv
      <4>2. QED
        BY <3>1, <4>1
    <3>3. At(pattern, j) \in {Any, memory[a + j]}
      BY DEF Occurs
    <3>4. QED
      BY <3>2, <3>3 DEF Fits
  <2>2. QED
    BY <2>1 DEF MatchesAt
<1>9. FindsEveryMatch
  BY <1>1, MatchesFound DEF SweepTypes
<1>10. k \in {results[n] : n \in 1 .. Len(results)}
  BY <1>7, <1>8, <1>9 DEF FindsEveryMatch
<1>11. DOMAIN results = 1 .. Len(results)
  BY <1>1 DEF SweepTypes, ScanTypes
<1>12. QED
  BY <1>7, <1>10, <1>11

\* Every occurrence inside a mapping of the module is reported, however the kernel has
\* split the file and whatever other files were unloaded meanwhile, if an int holds its
\* size (native_process.cc:184-224, native_memory.cc:199-219).
THEOREM ModuleIsSearched == Spec => []WholeModuleSearched
<1>1. IInv => WholeModuleSearched
  BY ModuleSearched
<1>2. QED
  BY <1>1, SearchHolds, PTL

\* "Module not found" means that no file of that name is mapped, unless its path has a
\* blank (native_process.cc:192-216, 480-481).
THEOREM AbsentIfNotFound == Spec => []NotFoundMeansAbsent
<1>1. IInv => NotFoundMeansAbsent
  <2> SUFFICES ASSUME IInv, call = "not-found", NEW l \in maps, l.path # NoPath, PathRead[l.path] = l.path
               PROVE  Name[l.path] # name
    BY DEF NotFoundMeansAbsent
  <2>1. ModuleInv /\ l.start < at
    BY DEF IInv, ModuleInv, NoLineLeft
  <2>2. PICK n \in DOMAIN modules : Covers(modules[n], l)
    BY <2>1 DEF ModuleInv
  <2>3. QED
    BY <2>1, <2>2 DEF ModuleInv, Covers
<1>2. QED
  BY <1>1, SearchHolds, PTL

\* A search that dies met an address of the module that is not mapped: it reads nothing
\* before its base or behind its end, if an int holds its size (native_process.cc:222,
\* native_memory.cc:199-219, native_disassembler.cc:280-282).
THEOREM FaultsComeFromGaps == Spec => []FaultsOnlyInGaps
<1>1. IInv => FaultsOnlyInGaps
  <2> SUFFICES ASSUME IInv, scan = "fault", FitsInt(found)
               PROVE  \E a \in found.base .. found.end - 1 : ~Mapped(a)
    BY DEF FaultsOnlyInGaps
  <2>1. /\ FoundInv /\ MapTypes
        /\ Len(haystack) = found.end - found.base
        /\ readable = {k \in 0 .. Len(haystack) - 1 : Shown(k)}
        /\ readable # 0 .. Len(haystack) - 1
    BY DEF IInv, FoundInv
  <2>2. PICK k \in 0 .. Len(haystack) - 1 : ~Shown(k)
    BY <2>1
  <2>3. PICK g \in DOMAIN modules : found = modules[g]
    BY <2>1 DEF FoundInv
  <2>4. found.base \in Nat /\ found.end \in Nat
    BY <2>1, <2>3, ModuleFacts
  <2>5. found.base + k \in found.base .. found.end - 1
    BY <2>1, <2>2, <2>4
  <2>6. ~Mapped(found.base + k)
    BY <2>2 DEF Mapped, Shown
  <2>7. QED
    BY <2>5, <2>6
<1>2. QED
  BY <1>1, SearchHolds, PTL
================================================================================
