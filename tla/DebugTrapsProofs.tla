---------------------------- MODULE DebugTrapsProofs ----------------------------
(****************************************************************************)
(* Theorems about DebugTraps, for any program, any number of threads, debug *)
(* registers and breakpoints.                                               *)
(*                                                                          *)
(* The inductive invariant has one part for the maps of native_hw_breakpoint *)
(* (EntryInv), one for the registers (ArmedInv), one for the chain of       *)
(* handlers (ChainInv) and one for where the threads are (ThreadInv).       *)
(****************************************************************************)
EXTENDS DebugTraps, FiniteSetTheorems, SequenceTheorems, TLAPS

--------------------------------------------------------------------------------
(* The least number of a set, and what a sequence keeps when an element is removed *)

LEMMA LeastExists ==
  ASSUME NEW S, S \subseteq Nat, S # {}
  PROVE  \E m \in S : \A n \in S : m <= n
<1> DEFINE Less == {p \in Nat \X Nat : p[1] < p[2]}
<1>1. IsWellFoundedOn(Less, Nat)
  BY NatLessThanWellFounded DEF OpToRel
<1>2. PICK m \in S : \A n \in S : <<n, m>> \notin Less
  BY <1>1, WFMin
<1>3. \A n \in S : ~(n < m)
  <2>1. ASSUME NEW n \in S, n < m
        PROVE  FALSE
    <3>1. n \in Nat /\ m \in Nat
      OBVIOUS
    <3>2. <<n, m>> \in Nat \X Nat /\ <<n, m>>[1] = n /\ <<n, m>>[2] = m
      BY <3>1
    <3>3. <<n, m>> \in Less
      BY <2>1, <3>2
    <3>4. QED
      BY <1>2, <3>3
  <2>2. QED
    BY <2>1
<1>4. QED
  BY <1>3

LEMMA MinIsLeast ==
  ASSUME NEW S, S \subseteq Nat, S # {}
  PROVE  Min(S) \in S /\ \A n \in S : Min(S) <= n
BY LeastExists DEF Min

LEMMA RemoveFirstKeeps ==
  ASSUME NEW S, NEW s \in Seq(S), NEW e
  PROVE  /\ RemoveFirst(s, e) \in Seq(S)
         /\ \A f : f # e /\ Contains(s, f) => Contains(RemoveFirst(s, e), f)
         /\ \A i \in 1 .. Len(RemoveFirst(s, e)) :
              \E j \in 1 .. Len(s) : i <= j /\ RemoveFirst(s, e)[i] = s[j]
<1>0. Len(s) \in Nat /\ \A i \in 1 .. Len(s) : s[i] \in S
  BY LenProperties
<1>1. CASE ~\E i \in 1..Len(s): s[i] = e
  <2>1. RemoveFirst(s, e) = s
    BY <1>1 DEF RemoveFirst
  <2>2. \A i \in 1 .. Len(s) : i <= i
    BY <1>0
  <2>3. QED
    BY <2>1, <2>2
<1>2. CASE \E i \in 1..Len(s): s[i] = e
  <2>1. RemoveFirst(s, e) = RemoveAt(s, SelectInSeq(s, LAMBDA v : v = e))
    BY <1>2 DEF RemoveFirst
  <2> DEFINE k == SelectInSeq(s, LAMBDA v : v = e)
  <2>2. k \in 1 .. Len(s) /\ s[k] = e
    <3>1. {i \in 1 .. Len(s) : s[i] = e} # {}
      BY <1>2
    <3>2. k = Min({i \in 1 .. Len(s) : s[i] = e})
      BY <3>1 DEF SelectInSeq
    <3>3. ASSUME NEW I, I \subseteq Nat, I # {}
          PROVE  Min(I) \in I
      BY <3>3, MinIsLeast
    <3>4. {i \in 1 .. Len(s) : s[i] = e} \subseteq Nat
      BY <1>0
    <3>5. Min({i \in 1 .. Len(s) : s[i] = e}) \in {i \in 1 .. Len(s) : s[i] = e}
      BY <3>1, <3>3, <3>4
    <3>6. QED
      BY <3>2, <3>5
  <2> HIDE DEF k
  <2> DEFINE a == SubSeq(s, 1, k-1)
             b == SubSeq(s, k+1, Len(s))
  <2>3. /\ a \in Seq(S) /\ b \in Seq(S) /\ Len(a) = k - 1 /\ Len(b) = Len(s) - k
        /\ \A i \in 1 .. k - 1 : a[i] = s[i]
        /\ \A i \in 1 .. Len(s) - k : b[i] = s[k + i]
    <3>1. k - 1 \in Int /\ k + 1 \in Int /\ Len(s) \in Int /\ 1 \in Int
      BY <1>0, <2>2
    <3>2. (\A i \in 1 .. k - 1 : s[i] \in S) /\ (\A i \in k + 1 .. Len(s) : s[i] \in S)
      BY <1>0, <2>2
    <3>3. QED
      BY <1>0, <2>2, <3>1, <3>2, SubSeqProperties
  <2>4. RemoveAt(s, k) = a \o b
    BY DEF RemoveAt
  <2> HIDE DEF a, b
  <2>5. /\ a \o b \in Seq(S) /\ Len(a \o b) = Len(s) - 1
        /\ \A i \in 1 .. Len(s) - 1 : (a \o b)[i] = IF i < k THEN s[i] ELSE s[i + 1]
    <3>0. /\ a \o b \in Seq(S) /\ Len(a \o b) = Len(a) + Len(b)
          /\ \A i \in 1 .. Len(a) + Len(b) :
               (a \o b)[i] = IF i <= Len(a) THEN a[i] ELSE b[i - Len(a)]
      BY <2>3, ConcatProperties, Zenon
    <3>1. /\ a \o b \in Seq(S) /\ Len(a \o b) = (k - 1) + (Len(s) - k)
          /\ \A i \in 1 .. (k - 1) + (Len(s) - k) :
               (a \o b)[i] = IF i <= k - 1 THEN a[i] ELSE b[i - (k - 1)]
      BY <2>3, <3>0
    <3>2. (k - 1) + (Len(s) - k) = Len(s) - 1 /\ k \in Nat
      BY <1>0, <2>2
    <3>3. ASSUME NEW i \in 1 .. Len(s) - 1
          PROVE  (a \o b)[i] = IF i < k THEN s[i] ELSE s[i + 1]
      <4>1. CASE i < k
        <5>1. i \in 1 .. k - 1 /\ i <= k - 1
          BY <1>0, <3>2, <4>1
        <5>2. QED
          BY <2>3, <3>1, <3>2, <4>1, <5>1
      <4>2. CASE ~(i < k)
        <5>1. i - (k - 1) \in 1 .. Len(s) - k /\ ~(i <= k - 1) /\ k + (i - (k - 1)) = i + 1
          BY <1>0, <3>2, <4>2
        <5>2. QED
          BY <2>3, <3>1, <3>2, <4>2, <5>1
      <4>3. QED
        BY <4>1, <4>2
    <3>4. QED
      BY <3>1, <3>2, <3>3
  <2>6. ASSUME NEW f, f # e, NEW j \in 1 .. Len(s), s[j] = f
        PROVE  Contains(a \o b, f)
    <3>1. j # k
      BY <2>2, <2>6
    <3>2. CASE j < k
      <4>1. j \in 1 .. Len(s) - 1 /\ (a \o b)[j] = f
        BY <1>0, <2>2, <2>5, <2>6, <3>2
      <4>2. QED
        BY <2>5, <4>1 DEF Contains
    <3>3. CASE j > k
      <4>0. j - 1 \in 1 .. Len(s) - 1 /\ ~(j - 1 < k) /\ (j - 1) + 1 = j
        BY <1>0, <2>2, <3>3
      <4>1. j - 1 \in 1 .. Len(s) - 1 /\ (a \o b)[j - 1] = f
        BY <2>5, <2>6, <4>0
      <4>2. QED
        BY <2>5, <4>1 DEF Contains
    <3>4. QED
      BY <1>0, <2>2, <3>1, <3>2, <3>3
  <2>7. ASSUME NEW i \in 1 .. Len(a \o b)
        PROVE  \E j \in 1 .. Len(s) : i <= j /\ (a \o b)[i] = s[j]
    <3>1. /\ i \in 1 .. Len(s) /\ i <= i /\ i + 1 \in 1 .. Len(s) /\ i <= i + 1
          /\ i \in 1 .. Len(s) - 1
      BY <1>0, <2>5
    <3>2. (a \o b)[i] = s[i] \/ (a \o b)[i] = s[i + 1]
      BY <2>5, <3>1
    <3>3. QED
      BY <3>1, <3>2
  <2>8. RemoveFirst(s, e) = a \o b
    BY <2>1, <2>4 DEF k
  <2>9. QED
    BY <2>5, <2>6, <2>7, <2>8 DEF Contains
<1>3. QED
  BY <1>1, <1>2

--------------------------------------------------------------------------------
(* The inductive invariant *)

Entries == [address : Nat, type : {"none", "execute", "write"}, slot : Nat]

\* The two maps and the used slots describe the same set of breakpoints.
EntryInv ==
  /\ hwEntry \in [Ids -> Entries]
  /\ nextHwId \in 1 .. MaxIds + 1 /\ hwById \subseteq 1 .. nextHwId - 1
  /\ \A id \in hwById :
       /\ hwEntry[id].address \in DOMAIN hwByAddress /\ hwByAddress[hwEntry[id].address] = id
       /\ hwEntry[id].slot \in Slots
       /\ hwEntry[id].type = TypeAt(hwEntry[id].address)
  /\ \A a \in DOMAIN hwByAddress : /\ a \in Addresses /\ hwByAddress[a] \in hwById
                                   /\ hwEntry[hwByAddress[a]].address = a
  /\ \A id, jd \in hwById : hwEntry[id].slot = hwEntry[jd].slot => id = jd
  /\ usedSlots = SlotsOf(hwById)
  /\ \A w \in armed : w.slot \in Slots

Watch(id) == [thread |-> Script, slot |-> hwEntry[id].slot,
              address |-> hwEntry[id].address, type |-> hwEntry[id].type]

\* Exactly the breakpoints that are set are armed, all of them in the thread of the script.
ArmedInv == armed = {Watch(id) : id \in hwById}

\* Whoever has breakpoints in the program is asked.
ChainInv ==
  /\ chain \in Seq({"hw", "sw"})
  /\ hwById # {} => InChain("hw")
  /\ software # {} => InChain("sw")

Places == [phase : {"outside", "code", "trampoline", "callback", "relocated"},
           at : 0 .. Size, id : Nat, told : BOOLEAN]

ThreadInv ==
  /\ software \subseteq Code /\ crashed \in BOOLEAN
  /\ thread \in [Threads -> Places] /\ dr6 \in [Threads -> SUBSET Slots]
  /\ \A t \in Threads :
       /\ thread[t].phase \in {"trampoline", "callback", "relocated"} => thread[t].at \in Code
       /\ thread[t].told <=> thread[t].phase \in {"callback", "relocated"}

BaseInv == EntryInv /\ ChainInv /\ ThreadInv

\* A thread in a trampoline is at a breakpoint that is still set.
TrampolineInv ==
  \A t \in Threads :
    thread[t].phase = "trampoline" =>
      thread[t].at \in software \/ (t = Script /\ thread[t].at \in DOMAIN hwByAddress)

ApartInv == \A a \in software, b \in DOMAIN hwByAddress : b \in Code => b - a \notin {-1, 0, 1}
--------------------------------------------------------------------------------
(* The maps, the slots and the registers *)

LEMMA Numbers ==
  /\ Size \in Nat /\ Code = 0 .. Size - 1 /\ Advance = 1
  /\ MaxHw \in Nat /\ MaxIds \in Nat /\ Script \in Threads
  /\ Code \subseteq Nat /\ Data \subseteq Nat /\ Code \intersect Data = {}
  /\ Addresses \subseteq Nat /\ Slots \subseteq Nat /\ Ids \subseteq Nat
BY TrapConstants, HardwareConstants DEF Addresses, Slots, Ids

\* The parts of EntryInv that are cited most.
LEMMA EntryFacts ==
  ASSUME EntryInv
  PROVE  /\ hwById \subseteq Ids
         /\ \A id \in hwById : hwEntry[id] \in Entries
         /\ \A id \in hwById : /\ hwEntry[id].address \in DOMAIN hwByAddress
                               /\ hwByAddress[hwEntry[id].address] = id
         /\ \A a \in DOMAIN hwByAddress : hwByAddress[a] \in hwById
         /\ \A id, jd \in hwById : hwEntry[id].slot = hwEntry[jd].slot => id = jd
         /\ hwById = {hwByAddress[a] : a \in DOMAIN hwByAddress}
         /\ usedSlots = SlotsOf(hwById)
<1>1. hwById \subseteq Ids
  BY Numbers DEF EntryInv, Ids
<1>2. \A id \in hwById : hwEntry[id] \in Entries
  BY <1>1 DEF EntryInv
<1>3. /\ \A id \in hwById : /\ hwEntry[id].address \in DOMAIN hwByAddress
                            /\ hwByAddress[hwEntry[id].address] = id
      /\ \A a \in DOMAIN hwByAddress : hwByAddress[a] \in hwById
      /\ \A id, jd \in hwById : hwEntry[id].slot = hwEntry[jd].slot => id = jd
      /\ usedSlots = SlotsOf(hwById)
  BY DEF EntryInv
<1>4. hwById = {hwByAddress[a] : a \in DOMAIN hwByAddress}
  BY <1>3
<1>5. QED
  BY <1>1, <1>2, <1>3, <1>4

\* findFreeSlot() finds one whenever set() has passed its test of maxBp.
LEMMA FreeSlotIsFree ==
  ASSUME EntryInv, NEW a, Accepted(a), nextHwId <= MaxIds
  PROVE  FreeSlot \in Slots \ usedSlots
<1> DEFINE D == DOMAIN hwByAddress
           f == [b \in D |-> hwByAddress[b]]
           g == [b \in D |-> hwEntry[hwByAddress[b]].slot]
<1>1. Slots = 0 .. MaxHw - 1
  BY DEF Slots
<1>2. IsFiniteSet(D)
  <2>0. hwById \subseteq 1 .. MaxIds
    BY Numbers DEF EntryInv
  <2>1. f \in [D -> 1 .. MaxIds]
    BY <2>0 DEF EntryInv
  <2>2. \A b, c \in D : f[b] = f[c] => b = c
    BY DEF EntryInv
  <2>3. f \in Injection(D, 1 .. MaxIds)
    BY <2>1, <2>2 DEF Injection, IsInjective
  <2>4. IsFiniteSet(1 .. MaxIds)
    BY Numbers, FS_Interval
  <2>5. QED
    BY <2>3, <2>4, FS_Injection
<1>3. IsFiniteSet(usedSlots) /\ Cardinality(usedSlots) <= Cardinality(D)
  <2>1. g \in [D -> usedSlots]
    BY DEF EntryInv, SlotsOf
  <2>2. \A s \in usedSlots : \E b \in D : g[b] = s
    BY DEF EntryInv, SlotsOf
  <2>3. g \in Surjection(D, usedSlots)
    BY <2>1, <2>2 DEF Surjection
  <2>4. QED
    BY <1>2, <2>3, FS_Surjection
<1>4. Cardinality(usedSlots) < MaxHw
  <2>1. Cardinality(D) < MaxHw /\ Cardinality(D) \in Nat /\ Cardinality(usedSlots) \in Nat
    BY <1>2, <1>3, FS_CardinalityType DEF Accepted
  <2>2. QED
    BY <1>3, <2>1, Numbers
<1>5. Cardinality(0 .. MaxHw - 1) = MaxHw
  BY Numbers, FS_Interval
<1>6. Slots \ usedSlots # {}
  <2>1. usedSlots \subseteq Slots
    BY DEF EntryInv, SlotsOf
  <2>2. ASSUME Slots \ usedSlots = {}
        PROVE  FALSE
    <3>1. usedSlots = 0 .. MaxHw - 1
      BY <1>1, <2>1, <2>2
    <3>2. Cardinality(usedSlots) = MaxHw
      BY <1>5, <3>1
    <3>3. QED
      BY <1>4, <3>2, Numbers
  <2>3. QED
    BY <2>2
<1>7. Slots \ usedSlots \subseteq Nat
  BY Numbers
<1>8. QED
  BY <1>6, <1>7, LeastExists DEF FreeSlot

\* set() adds one breakpoint with a slot of its own.
Added(t, a, type, id, slot) ==
  /\ id = nextHwId /\ id \notin hwById /\ nextHwId' = id + 1
  /\ a \notin DOMAIN hwByAddress
  /\ slot \notin usedSlots
  /\ hwEntry' \in [Ids -> Entries]
  /\ hwEntry'[id] = [address |-> a, type |-> type, slot |-> slot]
  /\ \A jd \in hwById : hwEntry'[jd] = hwEntry[jd]
  /\ usedSlots' = usedSlots \union {slot}
  /\ armed' = armed \union {[thread |-> t, slot |-> slot, address |-> a, type |-> type]}
  /\ hwById' = hwById \union {id}
  /\ DOMAIN hwByAddress' = DOMAIN hwByAddress \union {a}
  /\ hwByAddress'[a] = id
  /\ \A b \in DOMAIN hwByAddress : hwByAddress'[b] = hwByAddress[b]

LEMMA SetFacts ==
  ASSUME EntryInv, NEW t \in Threads, NEW a \in Addresses, NEW type \in {"execute", "write"},
         SetHardware(t, a, type)
  PROVE  \E id \in Ids, slot \in Slots :
           Added(t, a, type, id, slot)
<1> DEFINE id == nextHwId
           slot == FreeSlot
<1>1. Accepted(a) /\ nextHwId <= MaxIds
  BY DEF SetHardware
<1>2. slot \in Slots \ usedSlots
  BY <1>1, FreeSlotIsFree
<1>3. id \in Ids /\ id \notin hwById /\ a \notin DOMAIN hwByAddress
  BY <1>1, Numbers DEF EntryInv, Ids, Accepted
<1> HIDE DEF slot
<1>4. /\ hwEntry' = [hwEntry EXCEPT ![id] = [address |-> a, type |-> type, slot |-> slot]]
      /\ usedSlots' = usedSlots \union {slot}
      /\ armed' = armed \union {[thread |-> t, slot |-> slot, address |-> a, type |-> type]}
      /\ hwById' = hwById \union {id}
      /\ hwByAddress' = [b \in DOMAIN hwByAddress \union {a} |->
                           IF b = a THEN id ELSE hwByAddress[b]]
      /\ nextHwId' = id + 1
  BY DEF SetHardware, slot
<1>5. [address |-> a, type |-> type, slot |-> slot] \in Entries
  BY <1>2, Numbers DEF Entries
<1>6. /\ hwEntry' \in [Ids -> Entries]
      /\ hwEntry'[id] = [address |-> a, type |-> type, slot |-> slot]
      /\ \A jd \in hwById : hwEntry'[jd] = hwEntry[jd]
  BY <1>3, <1>4, <1>5 DEF EntryInv
<1>7. Added(t, a, type, id, slot)
  BY <1>2, <1>3, <1>4, <1>6 DEF Added
<1>8. QED
  BY <1>2, <1>3, <1>7

LEMMA SetKeepsEntries ==
  ASSUME EntryInv, NEW t \in Threads, NEW a \in Addresses, NEW type,
         type = TypeAt(a),
         SetHardware(t, a, type)
  PROVE  EntryInv'
<1>1. PICK id \in Ids, slot \in Slots :
           Added(t, a, type, id, slot)
  BY SetFacts DEF TypeAt
<1> USE <1>1 DEF Added
<1>2. nextHwId' \in 1 .. MaxIds + 1 /\ hwById' \subseteq 1 .. nextHwId' - 1
  BY <1>1, Numbers DEF EntryInv, Ids
<1>3. /\ hwEntry'[id].address = a /\ hwEntry'[id].slot = slot /\ hwEntry'[id].type = type
  BY <1>1
<1>4. \A jd \in hwById' :
        /\ hwEntry'[jd].address \in DOMAIN hwByAddress' /\ hwByAddress'[hwEntry'[jd].address] = jd
        /\ hwEntry'[jd].slot \in Slots
        /\ hwEntry'[jd].type = TypeAt(hwEntry'[jd].address)
  BY <1>1, <1>3 DEF EntryInv
<1>5. \A b \in DOMAIN hwByAddress' : /\ b \in Addresses /\ hwByAddress'[b] \in hwById'
                                     /\ hwEntry'[hwByAddress'[b]].address = b
  <2>1. ASSUME NEW b \in DOMAIN hwByAddress
        PROVE  /\ b \in Addresses /\ hwByAddress'[b] \in hwById'
               /\ hwEntry'[hwByAddress'[b]].address = b
    <3>1. hwByAddress[b] \in hwById /\ hwEntry[hwByAddress[b]].address = b /\ b \in Addresses
      BY DEF EntryInv
    <3>2. QED
      BY <1>1, <3>1
  <2>2. hwByAddress'[a] \in hwById' /\ hwEntry'[hwByAddress'[a]].address = a
    BY <1>1, <1>3
  <2>3. QED
    BY <1>1, <2>1, <2>2
<1>6. \A jd \in hwById : hwEntry[jd].slot # slot
  BY <1>1 DEF EntryInv, SlotsOf
<1>7. \A jd, kd \in hwById' : hwEntry'[jd].slot = hwEntry'[kd].slot => jd = kd
  BY <1>1, <1>3, <1>6 DEF EntryInv
<1>8. usedSlots' = SlotsOf(hwById)'
  BY <1>1, <1>3 DEF EntryInv, SlotsOf
<1>9. \A w \in armed' : w.slot \in Slots
  BY <1>1 DEF EntryInv
<1>10. QED
  BY <1>1, <1>2, <1>4, <1>5, <1>7, <1>8, <1>9 DEF EntryInv

LEMMA EntriesStay ==
  ASSUME EntryInv,
         UNCHANGED <<hwEntry, nextHwId, hwById, hwByAddress, usedSlots, armed>>
  PROVE  EntryInv'
<1>1. SlotsOf(hwById)' = SlotsOf(hwById)
  BY DEF SlotsOf
<1>2. QED
  BY <1>1 DEF EntryInv

\* remove() and removeAll() give up the slots of what they remove, and no other.
LEMMA RemoveFacts ==
  ASSUME EntryInv, NEW t \in Threads, NEW ids, ids \subseteq hwById, RemoveIds(t, ids)
  PROVE  /\ UNCHANGED <<hwEntry, nextHwId>>
         /\ hwById' = hwById \ ids
         /\ usedSlots' = SlotsOf(hwById \ ids)
         /\ armed' = armed \ Cleared(t, ids)
         /\ DOMAIN hwByAddress' = {a \in DOMAIN hwByAddress : hwByAddress[a] \notin ids}
         /\ \A a \in DOMAIN hwByAddress' : hwByAddress'[a] = hwByAddress[a]
<1>1. /\ UNCHANGED <<hwEntry, nextHwId>>
      /\ hwById' = hwById \ ids
      /\ usedSlots' = usedSlots \ SlotsOf(ids)
      /\ armed' = armed \ Cleared(t, ids)
      /\ DOMAIN hwByAddress' = {a \in DOMAIN hwByAddress : hwByAddress[a] \notin ids}
      /\ \A a \in DOMAIN hwByAddress' : hwByAddress'[a] = hwByAddress[a]
  BY DEF RemoveIds
<1>2. SlotsOf(hwById) \ SlotsOf(ids) = SlotsOf(hwById \ ids)
  BY DEF SlotsOf, EntryInv
<1>3. QED
  BY <1>1, <1>2 DEF EntryInv

LEMMA RemoveKeepsEntries ==
  ASSUME EntryInv, NEW t \in Threads, NEW ids, ids \subseteq hwById, RemoveIds(t, ids)
  PROVE  EntryInv'
<1>1. /\ UNCHANGED <<hwEntry, nextHwId>>
      /\ hwById' = hwById \ ids
      /\ usedSlots' = SlotsOf(hwById \ ids)
      /\ armed' \subseteq armed
      /\ DOMAIN hwByAddress' = {a \in DOMAIN hwByAddress : hwByAddress[a] \notin ids}
      /\ \A a \in DOMAIN hwByAddress' : hwByAddress'[a] = hwByAddress[a]
  BY RemoveFacts
<1>2. \A id \in hwById' :
        /\ hwEntry'[id].address \in DOMAIN hwByAddress' /\ hwByAddress'[hwEntry'[id].address] = id
        /\ hwEntry'[id].slot \in Slots
        /\ hwEntry'[id].type = TypeAt(hwEntry'[id].address)
  BY <1>1 DEF EntryInv
<1>3. \A a \in DOMAIN hwByAddress' : /\ a \in Addresses /\ hwByAddress'[a] \in hwById'
                                     /\ hwEntry'[hwByAddress'[a]].address = a
  BY <1>1 DEF EntryInv
<1>4. usedSlots' = SlotsOf(hwById)'
  BY <1>1 DEF SlotsOf
<1>5. /\ hwEntry' \in [Ids -> Entries]
      /\ nextHwId' \in 1 .. MaxIds + 1 /\ hwById' \subseteq 1 .. nextHwId' - 1
      /\ \A id, jd \in hwById' : hwEntry'[id].slot = hwEntry'[jd].slot => id = jd
  BY <1>1 DEF EntryInv
<1>6. \A w \in armed' : w.slot \in Slots
  BY <1>1 DEF EntryInv
<1>7. QED
  BY <1>2, <1>3, <1>4, <1>5, <1>6 DEF EntryInv

--------------------------------------------------------------------------------
(* The chain of handlers *)

LEMMA ChainAppends ==
  ASSUME chain \in Seq({"hw", "sw"}), NEW name \in {"hw", "sw"}
  PROVE  /\ Append(chain, name) \in Seq({"hw", "sw"})
         /\ Contains(Append(chain, name), name)
         /\ \A other : Contains(chain, other) => Contains(Append(chain, name), other)
<1>1. /\ Append(chain, name) \in Seq({"hw", "sw"})
      /\ Len(Append(chain, name)) = Len(chain) + 1
      /\ \A i \in 1 .. Len(chain) : Append(chain, name)[i] = chain[i]
      /\ Append(chain, name)[Len(chain) + 1] = name
      /\ Len(chain) \in Nat
  BY AppendProperties, LenProperties
<1>2. QED
  BY <1>1 DEF Contains

\* ensureHwHandlerInstalled() and its counterpart.
LEMMA EnsureFacts ==
  ASSUME chain \in Seq({"hw", "sw"}), EnsureHandler
  PROVE  /\ chain' \in Seq({"hw", "sw"}) /\ InChain("hw")'
         /\ InChain("sw") => InChain("sw")'
<1>1. CASE InChain("hw")
  <2>1. chain' = chain
    BY <1>1 DEF EnsureHandler
  <2>2. QED
    BY <1>1, <2>1 DEF InChain
<1>2. CASE ~InChain("hw")
  <2>1. chain' = Append(chain, "hw")
    BY <1>2 DEF EnsureHandler
  <2>2. QED
    BY <2>1, ChainAppends DEF InChain
<1>3. QED
  BY <1>1, <1>2

LEMMA RemoveChainFacts ==
  ASSUME chain \in Seq({"hw", "sw"}), NEW left, MaybeRemoveHandler(left)
  PROVE  /\ chain' \in Seq({"hw", "sw"})
         /\ InChain("sw") => InChain("sw")'
         /\ DOMAIN left # {} /\ InChain("hw") => InChain("hw")'
<1>1. CASE DOMAIN left = {}
  <2>1. chain' = RemoveFirst(chain, "hw")
    BY <1>1 DEF MaybeRemoveHandler
  <2>2. QED
    BY <1>1, <2>1, RemoveFirstKeeps DEF InChain
<1>2. CASE DOMAIN left # {}
  <2>1. chain' = chain
    BY <1>2 DEF MaybeRemoveHandler
  <2>2. QED
    BY <2>1 DEF InChain
<1>3. QED
  BY <1>1, <1>2
--------------------------------------------------------------------------------
(* The calls of the script *)

\* The calls that touch the hardware breakpoints, by what they do.
LEMMA HardwareCallCases ==
  ASSUME NEW t \in Threads, HardwareCall(t)
  PROVE  /\ MayCall(t) /\ UNCHANGED <<software, thread, dr6, reported, crashed>>
         /\ \/ \E a \in Addresses : /\ a \in Code => MayBreak(a)
                                    /\ SetHardware(t, a, TypeAt(a))
            \/ \E a \in Addresses : SetHardwareFails(a)
            \/ \E ids \in SUBSET hwById : RemoveIds(t, ids)
<1>1. ASSUME NEW id \in hwById, RemoveHardware(t, id)
      PROVE  \E ids \in SUBSET hwById : RemoveIds(t, ids)
  BY <1>1 DEF RemoveHardware
<1>2. ASSUME RemoveAllHardware(t)
      PROVE  \E ids \in SUBSET hwById : RemoveIds(t, ids)
  BY <1>2 DEF RemoveAllHardware
<1>3. QED
  BY <1>1, <1>2 DEF HardwareCall

LEMMA HardwareCallKeeps ==
  ASSUME BaseInv, NEW t \in Threads, HardwareCall(t)
  PROVE  BaseInv'
<1> USE DEF BaseInv
<1>1. UNCHANGED <<software, thread, dr6, crashed>>
  BY HardwareCallCases
<1>2. ThreadInv'
  BY <1>1 DEF ThreadInv
<1>3. ASSUME NEW a \in Addresses,
             SetHardware(t, a, TypeAt(a))
      PROVE  EntryInv' /\ ChainInv'
  <2>1. EntryInv'
    BY <1>3, SetKeepsEntries
  <2>2. EnsureHandler
    BY <1>3 DEF SetHardware
  <2>3. ChainInv'
    BY <1>1, <2>2, EnsureFacts DEF ChainInv
  <2>4. QED
    BY <2>1, <2>3
<1>4. ASSUME NEW a \in Addresses, SetHardwareFails(a)
      PROVE  EntryInv' /\ ChainInv'
  <2>1. UNCHANGED <<hwEntry, nextHwId, hwById, hwByAddress, usedSlots, armed>> /\ EnsureHandler
    BY <1>4 DEF SetHardwareFails
  <2>2. EntryInv'
    BY <2>1, EntriesStay
  <2>3. ChainInv'
    BY <1>1, <2>1, EnsureFacts DEF ChainInv
  <2>4. QED
    BY <2>2, <2>3
<1>5. ASSUME NEW ids \in SUBSET hwById, RemoveIds(t, ids)
      PROVE  EntryInv' /\ ChainInv'
  <2>1. EntryInv'
    BY <1>5, RemoveKeepsEntries
  <2>2. MaybeRemoveHandler(hwByAddress')
    BY <1>5 DEF RemoveIds
  <2>3. hwById' # {} => DOMAIN hwByAddress' # {} /\ hwById # {}
    BY <1>5, <2>1, RemoveFacts DEF EntryInv
  <2>4. ChainInv'
    BY <1>1, <2>2, <2>3, RemoveChainFacts DEF ChainInv
  <2>5. QED
    BY <2>1, <2>4
<1>6. QED
  BY <1>2, <1>3, <1>4, <1>5, HardwareCallCases

LEMMA SoftwareCallKeeps ==
  ASSUME BaseInv, NEW t \in Threads, NEW a \in Code, SetSoftware(t, a) \/ RemoveSoftware(t, a)
  PROVE  BaseInv'
<1> USE DEF BaseInv
<1>1. UNCHANGED <<hwVars, thread, dr6, crashed>>
  BY DEF SetSoftware, RemoveSoftware
<1>2. EntryInv'
  BY <1>1, EntriesStay DEF hwVars
<1>3. software' \subseteq Code
  BY DEF SetSoftware, RemoveSoftware, ThreadInv
<1>4. ThreadInv'
  BY <1>1, <1>3 DEF ThreadInv
<1>5. chain' \in Seq({"hw", "sw"}) /\ (InChain("hw") => InChain("hw")')
      /\ (software' # {} => InChain("sw")')
  <2>1. CASE SetSoftware(t, a)
    <3>1. CASE InChain("sw")
      BY <2>1, <3>1 DEF SetSoftware, InChain, ChainInv
    <3>2. CASE ~InChain("sw")
      <4>1. chain' = Append(chain, "sw")
        BY <2>1, <3>2 DEF SetSoftware
      <4>2. QED
        BY <4>1, ChainAppends DEF InChain, ChainInv
    <3>3. QED
      BY <3>1, <3>2
  <2>2. CASE RemoveSoftware(t, a)
    <3>1. CASE software' = {}
      <4>1. chain' = RemoveFirst(chain, "sw")
        BY <2>2, <3>1 DEF RemoveSoftware
      <4>2. QED
        BY <3>1, <4>1, RemoveFirstKeeps DEF InChain, ChainInv
    <3>2. CASE software' # {}
      <4>1. chain' = chain /\ software # {}
        BY <2>2, <3>2 DEF RemoveSoftware
      <4>2. QED
        BY <4>1 DEF InChain, ChainInv
    <3>3. QED
      BY <3>1, <3>2
  <2>3. QED
    BY <2>1, <2>2
<1>6. ChainInv'
  BY <1>1, <1>5 DEF ChainInv, hwVars
<1>7. QED
  BY <1>2, <1>4, <1>6

--------------------------------------------------------------------------------
(* The signal *)

LEMMA RedirectsAtCode ==
  ASSUME EntryInv, NEW pc, HwRedirects(pc)
  PROVE  /\ pc \in Code /\ pc \in DOMAIN hwByAddress
         /\ hwByAddress[pc] \in hwById /\ hwByAddress[pc] \in Nat
<1>1. pc \in DOMAIN hwByAddress /\ hwEntry[hwByAddress[pc]].type = "execute"
  BY DEF HwRedirects
<1>2. hwByAddress[pc] \in hwById /\ hwEntry[hwByAddress[pc]].address = pc
  BY <1>1 DEF EntryInv
<1>3. hwEntry[hwByAddress[pc]].type = TypeAt(pc)
  BY <1>2 DEF EntryInv
<1>4. hwById \subseteq Nat
  BY DEF EntryInv
<1>5. QED
  BY <1>1, <1>2, <1>3, <1>4 DEF TypeAt

\* What becomes of a trap, by who takes it.
Dies == crashed' = TRUE /\ UNCHANGED <<thread, reported>>

ToSoftware(t, pc, written) ==
  /\ SwClaims(pc)
  /\ GoesTo(t, In("trampoline", pc - Advance, 0, FALSE))
  /\ reported' = [write |-> written, to |-> {}] /\ UNCHANGED crashed

ToHardware(t, pc, written) ==
  /\ HwRedirects(pc)
  /\ GoesTo(t, In("trampoline", pc, hwByAddress[pc], FALSE))
  /\ reported' = [write |-> written, to |-> {}] /\ UNCHANGED crashed

Reports(t, pc, bits, written, next) ==
  /\ ~HwRedirects(pc) /\ GoesTo(t, next)
  /\ \E id \in Owners(bits) : reported' = [write |-> written, to |-> {hwEntry[id].address}]
  /\ UNCHANGED crashed

Outcome(t, pc, hits, bits, written, next) ==
  \/ Dies /\ ~HwClaims(pc, bits) /\ (hits = {} => ~SwClaims(pc))
  \/ ToSoftware(t, pc, written)
  \/ ToHardware(t, pc, written)
  \/ Reports(t, pc, bits, written, next)

\* An entry that owns a slot of DR6 is found; whichever is found has its slot there.
LEMMA OwnerFound ==
  ASSUME EntryInv, NEW bits, NEW id \in hwById, hwEntry[id].slot \in bits
  PROVE  Owners(bits) # {}
<1> DEFINE hit   == {jd \in hwById : hwEntry[jd].slot \in bits}
           slots == {hwEntry[jd].slot : jd \in hit}
<1>1. slots \subseteq Nat /\ slots # {}
  <2>1. id \in hit
    OBVIOUS
  <2>2. hwEntry[id].slot \in slots
    BY <2>1
  <2>3. \A jd \in hwById : hwEntry[jd].slot \in Nat
    BY Numbers DEF EntryInv
  <2>4. QED
    BY <2>2, <2>3
<1>2. PICK m \in slots : \A n \in slots : m <= n
  <2> HIDE DEF slots
  <2>1. QED
    BY <1>1, LeastExists
<1>3. PICK jd \in hit : hwEntry[jd].slot = m
  BY <1>2
<1>4. \A other \in hit : hwEntry[jd].slot <= hwEntry[other].slot
  BY <1>2, <1>3
<1>5. QED
  BY <1>3, <1>4 DEF Owners

LEMMA OwnersAreSet == \A bits : Owners(bits) \subseteq hwById
BY DEF Owners

\* The claims of the first handler that claims, by what the handlers asked are.
LEMMA FirstClaim ==
  ASSUME NEW asked, Len(asked) \in Nat, NEW pc, NEW bits
  PROVE  /\ Handler(asked, pc, bits) # 0 =>
              /\ Handler(asked, pc, bits) \in 1 .. Len(asked)
              /\ Claims(asked[Handler(asked, pc, bits)], pc, bits)
              /\ \A j \in 1 .. Len(asked) :
                   Claims(asked[j], pc, bits) => Handler(asked, pc, bits) <= j
         /\ Handler(asked, pc, bits) = 0 =>
              \A j \in 1 .. Len(asked) : ~Claims(asked[j], pc, bits)
<1> DEFINE claiming == {i \in 1 .. Len(asked) : Claims(asked[i], pc, bits)}
           i == Handler(asked, pc, bits)
<1>1. i = IF claiming # {} THEN Min(claiming) ELSE 0
  BY DEF Handler, SelectInSeq
<1>2. claiming \subseteq Nat /\ 0 \notin claiming
  OBVIOUS
<1>3. claiming # {} => i \in claiming /\ \A j \in claiming : i <= j
  <2> HIDE DEF claiming, i
  <2>1. QED
    BY <1>1, <1>2, MinIsLeast
<1>4. claiming = {} <=> i = 0
  <2> HIDE DEF claiming, i
  <2>1. QED
    BY <1>1, <1>2, <1>3
<1> HIDE DEF i
<1>5. QED
  BY <1>3, <1>4 DEF i

LEMMA AskedLength ==
  ASSUME BaseInv, NEW hits, NEW asked \in Asked(hits)
  PROVE  Len(asked) \in Nat
<1>1. CASE asked = chain
  BY <1>1, LenProperties DEF BaseInv, ChainInv
<1>2. CASE asked = <<"hw">>
  BY <1>2
<1>3. QED
  BY <1>1, <1>2 DEF Asked

LEMMA TrapOutcomes ==
  ASSUME BaseInv, NEW t \in Threads, NEW pc, NEW hits, NEW written, NEW next,
         Trapped(t, pc, hits, written, next)
  PROVE  \E bits \in StatusBits(t, hits) :
           dr6' = [dr6 EXCEPT ![t] = bits] /\ Outcome(t, pc, hits, bits, written, next)
<1>1. PICK bits \in StatusBits(t, hits), asked \in Asked(hits) :
        /\ dr6' = [dr6 EXCEPT ![t] = bits]
        /\ LET i == Handler(asked, pc, bits)
           IN \/ /\ i = 0
                 /\ crashed' = TRUE /\ UNCHANGED <<thread, reported>>
              \/ /\ i # 0 /\ asked[i] = "sw"
                 /\ GoesTo(t, In("trampoline", pc - Advance, 0, FALSE))
                 /\ reported' = [write |-> written, to |-> {}] /\ UNCHANGED crashed
              \/ /\ i # 0 /\ asked[i] = "hw" /\ HwRedirects(pc)
                 /\ GoesTo(t, In("trampoline", pc, hwByAddress[pc], FALSE))
                 /\ reported' = [write |-> written, to |-> {}] /\ UNCHANGED crashed
              \/ /\ i # 0 /\ asked[i] = "hw" /\ ~HwRedirects(pc)
                 /\ GoesTo(t, next)
                 /\ \E id \in Owners(bits) :
                      reported' = [write |-> written, to |-> {hwEntry[id].address}]
                 /\ UNCHANGED crashed
  BY DEF Trapped
<1> DEFINE i == Handler(asked, pc, bits)
<1>2. Len(asked) \in Nat
  BY AskedLength
<1>3. ASSUME i = 0
      PROVE  ~HwClaims(pc, bits) /\ (hits = {} => ~SwClaims(pc))
  <2>1. \A j \in 1 .. Len(asked) : ~Claims(asked[j], pc, bits)
    BY <1>2, <1>3, FirstClaim
  <2>2. ASSUME HwClaims(pc, bits)
        PROVE  FALSE
    <3>1. hwById # {}
      BY <2>2, RedirectsAtCode, OwnersAreSet DEF HwClaims, BaseInv
    <3>2. \E j \in 1 .. Len(asked) : asked[j] = "hw"
      <4>1. CASE asked = chain
        BY <3>1, <4>1 DEF BaseInv, ChainInv, InChain, Contains
      <4>2. CASE asked = <<"hw">>
        BY <4>2
      <4>3. QED
        BY <4>1, <4>2 DEF Asked
    <3>3. QED
      BY <2>1, <2>2, <3>2 DEF Claims
  <2>3. ASSUME hits = {}, SwClaims(pc)
        PROVE  FALSE
    <3>1. asked = chain /\ software # {}
      BY <2>3 DEF Asked, SwClaims
    <3>2. \E j \in 1 .. Len(asked) : asked[j] = "sw"
      BY <3>1 DEF BaseInv, ChainInv, InChain, Contains
    <3>3. QED
      BY <2>1, <2>3, <3>2 DEF Claims
  <2>4. QED
    BY <2>2, <2>3
<1>4. i # 0 /\ asked[i] = "sw" => SwClaims(pc)
  BY <1>2, FirstClaim DEF Claims
<1> HIDE DEF i
<1>5. \/ i = 0 /\ Dies
      \/ i # 0 /\ asked[i] = "sw" /\ (SwClaims(pc) => ToSoftware(t, pc, written))
      \/ ToHardware(t, pc, written)
      \/ Reports(t, pc, bits, written, next)
  BY <1>1 DEF i, Dies, ToSoftware, ToHardware, Reports
<1>6. QED
  BY <1>1, <1>3, <1>4, <1>5 DEF Outcome

\* The handler of the software breakpoints is the first of the chain.
FirstInv == \A i \in 1 .. Len(chain) : chain[i] = "sw" => i = 1

\* Then an INT3 that is a software breakpoint goes to it, whatever DR6 says.
LEMMA SoftwareFirstTakes ==
  ASSUME BaseInv, FirstInv, NEW t \in Threads, NEW pc, NEW written, NEW next,
         SwClaims(pc), Trapped(t, pc, {}, written, next)
  PROVE  ToSoftware(t, pc, written)
<1>1. Asked({}) = {chain}
  BY DEF Asked
<1>2. PICK bits \in StatusBits(t, {}) :
        \/ Handler(chain, pc, bits) = 0
        \/ chain[Handler(chain, pc, bits)] = "sw" /\ (SwClaims(pc) => ToSoftware(t, pc, written))
        \/ chain[Handler(chain, pc, bits)] = "hw"
  BY <1>1 DEF Trapped, ToSoftware
<1> DEFINE i == Handler(chain, pc, bits)
<1>3. Len(chain) \in Nat
  BY LenProperties DEF BaseInv, ChainInv
<1>4. 1 \in 1 .. Len(chain) /\ chain[1] = "sw"
  <2>1. PICK j \in 1 .. Len(chain) : chain[j] = "sw"
    BY DEF SwClaims, BaseInv, ChainInv, InChain, Contains
  <2>2. j = 1
    BY <2>1 DEF FirstInv
  <2>3. QED
    BY <2>1, <2>2
<1>5. Claims(chain[1], pc, bits)
  BY <1>4 DEF Claims
<1>6. i = 1
  <2>1. i # 0 => i \in 1 .. Len(chain) /\ i <= 1
    BY <1>3, <1>4, <1>5, FirstClaim
  <2>2. i # 0
    BY <1>3, <1>4, <1>5, FirstClaim
  <2> HIDE DEF i
  <2>3. QED
    BY <1>3, <2>1, <2>2
<1>7. QED
  BY <1>2, <1>4, <1>6

--------------------------------------------------------------------------------
(* The threads in the program *)

ProgramStep(t) ==
  \/ Enter(t) \/ HardwareTrap(t) \/ SoftwareTrap(t) \/ Execute(t)
  \/ CallCallback(t) \/ RunRelocated(t) \/ ExecuteRelocated(t) \/ RunsReleased(t) \/ Leave(t)

LEMMA StepKinds ==
  ASSUME Next
  PROVE  \E t \in Threads : \/ \E a \in Code : SetSoftware(t, a) \/ RemoveSoftware(t, a)
                            \/ HardwareCall(t)
                            \/ ProgramStep(t)
BY DEF Next, ProgramStep

\* What ThreadInv says of the place of one thread.
Placed(place) ==
  /\ place \in Places
  /\ place.phase \in {"trampoline", "callback", "relocated"} => place.at \in Code
  /\ place.told <=> place.phase \in {"callback", "relocated"}

\* The bits of DR6 are those of slots.
LEMMA StatusTypes ==
  ASSUME BaseInv, NEW t \in Threads, NEW hits \in SUBSET armed, NEW bits \in StatusBits(t, hits)
  PROVE  bits \in SUBSET Slots
<1>1. dr6[t] \subseteq Slots /\ \A w \in hits : w.slot \in Slots
  BY DEF BaseInv, EntryInv, ThreadInv
<1>2. CASE hits = {}
  BY <1>1, <1>2 DEF StatusBits
<1>3. CASE hits # {}
  <2>1. PICK old \in SUBSET dr6[t] : bits = {w.slot : w \in hits} \union old
    BY <1>3 DEF StatusBits
  <2>2. QED
    BY <1>1, <2>1
<1>4. QED
  BY <1>2, <1>3

\* What a step of a thread may do to the places and to DR6.
KeepsPlaces(t) ==
  /\ crashed' \in BOOLEAN
  /\ thread' = thread \/ \E place : Placed(place) /\ GoesTo(t, place)
  /\ dr6' = dr6 \/ \E bits \in SUBSET Slots : dr6' = [dr6 EXCEPT ![t] = bits]

LEMMA TrapPlaces ==
  ASSUME BaseInv, NEW t \in Threads, NEW pc \in Int, NEW hits \in SUBSET armed, NEW written,
         NEW next, Placed(next), Trapped(t, pc, hits, written, next)
  PROVE  KeepsPlaces(t)
<1>0. PICK bits \in StatusBits(t, hits) :
        dr6' = [dr6 EXCEPT ![t] = bits] /\ Outcome(t, pc, hits, bits, written, next)
  BY TrapOutcomes
<1> DEFINE Goal == /\ crashed' \in BOOLEAN
                   /\ thread' = thread \/ \E place : Placed(place) /\ GoesTo(t, place)
<1>1. ASSUME Dies
      PROVE  Goal
  BY <1>1 DEF Dies
<1>2. ASSUME ToSoftware(t, pc, written)
      PROVE  Goal
  <2>1. pc - Advance \in Code /\ pc - Advance \in 0 .. Size
    BY <1>2, Numbers DEF ToSoftware, SwClaims, BaseInv, ThreadInv
  <2>2. Placed(In("trampoline", pc - Advance, 0, FALSE))
    BY <2>1 DEF Placed, In, Places
  <2>3. QED
    BY <1>2, <2>2 DEF ToSoftware, BaseInv, ThreadInv
<1>3. ASSUME ToHardware(t, pc, written)
      PROVE  Goal
  <2>1. pc \in Code /\ pc \in 0 .. Size /\ hwByAddress[pc] \in Nat
    BY <1>3, Numbers, RedirectsAtCode DEF ToHardware, BaseInv
  <2>2. Placed(In("trampoline", pc, hwByAddress[pc], FALSE))
    BY <2>1 DEF Placed, In, Places
  <2>3. QED
    BY <1>3, <2>2 DEF ToHardware, BaseInv, ThreadInv
<1>4. ASSUME Reports(t, pc, bits, written, next)
      PROVE  Goal
  BY <1>4 DEF Reports, BaseInv, ThreadInv
<1>5. Goal
  BY <1>0, <1>1, <1>2, <1>3, <1>4 DEF Outcome
<1>6. bits \in SUBSET Slots
  BY StatusTypes
<1>7. QED
  BY <1>0, <1>5, <1>6 DEF KeepsPlaces

LEMMA WatchesAreArmed ==
  /\ \A t, a, type : Watches(t, a, type) \in SUBSET armed
  /\ \A t, written : UNION {Watches(t, d, "write") : d \in written} \in SUBSET armed
BY DEF Watches

LEMMA InstructionPlaces ==
  ASSUME BaseInv, NEW t \in Threads, NEW pc \in Int, NEW written, NEW next,
         Placed(next), Instruction(t, pc, written, next)
  PROVE  KeepsPlaces(t)
<1> DEFINE hits == UNION {Watches(t, d, "write") : d \in written}
<1>1. hits \in SUBSET armed
  BY WatchesAreArmed
<1>2. \/ GoesTo(t, next) /\ NoTrap
      \/ Trapped(t, pc, hits, written, next)
  BY DEF Instruction
<1> HIDE DEF hits
<1>3. QED
  BY <1>1, <1>2, TrapPlaces DEF NoTrap, KeepsPlaces, BaseInv, ThreadInv

LEMMA ProgramKeeps ==
  ASSUME BaseInv, NEW t \in Threads, ProgramStep(t)
  PROVE  BaseInv'
<1> DEFINE th == thread[t]
<1>1. UNCHANGED <<hwVars, chain, software>>
  BY DEF ProgramStep, Enter, HardwareTrap, SoftwareTrap, Execute, CallCallback, RunRelocated,
         ExecuteRelocated, RunsReleased, Leave, NoCall, Instruction
<1>2. EntryInv' /\ ChainInv'
  BY <1>1 DEF BaseInv, EntryInv, SlotsOf, ChainInv, InChain, hwVars
<1>3. Placed(th) /\ th.at \in Int /\ crashed \in BOOLEAN
  BY Numbers DEF BaseInv, ThreadInv, Placed, Places
<1>4. KeepsPlaces(t)
  <2>1. CASE Enter(t) \/ Leave(t)
    <3>1. Placed(In("code", 0, 0, FALSE)) /\ Placed(Outside)
      BY Numbers DEF Placed, In, Places, Outside
    <3>2. QED
      BY <1>3, <2>1, <3>1 DEF Enter, Leave, NoTrap, KeepsPlaces
  <2>2. CASE HardwareTrap(t)
    BY <1>3, <2>2, TrapPlaces, WatchesAreArmed DEF HardwareTrap
  <2>3. CASE SoftwareTrap(t)
    <3>1. th.at + Advance \in Int /\ th.at + Advance \in 0 .. Size
      BY <1>3, <2>3, Numbers DEF SoftwareTrap, InCode, Placed, Places
    <3>2. Placed(In("code", th.at + Advance, 0, FALSE))
      BY <3>1 DEF Placed, In, Places
    <3>3. Trapped(t, th.at + Advance, {}, {}, In("code", th.at + Advance, 0, FALSE))
      BY <2>3 DEF SoftwareTrap
    <3>4. QED
      BY <3>1, <3>2, <3>3, TrapPlaces
  <2>4. CASE Execute(t)
    <3>1. th.at + 1 \in 0 .. Size /\ th.at + 1 \in Int
      BY <1>3, <2>4, Numbers DEF Execute, InCode, Placed, Places
    <3>2. Placed(In("code", th.at + 1, 0, FALSE))
      BY <3>1 DEF Placed, In, Places
    <3>3. QED
      BY <2>4, <3>1, <3>2, InstructionPlaces DEF Execute
  <2>5. CASE CallCallback(t) \/ RunRelocated(t)
    <3>1. th.at \in Code /\ th.at \in 0 .. Size /\ th.id \in Nat
      BY <1>3, <2>5 DEF CallCallback, RunRelocated, Runs, Placed, Places
    <3>2. Placed(In("callback", th.at, th.id, TRUE)) /\ Placed(In("relocated", th.at, th.id, TRUE))
      BY <3>1 DEF Placed, In, Places
    <3>3. QED
      BY <1>3, <2>5, <3>2 DEF CallCallback, RunRelocated, NoTrap, KeepsPlaces
  <2>6. CASE ExecuteRelocated(t)
    <3>1. th.at \in Code
      BY <1>3, <2>6 DEF ExecuteRelocated, Runs, Placed
    <3>2. BackTo(th.at) \in 0 .. Size /\ Elsewhere \in Int
      BY <3>1, Numbers DEF BackTo, Elsewhere
    <3>3. Placed(In("code", BackTo(th.at), 0, FALSE))
      BY <3>2 DEF Placed, In, Places
    <3>4. QED
      BY <2>6, <3>2, <3>3, InstructionPlaces DEF ExecuteRelocated
  <2>7. CASE RunsReleased(t)
    BY <2>7 DEF RunsReleased, KeepsPlaces
  <2>8. QED
    BY <2>1, <2>2, <2>3, <2>4, <2>5, <2>6, <2>7 DEF ProgramStep
<1>5. ThreadInv'
  <2>0. dr6' \in [Threads -> SUBSET Slots] /\ crashed' \in BOOLEAN
    BY <1>4 DEF KeepsPlaces, BaseInv, ThreadInv
  <2>1. CASE thread' = thread
    BY <1>1, <2>0, <2>1 DEF BaseInv, ThreadInv
  <2>2. ASSUME NEW place, Placed(place), GoesTo(t, place)
        PROVE  ThreadInv'
    <3>1. thread' = [thread EXCEPT ![t] = place]
      BY <2>2 DEF GoesTo
    <3>2. QED
      BY <1>1, <2>0, <2>2, <3>1 DEF BaseInv, ThreadInv, Placed
  <2>3. QED
    BY <1>4, <2>1, <2>2 DEF KeepsPlaces
<1>6. QED
  BY <1>2, <1>5 DEF BaseInv

LEMMA BaseInitially == Init => BaseInv
<1> SUFFICES ASSUME Init PROVE BaseInv
  OBVIOUS
<1>1. Outside \in Places
  BY Numbers DEF Outside, Places
<1>2. ThreadInv
  BY <1>1 DEF Init, ThreadInv, Outside
<1>3. DOMAIN hwByAddress = {} /\ chain \in Seq({"hw", "sw"})
  BY EmptySeq DEF Init, HardwareInit
<1>4. ChainInv
  BY <1>3 DEF Init, HardwareInit, ChainInv
<1>5. hwEntry \in [Ids -> Entries]
  <2>1. NoEntry \in Entries
    BY DEF NoEntry, Entries
  <2>2. QED
    BY <2>1 DEF Init, HardwareInit
<1>6. EntryInv
  BY <1>3, <1>5, Numbers DEF Init, HardwareInit, EntryInv, SlotsOf
<1>7. QED
  BY <1>2, <1>4, <1>6 DEF BaseInv

LEMMA BaseStep == BaseInv /\ [Next]_vars => BaseInv'
<1>1. BaseInv /\ Next => BaseInv'
  BY StepKinds, HardwareCallKeeps, SoftwareCallKeeps, ProgramKeeps
<1>2. BaseInv /\ UNCHANGED vars => BaseInv'
  BY DEF vars, hwVars, BaseInv, EntryInv, SlotsOf, ChainInv, InChain, ThreadInv
<1>3. QED
  BY <1>1, <1>2

\* The maps, the chain and the places of the threads stay consistent whatever thread
\* calls the API.
THEOREM BaseHolds == Spec => []BaseInv
BY BaseInitially, BaseStep, PTL DEF Spec

\* Every variable keeps its type; in particular findFreeSlot() always finds a slot for a
\* breakpoint that set() accepts, and relocated code goes back into the program.
THEOREM TypeCorrect == Spec => []TypeOK
<1>1. BaseInv => TypeOK
  <2> SUFFICES ASSUME BaseInv PROVE TypeOK
    OBVIOUS
  <2>1. usedSlots \subseteq Slots /\ {w.slot : w \in armed} \subseteq Slots
    BY DEF BaseInv, EntryInv, SlotsOf
  <2>2. \A t \in Threads : thread[t].at \in 0 .. Size /\ dr6[t] \subseteq Slots
    BY DEF BaseInv, ThreadInv, Places
  <2>3. QED
    BY <2>1, <2>2 DEF TypeOK, BaseInv, EntryInv, ThreadInv
<1>2. QED
  BY <1>1, BaseHolds, PTL
--------------------------------------------------------------------------------
(* Only the script's thread calls the API *)

OneThread == "one-thread" \in Rules

LEMMA CallerIsScript ==
  ASSUME OneThread, NEW t \in Threads, MayCall(t)
  PROVE  t = Script
BY DEF MayCall, OneThread

LEMMA ArmedStep ==
  ASSUME OneThread, BaseInv, ArmedInv, [Next]_vars
  PROVE  ArmedInv'
<1>1. ASSUME NEW t \in Threads, NEW a \in Addresses, NEW type \in {"execute", "write"},
             MayCall(t), SetHardware(t, a, type)
      PROVE  ArmedInv'
  <2>1. t = Script /\ EntryInv
    BY <1>1, CallerIsScript DEF BaseInv
  <2>0. EntryInv
    BY DEF BaseInv
  <2>2. PICK id \in Ids, slot \in Slots :
             Added(t, a, type, id, slot)
    BY <1>1, <2>0, SetFacts
  <2> USE <2>2 DEF Added
  <2>3. Watch(id)' = [thread |-> t, slot |-> slot, address |-> a, type |-> type]
    <3>1. /\ hwEntry'[id].address = a /\ hwEntry'[id].slot = slot
          /\ hwEntry'[id].type = type
      BY <2>2
    <3>2. QED
      BY <2>1, <3>1 DEF Watch
  <2>4. \A jd \in hwById : Watch(jd)' = Watch(jd)
    BY <2>2 DEF Watch
  <2>5. QED
    BY <2>2, <2>3, <2>4 DEF ArmedInv
<1>2. ASSUME UNCHANGED <<hwEntry, hwById, armed>>
      PROVE  ArmedInv'
  <2>1. \A id : Watch(id)' = Watch(id)
    BY <1>2 DEF Watch
  <2>2. QED
    BY <1>2, <2>1 DEF ArmedInv
<1>3. ASSUME NEW t \in Threads, NEW ids \in SUBSET hwById, MayCall(t), RemoveIds(t, ids)
      PROVE  ArmedInv'
  <2>1. t = Script /\ EntryInv
    BY <1>3, CallerIsScript DEF BaseInv
  <2>2. hwEntry' = hwEntry /\ hwById' = hwById \ ids /\ armed' = armed \ Cleared(t, ids)
    BY <1>3, <2>1, RemoveFacts
  <2>3. \A id \in hwById : Watch(id) \in Cleared(t, ids) <=> id \in ids
    <3>1. \A id \in hwById : hwEntry[id].slot \in SlotsOf(ids) <=> id \in ids
      BY <2>1, <1>3, EntryFacts DEF SlotsOf
    <3>2. \A id \in hwById : Watch(id) \in armed /\ Watch(id).slot = hwEntry[id].slot
                             /\ Watch(id).thread = Script
      BY DEF ArmedInv, Watch
    <3>3. QED
      BY <2>1, <3>1, <3>2 DEF Cleared
  <2>4. \A id : Watch(id)' = Watch(id)
    BY <2>2 DEF Watch
  <2>5. QED
    BY <2>2, <2>3, <2>4 DEF ArmedInv
<1>4. ASSUME NEW t \in Threads, HardwareCall(t)
      PROVE  ArmedInv'
  BY <1>1, <1>2, <1>3, <1>4, HardwareCallCases DEF SetHardwareFails, TypeAt
<1>5. ASSUME NEW t \in Threads,
             ProgramStep(t) \/ \E a \in Code : SetSoftware(t, a) \/ RemoveSoftware(t, a)
      PROVE  ArmedInv'
  <2>1. UNCHANGED hwVars
    BY <1>5 DEF ProgramStep, Enter, HardwareTrap, SoftwareTrap, Execute, CallCallback,
                RunRelocated, ExecuteRelocated, RunsReleased, Leave, NoCall, Instruction,
                SetSoftware, RemoveSoftware
  <2>2. QED
    BY <1>2, <2>1 DEF hwVars
<1>6. CASE UNCHANGED vars
  BY <1>2, <1>6 DEF vars, hwVars
<1>7. QED
  BY <1>4, <1>5, <1>6, StepKinds

\* As long as one thread calls the API, the registers that are armed are those of the
\* breakpoints in the map, slot by slot (native_hw_breakpoint.cc, set() and remove()).
THEOREM ArmedHolds ==
  ASSUME OneThread
  PROVE  Spec => []ArmedInv
<1>1. Init => ArmedInv
  BY DEF Init, HardwareInit, ArmedInv
<1>2. BaseInv /\ ArmedInv /\ [Next]_vars => ArmedInv'
  BY ArmedStep
<1>3. QED
  BY <1>1, <1>2, BaseHolds, PTL DEF Spec

\* As long as one thread calls the API, no register stays armed after remove(), none is
\* given to two breakpoints, and no breakpoint is without one
\* (native_hw_breakpoint.cc, set() and remove()).
THEOREM RegistersAlwaysAgree ==
  ASSUME OneThread
  PROVE  Spec => []RegistersAgree
<1>1. BaseInv /\ ArmedInv => RegistersAgree
  <2> SUFFICES ASSUME BaseInv, ArmedInv PROVE RegistersAgree
    OBVIOUS
  <2>1. hwById = {hwByAddress[a] : a \in DOMAIN hwByAddress} /\ usedSlots = SlotsOf(hwById)
    BY EntryFacts DEF BaseInv
  <2>2. \A w \in armed : \E id \in hwById : w = Watch(id) /\ w.slot = hwEntry[id].slot
    <3>1. \A id \in hwById : Watch(id).slot = hwEntry[id].slot
      BY DEF Watch
    <3>2. QED
      BY <3>1 DEF ArmedInv
  <2>3. \A w, v \in armed : w.slot = v.slot => w = v
    BY <2>2, EntryFacts DEF BaseInv
  <2>4. {[address |-> w.address, slot |-> w.slot, type |-> w.type] : w \in armed}
          = {hwEntry[id] : id \in hwById}
    <3>1. \A id \in hwById :
            [address |-> Watch(id).address, slot |-> Watch(id).slot, type |-> Watch(id).type]
              = hwEntry[id]
      <4>1. \A id \in hwById : hwEntry[id] \in Entries
        BY EntryFacts DEF BaseInv
      <4>2. QED
        BY <4>1 DEF Watch, Entries
    <3>2. QED
      BY <3>1 DEF ArmedInv
  <2>5. QED
    BY <2>1, <2>3, <2>4 DEF RegistersAgree
<1>2. QED
  BY <1>1, BaseHolds, ArmedHolds, PTL

--------------------------------------------------------------------------------
(* What a trap finds *)

\* The breakpoint of a watch that fired.
LEMMA HitFacts ==
  ASSUME BaseInv, ArmedInv, NEW t, NEW a, NEW type, NEW w \in Watches(t, a, type)
  PROVE  /\ t = Script
         /\ \E id \in hwById : /\ w = Watch(id) /\ hwEntry[id].slot = w.slot
                               /\ hwEntry[id].address = a /\ hwEntry[id].type = type
                               /\ a \in DOMAIN hwByAddress /\ hwByAddress[a] = id
<1>1. w \in armed /\ w.thread = t /\ w.address = a /\ w.type = type
  BY DEF Watches
<1>2. PICK id \in hwById : w = Watch(id)
  BY <1>1 DEF ArmedInv
<1>3. /\ w.thread = Script /\ w.slot = hwEntry[id].slot
      /\ w.address = hwEntry[id].address /\ w.type = hwEntry[id].type
  BY <1>2 DEF Watch
<1>4. hwEntry[id].address \in DOMAIN hwByAddress /\ hwByAddress[hwEntry[id].address] = id
  BY DEF BaseInv, EntryInv
<1>5. QED
  BY <1>1, <1>2, <1>3, <1>4

LEMMA ExecuteHit ==
  ASSUME BaseInv, ArmedInv, NEW t, NEW pc, Watches(t, pc, "execute") # {}
  PROVE  t = Script /\ HwRedirects(pc)
BY HitFacts DEF HwRedirects

\* The watches that the write of some variables sets off.
Hits(t, written) == UNION {Watches(t, d, "write") : d \in written}

\* A write that stops a thread is of one variable, by a breakpoint that DR6 names.
LEMMA WriteHits ==
  ASSUME BaseInv, ArmedInv, NEW t, NEW written \in Written, Hits(t, written) # {}
  PROVE  \E d \in Data, id \in hwById :
           /\ written = {d} /\ t = Script
           /\ hwEntry[id].address = d /\ hwEntry[id].type = "write"
           /\ \A bits \in StatusBits(t, Hits(t, written)) : Owners(bits) # {}
<1>1. PICK d \in Data : written = {d}
  BY DEF Written, Hits
<1> DEFINE hits == Hits(t, written)
<1>2. hits = Watches(t, d, "write") /\ hits # {}
  BY <1>1 DEF Hits
<1> HIDE DEF hits
<1>3. PICK w \in hits : TRUE
  BY <1>2
<1>4. PICK id \in hwById : /\ t = Script /\ hwEntry[id].slot = w.slot
                           /\ hwEntry[id].address = d /\ hwEntry[id].type = "write"
  BY <1>2, <1>3, HitFacts
<1>5. ASSUME NEW bits \in StatusBits(t, hits)
      PROVE  Owners(bits) # {}
  <2>1. hwEntry[id].slot \in bits
    BY <1>2, <1>3, <1>4, <1>5 DEF StatusBits
  <2>2. QED
    BY <2>1, OwnerFound DEF BaseInv
<1>6. QED
  BY <1>1, <1>4, <1>5 DEF hits

\* No software breakpoint and no redirection is at a place in relocated code.
LEMMA NothingElsewhere ==
  ASSUME BaseInv
  PROVE  ~SwClaims(Elsewhere) /\ ~HwRedirects(Elsewhere)
<1>1. Elsewhere \notin Code /\ Elsewhere - Advance \notin Code
  BY Numbers DEF Elsewhere
<1>2. QED
  BY <1>1, RedirectsAtCode DEF SwClaims, BaseInv, ThreadInv

--------------------------------------------------------------------------------
(* No trap goes unhandled *)

\* What a step does to crashed.
LEMMA CrashStep ==
  ASSUME OneThread, BaseInv, ArmedInv,
         NEW t \in Threads, ProgramStep(t), crashed' # crashed
  PROVE  /\ crashed' = TRUE /\ UNCHANGED <<thread, hwById>>
         /\ thread[t].id # 0 /\ thread[t].id \notin hwById
<1>1. ASSUME NEW pc, NEW hits, NEW written, NEW next, Trapped(t, pc, hits, written, next)
      PROVE  /\ ~HwRedirects(pc) /\ (hits = {} => ~SwClaims(pc))
             /\ \E bits \in StatusBits(t, hits) : Owners(bits) = {}
  BY <1>1, TrapOutcomes DEF Outcome, ToSoftware, ToHardware, Reports, HwClaims
<1>2. ~HardwareTrap(t)
  BY <1>1, ExecuteHit DEF HardwareTrap
<1>3. ~SoftwareTrap(t)
  <2>1. ASSUME SoftwareTrap(t)
        PROVE  FALSE
    <3>0. PICK next : /\ thread[t].at \in software
                      /\ Trapped(t, thread[t].at + Advance, {}, {}, next)
      BY <2>1 DEF SoftwareTrap
    <3>1. thread[t].at \in software /\ ~SwClaims(thread[t].at + Advance)
      BY <1>1, <3>0
    <3>2. (thread[t].at + Advance) - Advance = thread[t].at
      BY Numbers DEF BaseInv, ThreadInv, Places
    <3>3. QED
      BY <3>1, <3>2 DEF SwClaims
  <2>2. QED
    BY <2>1
<1>4. ASSUME NEW pc, NEW written \in Written, NEW next, Instruction(t, pc, written, next)
      PROVE  FALSE
  <2> DEFINE hits == Hits(t, written)
  <2>1. hits # {} /\ Trapped(t, pc, hits, written, next)
    BY <1>4 DEF Instruction, Hits, NoTrap
  <2>2. \A bits \in StatusBits(t, hits) : Owners(bits) # {}
    BY <1>4, <2>1, WriteHits
  <2> HIDE DEF hits
  <2>3. QED
    BY <1>1, <2>1, <2>2
<1>5. ~Execute(t) /\ ~ExecuteRelocated(t)
  BY <1>4 DEF Execute, ExecuteRelocated
<1>6. ~Enter(t) /\ ~CallCallback(t) /\ ~RunRelocated(t) /\ ~Leave(t)
  BY DEF Enter, CallCallback, RunRelocated, Leave, NoTrap
<1>7. RunsReleased(t)
  BY <1>2, <1>3, <1>5, <1>6 DEF ProgramStep
<1>8. QED
  BY <1>7 DEF RunsReleased, NoCall, hwVars

\* A thread of a program of one-byte instructions dies only when the breakpoint in whose
\* callback it is was removed: hwBpSigtrapHandler() and breakpointSigtrapHandler() between
\* them recognise every trap that a breakpoint raises, in whatever order they are asked
\* and whatever is left in DR6.
THEOREM TrapsAreHandled ==
  ASSUME OneThread
  PROVE  Spec => []DiesOnlyOfRelease
<1>1. Init => DiesOnlyOfRelease
  BY DEF Init, DiesOnlyOfRelease
<1>2. ASSUME BaseInv, ArmedInv, DiesOnlyOfRelease, [Next]_vars
      PROVE  DiesOnlyOfRelease'
  <2>1. CASE crashed' = crashed
    <3>1. CASE crashed
      <4>1. UNCHANGED vars
        <5>1. ~Next
          BY <3>1, StepKinds DEF MayCall, SetSoftware, RemoveSoftware, HardwareCall, ProgramStep,
             Enter, HardwareTrap, SoftwareTrap, Execute, CallCallback, RunRelocated,
             ExecuteRelocated, RunsReleased, Leave, Runs, InCode
        <5>2. QED
          BY <1>2, <5>1
      <4>2. QED
        BY <1>2, <4>1 DEF vars, hwVars, DiesOnlyOfRelease
    <3>2. CASE ~crashed
      BY <2>1, <3>2 DEF DiesOnlyOfRelease
    <3>3. QED
      BY <3>1, <3>2
  <2>2. CASE crashed' # crashed
    <3>1. PICK t \in Threads : ProgramStep(t)
      BY <1>2, <2>2, StepKinds DEF vars, SetSoftware, RemoveSoftware, HardwareCall
    <3>2. UNCHANGED <<thread, hwById>> /\ thread[t].id # 0 /\ thread[t].id \notin hwById
      BY <1>2, <2>2, <3>1, CrashStep
    <3>3. QED
      BY <3>2 DEF DiesOnlyOfRelease
  <2>3. QED
    BY <2>1, <2>2
<1>3. QED
  BY <1>1, <1>2, BaseHolds, ArmedHolds, PTL DEF Spec
--------------------------------------------------------------------------------
(* Writes to watched variables *)

SoftwareFirst == "software-first" \in Rules

OnlyInv == ~crowded => \A id, jd \in hwById : id = jd

LEMMA OnlyStep ==
  ASSUME OnlyInv, [Next]_vars
  PROVE  OnlyInv'
<1>1. ASSUME NEW t \in Threads, HardwareCall(t)
      PROVE  OnlyInv'
  BY <1>1 DEF HardwareCall, OnlyInv
<1>2. ASSUME NEW t \in Threads,
             ProgramStep(t) \/ \E a \in Code : SetSoftware(t, a) \/ RemoveSoftware(t, a)
      PROVE  OnlyInv'
  <2>1. UNCHANGED <<hwVars, crowded>>
    BY <1>2 DEF ProgramStep, Enter, HardwareTrap, SoftwareTrap, Execute, CallCallback,
                RunRelocated, ExecuteRelocated, RunsReleased, Leave, NoCall, Instruction,
                SetSoftware, RemoveSoftware
  <2>2. QED
    BY <2>1 DEF hwVars, OnlyInv
<1>3. CASE UNCHANGED vars
  BY <1>3 DEF vars, hwVars, OnlyInv
<1>4. QED
  BY <1>1, <1>2, <1>3, StepKinds

LEMMA EnsureKeepsFirst ==
  ASSUME ChainInv, FirstInv, EnsureHandler
  PROVE  FirstInv'
<1>1. CASE InChain("hw")
  BY <1>1 DEF EnsureHandler, FirstInv
<1>2. CASE ~InChain("hw")
  <2>1. chain' = Append(chain, "hw")
    BY <1>2 DEF EnsureHandler
  <2>2. /\ Len(chain') = Len(chain) + 1 /\ Len(chain) \in Nat
        /\ \A i \in 1 .. Len(chain) : chain'[i] = chain[i]
        /\ chain'[Len(chain) + 1] = "hw"
    BY <2>1, AppendProperties, LenProperties DEF ChainInv
  <2>3. QED
    BY <2>2 DEF FirstInv
<1>3. QED
  BY <1>1, <1>2

LEMMA RemoveKeepsFirst ==
  ASSUME ChainInv, FirstInv, NEW name, chain' = RemoveFirst(chain, name)
  PROVE  FirstInv'
<1>1. /\ Len(chain') \in Nat /\ Len(chain) \in Nat
      /\ \A i \in 1 .. Len(chain') : \E j \in 1 .. Len(chain) : i <= j /\ chain'[i] = chain[j]
  BY RemoveFirstKeeps, LenProperties DEF ChainInv
<1>2. ASSUME NEW i \in 1 .. Len(chain'), chain'[i] = "sw"
      PROVE  i = 1
  <2>1. PICK j \in 1 .. Len(chain) : i <= j /\ chain'[i] = chain[j]
    BY <1>1
  <2>2. j = 1
    BY <1>2, <2>1 DEF FirstInv
  <2>3. QED
    BY <1>1, <2>1, <2>2
<1>3. QED
  BY <1>2 DEF FirstInv

\* Nobody comes before the handler of the software breakpoints in the chain.
LEMMA FirstStep ==
  ASSUME SoftwareFirst, BaseInv, FirstInv, [Next]_vars
  PROVE  FirstInv'
<1>0. ChainInv
  BY DEF BaseInv
<1>1. CASE chain' = chain
  BY <1>1 DEF FirstInv
<1>2. ASSUME NEW t \in Threads, HardwareCall(t)
      PROVE  FirstInv'
  <2>1. ASSUME EnsureHandler
        PROVE  FirstInv'
    BY <1>0, <2>1, EnsureKeepsFirst
  <2>2. ASSUME NEW left, MaybeRemoveHandler(left)
        PROVE  FirstInv'
    BY <1>0, <1>1, <2>2, RemoveKeepsFirst DEF MaybeRemoveHandler
  <2>3. QED
    BY <1>2, <2>1, <2>2, HardwareCallCases DEF SetHardware, SetHardwareFails, RemoveIds
<1>3. ASSUME NEW t \in Threads, NEW a \in Code, SetSoftware(t, a)
      PROVE  FirstInv'
  <2>1. CASE InChain("sw")
    BY <1>1, <1>3, <2>1 DEF SetSoftware
  <2>2. CASE ~InChain("sw")
    <3>1. ~InChain("hw") /\ chain' = Append(chain, "sw")
      BY <1>3, <2>2 DEF SetSoftware, SoftwareFirst
    <3>2. Len(chain) \in Nat /\ \A i \in 1 .. Len(chain) : chain[i] \in {"hw", "sw"}
      BY <1>0, LenProperties DEF ChainInv
    <3>3. Len(chain) = 0
      BY <2>2, <3>1, <3>2 DEF InChain, Contains
    <3>4. Len(chain') = 1
      BY <1>0, <3>1, <3>3, AppendProperties DEF ChainInv
    <3>5. QED
      BY <3>4 DEF FirstInv
  <2>3. QED
    BY <2>1, <2>2
<1>4. ASSUME NEW t \in Threads, NEW a \in Code, RemoveSoftware(t, a)
      PROVE  FirstInv'
  BY <1>0, <1>1, <1>4, RemoveKeepsFirst DEF RemoveSoftware
<1>5. ASSUME NEW t \in Threads, ProgramStep(t)
      PROVE  FirstInv'
  <2>1. UNCHANGED chain
    BY <1>5 DEF ProgramStep, Enter, HardwareTrap, SoftwareTrap, Execute, CallCallback,
                RunRelocated, ExecuteRelocated, RunsReleased, Leave, NoCall, Instruction
  <2>2. QED
    BY <1>1, <2>1
<1>6. CASE UNCHANGED vars
  BY <1>1, <1>6 DEF vars
<1>7. QED
  BY <1>2, <1>3, <1>4, <1>5, <1>6, StepKinds

LEMMA FirstInitially == Init => FirstInv
<1>1. Len(<<>>) = 0
  OBVIOUS
<1>2. QED
  BY <1>1 DEF Init, HardwareInit, FirstInv

LEMMA SameReport ==
  ASSUME WritesReachTheirWatchpoint, reported' = reported, crowded => crowded'
  PROVE  WritesReachTheirWatchpoint'
BY DEF WritesReachTheirWatchpoint

LEMMA ReportedTo ==
  ASSUME NEW written, reported' = [write |-> written, to |-> written]
  PROVE  WritesReachTheirWatchpoint'
BY DEF WritesReachTheirWatchpoint

\* A step of a thread in the program leaves crowded as it is.
LEMMA ProgramKeepsCrowded ==
  ASSUME NEW t, ProgramStep(t)
  PROVE  crowded' = crowded
BY DEF ProgramStep, Enter, HardwareTrap, SoftwareTrap, Execute, CallCallback, RunRelocated,
       ExecuteRelocated, RunsReleased, Leave, NoCall, Instruction

\* A trap behind an instruction that wrote a watched variable goes to that watchpoint.
LEMMA WriteReported ==
  ASSUME BaseInv, ArmedInv, OnlyInv, WritesReachTheirWatchpoint, crowded' = crowded,
         NEW t \in Threads, NEW pc, NEW written \in Written, NEW next,
         ~SwClaims(pc), Instruction(t, pc, written, next)
  PROVE  WritesReachTheirWatchpoint'
<1>1. CASE Hits(t, written) = {}
  BY <1>1 DEF Instruction, Hits, NoTrap, WritesReachTheirWatchpoint
<1>0. CASE crowded
  BY <1>0 DEF WritesReachTheirWatchpoint
<1>2. CASE ~crowded /\ Hits(t, written) # {}
  <2> DEFINE hits == Hits(t, written)
  <2>1. Trapped(t, pc, hits, written, next)
    BY <1>2 DEF Instruction, Hits
  <2>2. PICK d \in Data, id \in hwById :
          written = {d} /\ hwEntry[id].address = d /\ hwEntry[id].type = "write"
    BY <1>2, WriteHits
  <2> HIDE DEF hits
  <2>3. ~HwRedirects(pc)
    <3>1. ASSUME HwRedirects(pc)
          PROVE  FALSE
      <4>1. hwByAddress[pc] \in hwById /\ hwEntry[hwByAddress[pc]].type = "execute"
        BY <3>1, RedirectsAtCode DEF HwRedirects, BaseInv
      <4>2. hwByAddress[pc] = id
        BY <1>2, <4>1 DEF OnlyInv
      <4>3. QED
        BY <2>2, <4>1, <4>2
    <3>2. QED
      BY <3>1
  <2>4. PICK bits : Dies \/ Reports(t, pc, bits, written, next)
    BY <2>1, <2>3, TrapOutcomes DEF Outcome, ToSoftware, ToHardware
  <2>5. \A jd \in Owners(bits) : hwEntry[jd].address = d
    BY <1>2, <2>2, OwnersAreSet DEF OnlyInv
  <2>6. reported' = reported \/ reported' = [write |-> written, to |-> {d}]
    BY <2>4, <2>5 DEF Dies, Reports
  <2>7. QED
    BY <2>2, <2>6, SameReport, ReportedTo
<1>3. QED
  BY <1>0, <1>1, <1>2

LEMMA WritesStep ==
  ASSUME OneThread, BaseInv, ArmedInv, OnlyInv, FirstInv, WritesReachTheirWatchpoint,
         NEW t \in Threads, ProgramStep(t)
  PROVE  WritesReachTheirWatchpoint'
<1>0. crowded' = crowded
  BY ProgramKeepsCrowded
<1>1. ASSUME reported' = reported \/ reported' = [write |-> {}, to |-> {}]
      PROVE  WritesReachTheirWatchpoint'
  BY <1>0, <1>1, SameReport, ReportedTo
<1>2. CASE HardwareTrap(t)
  <2>1. PICK pc, hits, next : Trapped(t, pc, hits, {}, next) /\ HwRedirects(pc)
    BY <1>2, ExecuteHit DEF HardwareTrap
  <2>2. Dies \/ ToSoftware(t, pc, {}) \/ ToHardware(t, pc, {})
    BY <2>1, TrapOutcomes DEF Outcome, Reports
  <2>3. QED
    BY <1>1, <2>2 DEF Dies, ToSoftware, ToHardware
<1>3. CASE SoftwareTrap(t)
  <2>1. PICK next : Trapped(t, thread[t].at + Advance, {}, {}, next) /\ thread[t].at \in software
    BY <1>3 DEF SoftwareTrap
  <2>2. (thread[t].at + Advance) - Advance = thread[t].at
    BY Numbers DEF BaseInv, ThreadInv, Places
  <2>3. SwClaims(thread[t].at + Advance)
    BY <2>1, <2>2 DEF SwClaims
  <2>4. ToSoftware(t, thread[t].at + Advance, {})
    BY <2>1, <2>3, SoftwareFirstTakes
  <2>5. QED
    BY <1>1, <2>4 DEF ToSoftware
<1>4. CASE Execute(t)
  <2>1. PICK written \in Written :
          Instruction(t, thread[t].at + 1, written, In("code", thread[t].at + 1, 0, FALSE))
    BY <1>4 DEF Execute
  <2>2. ~SwClaims(thread[t].at + 1)
    <3>1. (thread[t].at + 1) - Advance = thread[t].at
      BY Numbers DEF BaseInv, ThreadInv, Places
    <3>2. QED
      BY <1>4, <3>1 DEF Execute, SwClaims
  <2>3. QED
    BY <1>0, <2>1, <2>2, WriteReported
<1>5. CASE ExecuteRelocated(t)
  BY <1>0, <1>5, NothingElsewhere, WriteReported DEF ExecuteRelocated
<1>6. CASE UNCHANGED reported
  BY <1>0, <1>6, SameReport
<1>7. QED
  BY <1>2, <1>3, <1>4, <1>5, <1>6
  DEF ProgramStep, Enter, CallCallback, RunRelocated, RunsReleased, Leave, NoTrap

\* Where the handler of the software breakpoints comes first and there never were two
\* hardware breakpoints at a time, every write to a watched variable is reported to its
\* watchpoint: the other handler does not recognise that trap, and what is left in DR6
\* from an earlier one can be of no other entry (native_hw_breakpoint.cc:403-434).
THEOREM WritesAreReported ==
  ASSUME OneThread, SoftwareFirst
  PROVE  Spec => []WritesReachTheirWatchpoint
<1>1. Init => WritesReachTheirWatchpoint /\ OnlyInv
  BY DEF Init, HardwareInit, NoReport, WritesReachTheirWatchpoint, OnlyInv
<1>2. ASSUME BaseInv, ArmedInv, OnlyInv, FirstInv, WritesReachTheirWatchpoint, [Next]_vars
      PROVE  WritesReachTheirWatchpoint'
  <2>1. CASE UNCHANGED reported /\ (crowded => crowded')
    BY <1>2, <2>1, SameReport
  <2>2. ASSUME NEW t \in Threads, ProgramStep(t)
        PROVE  WritesReachTheirWatchpoint'
    BY <1>2, <2>2, WritesStep
  <2>3. ASSUME NEW t \in Threads, HardwareCall(t)
        PROVE  UNCHANGED reported /\ (crowded => crowded')
    BY <2>3 DEF HardwareCall
  <2>4. ASSUME NEW t \in Threads, NEW a \in Code, SetSoftware(t, a) \/ RemoveSoftware(t, a)
        PROVE  UNCHANGED reported /\ (crowded => crowded')
    BY <2>4 DEF SetSoftware, RemoveSoftware
  <2>5. CASE UNCHANGED vars
    BY <2>1, <2>5 DEF vars
  <2>6. QED
    BY <1>2, <2>1, <2>2, <2>3, <2>4, <2>5, StepKinds
<1>3. QED
  BY <1>1, <1>2, OnlyStep, FirstStep, FirstInitially, BaseHolds, ArmedHolds, PTL DEF Spec
--------------------------------------------------------------------------------
(* The order in which a thread goes through the program *)

Apart == "apart" \in Rules

LEMMA ApartStep ==
  ASSUME Apart, BaseInv, ApartInv, [Next]_vars
  PROVE  ApartInv'
<1>1. ASSUME software' = software, DOMAIN hwByAddress' \subseteq DOMAIN hwByAddress
      PROVE  ApartInv'
  BY <1>1 DEF ApartInv
<1>2. ASSUME NEW t \in Threads, NEW a \in Code, SetSoftware(t, a)
      PROVE  ApartInv'
  <2>1. software' = software \union {a} /\ MayBreak(a) /\ DOMAIN hwByAddress' = DOMAIN hwByAddress
    BY <1>2 DEF SetSoftware, hwVars
  <2>2. QED
    BY <2>1 DEF ApartInv, MayBreak, Breakpoints, Apart
<1>3. ASSUME NEW t \in Threads, NEW a \in Code, RemoveSoftware(t, a)
      PROVE  ApartInv'
  BY <1>3 DEF RemoveSoftware, hwVars, ApartInv
<1>4. ASSUME NEW t \in Threads, NEW a \in Addresses, a \in Code => MayBreak(a),
             NEW type \in {"execute", "write"}, SetHardware(t, a, type), software' = software
      PROVE  ApartInv'
  <2>0. EntryInv
    BY DEF BaseInv
  <2>1. DOMAIN hwByAddress' = DOMAIN hwByAddress \union {a}
    <3>1. PICK id \in Ids, slot \in Slots : Added(t, a, type, id, slot)
      BY <1>4, <2>0, SetFacts
    <3>2. QED
      BY <3>1 DEF Added
  <2>2. ASSUME a \in Code, NEW s \in software
        PROVE  a - s \notin {-1, 0, 1}
    <3>1. s - a \notin {-1, 0, 1}
      BY <1>4, <2>2 DEF MayBreak, Breakpoints, Apart
    <3>2. a \in Nat /\ s \in Nat
      BY <2>2, Numbers DEF BaseInv, ThreadInv
    <3>3. QED
      BY <3>1, <3>2
  <2>3. QED
    BY <1>4, <2>1, <2>2 DEF ApartInv
<1>5. ASSUME NEW t \in Threads, HardwareCall(t)
      PROVE  ApartInv'
  <2>1. software' = software
    BY <1>5, HardwareCallCases
  <2>2. ASSUME NEW ids \in SUBSET hwById, RemoveIds(t, ids)
        PROVE  ApartInv'
    BY <1>1, <2>1, <2>2, RemoveFacts DEF BaseInv
  <2>3. ASSUME NEW a \in Addresses, SetHardwareFails(a)
        PROVE  ApartInv'
    BY <1>1, <2>1, <2>3 DEF SetHardwareFails
  <2>4. QED
    BY <1>4, <1>5, <2>1, <2>2, <2>3, HardwareCallCases DEF TypeAt
<1>6. ASSUME NEW t \in Threads, ProgramStep(t)
      PROVE  ApartInv'
  <2>1. UNCHANGED <<hwByAddress, software>>
    BY <1>6 DEF ProgramStep, Enter, HardwareTrap, SoftwareTrap, Execute, CallCallback,
                RunRelocated, ExecuteRelocated, RunsReleased, Leave, NoCall, Instruction, hwVars
  <2>2. QED
    BY <1>1, <2>1
<1>7. CASE UNCHANGED vars
  BY <1>1, <1>7 DEF vars, hwVars
<1>8. QED
  BY <1>2, <1>3, <1>5, <1>6, <1>7, StepKinds

\* At place there is a breakpoint for thread t to be redirected from.
Redirected(t, place) == place.at \in software \/ (t = Script /\ place.at \in DOMAIN hwByAddress)

\* What may become of the place of a thread in one step.
Ordered(t, place) ==
  /\ thread[t].phase # "outside" /\ place.phase # "outside" =>
       place.at \in {thread[t].at, thread[t].at + 1}
  /\ /\ thread[t].phase \in {"code", "relocated"} /\ place.phase # "outside"
     /\ place.at # thread[t].at
     => thread[t].at \notin Stops(t) \/ thread[t].told
  /\ thread[t].told /\ place.at = thread[t].at => place.told
  /\ place.phase = "trampoline" => Redirected(t, place)
  /\ place.id \in {0, thread[t].id} \/ (t = Script /\ place.id \in hwById)

LEMMA SoftwareMoves ==
  ASSUME NEW t, NEW pc, NEW written, NEW at, pc - Advance = at, ToSoftware(t, pc, written)
  PROVE  GoesTo(t, In("trampoline", at, 0, FALSE))
BY DEF ToSoftware

\* A trap that a breakpoint at the current instruction raises: the thread stays there.
LEMMA TrapsHere ==
  ASSUME BaseInv, ArmedInv, ApartInv, FirstInv, NEW t \in Threads,
         HardwareTrap(t) \/ SoftwareTrap(t), ~Dies
  PROVE  \E place : Ordered(t, place) /\ GoesTo(t, place)
<1> DEFINE at == thread[t].at
<1>1. at \in Code /\ at \in Nat /\ ~thread[t].told
  <2>1. at \in 0 .. Size /\ at < Size /\ thread[t].phase = "code"
    BY DEF HardwareTrap, SoftwareTrap, InCode, Runs, BaseInv, ThreadInv, Places
  <2>2. QED
    BY <2>1, Numbers DEF BaseInv, ThreadInv
<1>2. ASSUME NEW id, id = 0 \/ (t = Script /\ id \in hwById),
             at \in software \/ (t = Script /\ at \in DOMAIN hwByAddress),
             GoesTo(t, In("trampoline", at, id, FALSE))
      PROVE  \E place : Ordered(t, place) /\ GoesTo(t, place)
  BY <1>1, <1>2 DEF Ordered, Redirected, In
<1>3. CASE HardwareTrap(t)
  <2>1. t = Script /\ HwRedirects(at) /\ at \in DOMAIN hwByAddress /\ hwByAddress[at] \in hwById
    BY <1>3, ExecuteHit, RedirectsAtCode DEF HardwareTrap, BaseInv
  <2>2. PICK hits : Trapped(t, at, hits, {}, thread[t])
    BY <1>3 DEF HardwareTrap
  <2>3. ToSoftware(t, at, {}) \/ ToHardware(t, at, {})
    BY <2>1, <2>2, TrapOutcomes DEF Outcome, Reports
  <2>4. SwClaims(at) => at - Advance = at
    <3>1. SwClaims(at) => at - (at - Advance) \notin {-1, 0, 1}
      BY <1>1, <2>1 DEF SwClaims, ApartInv
    <3>2. QED
      BY <1>1, <3>1, Numbers
  <2>5. QED
    BY <1>2, <2>1, <2>3, <2>4 DEF ToSoftware, ToHardware
<1>4. CASE SoftwareTrap(t)
  <2> DEFINE pc == at + Advance
  <2>1. PICK next : at \in software /\ Trapped(t, pc, {}, {}, next)
    BY <1>4 DEF SoftwareTrap
  <2>2. pc - Advance = at
    BY <1>1, Numbers
  <2> HIDE DEF pc
  <2>3. ToSoftware(t, pc, {})
    BY <2>1, <2>2, SoftwareFirstTakes DEF SwClaims
  <2>4. GoesTo(t, In("trampoline", at, 0, FALSE))
    BY <2>2, <2>3, SoftwareMoves
  <2>5. QED
    BY <1>2, <2>1, <2>4
<1>5. QED
  BY <1>3, <1>4

\* A thread that runs an instruction goes to the next one.
LEMMA ExecuteMoves ==
  ASSUME BaseInv, ArmedInv, NEW t \in Threads, Execute(t), ~Dies
  PROVE  \E place : Ordered(t, place) /\ GoesTo(t, place)
<1> DEFINE at == thread[t].at
<1>1. at \in Code /\ at \in Nat /\ ~thread[t].told /\ at \notin software
  <2>1. at \in 0 .. Size /\ at < Size /\ thread[t].phase = "code" /\ at \notin software
    BY DEF Execute, InCode, Runs, BaseInv, ThreadInv, Places
  <2>2. QED
    BY <2>1, Numbers DEF BaseInv, ThreadInv
<1>2. at \notin Stops(t)
  <2>1. ASSUME NEW w \in armed, w.thread = t, w.address = at
        PROVE  FALSE
    <3>1. PICK id \in hwById : w = Watch(id)
      BY DEF ArmedInv
    <3>2. w.type = "execute"
      BY <1>1, <2>1, <3>1 DEF Watch, BaseInv, EntryInv, TypeAt
    <3>3. w \in Watches(t, at, "execute")
      BY <2>1, <3>2 DEF Watches
    <3>4. QED
      BY <3>3 DEF Execute
  <2>2. QED
    BY <1>1, <2>1 DEF Stops
<1>3. ASSUME NEW place, place.at \in {at, at + 1},
             place.id = 0 \/ (t = Script /\ place.id \in hwById),
             place.phase = "trampoline" => Redirected(t, place), GoesTo(t, place)
      PROVE  \E p : Ordered(t, p) /\ GoesTo(t, p)
  BY <1>1, <1>2, <1>3 DEF Ordered
<1>4. PICK written : Instruction(t, at + 1, written, In("code", at + 1, 0, FALSE))
  BY DEF Execute
<1>5. \/ GoesTo(t, In("code", at + 1, 0, FALSE))
      \/ ToSoftware(t, at + 1, written)
      \/ ToHardware(t, at + 1, written) /\ t = Script
  <2>1. \/ GoesTo(t, In("code", at + 1, 0, FALSE))
        \/ Hits(t, written) # {} /\ Trapped(t, at + 1, Hits(t, written), written,
                                           In("code", at + 1, 0, FALSE))
    BY <1>4 DEF Instruction, Hits
  <2>2. Hits(t, written) # {} => t = Script
    BY HitFacts DEF Hits
  <2>3. QED
    BY <2>1, <2>2, TrapOutcomes DEF Outcome, Reports
<1>6. CASE GoesTo(t, In("code", at + 1, 0, FALSE))
  BY <1>3, <1>6 DEF In
<1>7. CASE ToSoftware(t, at + 1, written)
  <2> DEFINE pc    == at + 1
             here  == pc - Advance
             place == In("trampoline", here, 0, FALSE)
  <2>1. here \in {at, at + 1}
    BY <1>1, Numbers
  <2>2. here \in software
    BY <1>7 DEF ToSoftware, SwClaims
  <2>3. ToSoftware(t, pc, written)
    BY <1>7
  <2>4. pc - Advance = here
    OBVIOUS
  <2> HIDE DEF pc, here
  <2>5. GoesTo(t, place)
    BY <2>3, <2>4, SoftwareMoves
  <2>6. place.at = here /\ place.id = 0
    BY DEF In
  <2> HIDE DEF place
  <2>7. QED
    BY <1>3, <2>1, <2>2, <2>5, <2>6 DEF Redirected
<1>8. CASE ToHardware(t, at + 1, written) /\ t = Script
  <2>1. at + 1 \in DOMAIN hwByAddress /\ hwByAddress[at + 1] \in hwById
    BY <1>8, RedirectsAtCode DEF ToHardware, BaseInv
  <2>2. QED
    BY <1>3, <1>8, <2>1 DEF ToHardware, In, Redirected
<1>9. QED
  BY <1>5, <1>6, <1>7, <1>8

\* Relocated code goes on behind the instruction it stands for.
LEMMA RelocatedMoves ==
  ASSUME BaseInv, NEW t \in Threads, ExecuteRelocated(t), ~Dies
  PROVE  \E place : Ordered(t, place) /\ GoesTo(t, place)
<1> DEFINE at == thread[t].at
           next == In("code", at + 1, 0, FALSE)
<1>1. thread[t].phase = "relocated" /\ thread[t].told /\ at \in Int
  BY DEF ExecuteRelocated, Runs, BaseInv, ThreadInv, Places
<1>2. PICK written : Instruction(t, Elsewhere, written, next)
  BY DEF ExecuteRelocated, BackTo
<1>3. GoesTo(t, next)
  <2>1. GoesTo(t, next) \/ Trapped(t, Elsewhere, Hits(t, written), written, next)
    BY <1>2 DEF Instruction, Hits
  <2>2. QED
    BY <2>1, NothingElsewhere, TrapOutcomes DEF Outcome, ToSoftware, ToHardware, Reports
<1>4. Ordered(t, next)
  BY <1>1 DEF Ordered, In
<1>5. QED
  BY <1>3, <1>4

LEMMA OrderedStep ==
  ASSUME BaseInv, ArmedInv, ApartInv, FirstInv, NEW t \in Threads, ProgramStep(t)
  PROVE  thread' = thread \/ \E place : Ordered(t, place) /\ GoesTo(t, place)
<1>1. CASE Dies
  BY <1>1 DEF Dies
<1>2. CASE ~Dies /\ (HardwareTrap(t) \/ SoftwareTrap(t))
  BY <1>2, TrapsHere
<1>3. CASE ~Dies /\ Execute(t)
  BY <1>3, ExecuteMoves
<1>4. CASE ~Dies /\ ExecuteRelocated(t)
  BY <1>4, RelocatedMoves
<1>5. CASE Enter(t)
  <2>1. Ordered(t, In("code", 0, 0, FALSE))
    BY <1>5 DEF Enter, Runs, Ordered, In, BaseInv, ThreadInv
  <2>2. QED
    BY <1>5, <2>1 DEF Enter
<1>6. CASE Leave(t)
  <2>1. Ordered(t, Outside)
    BY <1>6 DEF Leave, Runs, Ordered, Outside, BaseInv, ThreadInv
  <2>2. QED
    BY <1>6, <2>1 DEF Leave
<1>7. CASE CallCallback(t)
  <2>1. Ordered(t, In("callback", thread[t].at, thread[t].id, TRUE))
    BY <1>7 DEF CallCallback, Runs, Ordered, In
  <2>2. QED
    BY <1>7, <2>1 DEF CallCallback
<1>8. CASE RunRelocated(t)
  <2>1. Ordered(t, In("relocated", thread[t].at, thread[t].id, TRUE))
    BY <1>8 DEF RunRelocated, Runs, Ordered, In
  <2>2. QED
    BY <1>8, <2>1 DEF RunRelocated
<1>9. CASE RunsReleased(t)
  BY <1>9 DEF RunsReleased
<1>10. QED
  BY <1>1, <1>2, <1>3, <1>4, <1>5, <1>6, <1>7, <1>8, <1>9 DEF ProgramStep

LEMMA TrampolineStep ==
  ASSUME OneThread, BaseInv, ArmedInv, ApartInv, FirstInv, TrampolineInv, [Next]_vars
  PROVE  TrampolineInv'
<1>1. ASSUME software \subseteq software', DOMAIN hwByAddress \subseteq DOMAIN hwByAddress',
             thread' = thread
      PROVE  TrampolineInv'
  BY <1>1 DEF TrampolineInv
<1>2. ASSUME NEW t \in Threads, NEW ids \in SUBSET hwById, MayCall(t), RemoveIds(t, ids),
             UNCHANGED <<software, thread>>
      PROVE  TrampolineInv'
  <2>1. t = Script
    BY <1>2, CallerIsScript
  <2>2. thread[Script].phase # "trampoline"
    BY <1>2, <2>1 DEF MayCall
  <2>3. QED
    BY <1>2, <2>2 DEF TrampolineInv
<1>3. ASSUME NEW t \in Threads, HardwareCall(t)
      PROVE  TrampolineInv'
  <2>1. UNCHANGED <<software, thread>> /\ MayCall(t)
    BY <1>3, HardwareCallCases
  <2>2. ASSUME NEW a \in Addresses,
               SetHardware(t, a, TypeAt(a))
        PROVE  TrampolineInv'
    <3>1. DOMAIN hwByAddress' = DOMAIN hwByAddress \union {a}
      BY <2>2, SetFacts DEF Added, BaseInv, TypeAt
    <3>2. QED
      BY <1>1, <2>1, <3>1
  <2>3. ASSUME NEW a \in Addresses, SetHardwareFails(a)
        PROVE  TrampolineInv'
    BY <1>1, <2>1, <2>3 DEF SetHardwareFails
  <2>4. QED
    BY <1>2, <1>3, <2>1, <2>2, <2>3, HardwareCallCases
<1>4. ASSUME NEW t \in Threads, NEW a \in Code, SetSoftware(t, a)
      PROVE  TrampolineInv'
  BY <1>1, <1>4 DEF SetSoftware, hwVars
<1>5. ASSUME NEW t \in Threads, NEW a \in Code, RemoveSoftware(t, a)
      PROVE  TrampolineInv'
  BY <1>5 DEF RemoveSoftware, AllOutside, TrampolineInv
<1>6. ASSUME NEW t \in Threads, ProgramStep(t)
      PROVE  TrampolineInv'
  <2>1. UNCHANGED <<hwByAddress, software>>
    BY <1>6 DEF ProgramStep, Enter, HardwareTrap, SoftwareTrap, Execute, CallCallback,
                RunRelocated, ExecuteRelocated, RunsReleased, Leave, NoCall, Instruction, hwVars
  <2>2. CASE thread' = thread
    BY <1>1, <2>1, <2>2
  <2>3. ASSUME NEW place, Ordered(t, place), GoesTo(t, place)
        PROVE  TrampolineInv'
    <3>1. thread' = [thread EXCEPT ![t] = place] /\ t \in DOMAIN thread
      BY <2>3 DEF GoesTo, BaseInv, ThreadInv
    <3>2. place.phase = "trampoline" => Redirected(t, place)
      BY <2>3 DEF Ordered
    <3>3. QED
      BY <2>1, <3>1, <3>2 DEF TrampolineInv, Redirected
  <2>4. QED
    BY <1>6, <2>2, <2>3, OrderedStep
<1>7. CASE UNCHANGED vars
  BY <1>1, <1>7 DEF vars, hwVars
<1>8. QED
  BY <1>3, <1>4, <1>5, <1>6, <1>7, StepKinds

\* What InOrder says of a step of thread t.
InOrderFor(t) ==
  /\ thread[t].phase # "outside" /\ thread[t]'.phase # "outside" =>
       thread[t]'.at \in {thread[t].at, thread[t].at + 1}
  /\ Passes(t) => thread[t].at \notin Stops(t) \/ thread[t].told
  /\ thread[t].phase = "trampoline" => thread[t].at \in Stops(t)
  /\ thread[t].told /\ thread[t]'.at = thread[t].at => thread[t]'.told

LEMMA TrampolineStops ==
  ASSUME BaseInv, ArmedInv, TrampolineInv, NEW t \in Threads, thread[t].phase = "trampoline"
  PROVE  thread[t].at \in Stops(t)
<1>1. CASE thread[t].at \in software
  BY <1>1 DEF Stops
<1>2. CASE t = Script /\ thread[t].at \in DOMAIN hwByAddress
  <2>1. PICK id \in hwById : hwEntry[id].address = thread[t].at
    BY <1>2 DEF BaseInv, EntryInv
  <2>2. Watch(id) \in armed /\ Watch(id).thread = t /\ Watch(id).address = thread[t].at
    BY <1>2, <2>1 DEF ArmedInv, Watch
  <2>3. QED
    BY <2>2 DEF Stops
<1>3. QED
  BY <1>1, <1>2 DEF TrampolineInv

\* Breakpoints are transparent (breakpoint.ts:14-16): if one thread calls the API,
\* breakpoints keep their distance and the handler that looks at DR6 is asked last, a
\* thread goes through the program an instruction at a
\* time, is redirected only from an address that has a breakpoint, passes none before its
\* callback was told, and tells it once.
THEOREM ProgramRunsInOrder ==
  ASSUME OneThread, Apart, SoftwareFirst
  PROVE  Spec => InOrder
<1>1. Init => TrampolineInv /\ ApartInv
  BY DEF Init, HardwareInit, TrampolineInv, ApartInv, Outside
<1>2. BaseInv /\ ArmedInv /\ TrampolineInv /\ ApartInv /\ FirstInv /\ [Next]_vars
        => TrampolineInv' /\ ApartInv'
  BY TrampolineStep, ApartStep
<1>3. ASSUME BaseInv, ArmedInv, TrampolineInv, ApartInv, FirstInv, [Next]_vars, NEW t \in Threads
      PROVE  InOrderFor(t)
  <2>1. thread[t].phase = "trampoline" => thread[t].at \in Stops(t)
    BY <1>3, TrampolineStops
  <2>2. CASE thread[t]' = thread[t]
    BY <2>1, <2>2 DEF InOrderFor, Passes, BaseInv, ThreadInv
  <2>3. ASSUME NEW place, Ordered(t, place), thread[t]' = place
        PROVE  InOrderFor(t)
    BY <2>1, <2>3 DEF InOrderFor, Passes, Ordered
  <2>4. ASSUME NEW s \in Threads, ProgramStep(s)
        PROVE  InOrderFor(t)
    <3>1. CASE thread' = thread
      BY <2>2, <3>1
    <3>2. ASSUME NEW place, Ordered(s, place), GoesTo(s, place)
          PROVE  InOrderFor(t)
      <4>1. thread[t]' = IF t = s THEN place ELSE thread[t]
        BY <1>3, <3>2 DEF GoesTo, BaseInv, ThreadInv
      <4>2. QED
        BY <2>2, <2>3, <3>2, <4>1
    <3>3. QED
      BY <1>3, <2>4, <3>1, <3>2, OrderedStep
  <2>5. thread' = thread \/ \E s \in Threads : ProgramStep(s)
    BY <1>3, StepKinds DEF vars, SetSoftware, RemoveSoftware, HardwareCall
  <2>6. QED
    BY <2>2, <2>4, <2>5
<1>4. BaseInv /\ ArmedInv /\ TrampolineInv /\ ApartInv /\ FirstInv /\ [Next]_vars
        => [\A t \in Threads : InOrderFor(t)]_vars
  BY <1>3
<1>5. Spec => [][\A t \in Threads : InOrderFor(t)]_vars
  BY <1>1, <1>2, <1>4, FirstInitially, FirstStep, BaseHolds, ArmedHolds, PTL DEF Spec
<1>6. QED
  BY <1>5 DEF InOrder, InOrderFor

--------------------------------------------------------------------------------
(* A script that calls the API only from outside the program *)

CallsOutside == "outside" \in Rules

\* The breakpoint that sent a thread into its trampoline is still set.
AliveInv == \A t \in Threads : thread[t].id # 0 => t = Script /\ thread[t].id \in hwById

LEMMA CallerIsOutside ==
  ASSUME CallsOutside, NEW t \in Threads, MayCall(t)
  PROVE  thread[t].phase = "outside"
BY DEF MayCall, CallsOutside

\* A thread outside has left every trampoline.
OutsideInv == \A t \in Threads : thread[t].phase \in {"outside", "code"} => thread[t].id = 0

LEMMA TrapOutside ==
  ASSUME BaseInv, NEW t \in Threads, NEW pc, NEW hits, NEW written, NEW next,
         next.phase \in {"outside", "code"} => next.id = 0, Trapped(t, pc, hits, written, next)
  PROVE  thread' = thread \/ \E place : /\ place.phase \in {"outside", "code"} => place.id = 0
                                       /\ GoesTo(t, place)
<1> DEFINE Goal == thread' = thread \/ \E place : /\ place.phase \in {"outside", "code"} => place.id = 0
                                                  /\ GoesTo(t, place)
<1>1. CASE Dies
  BY <1>1 DEF Dies
<1>2. ASSUME NEW at, NEW id, GoesTo(t, In("trampoline", at, id, FALSE))
      PROVE  Goal
  <2>1. In("trampoline", at, id, FALSE).phase = "trampoline"
    BY DEF In
  <2>2. QED
    BY <1>2, <2>1
<1>3. CASE ToSoftware(t, pc, written) \/ ToHardware(t, pc, written)
  BY <1>2, <1>3 DEF ToSoftware, ToHardware
<1>4. ASSUME NEW bits, Reports(t, pc, bits, written, next)
      PROVE  Goal
  BY <1>4 DEF Reports
<1>5. QED
  BY <1>1, <1>3, <1>4, TrapOutcomes DEF Outcome

LEMMA OutsideStep ==
  ASSUME BaseInv, OutsideInv, [Next]_vars
  PROVE  OutsideInv'
<1>1. CASE thread' = thread
  BY <1>1 DEF OutsideInv
<1>2. ASSUME NEW t \in Threads, NEW place, GoesTo(t, place),
             place.phase \in {"outside", "code"} => place.id = 0
      PROVE  OutsideInv'
  BY <1>2 DEF GoesTo, OutsideInv, BaseInv, ThreadInv
<1>3. ASSUME NEW t \in Threads, NEW pc, NEW hits, NEW written, NEW next,
             next.phase \in {"outside", "code"} => next.id = 0,
             Trapped(t, pc, hits, written, next) \/ GoesTo(t, next)
      PROVE  OutsideInv'
  BY <1>1, <1>2, <1>3, TrapOutside
<1>4. ASSUME NEW t \in Threads, ProgramStep(t)
      PROVE  OutsideInv'
  <2>1. CASE HardwareTrap(t) \/ SoftwareTrap(t)
    BY <1>3, <2>1 DEF HardwareTrap, SoftwareTrap, OutsideInv, In
  <2>2. ASSUME NEW pc, NEW at, NEW written, Instruction(t, pc, written, In("code", at, 0, FALSE))
        PROVE  OutsideInv'
    <3> DEFINE next == In("code", at, 0, FALSE)
    <3>1. next.phase \in {"outside", "code"} => next.id = 0
      BY DEF In
    <3>2. GoesTo(t, next) \/ Trapped(t, pc, Hits(t, written), written, next)
      BY <2>2 DEF Instruction, Hits
    <3> HIDE DEF next
    <3>3. QED
      BY <1>3, <3>1, <3>2
  <2>3. CASE Enter(t) \/ Leave(t) \/ CallCallback(t) \/ RunRelocated(t)
    BY <1>2, <2>3 DEF Enter, Leave, CallCallback, RunRelocated, In, Outside
  <2>4. CASE RunsReleased(t)
    BY <1>1, <2>4 DEF RunsReleased
  <2>5. CASE Execute(t) \/ ExecuteRelocated(t)
    BY <2>2, <2>5 DEF Execute, ExecuteRelocated
  <2>6. QED
    BY <1>4, <2>1, <2>3, <2>4, <2>5 DEF ProgramStep
<1>5. QED
  BY <1>1, <1>4, StepKinds DEF vars, SetSoftware, RemoveSoftware, HardwareCall

LEMMA AliveStep ==
  ASSUME OneThread, CallsOutside, BaseInv, ArmedInv, ApartInv, FirstInv, OutsideInv, AliveInv, [Next]_vars
  PROVE  AliveInv'
<1>1. ASSUME hwById \subseteq hwById', thread' = thread
      PROVE  AliveInv'
  BY <1>1 DEF AliveInv
<1>2. ASSUME NEW t \in Threads, HardwareCall(t)
      PROVE  AliveInv'
  <2>1. MayCall(t) /\ thread' = thread
    BY <1>2, HardwareCallCases
  <2>2. t = Script /\ thread[t].id = 0
    BY <2>1, CallerIsScript, CallerIsOutside DEF OutsideInv
  <2>3. QED
    BY <2>1, <2>2 DEF AliveInv
<1>3. ASSUME NEW t \in Threads, ProgramStep(t)
      PROVE  AliveInv'
  <2>1. hwById' = hwById
    BY <1>3 DEF ProgramStep, Enter, HardwareTrap, SoftwareTrap, Execute, CallCallback,
                RunRelocated, ExecuteRelocated, RunsReleased, Leave, NoCall, Instruction, hwVars
  <2>2. ASSUME NEW place, Ordered(t, place), GoesTo(t, place)
        PROVE  AliveInv'
    <3>1. thread' = [thread EXCEPT ![t] = place] /\ thread \in [Threads -> Places]
      BY <2>2 DEF GoesTo, BaseInv, ThreadInv
    <3>2. place.id \in {0, thread[t].id} \/ (t = Script /\ place.id \in hwById)
      BY <2>2 DEF Ordered
    <3>3. QED
      BY <2>1, <3>1, <3>2 DEF AliveInv
  <2>3. QED
    BY <1>1, <1>3, <2>1, <2>2, OrderedStep
<1>4. UNCHANGED <<hwById, thread>> \/ \E t \in Threads : HardwareCall(t) \/ ProgramStep(t)
  BY StepKinds DEF vars, hwVars, SetSoftware, RemoveSoftware
<1>5. QED
  BY <1>1, <1>2, <1>3, <1>4

\* A script that keeps its breakpoints apart, sets its software breakpoints first and
\* calls the API from one thread and only while that thread is outside the instrumented
\* code never brings the process down: no INT3 is taken for the hit of a watchpoint, and
\* remove() releases no trampoline and no relocated code that a thread will return to.
THEOREM NobodyDies ==
  ASSUME OneThread, CallsOutside, Apart, SoftwareFirst
  PROVE  Spec => []~crashed
<1>1. Init => ApartInv /\ OutsideInv /\ AliveInv /\ ~crashed
  BY DEF Init, HardwareInit, ApartInv, OutsideInv, AliveInv, Outside
<1>2. BaseInv /\ ArmedInv /\ ApartInv /\ FirstInv /\ OutsideInv /\ AliveInv /\ [Next]_vars
        => ApartInv' /\ FirstInv' /\ OutsideInv' /\ AliveInv'
  BY ApartStep, FirstStep, OutsideStep, AliveStep
<1>3. AliveInv /\ DiesOnlyOfRelease => ~crashed
  BY DEF AliveInv, DiesOnlyOfRelease
<1>4. QED
  BY <1>1, <1>2, <1>3, FirstInitially, BaseHolds, ArmedHolds, TrapsAreHandled, PTL DEF Spec
================================================================================
