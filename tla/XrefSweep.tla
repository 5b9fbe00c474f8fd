-------------------------------- MODULE XrefSweep --------------------------------
(****************************************************************************)
(* NativeDisassembler::findXrefs() and extractTarget(): a linear sweep over  *)
(* a range that decodes one instruction after the other and reports those    *)
(* that refer to an address.  x86-64, where instructions differ in length.   *)
(* The range is the one of PatternScan, positions count from 0.              *)
(****************************************************************************)
EXTENDS PatternScan

CONSTANTS
  MaxInsn,   \* bytes Capstone is given at most (16)
  Decode(_), \* Capstone: bytes to [size, groups, operands]; size 0: no instruction
  Targets    \* addresses the user may ask for

\* Capstone decodes one instruction of the bytes it is given, or none.
ASSUME SweepConstants ==
  /\ MaxInsn \in Nat \ {0}
  /\ \A n \in 1 .. MaxInsn : \A bytes \in [1 .. n -> Byte] : Decode(bytes).size \in 0 .. n

\* The operands of an instruction are [type : {"reg", "imm", "rip"}, value : Int].

VARIABLES
  start,   \* address of the range
  target,  \* the address asked for
  xrefs    \* results: the position and the type of each reference

sweepVars == <<start, target, xrefs>>

Lesser(x, y) == IF x < y THEN x ELSE y

\* What Capstone makes of the bytes at position k: it sees no byte behind the range.
Insn(k) == Decode(SubSeq(haystack, k + 1, Lesser(Len(haystack), k + MaxInsn)))

\* The operands extractTarget() goes by, the first of which is the target.
Referring(insn) == {n \in DOMAIN insn.operands : insn.operands[n].type \in {"imm", "rip"}}

\* extractTarget(): 0 if there is none.
TargetOf(k) ==
  LET insn == Insn(k)
      op == insn.operands[CHOOSE n \in Referring(insn) : \A o \in Referring(insn) : n <= o]
  IN IF Referring(insn) = {} THEN 0
     ELSE IF op.type = "imm" THEN op.value ELSE start + k + insn.size + op.value

TypeOfXref(insn) ==
  IF "call" \in insn.groups THEN "call" ELSE IF "jump" \in insn.groups THEN "branch" ELSE "data"

\* Where the sweep goes on: behind the instruction, or one byte further.
AdvanceByLongest(k) == IF Insn(k).size = 0 THEN k + MaxInsn ELSE k + Insn(k).size
Advance(k) == IF Insn(k).size = 0 THEN k + 1 ELSE k + Insn(k).size

--------------------------------------------------------------------------------
SweepInit == start = 0 /\ target = 0 /\ xrefs = <<>>

\* findXrefs() of a range at address a; without bytes (rangeSize <= 0) it returns at once.
FindXrefs(a, h, r, t) ==
  /\ scan = "none"
  /\ start' = a /\ haystack' = h /\ readable' = r /\ target' = t
  /\ i' = 0 /\ xrefs' = <<>>
  /\ scan' = IF a = 0 \/ t = 0 \/ h = <<>> THEN "done" ELSE "sweeping"
  /\ UNCHANGED <<pattern, results>>

InsnReadable == i .. Advance(i) - 1 \subseteq readable

SweepInsn ==
  /\ scan = "sweeping" /\ i < Len(haystack) /\ InsnReadable
  /\ xrefs' = IF Insn(i).size > 0 /\ TargetOf(i) = target
              THEN Append(xrefs, [at |-> i, type |-> TypeOfXref(Insn(i))])
              ELSE xrefs
  /\ i' = Advance(i)
  /\ UNCHANGED <<haystack, readable, pattern, results, scan, start, target>>

SweepEnds ==
  /\ scan = "sweeping"
  /\ \/ i >= Len(haystack) /\ scan' = "done"
     \/ i < Len(haystack) /\ ~InsnReadable /\ scan' = "fault"
  /\ UNCHANGED <<haystack, readable, pattern, i, results, sweepVars>>

SweepStep == SweepInsn \/ SweepEnds

--------------------------------------------------------------------------------
(* Properties *)

\* The positions where an instruction begins if they follow each other from the start of
\* the range on, where a byte that is the start of no instruction stands alone: those in
\* every set that has the start and, with each position, the one behind its instruction.
Behind(k) == k + (IF Insn(k).size = 0 THEN 1 ELSE Insn(k).size)
Closed(S) == 0 \in S /\ \A k \in S : k < Len(haystack) => Behind(k) \in S
Starts == {k \in 0 .. Len(haystack) : \A S \in SUBSET (0 .. Len(haystack)) : Closed(S) => k \in S}

\* A sweep reports each instruction that refers to the target, once and in order, the
\* ones behind bytes that do not decode included, and none that the end of the range
\* cuts (native_disassembler.cc:278-306).
FindsEveryXref ==
  scan \in {"sweeping", "done"} /\ target # 0 /\ start # 0 =>
    /\ \A n \in 1 .. Len(xrefs) - 1 : xrefs[n].at < xrefs[n + 1].at
    /\ {xrefs[n].at : n \in DOMAIN xrefs}
         = {k \in 0 .. Len(haystack) - 1 :
              k < i /\ k \in Starts /\ Insn(k).size > 0 /\ TargetOf(k) = target}

================================================================================
