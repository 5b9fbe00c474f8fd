---------------------------- MODULE RelocationProofs ----------------------------
(****************************************************************************)
(* Theorems about Relocation, for every program, patch size and state of the *)
(* flags.                                                                    *)
(*                                                                           *)
(* The items that were emitted do not overlap, and those of one instruction  *)
(* follow those of the one before it (Layout).  A run of the copy is at the  *)
(* first item of an instruction, or behind a condition that did not jump,    *)
(* with what the original had done when it came to that instruction.         *)
(****************************************************************************)
EXTENDS Relocation, SequenceTheorems, TLAPS

Insns == [op : Ops[arch], cc : Conditions, size : Nat \ {0}]

Kinds == {"copy", "quad", "jump-through", "call-through", "jump-unbound", "jump-if",
          "br", "blr", "mov"}

Items == [at : Nat, kind : Kinds, size : Nat \ {0}, arg : Int, cc : Conditions]

Placed(at, kind, size, arg, cc) ==
  [at |-> at, kind |-> kind, size |-> size, arg |-> arg, cc |-> cc]

Has(s, it) == \E i \in DOMAIN s : s[i] = it

Ordered(s) == \A i, j \in DOMAIN s : i < j => s[i].at + s[i].size <= s[j].at

TypeInv ==
  /\ arch \in {"x86", "arm64"}
  /\ source \in Seq(Insns) /\ Len(source) >= PatchBytes
  /\ cpu \in [of : BOOLEAN, zf : BOOLEAN, cx : BOOLEAN]
  /\ phase \in {"build", "threw", "run", "done"}
  /\ k \in 0 .. Len(source) /\ offset \in Nat /\ k <= offset
  /\ \A n \in 1 .. k : source[n].op # "bad"
  /\ out \in Seq(Items) /\ Ordered(out)

--------------------------------------------------------------------------------
(* Emission *)

LEMMA CursorBehindAll ==
  ASSUME NEW s, s \in Seq(Items), Ordered(s)
  PROVE  Cursor(s) \in Nat /\ \A i \in DOMAIN s : s[i].at + s[i].size <= Cursor(s)
<1>1. Len(s) \in Nat /\ DOMAIN s = 1 .. Len(s) /\ \A i \in DOMAIN s : s[i] \in Items
  BY LenProperties
<1>2. \A i \in DOMAIN s : s[i].at \in Nat /\ s[i].size \in Nat /\ s[i].size > 0
  BY <1>1 DEF Items
<1>3. CASE s = <<>>
  BY <1>3 DEF Cursor
<1>4. CASE s # <<>>
  <2>1. Len(s) \in DOMAIN s /\ Cursor(s) = s[Len(s)].at + s[Len(s)].size
    BY <1>1, <1>4, EmptySeq DEF Cursor
  <2>2. ASSUME NEW i \in DOMAIN s PROVE s[i].at + s[i].size <= Cursor(s)
    <3>1. CASE i = Len(s)
      BY <1>2, <2>1, <3>1
    <3>2. CASE i # Len(s)
      <4>1. i < Len(s)
        BY <1>1, <3>2
      <4>2. s[i].at + s[i].size <= s[Len(s)].at
        BY <2>1, <4>1 DEF Ordered
      <4>3. QED
        BY <1>2, <2>1, <4>2
    <3>3. QED
      BY <3>1, <3>2
  <2>3. QED
    BY <1>2, <2>1, <2>2
<1>5. QED
  BY <1>3, <1>4

LEMMA EmitAppends ==
  ASSUME NEW s, s \in Seq(Items), Ordered(s), NEW kind \in Kinds, NEW size \in Nat \ {0},
         NEW arg \in Int, NEW cc \in Conditions
  PROVE  /\ Emit(s, kind, size, arg, cc) \in Seq(Items)
         /\ Ordered(Emit(s, kind, size, arg, cc))
         /\ Cursor(Emit(s, kind, size, arg, cc)) = Cursor(s) + size
         /\ \A it : Has(s, it) => Has(Emit(s, kind, size, arg, cc), it)
         /\ Has(Emit(s, kind, size, arg, cc), Placed(Cursor(s), kind, size, arg, cc))
<1> DEFINE e == Placed(Cursor(s), kind, size, arg, cc)
           t == Append(s, e)
<1>1. Emit(s, kind, size, arg, cc) = t
  BY DEF Emit, Placed
<1>2. Cursor(s) \in Nat /\ \A i \in DOMAIN s : s[i].at + s[i].size <= Cursor(s)
  BY CursorBehindAll
<1>3. e \in Items /\ e.at = Cursor(s) /\ e.size = size
  BY <1>2 DEF Items, Placed
<1> HIDE DEF e
<1>4. /\ t \in Seq(Items) /\ Len(t) = Len(s) + 1 /\ DOMAIN t = 1 .. Len(s) + 1
      /\ Len(s) \in Nat /\ DOMAIN s = 1 .. Len(s)
      /\ \A i \in DOMAIN s : t[i] = s[i]
      /\ t[Len(s) + 1] = e
  BY <1>3, AppendProperties, LenProperties
<1> HIDE DEF t
<1>5. Ordered(t)
  <2> SUFFICES ASSUME NEW i \in DOMAIN t, NEW j \in DOMAIN t, i < j
               PROVE  t[i].at + t[i].size <= t[j].at
    BY DEF Ordered
  <2>1. i \in DOMAIN s
    BY <1>4
  <2>2. CASE j \in DOMAIN s
    BY <1>4, <2>1, <2>2 DEF Ordered
  <2>3. CASE j \notin DOMAIN s
    <3>1. j = Len(s) + 1
      BY <1>4, <2>3
    <3>2. QED
      BY <1>2, <1>3, <1>4, <2>1, <3>1
  <2>4. QED
    BY <2>2, <2>3
<1>6. Cursor(t) = Cursor(s) + size
  <2>1. t # <<>>
    BY <1>4
  <2>2. QED
    BY <1>3, <1>4, <2>1 DEF Cursor
<1>7. \A it : Has(s, it) => Has(t, it)
  BY <1>4 DEF Has
<1>8. Has(t, e)
  <2>1. Len(s) + 1 \in DOMAIN t
    BY <1>4
  <2>2. QED
    BY <1>4, <2>1 DEF Has
<1>9. QED
  BY <1>1, <1>4, <1>5, <1>6, <1>7, <1>8 DEF e

--------------------------------------------------------------------------------
(* Translation *)

Branches == {"jmp8", "jmpmem", "jcc", "loop"}

\* A jump through the pointer behind it.
Jump(s, b, to) == /\ Has(s, Placed(b, "jump-through", 6, 0, 0))
                  /\ Has(s, Placed(b + 6, "quad", 8, to, 0))

\* The n-th instruction became the items from byte b to byte e.
BlockX86(s, n, b, e) ==
  LET insn == source[n] IN
  /\ insn.op = "jmp32" => Jump(s, b, n) /\ e = b + 14
  /\ insn.op \in Branches =>
       /\ Has(s, Placed(b, "jump-if", 6, 14, Inverted(ConditionOf(insn))))
       /\ Jump(s, b + 6, n) /\ e = b + 20
  /\ insn.op \in {"plain", "imm"} => Has(s, Placed(b, "copy", insn.size, n, 0)) /\ e = b + insn.size

BlockArm64(s, n, b, e) ==
  LET insn == source[n] IN
  /\ insn.op = "b" => Has(s, Placed(b, "br", 8, n, 0)) /\ e = b + 8
  /\ insn.op = "bl" => Has(s, Placed(b, "blr", 8, n, 0)) /\ e = b + 8
  /\ insn.op = "adr" => Has(s, Placed(b, "mov", 4, n, 0)) /\ e = b + 4
  /\ insn.op \in {"plain", "imm"} => Has(s, Placed(b, "copy", insn.size, n, 0)) /\ e = b + insn.size

Block(s, n, b, e) == IF arch = "x86" THEN BlockX86(s, n, b, e) ELSE BlockArm64(s, n, b, e)

\* t is s with more items behind it.
Extends(s, t) == /\ t \in Seq(Items) /\ Ordered(t) /\ Cursor(t) \in Nat
                 /\ \A it : Has(s, it) => Has(t, it)

LEMMA EmitExtends ==
  ASSUME NEW s, s \in Seq(Items), Ordered(s), NEW kind \in Kinds, NEW size \in Nat \ {0},
         NEW arg \in Int, NEW cc \in Conditions
  PROVE  /\ Extends(s, Emit(s, kind, size, arg, cc))
         /\ Cursor(Emit(s, kind, size, arg, cc)) = Cursor(s) + size
         /\ Has(Emit(s, kind, size, arg, cc), Placed(Cursor(s), kind, size, arg, cc))
BY EmitAppends, CursorBehindAll DEF Extends

LEMMA JumpExtends ==
  ASSUME NEW s, s \in Seq(Items), Ordered(s), NEW to \in Int
  PROVE  /\ Extends(s, Quad(JumpMem(s, 0), to))
         /\ Cursor(Quad(JumpMem(s, 0), to)) = Cursor(s) + 14
         /\ Jump(Quad(JumpMem(s, 0), to), Cursor(s), to)
<1>1. PICK t : t = JumpMem(s, 0)
  OBVIOUS
<1>2. "jump-through" \in Kinds /\ "quad" \in Kinds /\ 0 \in Conditions
  BY DEF Kinds, Conditions
<1>3. t = Emit(s, "jump-through", 6, 0, 0) /\ Quad(t, to) = Emit(t, "quad", 8, to, 0)
  BY <1>1 DEF JumpMem, Quad
<1>4. /\ Extends(s, t) /\ Cursor(t) = Cursor(s) + 6
      /\ Has(t, Placed(Cursor(s), "jump-through", 6, 0, 0))
  BY <1>2, <1>3, EmitExtends
<1>5. /\ Extends(t, Quad(t, to)) /\ Cursor(Quad(t, to)) = Cursor(t) + 8
      /\ Has(Quad(t, to), Placed(Cursor(t), "quad", 8, to, 0))
  BY <1>2, <1>3, <1>4, EmitExtends DEF Extends
<1>6. Cursor(s) \in Nat
  BY CursorBehindAll
<1>7. Has(Quad(t, to), Placed(Cursor(s), "jump-through", 6, 0, 0))
  BY <1>4, <1>5 DEF Extends
<1>8. Extends(s, Quad(t, to))
  BY <1>4, <1>5 DEF Extends
<1>9. Cursor(Quad(t, to)) = Cursor(s) + 14
  BY <1>4, <1>5, <1>6
<1>10. QED
  BY <1>1, <1>4, <1>5, <1>7, <1>8, <1>9 DEF Jump

LEMMA InvertedCondition ==
  ASSUME NEW c \in Conditions, cpu \in [of : BOOLEAN, zf : BOOLEAN, cx : BOOLEAN]
  PROVE  Inverted(c) \in Conditions /\ (Holds(Inverted(c)) <=> ~Holds(c))
<1>1. Inverted(0) = 1 /\ Inverted(1) = 0 /\ Inverted(4) = 5 /\ Inverted(5) = 4
  BY DEF Inverted
<1>2. 0 % 2 = 0 /\ 1 % 2 # 0 /\ 4 % 2 = 0 /\ 5 % 2 # 0
  OBVIOUS
<1>3. 4 \notin {0, 1} /\ 5 \notin {0, 1}
  OBVIOUS
<1>4. (Holds(0) <=> cpu.of) /\ (Holds(1) <=> ~cpu.of)
  BY <1>2 DEF Holds
<1>5. (Holds(4) <=> cpu.zf) /\ (Holds(5) <=> ~cpu.zf)
  BY <1>2, <1>3 DEF Holds
<1>6. c = 0 \/ c = 1 \/ c = 4 \/ c = 5
  BY DEF Conditions
<1>7. QED
  BY <1>1, <1>4, <1>5, <1>6 DEF Conditions

LEMMA TranslateExtends ==
  ASSUME TypeInv, NEW n \in 1 .. Len(source), source[n].op # "bad"
  PROVE  /\ Extends(out, Translate(n))
         /\ Block(Translate(n), n, Cursor(out), Cursor(Translate(n)))
<1> DEFINE insn == source[n]
<1>1. out \in Seq(Items) /\ Ordered(out) /\ n \in Int /\ Cursor(out) \in Nat
  BY CursorBehindAll DEF TypeInv
<1>2. insn \in Insns
  BY LenProperties DEF TypeInv
<1>3. insn.size \in Nat \ {0} /\ insn.cc \in Conditions /\ insn.op \in Ops[arch]
  BY <1>2 DEF Insns
<1>4. /\ {"copy", "quad", "jump-if", "br", "blr", "mov"} \subseteq Kinds /\ 0 \in Conditions
      /\ {6, 14, 8, 4} \subseteq Nat \ {0} /\ 14 \in Int
  BY DEF Kinds, Conditions
<1>5. /\ Extends(out, Copied(out, n)) /\ Cursor(Copied(out, n)) = Cursor(out) + insn.size
      /\ Has(Copied(out, n), Placed(Cursor(out), "copy", insn.size, n, 0))
  BY <1>1, <1>3, <1>4, EmitExtends DEF Copied
<1>6. CASE arch = "x86"
  <2>1. Translate(n) = TranslateX86(n)
    BY <1>6 DEF Translate
  <2>2. insn.op \in {"plain", "imm", "ripdata", "call", "callmem", "jmp32", "jmp8", "jmpmem", "jcc",
                     "loop"}
    BY <1>3, <1>6 DEF Ops
  <2>3. CASE insn.op = "jmp32"
    <3>1. Translate(n) = Quad(JumpMem(out, 0), n)
      BY <2>1, <2>3 DEF TranslateX86
    <3>2. QED
      BY <1>1, <1>6, <2>3, <3>1, JumpExtends DEF Block, BlockX86, Branches
  <2>4. CASE insn.op \in Branches
    <3>1. PICK c : c = Inverted(ConditionOf(insn))
      OBVIOUS
    <3>2. c \in Conditions
      BY <1>3, <1>4, <3>1, InvertedCondition DEF ConditionOf, TypeInv
    <3>3. Translate(n) = Quad(JumpMem(JumpIf(out, c, 14), 0), n)
      BY <2>1, <2>4, <3>1
      DEF TranslateX86, Branches, IsPcRelative, IsBranch, IsCall, SkipJumpAndTarget
    <3>4. PICK s : s = JumpIf(out, c, 14)
      OBVIOUS
    <3>5. /\ Extends(out, s) /\ Cursor(s) = Cursor(out) + 6
          /\ Has(s, Placed(Cursor(out), "jump-if", 6, 14, c))
      BY <1>1, <1>4, <3>2, <3>4, EmitExtends DEF JumpIf
    <3>6. /\ Extends(s, Translate(n)) /\ Cursor(Translate(n)) = Cursor(s) + 14
          /\ Jump(Translate(n), Cursor(s), n)
      BY <1>1, <3>3, <3>4, <3>5, JumpExtends DEF Extends
    <3>7. Extends(out, Translate(n)) /\ Has(Translate(n), Placed(Cursor(out), "jump-if", 6, 14, c))
      BY <3>5, <3>6 DEF Extends
    <3>8. Jump(Translate(n), Cursor(out) + 6, n) /\ Cursor(Translate(n)) = Cursor(out) + 20
      BY <1>1, <3>5, <3>6
    <3>9. insn.op # "jmp32" /\ insn.op \notin {"plain", "imm"}
      BY <2>4 DEF Branches
    <3>10. QED
      BY <1>6, <3>1, <3>7, <3>8, <3>9 DEF Block, BlockX86
  <2>5. CASE insn.op = "call"
    <3>1. Translate(n) = Quad(JumpUnbound(CallMem(out, 2)), n)
      BY <2>1, <2>5 DEF TranslateX86, IsPcRelative, IsBranch, IsCall
    <3>2. PICK s : s = CallMem(out, 2)
      OBVIOUS
    <3>3. PICK t : t = JumpUnbound(s)
      OBVIOUS
    <3>4. "call-through" \in Kinds /\ "jump-unbound" \in Kinds /\ 5 \in Nat \ {0} /\ 2 \in Int
      BY DEF Kinds
    <3>5. Extends(out, s)
      BY <1>1, <1>4, <3>2, <3>4, EmitExtends DEF CallMem
    <3>6. Extends(s, t)
      BY <1>1, <1>4, <3>3, <3>4, <3>5, EmitExtends DEF JumpUnbound, Extends
    <3>7. Extends(t, Translate(n))
      BY <1>1, <1>4, <3>1, <3>2, <3>3, <3>6, EmitExtends DEF Quad, Extends
    <3>8. Extends(out, Translate(n))
      BY <3>5, <3>6, <3>7 DEF Extends
    <3>9. QED
      BY <1>6, <2>5, <3>8 DEF Block, BlockX86, Branches
  <2>6. CASE insn.op \in {"plain", "imm", "ripdata", "callmem"}
    <3>1. Translate(n) = Copied(out, n)
      BY <2>1, <2>6 DEF TranslateX86, IsPcRelative, IsBranch, IsCall
    <3>2. QED
      BY <1>5, <1>6, <2>6, <3>1 DEF Block, BlockX86, Branches
  <2>7. QED
    BY <2>2, <2>3, <2>4, <2>5, <2>6 DEF Branches
<1>7. CASE arch = "arm64"
  <2>1. Translate(n) = TranslateArm64(n)
    BY <1>7 DEF Translate
  <2>2. insn.op \in {"plain", "imm", "b", "bl", "adr", "bcond", "literal"}
    BY <1>3, <1>7 DEF Ops
  <2>3. CASE insn.op = "b"
    <3>1. Translate(n) = Emit(out, "br", 8, n, 0)
      BY <2>1, <2>3 DEF TranslateArm64
    <3>2. QED
      BY <1>1, <1>4, <1>7, <2>3, <3>1, EmitExtends DEF Block, BlockArm64
  <2>4. CASE insn.op = "bl"
    <3>1. Translate(n) = Emit(out, "blr", 8, n, 0)
      BY <2>1, <2>4 DEF TranslateArm64
    <3>2. QED
      BY <1>1, <1>4, <1>7, <2>4, <3>1, EmitExtends DEF Block, BlockArm64
  <2>5. CASE insn.op = "adr"
    <3>1. Translate(n) = Emit(out, "mov", 4, n, 0)
      BY <2>1, <2>5 DEF TranslateArm64
    <3>2. QED
      BY <1>1, <1>4, <1>7, <2>5, <3>1, EmitExtends DEF Block, BlockArm64
  <2>6. CASE insn.op \in {"plain", "imm", "bcond", "literal"}
    <3>1. Translate(n) = Copied(out, n)
      BY <2>1, <2>6 DEF TranslateArm64
    <3>2. QED
      BY <1>5, <1>7, <2>6, <3>1 DEF Block, BlockArm64
  <2>7. QED
    BY <2>2, <2>3, <2>4, <2>5, <2>6
<1>8. QED
  BY <1>6, <1>7 DEF TypeInv

--------------------------------------------------------------------------------
(* What is emitted *)

Back(b) == IF arch = "x86" THEN Jump(out, b, -offset) ELSE Has(out, Placed(b, "br", 8, -offset, 0))

\* The n-th instruction became the items from f[n] to f[n + 1], then comes the jump back.
Layout(f) ==
  /\ f \in [1 .. k + 1 -> Nat] /\ f[1] = 0
  /\ \A n \in 1 .. k : Block(out, n, f[n], f[n + 1])
  /\ phase = "build" => Cursor(out) = f[k + 1]
  /\ phase \in {"run", "done"} => Back(f[k + 1])

BuildInv ==
  /\ TypeInv
  /\ phase # "threw" => \E f \in [1 .. k + 1 -> Nat] : Layout(f)
  /\ phase \in {"build", "threw"} => original = Start /\ copy = Start

LEMMA BlockKeeps ==
  ASSUME NEW s, NEW t, \A it : Has(s, it) => Has(t, it), NEW n, NEW b, NEW e, Block(s, n, b, e)
  PROVE  Block(t, n, b, e)
<1>1. CASE arch = "x86"
  <2>1. \A c, to : Jump(s, c, to) => Jump(t, c, to)
    BY DEF Jump
  <2>2. BlockX86(s, n, b, e)
    BY <1>1 DEF Block
  <2>3. BlockX86(t, n, b, e)
    BY <2>1, <2>2 DEF BlockX86
  <2>4. QED
    BY <1>1, <2>3 DEF Block
<1>2. CASE arch # "x86"
  <2>1. BlockArm64(s, n, b, e)
    BY <1>2 DEF Block
  <2>2. BlockArm64(t, n, b, e)
    BY <2>1 DEF BlockArm64
  <2>3. QED
    BY <1>2, <2>2 DEF Block
<1>3. QED
  BY <1>1, <1>2

LEMMA BlockPrimed ==
  ASSUME source' = source, arch' = arch
  PROVE  \A n, b, e : Block(out, n, b, e)' <=> Block(out', n, b, e)
BY DEF Block, BlockX86, BlockArm64, Jump, Has, Placed, ConditionOf, Inverted

LEMMA LayoutKept ==
  ASSUME UNCHANGED <<source, arch, out, k, offset>>, phase \in {"run", "done"},
         phase' \in {"run", "done"}, NEW f, Layout(f)
  PROVE  Layout(f)'
<1>1. \A n, b, e : Block(out, n, b, e)' <=> Block(out, n, b, e)
  BY BlockPrimed
<1>2. \A b : Back(b)' <=> Back(b)
  BY DEF Back, Jump, Has, Placed
<1>3. QED
  BY <1>1, <1>2 DEF Layout

LEMMA BuildInit == Init => BuildInv
<1> SUFFICES ASSUME Init PROVE BuildInv
  OBVIOUS
<1>1. arch \in DOMAIN Ops /\ source \in Programs[arch]
  BY DEF Init
<1>2. arch \in {"x86", "arm64"}
  BY <1>1 DEF Ops
<1>3. source \in Seq(Insns) /\ Len(source) >= PatchBytes /\ Len(source) \in Nat
  <2>1. PICK a \in DOMAIN Ops : a = arch
    BY <1>1
  <2>2. \A p \in Programs[a] : /\ p \in Seq([op : Ops[a], cc : Conditions, size : Nat \ {0}])
                               /\ Len(p) >= PatchBytes
    BY RelocationConstants
  <2>3. source \in Seq(Insns) /\ Len(source) >= PatchBytes
    BY <1>1, <2>1, <2>2 DEF Insns
  <2>4. QED
    BY <2>3, LenProperties
<1>4. out = <<>> /\ k = 0 /\ offset = 0 /\ phase = "build"
  BY DEF Init
<1>5. out \in Seq(Items) /\ Ordered(out) /\ Cursor(out) = 0
  BY <1>4 DEF Ordered, Cursor
<1>6. TypeInv
  BY <1>2, <1>3, <1>4, <1>5 DEF TypeInv, Init
<1>7. [i \in 1 .. k + 1 |-> 0] \in [1 .. k + 1 -> Nat] /\ Layout([i \in 1 .. k + 1 |-> 0])
  BY <1>4, <1>5 DEF Layout
<1>8. QED
  BY <1>6, <1>7 DEF BuildInv, Init

LEMMA BuildTranslate == BuildInv /\ TranslateInsn => BuildInv'
<1> SUFFICES ASSUME BuildInv, TranslateInsn PROVE BuildInv'
  OBVIOUS
<1>1. /\ phase = "build" /\ offset < PatchBytes
      /\ UNCHANGED <<arch, source, cpu, original, copy>>
  BY DEF TranslateInsn
<1>2. TypeInv /\ original = Start /\ copy = Start
  BY <1>1 DEF BuildInv
<1>3. PatchBytes \in Nat /\ Len(source) \in Nat /\ k \in Nat /\ offset \in Nat
  BY <1>2, RelocationConstants, LenProperties DEF TypeInv
<1>4. k + 1 \in 1 .. Len(source)
  BY <1>1, <1>2, <1>3 DEF TypeInv
<1>5. CASE source[k + 1].op = "bad"
  <2>1. phase' = "threw" /\ UNCHANGED <<k, offset, out>>
    BY <1>5 DEF TranslateInsn
  <2>2. TypeInv'
    BY <1>1, <1>2, <2>1 DEF TypeInv, Insns, Ordered
  <2>3. QED
    BY <1>1, <1>2, <2>1, <2>2 DEF BuildInv, Start
<1>6. CASE source[k + 1].op # "bad"
  <2>1. /\ out' = Translate(k + 1) /\ k' = k + 1 /\ offset' = offset + source[k + 1].size
        /\ phase' = phase
    BY <1>6 DEF TranslateInsn
  <2>2. source[k + 1].size \in Nat /\ source[k + 1].size > 0
    <3>1. source[k + 1] \in Insns
      BY <1>2, <1>4, LenProperties DEF TypeInv
    <3>2. QED
      BY <3>1 DEF Insns
  <2>3. Extends(out, out') /\ Block(out', k + 1, Cursor(out), Cursor(out'))
    BY <1>2, <1>4, <1>6, <2>1, TranslateExtends
  <2>4. TypeInv'
    <3>1. out' \in Seq(Items) /\ Ordered(out)'
      BY <2>3 DEF Extends, Ordered
    <3>2. k' \in 0 .. Len(source) /\ offset' \in Nat /\ k' <= offset'
      BY <1>2, <1>3, <1>4, <2>1, <2>2 DEF TypeInv
    <3>3. \A n \in 1 .. k' : source[n].op # "bad"
      <4>1. \A n \in 1 .. k' : n \in 1 .. k \/ n = k + 1
        BY <1>3, <2>1
      <4>2. QED
        BY <1>2, <1>6, <4>1 DEF TypeInv
    <3>4. QED
      BY <1>1, <1>2, <2>1, <3>1, <3>2, <3>3 DEF TypeInv, Insns
  <2>5. PICK f \in [1 .. k + 1 -> Nat] : Layout(f)
    BY <1>1 DEF BuildInv
  <2> DEFINE g == [i \in 1 .. k' + 1 |-> IF i = k + 2 THEN Cursor(out') ELSE f[i]]
  <2>6. Cursor(out') \in Nat /\ Cursor(out)' = Cursor(out')
    BY <2>3 DEF Extends, Cursor
  <2>7. g \in [1 .. k' + 1 -> Nat]
    BY <1>3, <2>1, <2>6
  <2>8. g[1] = 0 /\ g[k' + 1] = Cursor(out)'
    BY <1>3, <2>1, <2>5, <2>6 DEF Layout
  <2>9. \A n \in 1 .. k' : Block(out', n, g[n], g[n + 1])
    <3> SUFFICES ASSUME NEW n \in 1 .. k' PROVE Block(out', n, g[n], g[n + 1])
      OBVIOUS
    <3>1. CASE n = k + 1
      <4>1. g[n] = Cursor(out) /\ g[n + 1] = Cursor(out')
        BY <1>1, <1>3, <2>1, <2>5, <3>1 DEF Layout
      <4>2. QED
        BY <2>3, <3>1, <4>1
    <3>2. CASE n # k + 1
      <4>1. n \in 1 .. k /\ g[n] = f[n] /\ g[n + 1] = f[n + 1]
        BY <1>3, <2>1, <3>2
      <4>2. QED
        BY <2>3, <2>5, <4>1, BlockKeeps DEF Extends, Layout
    <3>3. QED
      BY <3>1, <3>2
  <2> HIDE DEF g
  <2>10. PICK h \in [1 .. k' + 1 -> Nat] : h = g
    BY <2>7
  <2>11. Layout(h)'
    BY <1>1, <2>1, <2>8, <2>9, <2>10, BlockPrimed DEF Layout
  <2>12. QED
    BY <1>1, <1>2, <2>1, <2>4, <2>10, <2>11 DEF BuildInv, Start
<1>7. QED
  BY <1>5, <1>6

LEMMA BuildFinish == BuildInv /\ FinishBuild => BuildInv'
<1> SUFFICES ASSUME BuildInv, FinishBuild PROVE BuildInv'
  OBVIOUS
<1>1. /\ phase = "build" /\ out' = JumpBack /\ phase' \in {"run", "threw"}
      /\ UNCHANGED <<arch, source, cpu, k, offset, original, copy>>
  BY DEF FinishBuild
<1>2. TypeInv /\ original = Start /\ copy = Start
  BY <1>1 DEF BuildInv
<1>3. out \in Seq(Items) /\ Ordered(out) /\ -offset \in Int /\ Cursor(out) \in Nat
  BY <1>2, CursorBehindAll DEF TypeInv
<1>4. Extends(out, out') /\ IF arch = "x86" THEN Jump(out', Cursor(out), -offset)
                            ELSE Has(out', Placed(Cursor(out), "br", 8, -offset, 0))
  <2>1. CASE arch = "x86"
    <3>1. out' = Quad(JumpMem(out, 0), -offset)
      BY <1>1, <2>1 DEF JumpBack
    <3>2. QED
      BY <1>3, <2>1, <3>1, JumpExtends
  <2>2. CASE arch # "x86"
    <3>1. out' = Emit(out, "br", 8, -offset, 0)
      BY <1>1, <2>2 DEF JumpBack
    <3>2. "br" \in Kinds /\ 0 \in Conditions
      BY DEF Kinds, Conditions
    <3>3. QED
      BY <1>3, <2>2, <3>1, <3>2, EmitExtends
  <2>3. QED
    BY <2>1, <2>2
<1>5. TypeInv'
  <2>1. out' \in Seq(Items) /\ Ordered(out)'
    BY <1>4 DEF Extends, Ordered
  <2>2. QED
    BY <1>1, <1>2, <2>1 DEF TypeInv, Insns
<1>6. PICK f \in [1 .. k + 1 -> Nat] : Layout(f)
  BY <1>1 DEF BuildInv
<1>7. Cursor(out) = f[k + 1]
  BY <1>1, <1>6 DEF Layout
<1>8. Back(f[k + 1])'
  BY <1>1, <1>4, <1>7 DEF Back, Jump, Has, Placed
<1>9. \A n \in 1 .. k : Block(out', n, f[n], f[n + 1])
  BY <1>4, <1>6, BlockKeeps DEF Extends, Layout
<1>10. Layout(f)'
  BY <1>1, <1>6, <1>8, <1>9, BlockPrimed DEF Layout
<1>11. QED
  BY <1>1, <1>2, <1>5, <1>6, <1>10 DEF BuildInv, Start

LEMMA BuildRun ==
  ASSUME BuildInv, phase = "run", phase' \in {"run", "done"},
         UNCHANGED <<arch, source, cpu, k, offset, out>>
  PROVE  BuildInv'
<1>1. TypeInv'
  BY DEF BuildInv, TypeInv, Insns, Ordered
<1>2. PICK f \in [1 .. k + 1 -> Nat] : Layout(f)
  BY DEF BuildInv
<1>3. Layout(f)'
  BY <1>2, LayoutKept
<1>4. QED
  BY <1>1, <1>2, <1>3 DEF BuildInv

LEMMA BuildStep == BuildInv /\ [Next]_vars => BuildInv'
<1> SUFFICES ASSUME BuildInv, [Next]_vars PROVE BuildInv'
  OBVIOUS
<1>1. CASE TranslateInsn
  BY <1>1, BuildTranslate
<1>2. CASE FinishBuild
  BY <1>2, BuildFinish
<1>3. CASE OriginalStep
  BY <1>3, BuildRun DEF OriginalStep
<1>4. CASE CopyStep
  BY <1>4, BuildRun DEF CopyStep
<1>5. CASE BothEnded
  BY <1>5, BuildRun DEF BothEnded
<1>6. CASE UNCHANGED vars
  <2>1. TypeInv'
    BY <1>6 DEF BuildInv, TypeInv, Insns, Ordered, vars
  <2>2. \A n, b, e : Block(out, n, b, e)' <=> Block(out, n, b, e)
    BY <1>6, BlockPrimed DEF vars
  <2>3. \A b : Back(b)' <=> Back(b)
    BY <1>6 DEF vars, Back, Jump, Has, Placed
  <2>4. \A f : Layout(f) => Layout(f)'
    BY <1>6, <2>2, <2>3 DEF Layout, vars, Cursor
  <2>5. QED
    BY <1>6, <2>1, <2>4 DEF BuildInv, vars, Start
<1>7. QED
  BY <1>1, <1>2, <1>3, <1>4, <1>5, <1>6 DEF Next

\* The items do not overlap, those of one instruction follow those of the one before, and
\* the jump back is behind the last (code_relocator.cc:133-231).
THEOREM BuildHolds == Spec => []BuildInv
<1>1. QED
  BY BuildInit, BuildStep, PTL DEF Spec

--------------------------------------------------------------------------------
(* A step of the copy *)

LEMMA OneItemAt ==
  ASSUME TypeInv, NEW it, Has(out, it)
  PROVE  \E i \in DOMAIN out : out[i] = it /\ ItemAt(it.at) = {i}
<1>1. PICK i \in DOMAIN out : out[i] = it
  BY DEF Has
<1>2. DOMAIN out \subseteq Nat /\ \A j \in DOMAIN out : out[j] \in Items
  BY LenProperties DEF TypeInv
<1>3. \A j \in DOMAIN out : out[j].at \in Nat /\ out[j].size \in Nat /\ out[j].size > 0
  BY <1>2 DEF Items
<1>4. ASSUME NEW j \in DOMAIN out, out[j].at = it.at, j # i
      PROVE  FALSE
  <2>1. j < i \/ i < j
    BY <1>2, <1>4
  <2>2. out[j].at + out[j].size <= out[i].at \/ out[i].at + out[i].size <= out[j].at
    BY <2>1 DEF TypeInv, Ordered
  <2>3. QED
    BY <1>1, <1>3, <1>4, <2>2
<1>5. ItemAt(it.at) = {i}
  BY <1>1, <1>4 DEF ItemAt
<1>6. QED
  BY <1>1, <1>5

LEMMA CopyAt ==
  ASSUME TypeInv, CopyStep, NEW it, Has(out, it), it.at = copy.at
  PROVE  copy' = RunsItem(it)
<1>1. PICK i \in DOMAIN out : out[i] = it /\ ItemAt(copy.at) = {i}
  BY OneItemAt
<1>2. \E n \in ItemAt(copy.at) : copy' = RunsItem(out[n])
  BY <1>1 DEF CopyStep
<1>3. QED
  BY <1>1, <1>2

LEMMA PointerAt ==
  ASSUME TypeInv, NEW b \in Nat, NEW d \in Nat, NEW c, c = b + 6 + d, NEW to,
         Has(out, Placed(c, "quad", 8, to, 0))
  PROVE  Pointer(b, d) = {to}
<1>1. PICK it : it = Placed(c, "quad", 8, to, 0)
  OBVIOUS
<1>2. it.at = c /\ it.kind = "quad" /\ it.arg = to
  BY <1>1 DEF Placed
<1>3. PICK i \in DOMAIN out : out[i] = it /\ ItemAt(c) = {i}
  BY <1>1, <1>2, OneItemAt
<1>4. QED
  BY <1>2, <1>3 DEF Pointer

LEMMA CopyJump ==
  ASSUME TypeInv, CopyStep, copy.at \in Nat, NEW to, Jump(out, copy.at, to)
  PROVE  copy' = Leaves(copy, <<"to", to>>)
<1>1. PICK it : it = Placed(copy.at, "jump-through", 6, 0, 0)
  OBVIOUS
<1>2. it.at = copy.at /\ it.kind = "jump-through" /\ it.arg = 0
  BY <1>1 DEF Placed
<1>3. copy' = RunsItem(it)
  BY <1>1, <1>2, CopyAt DEF Jump
<1>4. Pointer(copy.at, 0) = {to}
  BY PointerAt DEF Jump
<1>5. RunsItem(it) = Leaves(copy, <<"to", CHOOSE t \in Pointer(copy.at, 0) : TRUE>>)
  BY <1>2, <1>4 DEF RunsItem
<1>6. (CHOOSE t \in {to} : TRUE) = to
  OBVIOUS
<1>7. QED
  BY <1>3, <1>4, <1>5, <1>6

LEMMA CopyOther ==
  ASSUME TypeInv, CopyStep, copy.at \in Nat, NEW size \in Nat, NEW arg \in Int, NEW cc
  PROVE  /\ Has(out, Placed(copy.at, "jump-if", size, arg, cc)) =>
              copy' = Moves(copy, IF Holds(cc) THEN (copy.at + size) + arg ELSE copy.at + size)
         /\ Has(out, Placed(copy.at, "br", size, arg, cc)) => copy' = Leaves(copy, <<"to", arg>>)
         /\ Has(out, Placed(copy.at, "blr", size, arg, cc)) =>
              copy' = Goes(copy, <<"call", arg>>, copy.at + size)
         /\ Has(out, Placed(copy.at, "mov", size, arg, cc)) =>
              copy' = Goes(copy, <<"adr", arg>>, copy.at + size)
         /\ Has(out, Placed(copy.at, "copy", size, arg, cc)) /\ source[arg].op \in {"plain", "imm"} =>
              copy' = Goes(copy, <<"do", arg>>, copy.at + size)
<1>1. ASSUME NEW kind, Has(out, Placed(copy.at, kind, size, arg, cc))
      PROVE  /\ kind = "jump-if" =>
                  copy' = Moves(copy, IF Holds(cc) THEN (copy.at + size) + arg ELSE copy.at + size)
             /\ kind = "br" => copy' = Leaves(copy, <<"to", arg>>)
             /\ kind = "blr" => copy' = Goes(copy, <<"call", arg>>, copy.at + size)
             /\ kind = "mov" => copy' = Goes(copy, <<"adr", arg>>, copy.at + size)
             /\ kind = "copy" => copy' = RunsCopied(source[arg], arg, copy.at + size)
  <2>1. PICK it : it = Placed(copy.at, kind, size, arg, cc)
    OBVIOUS
  <2>2. it.at = copy.at /\ it.kind = kind /\ it.arg = arg /\ it.size = size /\ it.cc = cc
    BY <2>1 DEF Placed
  <2>3. copy' = RunsItem(it)
    BY <1>1, <2>1, <2>2, CopyAt
  <2>4. QED
    BY <2>2, <2>3 DEF RunsItem
<1>2. source[arg].op \in {"plain", "imm"} =>
        RunsCopied(source[arg], arg, copy.at + size) = Goes(copy, <<"do", arg>>, copy.at + size)
  BY DEF RunsCopied
<1>3. QED
  BY <1>1, <1>2

LEMMA CopyAtBlock ==
  ASSUME BuildInv, CopyStep, NEW f, Layout(f), NEW n \in 1 .. k, copy.at = f[n]
  PROVE  /\ arch = "x86" /\ source[n].op = "jmp32" => copy' = Leaves(copy, <<"to", n>>)
         /\ arch = "x86" /\ source[n].op \in Branches =>
              copy' = Moves(copy, IF Holds(Inverted(ConditionOf(source[n]))) THEN f[n + 1]
                                  ELSE f[n] + 6)
         /\ arch # "x86" /\ source[n].op = "b" => copy' = Leaves(copy, <<"to", n>>)
         /\ arch # "x86" /\ source[n].op = "bl" => copy' = Goes(copy, <<"call", n>>, f[n + 1])
         /\ arch # "x86" /\ source[n].op = "adr" => copy' = Goes(copy, <<"adr", n>>, f[n + 1])
         /\ source[n].op \in {"plain", "imm"} => copy' = Goes(copy, <<"do", n>>, f[n + 1])
<1>1. TypeInv /\ n \in Int /\ copy.at \in Nat /\ n \in 1 .. Len(source)
  <2>1. TypeInv
    BY DEF BuildInv
  <2>2. k \in 0 .. Len(source) /\ Len(source) \in Nat
    BY <2>1, LenProperties DEF TypeInv
  <2>3. n \in 1 .. k + 1 /\ n \in 1 .. Len(source)
    BY <2>2
  <2>4. f[n] \in Nat
    BY <2>3 DEF Layout
  <2>5. QED
    BY <2>1, <2>3, <2>4
<1>2. source[n] \in Insns
  BY <1>1, LenProperties DEF TypeInv
<1>3. source[n].size \in Nat
  BY <1>2 DEF Insns
<1>4. Block(out, n, f[n], f[n + 1])
  BY DEF Layout
<1>5. f[n] = copy.at /\ 6 \in Nat /\ 8 \in Nat /\ 4 \in Nat /\ 14 \in Int
  OBVIOUS
<1>6. CASE arch = "x86"
  <2>1. BlockX86(out, n, copy.at, f[n + 1])
    BY <1>4, <1>6 DEF Block
  <2>2. source[n].op = "jmp32" => copy' = Leaves(copy, <<"to", n>>)
    BY <1>1, <2>1, CopyJump DEF BlockX86
  <2>3. ASSUME source[n].op \in Branches
        PROVE  copy' = Moves(copy, IF Holds(Inverted(ConditionOf(source[n]))) THEN f[n + 1]
                                   ELSE f[n] + 6)
    <3>1. PICK c : c = Inverted(ConditionOf(source[n]))
      OBVIOUS
    <3>2. Has(out, Placed(copy.at, "jump-if", 6, 14, c)) /\ f[n + 1] = copy.at + 20
      BY <2>1, <2>3, <3>1 DEF BlockX86
    <3>3. copy' = Moves(copy, IF Holds(c) THEN (copy.at + 6) + 14 ELSE copy.at + 6)
      BY <1>1, <1>5, <3>2, CopyOther
    <3>4. (copy.at + 6) + 14 = f[n + 1]
      BY <1>1, <3>2
    <3>5. QED
      BY <3>1, <3>3, <3>4
  <2>4. source[n].op \in {"plain", "imm"} => copy' = Goes(copy, <<"do", n>>, f[n + 1])
    BY <1>1, <1>3, <2>1, CopyOther DEF BlockX86
  <2>5. QED
    BY <1>6, <2>2, <2>3, <2>4
<1>7. CASE arch # "x86"
  <2>1. BlockArm64(out, n, copy.at, f[n + 1])
    BY <1>4, <1>7 DEF Block
  <2>2. ASSUME source[n].op = "b"
        PROVE  copy' = Leaves(copy, <<"to", n>>)
    <3>1. Has(out, Placed(copy.at, "br", 8, n, 0)) /\ f[n + 1] = copy.at + 8
      BY <2>1, <2>2 DEF BlockArm64
    <3>2. QED
      BY <1>1, <1>5, <3>1, CopyOther
  <2>3. ASSUME source[n].op = "bl"
        PROVE  copy' = Goes(copy, <<"call", n>>, f[n + 1])
    <3>1. Has(out, Placed(copy.at, "blr", 8, n, 0)) /\ f[n + 1] = copy.at + 8
      BY <2>1, <2>3 DEF BlockArm64
    <3>2. QED
      BY <1>1, <1>5, <3>1, CopyOther
  <2>4. ASSUME source[n].op = "adr"
        PROVE  copy' = Goes(copy, <<"adr", n>>, f[n + 1])
    <3>1. Has(out, Placed(copy.at, "mov", 4, n, 0)) /\ f[n + 1] = copy.at + 4
      BY <2>1, <2>4 DEF BlockArm64
    <3>2. QED
      BY <1>1, <1>5, <3>1, CopyOther
  <2>5. source[n].op \in {"plain", "imm"} => copy' = Goes(copy, <<"do", n>>, f[n + 1])
    BY <1>1, <1>3, <2>1, CopyOther DEF BlockArm64
  <2>6. QED
    BY <1>7, <2>2, <2>3, <2>4, <2>5
<1>8. QED
  BY <1>6, <1>7

LEMMA CopyAtSkipped ==
  ASSUME BuildInv, CopyStep, NEW f, Layout(f), NEW n \in 1 .. k, arch = "x86",
         source[n].op \in Branches, copy.at = f[n] + 6
  PROVE  copy' = Leaves(copy, <<"to", n>>)
<1>1. TypeInv /\ f[n] \in Nat
  <2>1. TypeInv /\ k \in Nat
    BY DEF BuildInv, TypeInv
  <2>2. n \in 1 .. k + 1 /\ f \in [1 .. k + 1 -> Nat]
    BY <2>1 DEF Layout
  <2>3. QED
    BY <2>1, <2>2
<1>2. Jump(out, copy.at, n)
  BY DEF Layout, Block, BlockX86
<1>3. copy.at \in Nat
  BY <1>1
<1>4. QED
  BY <1>1, <1>2, <1>3, CopyJump

LEMMA CopyAtBack ==
  ASSUME BuildInv, CopyStep, NEW f, Layout(f), copy.at = f[k + 1]
  PROVE  copy' = Leaves(copy, <<"to", -offset>>)
<1>1. TypeInv /\ k \in Nat /\ -offset \in Int /\ 8 \in Nat
  BY DEF BuildInv, TypeInv
<1>2. copy.at \in Nat
  BY <1>1 DEF Layout
<1>3. Back(copy.at)
  BY DEF Layout, CopyStep
<1>4. CASE arch = "x86"
  BY <1>1, <1>2, <1>3, <1>4, CopyJump DEF Back
<1>5. CASE arch # "x86"
  BY <1>1, <1>2, <1>3, <1>5, CopyOther DEF Back
<1>6. QED
  BY <1>4, <1>5

--------------------------------------------------------------------------------
(* Where the copy goes *)

Effects == {"to", "do", "call", "adr"} \X Int

Runs == [at : Nat, trace : Seq(Effects), ended : BOOLEAN]

LEMMA RunLeaves ==
  ASSUME NEW run \in Runs, NEW e \in Effects
  PROVE  /\ Leaves(run, e) \in Runs /\ Leaves(run, e).ended /\ Leaves(run, e).at = run.at
         /\ Len(run.trace) \in Nat /\ Len(Leaves(run, e).trace) = Len(run.trace) + 1
         /\ \A i \in 1 .. Len(run.trace) : Leaves(run, e).trace[i] = run.trace[i]
         /\ Leaves(run, e).trace[Len(run.trace) + 1] = e
<1>1. run.trace \in Seq(Effects) /\ run.at \in Nat
  BY DEF Runs
<1>2. PICK s : s = Append(run.trace, e)
  OBVIOUS
<1>3. /\ s \in Seq(Effects) /\ Len(run.trace) \in Nat /\ Len(s) = Len(run.trace) + 1
      /\ \A i \in 1 .. Len(run.trace) : s[i] = run.trace[i]
      /\ s[Len(run.trace) + 1] = e
  BY <1>1, <1>2, AppendProperties, LenProperties
<1>4. Leaves(run, e) = [at |-> run.at, trace |-> s, ended |-> TRUE]
  BY <1>2 DEF Leaves
<1>5. QED
  BY <1>1, <1>3, <1>4 DEF Runs

LEMMA RunGoes ==
  ASSUME NEW run \in Runs, NEW e \in Effects, NEW next \in Nat
  PROVE  /\ Goes(run, e, next) \in Runs /\ ~Goes(run, e, next).ended
         /\ Goes(run, e, next).at = next
         /\ Len(run.trace) \in Nat /\ Len(Goes(run, e, next).trace) = Len(run.trace) + 1
         /\ \A i \in 1 .. Len(run.trace) : Goes(run, e, next).trace[i] = run.trace[i]
         /\ Goes(run, e, next).trace[Len(run.trace) + 1] = e
<1>1. run.trace \in Seq(Effects)
  BY DEF Runs
<1>2. PICK s : s = Append(run.trace, e)
  OBVIOUS
<1>3. /\ s \in Seq(Effects) /\ Len(run.trace) \in Nat /\ Len(s) = Len(run.trace) + 1
      /\ \A i \in 1 .. Len(run.trace) : s[i] = run.trace[i]
      /\ s[Len(run.trace) + 1] = e
  BY <1>1, <1>2, AppendProperties, LenProperties
<1>4. Goes(run, e, next) = [at |-> next, trace |-> s, ended |-> FALSE]
  BY <1>2 DEF Goes
<1>5. QED
  BY <1>1, <1>3, <1>4 DEF Runs

LEMMA RunMoves ==
  ASSUME NEW run \in Runs, NEW next \in Nat
  PROVE  /\ Moves(run, next) \in Runs /\ Moves(run, next).ended = run.ended
         /\ Moves(run, next).at = next /\ Moves(run, next).trace = run.trace
BY DEF Runs, Moves

LEMMA StartRuns == Start \in Runs /\ Start.at = 0 /\ ~Start.ended /\ Len(Start.trace) = 0
BY DEF Start, Runs

\* No instruction of the patch is one of those that LeavesForATarget leaves out.
Direct == \A n \in 1 .. k : source[n].op \notin {"call", "callmem", "ripdata", "bcond", "literal"}

OnTrack(f) ==
  \E n \in 1 .. k + 1 :
     \/ copy.at = f[n]
     \/ n \in 1 .. k /\ arch = "x86" /\ source[n].op \in Branches /\ copy.at = f[n] + 6

Left == LET last == copy.trace[Len(copy.trace)]
        IN last[1] = "to" /\ last[2] \in 1 .. k \union {-offset}

LeaveInv ==
  phase \in {"run", "done"} /\ Direct =>
    /\ copy \in Runs
    /\ \E f \in [1 .. k + 1 -> Nat] :
         Layout(f) /\ (~copy.ended => OnTrack(f)) /\ (copy.ended => Left)

LEMMA LeftLast ==
  ASSUME TypeInv, copy \in Runs, NEW x, x \in 1 .. k \union {-offset},
         copy' = Leaves(copy, <<"to", x>>), UNCHANGED <<k, offset>>
  PROVE  copy' \in Runs /\ copy'.ended /\ Left'
<1>1. x \in Int
  BY DEF TypeInv
<1>2. <<"to", x>> \in Effects
  BY <1>1 DEF Effects
<1>3. /\ copy' \in Runs /\ copy'.ended /\ Len(copy'.trace) = Len(copy.trace) + 1
      /\ copy'.trace[Len(copy.trace) + 1] = <<"to", x>>
  BY <1>2, RunLeaves
<1>4. copy'.trace[Len(copy'.trace)] = <<"to", x>>
  BY <1>3
<1>5. QED
  BY <1>3, <1>4 DEF Left

LEMMA CopyKeepsTrack ==
  ASSUME BuildInv, Direct, copy \in Runs, NEW f \in [1 .. k + 1 -> Nat], Layout(f), OnTrack(f),
         CopyStep
  PROVE  copy' \in Runs /\ (~copy'.ended => OnTrack(f)') /\ (copy'.ended => Left')
<1>1. /\ UNCHANGED <<arch, source, k, offset, out>> /\ phase = "run"
      /\ TypeInv /\ k \in Nat
  BY DEF CopyStep, BuildInv, TypeInv
<1>2. PICK n \in 1 .. k + 1 :
         \/ copy.at = f[n]
         \/ n \in 1 .. k /\ arch = "x86" /\ source[n].op \in Branches /\ copy.at = f[n] + 6
  BY DEF OnTrack
<1>3. ~copy.ended
  BY DEF CopyStep
<1>4. ASSUME NEW e \in Effects, NEW m \in 1 .. k + 1, copy' = Goes(copy, e, f[m])
      PROVE  copy' \in Runs /\ ~copy'.ended /\ OnTrack(f)'
  <2>1. copy' \in Runs /\ ~copy'.ended /\ copy'.at = f[m]
    <3>1. PICK next \in Nat : next = f[m]
      BY <1>1, <1>4
    <3>2. copy' = Goes(copy, e, next)
      BY <1>4, <3>1
    <3>3. /\ Goes(copy, e, next) \in Runs /\ ~Goes(copy, e, next).ended
          /\ Goes(copy, e, next).at = next
      BY <1>4, RunGoes
    <3>4. QED
      BY <3>1, <3>2, <3>3
  <2>2. QED
    BY <1>1, <2>1 DEF OnTrack
<1>5. CASE n \notin 1 .. k
  <2>1. n = k + 1 /\ copy.at = f[k + 1]
    BY <1>1, <1>2, <1>5
  <2>2. copy' = Leaves(copy, <<"to", -offset>>)
    BY <2>1, CopyAtBack
  <2>3. QED
    BY <1>1, <2>2, LeftLast
<1>6. CASE n \in 1 .. k /\ copy.at # f[n]
  <2>1. copy' = Leaves(copy, <<"to", n>>)
    BY <1>2, <1>6, CopyAtSkipped
  <2>2. QED
    BY <1>1, <1>6, <2>1, LeftLast
<1>7. CASE n \in 1 .. k /\ copy.at = f[n]
  <2>1. source[n].op \in Ops[arch] /\ source[n].op # "bad"
    <3>1. source[n] \in Insns
      BY <1>1, <1>7, LenProperties DEF TypeInv
    <3>2. QED
      BY <1>1, <1>7, <3>1 DEF Insns, TypeInv
  <2>2. source[n].op \notin {"call", "callmem", "ripdata", "bcond", "literal"}
    BY <1>7 DEF Direct
  <2>3. n + 1 \in 1 .. k + 1 /\ n \in Int
    BY <1>1, <1>7
  <2>4. <<"do", n>> \in Effects /\ <<"call", n>> \in Effects /\ <<"adr", n>> \in Effects
    BY <2>3 DEF Effects
  <2>5. CASE source[n].op \in {"plain", "imm"}
    <3>1. copy' = Goes(copy, <<"do", n>>, f[n + 1])
      BY <1>7, <2>5, CopyAtBlock
    <3>2. QED
      BY <1>4, <2>3, <2>4, <3>1
  <2>6. CASE arch = "x86" /\ source[n].op = "jmp32"
    <3>1. copy' = Leaves(copy, <<"to", n>>)
      BY <1>7, <2>6, CopyAtBlock
    <3>2. QED
      BY <1>1, <1>7, <3>1, LeftLast
  <2>7. CASE arch = "x86" /\ source[n].op \in Branches
    <3>1. PICK next : /\ copy' = Moves(copy, next)
                      /\ next = f[n + 1] \/ next = f[n] + 6
      BY <1>7, <2>7, CopyAtBlock
    <3>2. next \in Nat
      BY <1>2, <2>3, <3>1
    <3>3. copy' \in Runs /\ ~copy'.ended /\ copy'.at = next
      BY <1>3, <3>1, <3>2, RunMoves DEF Runs
    <3>4. OnTrack(f)'
      BY <1>1, <1>7, <2>3, <2>7, <3>1, <3>3 DEF OnTrack
    <3>5. QED
      BY <3>3, <3>4
  <2>8. CASE arch # "x86" /\ source[n].op = "b"
    <3>1. copy' = Leaves(copy, <<"to", n>>)
      BY <1>7, <2>8, CopyAtBlock
    <3>2. QED
      BY <1>1, <1>7, <3>1, LeftLast
  <2>9. CASE arch # "x86" /\ source[n].op = "bl"
    <3>1. copy' = Goes(copy, <<"call", n>>, f[n + 1])
      BY <1>7, <2>9, CopyAtBlock
    <3>2. QED
      BY <1>4, <2>3, <2>4, <3>1
  <2>10. CASE arch # "x86" /\ source[n].op = "adr"
    <3>1. copy' = Goes(copy, <<"adr", n>>, f[n + 1])
      BY <1>7, <2>10, CopyAtBlock
    <3>2. QED
      BY <1>4, <2>3, <2>4, <3>1
  <2>11. CASE arch = "x86"
    <3>1. source[n].op \in {"plain", "imm", "jmp32", "jmp8", "jmpmem", "jcc", "loop"}
      BY <2>1, <2>2, <2>11 DEF Ops
    <3>2. QED
      BY <2>5, <2>6, <2>7, <2>11, <3>1 DEF Branches
  <2>12. CASE arch = "arm64"
    <3>1. source[n].op \in {"plain", "imm", "b", "bl", "adr"}
      BY <2>1, <2>2, <2>12 DEF Ops
    <3>2. QED
      BY <2>5, <2>8, <2>9, <2>10, <2>12, <3>1
  <2>13. QED
    BY <1>1, <2>11, <2>12 DEF TypeInv
<1>8. QED
  BY <1>5, <1>6, <1>7

LEMMA LeaveUnmoved ==
  ASSUME BuildInv, LeaveInv, phase \in {"run", "done"}, phase' \in {"run", "done"},
         UNCHANGED <<arch, source, k, offset, out, copy>>
  PROVE  LeaveInv'
<1> SUFFICES ASSUME Direct'
             PROVE  /\ copy' \in Runs
                    /\ \E f \in [1 .. k + 1 -> Nat] :
                         Layout(f)' /\ (~copy.ended => OnTrack(f))' /\ (copy.ended => Left)'
  BY DEF LeaveInv
<1>1. Direct
  BY DEF Direct
<1>2. PICK f \in [1 .. k + 1 -> Nat] :
        Layout(f) /\ (~copy.ended => OnTrack(f)) /\ (copy.ended => Left)
  BY <1>1 DEF LeaveInv
<1>3. Layout(f)'
  BY <1>2, LayoutKept
<1>4. (OnTrack(f)' <=> OnTrack(f)) /\ (Left' <=> Left)
  BY DEF OnTrack, Left
<1>5. QED
  BY <1>1, <1>2, <1>3, <1>4 DEF LeaveInv

LEMMA LeaveStep == BuildInv /\ BuildInv' /\ LeaveInv /\ [Next]_vars => LeaveInv'
<1> SUFFICES ASSUME BuildInv, BuildInv', LeaveInv, [Next]_vars PROVE LeaveInv'
  OBVIOUS
<1>1. CASE TranslateInsn
  <2>1. phase' \in {"build", "threw"}
    BY <1>1 DEF TranslateInsn
  <2>2. QED
    BY <2>1 DEF LeaveInv
<1>2. CASE FinishBuild
  <2>1. copy' = Start /\ phase' \in {"run", "threw"}
    BY <1>2 DEF FinishBuild, BuildInv
  <2>2. ASSUME phase' = "run" PROVE LeaveInv'
    <3>0. k' \in Nat /\ 1 \in 1 .. k' + 1
      <4>1. TypeInv'
        BY DEF BuildInv
      <4>2. k' \in Nat
        BY <4>1 DEF TypeInv
      <4>3. PICK j \in Nat : j = k'
        BY <4>2
      <4>4. 1 \in 1 .. j + 1
        OBVIOUS
      <4>5. QED
        BY <4>3, <4>4
    <3>1. PICK f \in [1 .. k' + 1 -> Nat] : Layout(f)'
      BY <2>2 DEF BuildInv
    <3>2. f[1] = 0
      BY <3>1 DEF Layout
    <3>3. copy'.at = f[1] /\ ~copy'.ended /\ copy' \in Runs
      BY <2>1, <3>2, StartRuns
    <3>4. OnTrack(f)'
      BY <3>0, <3>3 DEF OnTrack
    <3>5. QED
      BY <3>1, <3>3, <3>4 DEF LeaveInv
  <2>3. QED
    BY <2>1, <2>2 DEF LeaveInv
<1>3. CASE OriginalStep
  BY <1>3, LeaveUnmoved DEF OriginalStep
<1>4. CASE CopyStep
  <2> SUFFICES ASSUME Direct' PROVE LeaveInv'
    BY DEF LeaveInv
  <2>1. /\ phase = "run" /\ phase' = "run" /\ ~copy.ended
        /\ UNCHANGED <<arch, source, k, offset, out>>
    BY <1>4 DEF CopyStep
  <2>2. Direct
    BY <2>1 DEF Direct
  <2>3. PICK f \in [1 .. k + 1 -> Nat] : Layout(f) /\ OnTrack(f)
    BY <2>1, <2>2 DEF LeaveInv
  <2>4. copy' \in Runs /\ (~copy'.ended => OnTrack(f)') /\ (copy'.ended => Left')
    BY <1>4, <2>1, <2>2, <2>3, CopyKeepsTrack DEF LeaveInv
  <2>5. Layout(f)'
    BY <2>1, <2>3, LayoutKept
  <2>6. QED
    BY <2>1, <2>4, <2>5 DEF LeaveInv
<1>5. CASE BothEnded
  BY <1>5, LeaveUnmoved DEF BothEnded
<1>6. CASE UNCHANGED vars
  <2>1. phase' \in {"run", "done"} => phase \in {"run", "done"}
    BY <1>6 DEF vars
  <2>2. CASE phase \in {"run", "done"}
    BY <1>6, <2>2, LeaveUnmoved DEF vars
  <2>3. QED
    BY <2>1, <2>2 DEF LeaveInv
<1>7. QED
  BY <1>1, <1>2, <1>3, <1>4, <1>5, <1>6 DEF Next

\* Whatever the program, the patch and the flags, the copy of an instruction that is not
\* left out never runs into the middle of an item or into a pointer: it leaves for a target
\* it was given or behind the patch (the displacements of code_relocator.cc:194-216).
THEOREM CopyLeavesForATarget == Spec => []LeavesForATarget
<1>1. Init => LeaveInv
  BY DEF Init, LeaveInv
<1>2. Spec => []LeaveInv
  BY <1>1, BuildHolds, LeaveStep, PTL DEF Spec
<1>3. BuildInv /\ LeaveInv => LeavesForATarget
  <2> SUFFICES ASSUME BuildInv, LeaveInv, copy.ended, Direct PROVE Left
    BY DEF LeavesForATarget, Direct, Left
  <2>1. phase \in {"run", "done"}
    BY StartRuns DEF BuildInv, TypeInv
  <2>2. QED
    BY <2>1 DEF LeaveInv
<1>4. QED
  BY <1>2, <1>3, BuildHolds, PTL

--------------------------------------------------------------------------------
(* The two runs side by side *)

AllFaithful == \A n \in 1 .. k : Faithful(source[n])

\* What the n-th instruction does, if it goes on to the next and is no condition.
Does(n) == IF source[n].op \in {"plain", "imm"} THEN <<"do", n>>
           ELSE IF source[n].op = "bl" THEN <<"call", n>> ELSE <<"adr", n>>

Passes(n) == \/ source[n].op \in {"plain", "imm", "bl", "adr"}
             \/ source[n].op = "jcc" /\ ~Taken(source[n])

\* The run leaves at the instruction behind the e-th, for x.
Stops(e, x) == \/ e = k /\ x = -offset
               \/ /\ e < k /\ x = e + 1
                  /\ \/ source[e + 1].op \in {"jmp32", "b"}
                     \/ source[e + 1].op = "jcc" /\ Taken(source[e + 1])

\* When the original has passed the n-th instruction its trace has pos[n] effects.
OriginalInv(pos) ==
  /\ original \in Runs /\ original.at \in 0 .. k
  /\ pos \in [0 .. original.at -> Nat] /\ pos[0] = 0
  /\ \A n \in 1 .. original.at :
       /\ Passes(n)
       /\ source[n].op = "jcc" => pos[n] = pos[n - 1]
       /\ source[n].op # "jcc" => /\ pos[n] = pos[n - 1] + 1 /\ pos[n] \in 1 .. Len(original.trace)
                                  /\ original.trace[pos[n]] = Does(n)
  /\ ~original.ended => Len(original.trace) = pos[original.at]
  /\ original.ended =>
       /\ Len(original.trace) = pos[original.at] + 1
       /\ \E x \in Int : Stops(original.at, x) /\ original.trace[pos[original.at] + 1] = <<"to", x>>

\* The copy has done what the original had done when it had passed m instructions.
Follows(f, pos, m) ==
  /\ Len(copy.trace) = pos[m] /\ \A i \in 1 .. pos[m] : copy.trace[i] = original.trace[i]
  /\ \/ copy.at = f[m + 1]
     \/ /\ m = original.at /\ m < k /\ source[m + 1].op = "jcc" /\ Taken(source[m + 1])
        /\ copy.at = f[m + 1] + 6

CopyInv(f, pos) ==
  /\ copy \in Runs
  /\ ~original.ended => copy = Start
  /\ original.ended /\ ~copy.ended => \E m \in 0 .. original.at : Follows(f, pos, m)
  /\ copy.ended => copy.trace = original.trace

AlikeInv ==
  phase \in {"run", "done"} /\ AllFaithful =>
    \E f \in [1 .. k + 1 -> Nat], pos \in [0 .. original.at -> Nat] :
       Layout(f) /\ OriginalInv(pos) /\ CopyInv(f, pos)

LEMMA FaithfulOps ==
  ASSUME TypeInv, AllFaithful, NEW n \in 1 .. k
  PROVE  /\ arch = "x86" => source[n].op \in {"plain", "imm", "jmp32", "jcc"}
         /\ arch # "x86" => source[n].op \in {"plain", "imm", "b", "bl", "adr"}
BY DEF AllFaithful, Faithful

LEMMA OriginalAt ==
  ASSUME OriginalStep, NEW n, n = original.at + 1, original.at \in 0 .. k, k \in Nat
  PROVE  /\ original.at = k => original' = Leaves(original, <<"to", -offset>>)
         /\ original.at < k /\ source[n].op \in {"jmp32", "b"} =>
              original' = Leaves(original, <<"to", n>>)
         /\ original.at < k /\ source[n].op = "jcc" /\ Taken(source[n]) =>
              original' = Leaves(original, <<"to", n>>)
         /\ original.at < k /\ source[n].op = "jcc" /\ ~Taken(source[n]) =>
              original' = Moves(original, n)
         /\ original.at < k /\ source[n].op \in {"plain", "imm", "bl", "adr"} =>
              original' = Goes(original, Does(n), n)
<1>1. original.at = k => n > k /\ ~(n <= k)
  OBVIOUS
<1>2. original.at < k => n <= k /\ ~(n > k)
  OBVIOUS
<1>3. CASE original.at = k
  BY <1>1, <1>3 DEF OriginalStep
<1>4. CASE original.at < k
  <2>1. CASE source[n].op \in {"jmp32", "b"}
    <3>1. CASE source[n].op = "jmp32"
      BY <1>2, <1>4, <3>1 DEF OriginalStep
    <3>2. CASE source[n].op = "b"
      BY <1>2, <1>4, <3>2 DEF OriginalStep
    <3>3. QED
      BY <2>1, <3>1, <3>2
  <2>2. CASE source[n].op = "jcc"
    BY <1>2, <1>4, <2>2 DEF OriginalStep
  <2>3. CASE source[n].op \in {"plain", "imm"}
    <3>1. CASE source[n].op = "plain"
      BY <1>2, <1>4, <3>1 DEF OriginalStep, Does
    <3>2. CASE source[n].op = "imm"
      BY <1>2, <1>4, <3>2 DEF OriginalStep, Does
    <3>3. QED
      BY <2>3, <3>1, <3>2
  <2>4. CASE source[n].op = "bl"
    BY <1>2, <1>4, <2>4 DEF OriginalStep, Does
  <2>5. CASE source[n].op = "adr"
    BY <1>2, <1>4, <2>5 DEF OriginalStep, Does
  <2>6. QED
    BY <1>4, <2>1, <2>2, <2>3, <2>4, <2>5
<1>5. QED
  BY <1>3, <1>4

LEMMA OriginalLeaves ==
  ASSUME TypeInv, UNCHANGED <<arch, source, cpu, k, offset>>, NEW pos, OriginalInv(pos),
         ~original.ended, NEW x \in Int, Stops(original.at, x),
         original' = Leaves(original, <<"to", x>>)
  PROVE  OriginalInv(pos)' /\ original'.ended /\ original'.at = original.at
<1>1. <<"to", x>> \in Effects /\ original \in Runs
  BY DEF Effects, OriginalInv
<1>2. /\ original' \in Runs /\ original'.ended /\ original'.at = original.at
      /\ Len(original.trace) \in Nat /\ Len(original'.trace) = Len(original.trace) + 1
      /\ \A i \in 1 .. Len(original.trace) : original'.trace[i] = original.trace[i]
      /\ original'.trace[Len(original.trace) + 1] = <<"to", x>>
  <2>1. PICK e \in Effects : e = <<"to", x>>
    BY <1>1
  <2>2. /\ Leaves(original, e) \in Runs /\ Leaves(original, e).ended
        /\ Leaves(original, e).at = original.at /\ Len(original.trace) \in Nat
        /\ Len(Leaves(original, e).trace) = Len(original.trace) + 1
        /\ \A i \in 1 .. Len(original.trace) : Leaves(original, e).trace[i] = original.trace[i]
        /\ Leaves(original, e).trace[Len(original.trace) + 1] = e
    BY <1>1, RunLeaves
  <2>3. original' = Leaves(original, e)
    BY <2>1
  <2>4. QED
    BY <2>1, <2>2, <2>3
<1>3. \A n : (Passes(n)' <=> Passes(n)) /\ Does(n)' = Does(n)
  BY DEF Passes, Taken, Holds, Does
<1>4. Stops(original.at, x)'
  BY <1>2 DEF Stops, Taken, Holds
<1>5. Len(original.trace) = pos[original.at]
  BY DEF OriginalInv
<1>6. ASSUME NEW n \in 1 .. original.at
      PROVE  /\ Passes(n)
             /\ source[n].op = "jcc" => pos[n] = pos[n - 1]
             /\ source[n].op # "jcc" => /\ pos[n] = pos[n - 1] + 1
                                        /\ pos[n] \in 1 .. Len(original'.trace)
                                        /\ original'.trace[pos[n]] = Does(n)
  <2>1. /\ Passes(n)
        /\ source[n].op = "jcc" => pos[n] = pos[n - 1]
        /\ source[n].op # "jcc" => /\ pos[n] = pos[n - 1] + 1
                                   /\ pos[n] \in 1 .. Len(original.trace)
                                   /\ original.trace[pos[n]] = Does(n)
    BY DEF OriginalInv
  <2>2. ASSUME NEW i \in 1 .. Len(original.trace)
        PROVE  i \in 1 .. Len(original'.trace) /\ original'.trace[i] = original.trace[i]
    <3>1. PICK a \in Nat, b \in Nat :
            a = Len(original.trace) /\ b = Len(original'.trace) /\ b = a + 1
      BY <1>2
    <3>2. i \in 1 .. b
      BY <3>1
    <3>3. QED
      BY <1>2, <3>1, <3>2
  <2>3. QED
    BY <2>1, <2>2
<1>7. original.at \in 0 .. k /\ pos \in [0 .. original.at -> Nat] /\ pos[0] = 0
  BY DEF OriginalInv
<1>8. /\ original'.trace[pos[original.at] + 1] = <<"to", x>>
      /\ Len(original'.trace) = pos[original.at] + 1
  BY <1>2, <1>5
<1>9. \E y \in Int : Stops(original.at, y)' /\ original'.trace[pos[original.at] + 1] = <<"to", y>>
  BY <1>4, <1>8
<1>10. OriginalInv(pos)'
  <2>1. /\ original'.at \in 0 .. k' /\ pos \in [0 .. original'.at -> Nat]
    BY <1>2, <1>7
  <2>2. /\ Len(original'.trace) = pos[original'.at] + 1
        /\ \E y \in Int : /\ Stops(original.at, y)'
                         /\ original'.trace[pos[original'.at] + 1] = <<"to", y>>
    BY <1>2, <1>8, <1>9
  <2>3. \A n \in 1 .. original'.at :
          /\ Passes(n)'
          /\ source'[n].op = "jcc" => pos[n] = pos[n - 1]
          /\ source'[n].op # "jcc" => /\ pos[n] = pos[n - 1] + 1
                                      /\ pos[n] \in 1 .. Len(original'.trace)
                                      /\ original'.trace[pos[n]] = Does(n)'
    BY <1>2, <1>3, <1>6
  <2>4. QED
    BY <1>2, <1>7, <2>1, <2>2, <2>3 DEF OriginalInv
<1>11. QED
  BY <1>2, <1>10

LEMMA OriginalPasses ==
  ASSUME TypeInv, UNCHANGED <<arch, source, cpu, k, offset>>, NEW pos, OriginalInv(pos),
         ~original.ended, NEW n, n = original.at + 1, original.at < k, Passes(n),
         source[n].op = "jcc" => original' = Moves(original, n),
         source[n].op # "jcc" => original' = Goes(original, Does(n), n)
  PROVE  ~original'.ended /\ \E q \in [0 .. original'.at -> Nat] : OriginalInv(q)'
<1>1. /\ original \in Runs /\ original.at \in Nat /\ k \in Nat /\ n \in Nat /\ n \in 1 .. k
      /\ pos \in [0 .. original.at -> Nat] /\ pos[0] = 0 /\ pos[original.at] \in Nat
      /\ Len(original.trace) = pos[original.at]
  <2>1. k \in Nat /\ original.at \in 0 .. k
    BY DEF TypeInv, OriginalInv
  <2>2. QED
    BY <2>1 DEF OriginalInv
<1>2. Does(n) \in Effects
  BY <1>1 DEF Does, Effects
<1>3. /\ original' \in Runs /\ ~original'.ended /\ original'.at = n
      /\ \A i \in 1 .. pos[original.at] : original'.trace[i] = original.trace[i]
      /\ source[n].op = "jcc" => Len(original'.trace) = pos[original.at]
      /\ source[n].op # "jcc" => /\ Len(original'.trace) = pos[original.at] + 1
                                 /\ original'.trace[pos[original.at] + 1] = Does(n)
  <2>1. CASE source[n].op = "jcc"
    <3>1. original' = Moves(original, n)
      BY <2>1
    <3>2. /\ original' \in Runs /\ original'.ended = original.ended /\ original'.at = n
          /\ original'.trace = original.trace
      BY <1>1, <3>1, RunMoves
    <3>3. QED
      BY <1>1, <2>1, <3>2
  <2>2. CASE source[n].op # "jcc"
    <3>1. original' = Goes(original, Does(n), n)
      BY <2>2
    <3>2. /\ original' \in Runs /\ ~original'.ended /\ original'.at = n
          /\ Len(original'.trace) = Len(original.trace) + 1
          /\ \A i \in 1 .. Len(original.trace) : original'.trace[i] = original.trace[i]
          /\ original'.trace[Len(original.trace) + 1] = Does(n)
      <4>1. PICK e \in Effects : e = Does(n)
        BY <1>2
      <4>0. original \in Runs /\ n \in Nat
        BY <1>1
      <4>2. /\ Goes(original, e, n) \in Runs /\ ~Goes(original, e, n).ended
            /\ Goes(original, e, n).at = n
            /\ Len(Goes(original, e, n).trace) = Len(original.trace) + 1
            /\ \A i \in 1 .. Len(original.trace) : Goes(original, e, n).trace[i] = original.trace[i]
            /\ Goes(original, e, n).trace[Len(original.trace) + 1] = e
        BY <4>0, RunGoes
      <4>3. original' = Goes(original, e, n)
        BY <3>1, <4>1
      <4>4. QED
        BY <4>1, <4>2, <4>3
    <3>3. QED
      BY <1>1, <2>2, <3>2
  <2>3. QED
    BY <2>1, <2>2
<1>4. PICK l \in Nat : l = IF source[n].op = "jcc" THEN pos[original.at] ELSE pos[original.at] + 1
  BY <1>1
<1>5. PICK q : q = [i \in 0 .. n |-> IF i = n THEN l ELSE pos[i]]
  OBVIOUS
<1>6. /\ q \in [0 .. n -> Nat] /\ q[0] = 0 /\ q[n] = l
      /\ \A i \in 0 .. original.at : q[i] = pos[i]
  BY <1>1, <1>5
<1>7. Len(original'.trace) = l /\ pos[original.at] <= l
  BY <1>1, <1>3, <1>4
<1>8. ASSUME NEW i \in 1 .. n
      PROVE  /\ Passes(i)
             /\ source[i].op = "jcc" => q[i] = q[i - 1]
             /\ source[i].op # "jcc" => /\ q[i] = q[i - 1] + 1
                                        /\ q[i] \in 1 .. Len(original'.trace)
                                        /\ original'.trace[q[i]] = Does(i)
  <2>1. CASE i = n
    <3>1. i - 1 = original.at /\ q[i - 1] = pos[original.at] /\ q[i] = l
      BY <1>1, <1>6, <2>1
    <3>2. QED
      BY <1>1, <1>3, <1>4, <1>7, <2>1, <3>1
  <2>2. CASE i # n
    <3>1. /\ i \in 1 .. original.at /\ q[i] = pos[i] /\ q[i - 1] = pos[i - 1]
      BY <1>1, <1>6, <2>2
    <3>2. /\ Passes(i)
          /\ source[i].op = "jcc" => pos[i] = pos[i - 1]
          /\ source[i].op # "jcc" => /\ pos[i] = pos[i - 1] + 1
                                     /\ pos[i] \in 1 .. Len(original.trace)
                                     /\ original.trace[pos[i]] = Does(i)
      BY <3>1 DEF OriginalInv
    <3>3. ASSUME NEW j \in 1 .. Len(original.trace)
          PROVE  j \in 1 .. Len(original'.trace) /\ original'.trace[j] = original.trace[j]
      BY <1>1, <1>3, <1>7
    <3>4. QED
      BY <3>1, <3>2, <3>3
  <2>3. QED
    BY <2>1, <2>2
<1>9. \A i : (Passes(i)' <=> Passes(i)) /\ Does(i)' = Does(i)
  BY DEF Passes, Taken, Holds, Does
<1>10. OriginalInv(q)'
  BY <1>1, <1>3, <1>6, <1>7, <1>8, <1>9 DEF OriginalInv
<1>11. QED
  BY <1>3, <1>6, <1>10

LEMMA LeavesAlike ==
  ASSUME TypeInv, NEW pos, OriginalInv(pos), original.ended, copy \in Runs,
         Len(copy.trace) = pos[original.at],
         \A i \in 1 .. pos[original.at] : copy.trace[i] = original.trace[i],
         NEW x \in Int, original.trace[pos[original.at] + 1] = <<"to", x>>,
         copy' = Leaves(copy, <<"to", x>>)
  PROVE  copy' \in Runs /\ copy'.ended /\ copy'.trace = original.trace
<1>1. <<"to", x>> \in Effects
  BY DEF Effects
<1>2. PICK len \in Nat : len = Len(copy.trace)
  BY LenProperties DEF Runs
<1>3. PICK s : s = copy'.trace
  OBVIOUS
<1>4. PICK t : t = original.trace
  OBVIOUS
<1>5. /\ copy' \in Runs /\ copy'.ended /\ Len(s) = len + 1
      /\ \A i \in 1 .. len : s[i] = copy.trace[i]
      /\ s[len + 1] = <<"to", x>>
  <2>1. PICK e \in Effects : e = <<"to", x>>
    BY <1>1
  <2>2. /\ Leaves(copy, e) \in Runs /\ Leaves(copy, e).ended
        /\ Len(Leaves(copy, e).trace) = Len(copy.trace) + 1
        /\ \A i \in 1 .. Len(copy.trace) : Leaves(copy, e).trace[i] = copy.trace[i]
        /\ Leaves(copy, e).trace[Len(copy.trace) + 1] = e
    BY RunLeaves
  <2>3. copy' = Leaves(copy, e)
    BY <2>1
  <2>4. QED
    BY <1>2, <1>3, <2>1, <2>2, <2>3
<1>6. /\ Len(t) = len + 1 /\ t[len + 1] = <<"to", x>>
      /\ \A i \in 1 .. len : copy.trace[i] = t[i]
  BY <1>2, <1>4 DEF OriginalInv
<1>7. s \in Seq(Effects) /\ t \in Seq(Effects)
  BY <1>3, <1>4, <1>5 DEF OriginalInv, Runs
<1>8. \A i \in 1 .. len + 1 : s[i] = t[i]
  <2> SUFFICES ASSUME NEW i \in 1 .. len + 1 PROVE s[i] = t[i]
    OBVIOUS
  <2>1. i \in 1 .. len \/ i = len + 1
    OBVIOUS
  <2>2. QED
    BY <1>5, <1>6, <2>1
<1>9. s = t
  BY <1>5, <1>6, <1>7, <1>8, SeqEqual
<1>10. QED
  BY <1>3, <1>4, <1>5, <1>9

LEMMA CopyFollows ==
  ASSUME BuildInv, AllFaithful, NEW f \in [1 .. k + 1 -> Nat],
         NEW pos \in [0 .. original.at -> Nat],
         Layout(f), OriginalInv(pos), original.ended, copy \in Runs,
         NEW m \in 0 .. original.at, Follows(f, pos, m), CopyStep
  PROVE  /\ copy' \in Runs
         /\ ~copy'.ended => \E j \in 0 .. original.at : Follows(f, pos, j)'
         /\ copy'.ended => copy'.trace = original.trace
<1>1. TypeInv /\ ~copy.ended /\ UNCHANGED <<arch, source, cpu, k, offset, original>>
  BY DEF CopyStep, BuildInv
<1>2. k \in Nat /\ original.at \in 0 .. k /\ m \in Nat /\ m <= original.at /\ pos[m] \in Nat
  <2>1. k \in Nat /\ original.at \in 0 .. k
    BY <1>1 DEF TypeInv, OriginalInv
  <2>2. QED
    BY <2>1
<1>3. Len(copy.trace) = pos[m] /\ \A i \in 1 .. pos[m] : copy.trace[i] = original.trace[i]
  BY DEF Follows
<1>4. PICK x \in Int : Stops(original.at, x) /\ original.trace[pos[original.at] + 1] = <<"to", x>>
  BY DEF OriginalInv
<1>5. ASSUME m = original.at, copy' = Leaves(copy, <<"to", x>>)
      PROVE  copy' \in Runs /\ copy'.ended /\ copy'.trace = original.trace
  BY <1>1, <1>3, <1>4, <1>5, LeavesAlike
<1>6. PICK n \in Nat : n = m + 1
  BY <1>2
<1>7. m < k => n \in 1 .. k /\ n \in 1 .. k + 1 /\ n + 1 \in 1 .. k + 1
  BY <1>2, <1>6
<1>8. m < k /\ source[n].op = "jcc" =>
        /\ arch = "x86" /\ source[n].op \in Branches
        /\ Holds(Inverted(ConditionOf(source[n]))) <=> ~Taken(source[n])
  <2> SUFFICES ASSUME m < k, source[n].op = "jcc"
               PROVE  /\ arch = "x86" /\ source[n].op \in Branches
                      /\ Holds(Inverted(ConditionOf(source[n]))) <=> ~Taken(source[n])
    OBVIOUS
  <2>1. arch = "x86" /\ source[n].op \in Branches
    BY <1>1, <1>7, FaithfulOps DEF Branches
  <2>2. ConditionOf(source[n]) = source[n].cc /\ (Taken(source[n]) <=> Holds(source[n].cc))
    BY DEF ConditionOf, Taken
  <2>3. source[n] \in Insns
    BY <1>1, <1>2, <1>7, LenProperties DEF TypeInv
  <2>4. source[n].cc \in Conditions /\ cpu \in [of : BOOLEAN, zf : BOOLEAN, cx : BOOLEAN]
    BY <1>1, <2>3 DEF Insns, TypeInv
  <2>5. QED
    BY <2>1, <2>2, <2>4, InvertedCondition
<1>9. CASE copy.at # f[m + 1]
  <2>1. /\ m = original.at /\ m < k /\ source[n].op = "jcc" /\ Taken(source[n])
        /\ copy.at = f[n] + 6
    BY <1>6, <1>9 DEF Follows
  <2>2. copy' = Leaves(copy, <<"to", n>>)
    BY <1>7, <1>8, <2>1, CopyAtSkipped
  <2>3. x = n
    BY <1>2, <1>4, <1>6, <2>1 DEF Stops
  <2>4. QED
    BY <1>5, <2>1, <2>2, <2>3
<1>10. CASE copy.at = f[m + 1] /\ m < original.at
  <2>1. m < k /\ n \in 1 .. original.at /\ copy.at = f[n] /\ n - 1 = m
    BY <1>2, <1>6, <1>10
  <2>2. /\ Passes(n)
        /\ source[n].op = "jcc" => pos[n] = pos[m]
        /\ source[n].op # "jcc" => /\ pos[n] = pos[m] + 1
                                   /\ original.trace[pos[n]] = Does(n)
    BY <2>1 DEF OriginalInv
  <2>3. f[n + 1] \in Nat /\ pos[n] \in Nat /\ n \in 0 .. original.at
    BY <1>7, <2>1
  <2>4. ASSUME copy' \in Runs, ~copy'.ended, copy'.at = f[n + 1], Len(copy'.trace) = pos[n],
               \A i \in 1 .. pos[n] : copy'.trace[i] = original.trace[i]
        PROVE  \E j \in 0 .. original.at : Follows(f, pos, j)'
    <3>1. Follows(f, pos, n)'
      BY <1>1, <2>4 DEF Follows
    <3>2. QED
      BY <2>3, <3>1
  <2>5. CASE source[n].op = "jcc"
    <3>1. ~Taken(source[n])
      BY <2>2, <2>5 DEF Passes
    <3>2. copy' = Moves(copy, f[n + 1])
      BY <1>7, <1>8, <2>1, <2>5, <3>1, CopyAtBlock
    <3>3. copy' \in Runs /\ copy'.ended = copy.ended /\ copy'.at = f[n + 1] /\ copy'.trace = copy.trace
      BY <2>3, <3>2, RunMoves
    <3>4. Len(copy'.trace) = pos[n] /\ \A i \in 1 .. pos[n] : copy'.trace[i] = original.trace[i]
      BY <1>3, <2>2, <2>5, <3>3
    <3>5. QED
      BY <1>1, <2>4, <3>3, <3>4
  <2>6. CASE source[n].op # "jcc"
    <3>1. source[n].op \in {"plain", "imm", "bl", "adr"}
      BY <2>2, <2>6 DEF Passes
    <3>2. source[n].op \in {"bl", "adr"} => arch # "x86"
      BY <1>1, <1>7, <2>1, FaithfulOps
    <3>3. copy' = Goes(copy, Does(n), f[n + 1])
      <4>1. CASE source[n].op \in {"plain", "imm"}
        BY <1>7, <2>1, <4>1, CopyAtBlock DEF Does
      <4>2. CASE source[n].op = "bl"
        BY <1>7, <2>1, <3>2, <4>2, CopyAtBlock DEF Does
      <4>3. CASE source[n].op = "adr"
        BY <1>7, <2>1, <3>2, <4>3, CopyAtBlock DEF Does
      <4>4. QED
        BY <3>1, <4>1, <4>2, <4>3
    <3>4. Does(n) \in Effects
      BY DEF Does, Effects
    <3>5. /\ copy' \in Runs /\ ~copy'.ended /\ copy'.at = f[n + 1]
          /\ Len(copy'.trace) = Len(copy.trace) + 1
          /\ \A i \in 1 .. Len(copy.trace) : copy'.trace[i] = copy.trace[i]
          /\ copy'.trace[Len(copy.trace) + 1] = Does(n)
      <4>1. PICK e \in Effects, next \in Nat : e = Does(n) /\ next = f[n + 1]
        BY <2>3, <3>4
      <4>2. /\ Goes(copy, e, next) \in Runs /\ ~Goes(copy, e, next).ended
            /\ Goes(copy, e, next).at = next
            /\ Len(Goes(copy, e, next).trace) = Len(copy.trace) + 1
            /\ \A i \in 1 .. Len(copy.trace) : Goes(copy, e, next).trace[i] = copy.trace[i]
            /\ Goes(copy, e, next).trace[Len(copy.trace) + 1] = e
        BY RunGoes
      <4>3. copy' = Goes(copy, e, next)
        BY <3>3, <4>1
      <4>4. QED
        BY <4>1, <4>2, <4>3
    <3>6. Len(copy'.trace) = pos[n]
      BY <1>3, <2>2, <2>6, <3>5
    <3>7. \A i \in 1 .. pos[n] : copy'.trace[i] = original.trace[i]
      <4>1. PICK p \in Nat : p = pos[m]
        BY <1>2
      <4>2. pos[n] = p + 1 /\ original.trace[p + 1] = Does(n)
        BY <2>2, <2>6, <4>1
      <4>3. /\ \A i \in 1 .. p : copy'.trace[i] = original.trace[i]
            /\ copy'.trace[p + 1] = Does(n)
        BY <1>3, <3>5, <4>1
      <4>4. \A i \in 1 .. p + 1 : i \in 1 .. p \/ i = p + 1
        BY <4>1
      <4>5. QED
        BY <4>2, <4>3, <4>4
    <3>8. QED
      BY <2>4, <3>5, <3>6, <3>7
  <2>7. QED
    BY <2>5, <2>6
<1>11. CASE copy.at = f[m + 1] /\ m = original.at
  <2>1. CASE m = k
    <3>1. copy' = Leaves(copy, <<"to", -offset>>)
      BY <1>11, <2>1, CopyAtBack
    <3>2. x = -offset
      BY <1>4, <1>11, <2>1 DEF Stops
    <3>3. QED
      BY <1>5, <1>11, <3>1, <3>2
  <2>2. CASE m < k
    <3>1. /\ x = n /\ copy.at = f[n]
          /\ source[n].op \in {"jmp32", "b"} \/ (source[n].op = "jcc" /\ Taken(source[n]))
      <4>1. Stops(m, x) /\ m # k /\ n = m + 1
        BY <1>2, <1>4, <1>6, <1>11, <2>2
      <4>2. QED
        BY <1>11, <4>1 DEF Stops
    <3>2. CASE source[n].op \in {"jmp32", "b"}
      <4>1. source[n].op = "jmp32" => arch = "x86"
        BY <1>1, <1>7, <2>2, FaithfulOps
      <4>2. source[n].op = "b" => arch # "x86"
        BY <1>1, <1>7, <2>2, FaithfulOps
      <4>3. copy' = Leaves(copy, <<"to", n>>)
        BY <1>7, <2>2, <3>1, <3>2, <4>1, <4>2, CopyAtBlock
      <4>4. QED
        BY <1>5, <1>11, <3>1, <4>3
    <3>3. CASE source[n].op = "jcc" /\ Taken(source[n])
      <4>1. copy' = Moves(copy, f[n] + 6)
        BY <1>7, <1>8, <2>2, <3>1, <3>3, CopyAtBlock
      <4>2. PICK next \in Nat : next = f[n] + 6
        BY <1>7, <2>2
      <4>3. copy' \in Runs /\ copy'.ended = copy.ended /\ copy'.at = next /\ copy'.trace = copy.trace
        BY <4>1, <4>2, RunMoves
      <4>4. Follows(f, pos, m)'
        BY <1>1, <1>3, <1>6, <1>11, <2>2, <3>3, <4>2, <4>3 DEF Follows, Taken, Holds
      <4>5. QED
        BY <1>1, <4>3, <4>4
    <3>4. QED
      BY <3>1, <3>2, <3>3
  <2>3. QED
    BY <1>2, <1>11, <2>1, <2>2
<1>12. QED
  BY <1>2, <1>9, <1>10, <1>11

LEMMA AlikeOriginal ==
  ASSUME BuildInv, AllFaithful, AlikeInv, OriginalStep
  PROVE  AlikeInv'
<1>1. /\ TypeInv /\ phase = "run" /\ phase' = "run" /\ ~original.ended
      /\ UNCHANGED <<arch, source, cpu, k, offset, out, copy>>
  BY DEF OriginalStep, BuildInv
<1>2. PICK f \in [1 .. k + 1 -> Nat], pos \in [0 .. original.at -> Nat] :
        Layout(f) /\ OriginalInv(pos) /\ CopyInv(f, pos)
  BY <1>1 DEF AlikeInv
<1>3. original.at \in 0 .. k /\ k \in Nat
  BY <1>1, <1>2 DEF OriginalInv, TypeInv
<1>4. Layout(f)' /\ copy' = Start
  BY <1>1, <1>2, LayoutKept DEF CopyInv
<1>5. PICK n \in Nat : n = original.at + 1
  BY <1>3
<1>6. ASSUME NEW x \in Int, Stops(original.at, x), original' = Leaves(original, <<"to", x>>)
      PROVE  AlikeInv'
  <2>1. OriginalInv(pos)' /\ original'.ended /\ original'.at = original.at
    BY <1>1, <1>2, <1>6, OriginalLeaves
  <2>2. f[1] = 0 /\ pos[0] = 0
    BY <1>2 DEF Layout, OriginalInv
  <2>3. Follows(f, pos, 0)'
    BY <1>4, <2>2, StartRuns DEF Follows
  <2>4. 0 \in 0 .. original.at
    BY <1>3
  <2>5. CopyInv(f, pos)'
    BY <1>4, <2>1, <2>3, <2>4, StartRuns DEF CopyInv
  <2>6. QED
    BY <1>1, <1>2, <1>4, <2>1, <2>5 DEF AlikeInv
<1>7. ASSUME original.at < k, Passes(n),
             source[n].op = "jcc" => original' = Moves(original, n),
             source[n].op # "jcc" => original' = Goes(original, Does(n), n)
      PROVE  AlikeInv'
  <2>1. ~original'.ended /\ \E q \in [0 .. original'.at -> Nat] : OriginalInv(q)'
    BY <1>1, <1>2, <1>5, <1>7, OriginalPasses
  <2>2. PICK q \in [0 .. original'.at -> Nat] : OriginalInv(q)'
    BY <2>1
  <2>3. CopyInv(f, q)'
    BY <1>4, <2>1, StartRuns DEF CopyInv
  <2>4. QED
    BY <1>1, <1>2, <1>4, <2>2, <2>3 DEF AlikeInv
<1>8. CASE original.at = k
  <2>1. original' = Leaves(original, <<"to", -offset>>)
    BY <1>3, <1>5, <1>8, OriginalAt
  <2>2. Stops(original.at, -offset) /\ -offset \in Int
    BY <1>1, <1>8 DEF Stops, TypeInv
  <2>3. QED
    BY <1>6, <2>1, <2>2
<1>9. CASE original.at < k
  <2>1. n \in 1 .. k
    BY <1>3, <1>5, <1>9
  <2>2. source[n].op \in {"plain", "imm", "jmp32", "jcc", "b", "bl", "adr"}
    BY <1>1, <2>1, FaithfulOps
  <2>3. CASE source[n].op \in {"jmp32", "b"} \/ (source[n].op = "jcc" /\ Taken(source[n]))
    <3>1. original' = Leaves(original, <<"to", n>>)
      BY <1>3, <1>5, <1>9, <2>3, OriginalAt
    <3>2. Stops(original.at, n)
      BY <1>5, <1>9, <2>3 DEF Stops
    <3>3. QED
      BY <1>6, <3>1, <3>2
  <2>4. CASE source[n].op = "jcc" /\ ~Taken(source[n])
    <3>1. original' = Moves(original, n)
      BY <1>3, <1>5, <1>9, <2>4, OriginalAt
    <3>2. QED
      BY <1>7, <1>9, <2>4, <3>1 DEF Passes
  <2>5. CASE source[n].op \in {"plain", "imm", "bl", "adr"}
    <3>1. original' = Goes(original, Does(n), n)
      BY <1>3, <1>5, <1>9, <2>5, OriginalAt
    <3>2. QED
      BY <1>7, <1>9, <2>5, <3>1 DEF Passes
  <2>6. QED
    BY <2>2, <2>3, <2>4, <2>5
<1>10. QED
  BY <1>3, <1>8, <1>9

LEMMA AlikeCopy ==
  ASSUME BuildInv, AllFaithful, AlikeInv, CopyStep
  PROVE  AlikeInv'
<1>1. /\ TypeInv /\ phase = "run" /\ phase' = "run" /\ original.ended /\ ~copy.ended
      /\ UNCHANGED <<arch, source, cpu, k, offset, out, original>>
  BY DEF CopyStep, BuildInv
<1>2. PICK f \in [1 .. k + 1 -> Nat], pos \in [0 .. original.at -> Nat] :
        Layout(f) /\ OriginalInv(pos) /\ CopyInv(f, pos)
  BY <1>1 DEF AlikeInv
<1>3. PICK m \in 0 .. original.at : Follows(f, pos, m)
  BY <1>1, <1>2 DEF CopyInv
<1>4. /\ copy' \in Runs
      /\ ~copy'.ended => \E j \in 0 .. original.at : Follows(f, pos, j)'
      /\ copy'.ended => copy'.trace = original.trace
  BY <1>1, <1>2, <1>3, CopyFollows DEF CopyInv
<1>5. CopyInv(f, pos)'
  BY <1>1, <1>4 DEF CopyInv
<1>6. Layout(f)'
  BY <1>1, <1>2, LayoutKept
<1>7. OriginalInv(pos)'
  <2>1. \A n : (Passes(n)' <=> Passes(n)) /\ Does(n)' = Does(n)
    BY <1>1 DEF Passes, Taken, Holds, Does
  <2>2. \A x : Stops(original.at, x)' <=> Stops(original.at, x)
    BY <1>1 DEF Stops, Taken, Holds
  <2>3. QED
    BY <1>1, <1>2, <2>1, <2>2 DEF OriginalInv
<1>8. QED
  BY <1>1, <1>2, <1>5, <1>6, <1>7 DEF AlikeInv

LEMMA AlikeUnmoved ==
  ASSUME BuildInv, AllFaithful, AlikeInv, phase \in {"run", "done"}, phase' \in {"run", "done"},
         UNCHANGED <<arch, source, cpu, k, offset, out, original, copy>>
  PROVE  AlikeInv'
<1>1. PICK f \in [1 .. k + 1 -> Nat], pos \in [0 .. original.at -> Nat] :
        Layout(f) /\ OriginalInv(pos) /\ CopyInv(f, pos)
  BY DEF AlikeInv
<1>2. Layout(f)'
  BY <1>1, LayoutKept
<1>3. \A n : (Passes(n)' <=> Passes(n)) /\ Does(n)' = Does(n)
  BY DEF Passes, Taken, Holds, Does
<1>4. \A x : Stops(original.at, x)' <=> Stops(original.at, x)
  BY DEF Stops, Taken, Holds
<1>5. OriginalInv(pos)'
  BY <1>1, <1>3, <1>4 DEF OriginalInv
<1>6. \A m : Follows(f, pos, m)' <=> Follows(f, pos, m)
  BY DEF Follows, Taken, Holds
<1>7. CopyInv(f, pos)'
  BY <1>1, <1>6 DEF CopyInv
<1>8. QED
  BY <1>1, <1>2, <1>5, <1>7 DEF AlikeInv

LEMMA AlikeStep == BuildInv /\ BuildInv' /\ AlikeInv /\ [Next]_vars => AlikeInv'
<1> SUFFICES ASSUME BuildInv, BuildInv', AlikeInv, [Next]_vars, AllFaithful' PROVE AlikeInv'
  BY DEF AlikeInv
<1>1. CASE TranslateInsn
  <2>1. phase' \in {"build", "threw"}
    BY <1>1 DEF TranslateInsn, BuildInv, TypeInv
  <2>2. QED
    BY <2>1 DEF AlikeInv
<1>2. CASE FinishBuild
  <2>1. copy' = Start /\ original' = Start /\ phase' \in {"run", "threw"}
    BY <1>2 DEF FinishBuild, BuildInv
  <2>2. ASSUME phase' = "run" PROVE AlikeInv'
    <3>1. PICK f \in [1 .. k' + 1 -> Nat] : Layout(f)'
      BY <2>2 DEF BuildInv
    <3>2. k' \in Nat
      <4>1. TypeInv'
        BY DEF BuildInv
      <4>2. QED
        BY <4>1 DEF TypeInv
    <3>3. PICK j \in Nat : j = k'
      BY <3>2
    <3>4. PICK pos \in [0 .. 0 -> Nat] : pos[0] = 0
      <4>1. [i \in 0 .. 0 |-> 0] \in [0 .. 0 -> Nat] /\ [i \in 0 .. 0 |-> 0][0] = 0
        OBVIOUS
      <4>2. QED
        BY <4>1
    <3>5. /\ original' \in Runs /\ original'.at = 0 /\ ~original'.ended
          /\ Len(original'.trace) = 0
      BY <2>1, StartRuns
    <3>6. 0 \in 0 .. j
      OBVIOUS
    <3>7. pos \in [0 .. original'.at -> Nat]
      BY <3>4, <3>5
    <3>8. OriginalInv(pos)'
      BY <3>3, <3>4, <3>5, <3>6 DEF OriginalInv
    <3>9. CopyInv(f, pos)'
      BY <2>1, <3>5, StartRuns DEF CopyInv
    <3>10. QED
      BY <3>1, <3>7, <3>8, <3>9 DEF AlikeInv
  <2>3. QED
    BY <2>1, <2>2 DEF AlikeInv
<1>3. CASE OriginalStep
  <2>1. AllFaithful
    BY <1>3 DEF OriginalStep, AllFaithful, Faithful
  <2>2. QED
    BY <1>3, <2>1, AlikeOriginal
<1>4. CASE CopyStep
  <2>1. AllFaithful
    BY <1>4 DEF CopyStep, AllFaithful, Faithful
  <2>2. QED
    BY <1>4, <2>1, AlikeCopy
<1>5. CASE BothEnded
  <2>1. AllFaithful
    BY <1>5 DEF BothEnded, AllFaithful, Faithful
  <2>2. QED
    BY <1>5, <2>1, AlikeUnmoved DEF BothEnded
<1>6. CASE UNCHANGED vars
  <2>1. AllFaithful /\ (phase' \in {"run", "done"} => phase \in {"run", "done"})
    BY <1>6 DEF vars, AllFaithful, Faithful
  <2>2. CASE phase \in {"run", "done"}
    BY <1>6, <2>1, <2>2, AlikeUnmoved DEF vars
  <2>3. QED
    BY <2>1, <2>2 DEF AlikeInv
<1>7. QED
  BY <1>1, <1>2, <1>3, <1>4, <1>5, <1>6 DEF Next

EndInv == phase = "done" => copy.ended

LEMMA EndStep == EndInv /\ [Next]_vars => EndInv'
BY DEF EndInv, Next, vars, TranslateInsn, FinishBuild, OriginalStep, CopyStep, BothEnded

\* When both runs are over the copy of a program of faithful instructions
\* has done what the original did, in the same order, and has gone to the same place,
\* whatever the flags (code_relocator.cc:144-164 and 192-231).
THEOREM CopyRunsAlike == Spec => []RunsAlike
<1>1. Init => AlikeInv
  BY DEF Init, AlikeInv
<1>2. Spec => []AlikeInv
  BY <1>1, BuildHolds, AlikeStep, PTL DEF Spec
<1>3. Spec => []EndInv
  <2>1. Init => EndInv
    BY DEF Init, EndInv
  <2>2. QED
    BY <2>1, EndStep, PTL DEF Spec
<1>4. AlikeInv /\ EndInv => RunsAlike
  BY DEF AlikeInv, EndInv, CopyInv, RunsAlike, AllFaithful
<1>5. QED
  BY <1>2, <1>3, <1>4, PTL
================================================================================
