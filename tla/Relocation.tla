------------------------------- MODULE Relocation -------------------------------
(****************************************************************************)
(* buildRelocatedCode() of internal/code_relocator.cc on both processors,    *)
(* with what it takes from analyzeInstruction(): the instructions a patch    *)
(* will overwrite are translated one by one, then the processor runs the     *)
(* original and the copy from the same state.                                *)
(*                                                                           *)
(* A target of the k-th instruction is named k, its displacement decides     *)
(* nothing but where it points; a copy of a PC-relative instruction points   *)
(* elsewhere.  Targets lie outside the bytes that are overwritten.           *)
(****************************************************************************)
EXTENDS Integers, Sequences

CONSTANTS
  Programs,   \* instruction sequences a patch may meet, for each processor
  PatchBytes  \* minBytes: 14 and 16 in the code, 1 for a breakpoint

\* ripdata: an operand relative to RIP.  callmem, jmpmem: FF 15 and FF 25, through a
\* pointer relative to RIP.  jmp32, jmp8: E9 and EB.  jcc: 70 to 7F and 0F 80 to 0F 8F.
\* loop: E0 to E3, loops and jrcxz.
Ops == [x86 |-> {"plain", "imm", "ripdata", "call", "callmem", "jmp32", "jmp8", "jmpmem",
                 "jcc", "loop", "bad"},
\* bcond: b.cond, cbz, tbz and their opposites.  adr: adrp as well.  literal: ldr from a
\* place relative to PC.
        arm64 |-> {"plain", "imm", "b", "bl", "adr", "bcond", "literal", "bad"}]

\* Condition codes of two of the flags: 0 and 1 test OF, 4 and 5 ZF, the odd ones for clear.
Conditions == {0, 1, 4, 5}

\* As many instructions as the patch has bytes always fill it.
ASSUME RelocationConstants ==
  /\ PatchBytes \in Nat \ {0}
  /\ DOMAIN Programs = DOMAIN Ops
  /\ \A a \in DOMAIN Ops : \A p \in Programs[a] :
       /\ p \in Seq([op : Ops[a], cc : Conditions, size : Nat \ {0}])
       /\ Len(p) >= PatchBytes

VARIABLES
  arch,    \* the processor
  source,  \* the instructions from the patched address on
  cpu,     \* flags and whether RCX is zero, at the entry
  phase,   \* "build", "threw", "run" or "done"
  k,       \* instructions translated
  offset,  \* srcOffset
  out,     \* what was emitted
  original, copy  \* a run of each: where it is, what it has done, whether it goes on

vars == <<arch, source, cpu, phase, k, offset, out, original, copy>>

Start == [at |-> 0, trace |-> <<>>, ended |-> FALSE]

Init ==
  /\ arch \in DOMAIN Ops /\ source \in Programs[arch]
  /\ cpu \in [of : BOOLEAN, zf : BOOLEAN, cx : BOOLEAN]
  /\ phase = "build" /\ k = 0 /\ offset = 0 /\ out = <<>>
  /\ original = Start /\ copy = Start

--------------------------------------------------------------------------------
(* Analysis *)

\* Capstone's groups.
IsCall(insn)   == insn.op \in {"call", "callmem", "bl"}
IsBranch(insn) == insn.op \in {"jmp32", "jmp8", "jmpmem", "jcc", "loop", "b", "bcond"}

\* analyzeInstruction(): every immediate operand counts, and on x86 one relative to RIP.
IsPcRelative(insn) == insn.op # "plain"

--------------------------------------------------------------------------------
(* Emission *)

\* asmjit puts each item behind the last one.
Cursor(s) == IF s = <<>> THEN 0 ELSE s[Len(s)].at + s[Len(s)].size
Emit(s, kind, size, arg, cc) ==
  Append(s, [at |-> Cursor(s), kind |-> kind, size |-> size, arg |-> arg, cc |-> cc])

Copied(s, n)   == Emit(s, "copy", source[n].size, n, 0)
Quad(s, n)     == Emit(s, "quad", 8, n, 0)
\* FF 25 and FF 15 with a displacement.
JumpMem(s, d)  == Emit(s, "jump-through", 6, d, 0)
CallMem(s, d)  == Emit(s, "call-through", 6, d, 0)
\* A jump to a label that is never bound keeps a displacement of zero.
JumpUnbound(s) == Emit(s, "jump-unbound", 5, 0, 0)
JumpIf(s, c, d) == Emit(s, "jump-if", 6, d, c)

\* 0x80 + (cc ^ 1)
NotInverted(c) == c
Inverted(c) == IF c % 2 = 0 THEN c + 1 ELSE c - 1

ConditionOf(insn) == IF insn.op = "jcc" THEN insn.cc ELSE 0

\* The jump away is 6 bytes and its target 8.
SkipJump == 6
SkipJumpAndTarget == 14

TranslateX86(n) ==
  LET insn == source[n] IN
  CASE insn.op = "jmp32" -> Quad(JumpMem(out, 0), n)
    [] insn.op = "call" -> Quad(JumpUnbound(CallMem(out, 2)), n)
    [] IsPcRelative(insn) /\ IsBranch(insn) /\ ~IsCall(insn) /\ insn.op # "jmp32" ->
         Quad(JumpMem(JumpIf(out, Inverted(ConditionOf(insn)), SkipJumpAndTarget), 0), n)
    [] OTHER -> Copied(out, n)

\* mov and br, mov and blr, mov: two instructions at least, whatever the target.
TranslateArm64(n) ==
  CASE source[n].op = "b"   -> Emit(out, "br", 8, n, 0)
    [] source[n].op = "bl"  -> Emit(out, "blr", 8, n, 0)
    [] source[n].op = "adr" -> Emit(out, "mov", 4, n, 0)
    [] OTHER -> Copied(out, n)

Translate(n) == IF arch = "x86" THEN TranslateX86(n) ELSE TranslateArm64(n)

\* The target of the jump back is the offset behind the last instruction, as minus that.
JumpBack == IF arch = "x86" THEN Quad(JumpMem(out, 0), -offset)
                            ELSE Emit(out, "br", 8, -offset, 0)

TranslateInsn ==
  /\ phase = "build" /\ offset < PatchBytes
  /\ IF source[k + 1].op = "bad"
     THEN phase' = "threw" /\ UNCHANGED <<k, offset, out>>
     ELSE /\ out' = Translate(k + 1)
          /\ k' = k + 1 /\ offset' = offset + source[k + 1].size
          /\ UNCHANGED phase
  /\ UNCHANGED <<arch, source, cpu, original, copy>>

\* What asmjit does with a label that is never bound it does not promise.
FinishBuild ==
  /\ phase = "build" /\ offset >= PatchBytes
  /\ out' = JumpBack
  /\ \/ phase' = "run"
     \/ phase' = "threw" /\ \E n \in DOMAIN out : out[n].kind = "jump-unbound"
  /\ UNCHANGED <<arch, source, cpu, k, offset, original, copy>>

--------------------------------------------------------------------------------
(* The processor: first it runs the original, then the copy *)

Holds(c) == LET flag == IF c \in {0, 1} THEN cpu.of ELSE cpu.zf
            IN IF c % 2 = 0 THEN flag ELSE ~flag

Taken(insn) == \/ insn.op \in {"jcc", "bcond"} /\ Holds(insn.cc)
               \/ insn.op = "loop" /\ cpu.cx

Goes(run, effect, next) == [at |-> next, trace |-> Append(run.trace, effect), ended |-> FALSE]
Moves(run, next)        == [run EXCEPT !.at = next]
Leaves(run, effect)     == [at |-> run.at, trace |-> Append(run.trace, effect), ended |-> TRUE]

\* at counts instructions.
OriginalStep ==
  /\ phase = "run" /\ ~original.ended
  /\ LET n == original.at + 1
         insn == source[n]
         goOn(what) == Goes(original, <<what, n>>, n)
     IN original' =
          CASE n > k -> Leaves(original, <<"to", -offset>>)
            [] n <= k /\ insn.op \in {"jmp32", "jmp8", "b"} -> Leaves(original, <<"to", n>>)
            [] n <= k /\ insn.op = "jmpmem" -> Leaves(original, <<"to-what-is-at", n>>)
            [] n <= k /\ insn.op \in {"jcc", "bcond", "loop"} ->
                 IF Taken(insn) THEN Leaves(original, <<"to", n>>) ELSE Moves(original, n)
            [] n <= k /\ insn.op \in {"call", "bl"} -> goOn("call")
            [] n <= k /\ insn.op = "callmem" -> goOn("call-what-is-at")
            [] n <= k /\ insn.op \in {"adr", "ripdata", "literal"} -> goOn(insn.op)
            [] n <= k /\ insn.op \in {"plain", "imm"} -> goOn("do")
  /\ UNCHANGED <<arch, source, cpu, phase, k, offset, out, copy>>

\* The item that begins at a byte.
ItemAt(b) == {n \in DOMAIN out : out[n].at = b}

Astray(run) == Leaves(run, <<"astray", 0>>)

\* The pointer a FF 25 or FF 15 finds d bytes behind it.
Pointer(b, d) == {out[n].arg : n \in {q \in ItemAt(b + 6 + d) : out[q].kind = "quad"}}

\* A copied instruction does what it did if it is not relative to PC.
RunsCopied(insn, n, next) ==
  CASE insn.op \in {"plain", "imm"} -> Goes(copy, <<"do", n>>, next)
    [] insn.op = "bcond" /\ ~Taken(insn) -> Moves(copy, next)
    [] OTHER -> Astray(copy)

RunsItem(it) ==
  LET next == copy.at + it.size IN
  CASE it.kind = "copy" -> RunsCopied(source[it.arg], it.arg, next)
    [] it.kind = "jump-through" ->
         IF Pointer(copy.at, it.arg) = {} THEN Astray(copy)
         ELSE Leaves(copy, <<"to", CHOOSE t \in Pointer(copy.at, it.arg) : TRUE>>)
    [] it.kind = "call-through" ->
         IF Pointer(copy.at, it.arg) = {} THEN Astray(copy)
         ELSE Goes(copy, <<"call", CHOOSE t \in Pointer(copy.at, it.arg) : TRUE>>, next)
    [] it.kind = "jump-unbound" -> Moves(copy, next)
    [] it.kind = "jump-if" -> Moves(copy, IF Holds(it.cc) THEN next + it.arg ELSE next)
    [] it.kind = "quad" -> Astray(copy)
    [] it.kind = "br" -> Leaves(copy, <<"to", it.arg>>)
    [] it.kind = "blr" -> Goes(copy, <<"call", it.arg>>, next)
    [] it.kind = "mov" -> Goes(copy, <<"adr", it.arg>>, next)

\* at counts bytes.
CopyStep ==
  /\ phase = "run" /\ original.ended /\ ~copy.ended
  /\ \/ ItemAt(copy.at) = {} /\ copy' = Astray(copy)
     \/ \E n \in ItemAt(copy.at) : copy' = RunsItem(out[n])
  /\ UNCHANGED <<arch, source, cpu, phase, k, offset, out, original>>

BothEnded ==
  /\ phase = "run" /\ copy.ended
  /\ phase' = "done"
  /\ UNCHANGED <<arch, source, cpu, k, offset, out, original, copy>>

Next == TranslateInsn \/ FinishBuild \/ OriginalStep \/ CopyStep \/ BothEnded

Spec == Init /\ [][Next]_vars

--------------------------------------------------------------------------------
(* Properties *)

\* What the translation does right: not calls on x86 (the pointer is looked for in the
\* jump behind the call), nor short jumps, loops and jumps through memory (they become
\* conditional on OF), nor data relative to PC and the conditional branches of ARM64
\* (copied as they are).
Faithful(insn) ==
  insn.op \in IF arch = "x86" THEN {"plain", "imm", "jmp32", "jcc"}
              ELSE {"plain", "imm", "b", "bl", "adr"}

\* The copy does what the original did, in the same order, and comes back behind the last
\* instruction it has taken over, whichever branch is taken (the conditions, the skips and
\* the jump back of code_relocator.cc:192-231).
RunsAlike ==
  phase = "done" /\ (\A n \in 1 .. k : Faithful(source[n])) => copy.trace = original.trace

\* Whatever the flags, the copy runs through its items and leaves for a target it was
\* given or the jump back: no branch or skip ends in the middle of an item or in a pointer
\* (the displacements 0 and 14, code_relocator.cc:194-216).
LeavesForATarget ==
  copy.ended /\ (\A n \in 1 .. k : source[n].op \notin
                   {"call", "callmem", "ripdata", "bcond", "literal"})
  => LET last == copy.trace[Len(copy.trace)]
     IN last[1] = "to" /\ last[2] \in 1 .. k \union {-offset}

================================================================================
