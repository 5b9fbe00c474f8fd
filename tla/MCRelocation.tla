------------------------------ MODULE MCRelocation ------------------------------
(* Small instance of Relocation: three instructions, of which a patch covers two or three. *)
EXTENDS Relocation

\* Sizes that matter are whether an instruction reaches the end of the patch.
Insns(a) ==
  {[op |-> o, cc |-> 0, size |-> s] : o \in Ops[a] \ {"jcc", "bcond"}, s \in {1, 2}}
  \union {[op |-> o, cc |-> c, size |-> 2] : o \in Ops[a] \intersect {"jcc", "bcond"},
                                           c \in Conditions}

\* The third instruction is only looked at behind two short ones.
Sequences(insns) ==
  {p \in [1 .. 3 -> insns] :
     p[3].op \in {"plain", "bad"} /\ (p[1].size + p[2].size >= 3 => p[3].op = "plain")}

MCPrograms ==
  [x86 |-> Sequences(Insns("x86")),
   arm64 |-> Sequences({n \in Insns("arm64") : n.size = 2})]
================================================================================
