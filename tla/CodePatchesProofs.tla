---------------------------- MODULE CodePatchesProofs ----------------------------
(****************************************************************************)
(* Theorems about CodePatches, for a function and patches of any size, any   *)
(* number of threads, breakpoints and hooks.                                 *)
(*                                                                           *)
(* The maps agree whatever the user does (MInv).  For a user who removes     *)
(* what is on top, the patches over a cell form a stack (NInv): the code has *)
(* what the topmost has written, each has saved what the one below has       *)
(* written, and the lowest has saved the instruction.  For a user who keeps  *)
(* to all the rules a call runs while every thread is outside, and a thread  *)
(* is never inside a jump nor in code that was given back (SInv): nobody is  *)
(* killed, and the program and the script see what the Instrumentation       *)
(* contract says.                                                            *)
(****************************************************************************)
EXTENDS CodePatches, SequenceTheorems, TLAPS

Phases == {"outside", "code", "trapped", "trampoline", "callback", "leaving", "relocated",
           "replacement"}

Contents == [kind : {"insn", "brk"}, cell : Int, patch : {NoPatch}]
            \union [kind : {"jump"}, cell : Int, patch : Patches]

Entries == [kind : {"none", "breakpoint", "attached", "replaced"}, address : Nat,
            saved : Seq(Contents), body : Seq(Contents)]

CallStates == [pc : {"idle", "writable", "copying", "executable", "registering", "releasing",
                     "erasing"},
               op : {"none", "set", "remove"}, from : Phases, patch : Patches \union {NoPatch},
               bytes : Seq(Contents), all : BOOLEAN, todo : SUBSET Patches]

ThreadStates == [phase : {"outside", "code", "trapped"}, pc : Nat, patch : {NoPatch},
                 told : BOOLEAN]
                \union [phase : Phases, pc : Nat, patch : Patches, told : BOOLEAN]

TypeOK ==
  /\ code \in [Cells -> Contents] /\ page \in {"rx", "rw"}
  /\ entry \in [Patches -> Entries] /\ released \subseteq Patches
  /\ call \in [Threads -> CallStates] /\ thread \in [Threads -> ThreadStates]
  /\ crashed \in BOOLEAN /\ handlerInstalled \in BOOLEAN
  /\ bpById \subseteq Patches /\ hooksById \subseteq Patches
  /\ DOMAIN bpByAddress \subseteq Cells /\ DOMAIN hooksByTarget \subseteq Cells

--------------------------------------------------------------------------------
(* Calls, entries and maps, for any user *)

Kinds == {"breakpoint", "hook"}

IdOf(of)      == IF of = "breakpoint" THEN bpById ELSE hooksById
AddressOf(of) == IF of = "breakpoint" THEN bpByAddress ELSE hooksByTarget

\* How many cells a patch overwrites.
WidthOf(of) == IF of = "breakpoint" THEN 1 ELSE PatchSize
Width(p)    == WidthOf(p.of)

KindsOf(of) == IF of = "breakpoint" THEN {"breakpoint"} ELSE {"attached", "replaced"}

EntryOK(p) == /\ entry[p].kind \in KindsOf(p.of)
              /\ entry[p].address \in Nat /\ entry[p].address + Width(p) <= Size
              /\ Len(entry[p].saved) = Width(p) /\ entry[p].body = entry[p].saved

EntryInv == /\ \A p \in Patches : entry[p] = NoEntry \/ EntryOK(p)
            /\ \A p \in released : entry[p] # NoEntry

\* A call sets a patch that nobody knows yet ...
Sets(t) ==
  LET p == call[t].patch
  IN /\ call[t].op = "set" /\ call[t].pc \in {"writable", "copying", "executable", "registering"}
     /\ p \in Patches /\ entry[p] # NoEntry /\ p \notin released
     /\ call[t].bytes = Written(p) /\ call[t].todo = {} /\ ~call[t].all
     /\ entry[p].address \notin DOMAIN AddressOf(p.of)

\* ... or removes one, or all of its kind, that the maps have.
Removes(t) ==
  LET p == call[t].patch
  IN /\ call[t].op = "remove"
     /\ call[t].pc \in {"writable", "copying", "executable", "releasing", "erasing"}
     /\ p \in IdOf(p.of) /\ p \in Patches /\ call[t].bytes = entry[p].saved
     /\ call[t].todo \subseteq IdOf(p.of) \ {p}
     /\ ~call[t].all => call[t].todo = {}
     /\ call[t].all => IdOf(p.of) \subseteq call[t].todo \union {p} \union released
     /\ call[t].pc = "erasing" => call[t].todo = {} /\ p \in released

\* Each kind has one mutex.
CallInv ==
  /\ \A t \in Threads : call[t] = Idle \/ Sets(t) \/ Removes(t)
  /\ \A t, u \in Threads :
       t # u /\ call[t].patch.of = call[u].patch.of => call[t].patch = NoPatch

\* The two maps of a kind have the same patches, each under its address.
MapOK(of) ==
  /\ IdOf(of) = {AddressOf(of)[a] : a \in DOMAIN AddressOf(of)}
  /\ \A a \in DOMAIN AddressOf(of) : entry[AddressOf(of)[a]].address = a
  /\ \A p \in IdOf(of) : p.of = of /\ entry[p] # NoEntry

MapsInv == \A of \in Kinds : MapOK(of)

MInv == TypeOK /\ EntryInv /\ CallInv /\ MapsInv

LEMMA PatchKinds ==
  NoPatch \notin Patches /\ \A p \in Patches : p.of \in Kinds
BY DEF NoPatch, Patches, Kinds

LEMMA WrittenTyped ==
  ASSUME NEW p \in Patches
  PROVE  Written(p) \in Seq(Contents) /\ Len(Written(p)) = Width(p)
<1>1. CASE p.of = "breakpoint"
  <2>1. Brk \in Contents
    BY DEF Brk, Contents
  <2> QED BY <1>1, <2>1 DEF Written, Width, WidthOf
<1>2. CASE p.of # "breakpoint"
  <2>1. \A n \in 1 .. PatchSize : Jump(p, n) \in Contents
    BY DEF Jump, Contents
  <2>2. PatchSize \in Nat
    BY CodeConstants
  <2> QED BY <1>2, <2>1, <2>2 DEF Written, Width, WidthOf
<1> QED BY <1>1, <1>2

LEMMA ReadTyped ==
  ASSUME TypeOK, NEW a \in Nat, NEW n \in Nat, a + n <= Size
  PROVE  Read(a, n) \in Seq(Contents) /\ Len(Read(a, n)) = n /\ DOMAIN Read(a, n) = 1 .. n
<1>1. \A i \in 1 .. n : a + i - 1 \in Cells
  BY CodeConstants DEF Cells
<1>2. \A i \in 1 .. n : code[a + i - 1] \in Contents
  BY <1>1 DEF TypeOK
<1> QED BY <1>2 DEF Read

LEMMA IdleTyped == Idle \in CallStates
<1>1. <<>> \in Seq(Contents)
  OBVIOUS
<1>2. NoPatch \in Patches \union {NoPatch} /\ {} \in SUBSET Patches /\ "outside" \in Phases
  BY DEF Phases
<1> QED BY <1>1, <1>2 DEF Idle, CallStates

LEMMA MInitially == Init => MInv
<1> SUFFICES ASSUME Init PROVE MInv
  OBVIOUS
<1> USE DEF Init, CodeInit, BreakpointInit, InterceptorInit
<1>1. Original \in [Cells -> Contents]
  BY DEF Original, Insn, Contents, Cells
<1>2. NoEntry \in Entries
  BY DEF NoEntry, Entries
<1>3. Outside \in ThreadStates
  BY DEF Outside, ThreadStates
<1>4. DOMAIN bpByAddress = {} /\ DOMAIN hooksByTarget = {}
  OBVIOUS
<1>5. TypeOK
  BY <1>1, <1>2, <1>3, <1>4, IdleTyped DEF TypeOK
<1>6. EntryInv
  BY DEF EntryInv
<1>7. CallInv
  BY DEF CallInv, Idle
<1>8. MapsInv
  BY <1>4 DEF MapsInv, MapOK, IdOf, AddressOf
<1> QED BY <1>5, <1>6, <1>7, <1>8 DEF MInv

\* A step that changes at most the threads, the code and its page.
LEMMA MOutside ==
  ASSUME MInv, UNCHANGED <<entry, released, call, bpById, bpByAddress, hookVars>>,
         code' \in [Cells -> Contents], page' \in {"rx", "rw"},
         thread' \in [Threads -> ThreadStates], crashed' \in BOOLEAN,
         handlerInstalled' \in BOOLEAN
  PROVE  MInv'
<1> USE DEF hookVars
<1>1. TypeOK'
  BY DEF MInv, TypeOK
<1>2. EntryInv'
  <2>1. \A p : EntryOK(p)' <=> EntryOK(p)
    BY DEF EntryOK
  <2> QED BY <2>1 DEF MInv, EntryInv
<1>3. (\A of : IdOf(of)' = IdOf(of)) /\ (\A of : AddressOf(of)' = AddressOf(of))
  BY DEF IdOf, AddressOf
<1>4. CallInv'
  <2>1. \A t : (Sets(t)' <=> Sets(t)) /\ (Removes(t)' <=> Removes(t))
    BY <1>3 DEF Sets, Removes
  <2> QED BY <2>1 DEF MInv, CallInv
<1>5. MapsInv'
  <2>1. \A of : MapOK(of)' <=> MapOK(of)
    BY <1>3 DEF MapOK
  <2> QED BY <2>1 DEF MInv, MapsInv
<1> QED BY <1>1, <1>2, <1>4, <1>5 DEF MInv

\* A step of one call, which may release its patch.
LEMMA MCall ==
  ASSUME MInv, NEW t \in Threads, NEW x \in CallStates,
         call' = [call EXCEPT ![t] = x],
         UNCHANGED <<entry, thread, bpById, bpByAddress, hookVars, crashed>>,
         released' = released \/ (released' = released \union {call[t].patch} /\ Removes(t)),
         code' \in [Cells -> Contents], page' \in {"rx", "rw"},
         handlerInstalled' \in BOOLEAN,
         x = Idle \/ Sets(t)' \/ Removes(t)',
         \A u \in Threads \ {t} : call[u].patch.of # x.patch.of \/ x.patch = NoPatch
  PROVE  MInv'
<1> USE DEF hookVars
<1>0. /\ \A u \in Threads \ {t} : call'[u] = call[u]
      /\ call'[t] = x
  BY DEF MInv, TypeOK
<1>1. TypeOK'
  <2>1. Removes(t) => call[t].patch \in Patches
    BY DEF Removes
  <2> QED BY <2>1 DEF MInv, TypeOK
<1>2. EntryInv'
  <2>1. \A p : EntryOK(p)' <=> EntryOK(p)
    BY DEF EntryOK
  <2>2. Removes(t) => entry[call[t].patch] # NoEntry
    BY PatchKinds DEF Removes, MInv, MapsInv, MapOK
  <2> QED BY <2>1, <2>2 DEF MInv, EntryInv
<1>3. (\A of : IdOf(of)' = IdOf(of)) /\ (\A of : AddressOf(of)' = AddressOf(of))
  BY DEF IdOf, AddressOf
<1>4. CallInv'
  <2>1. ASSUME NEW u \in Threads, u # t
        PROVE  call[u] = Idle \/ Sets(u)' \/ Removes(u)'
    <3>1. call'[u] = call[u]
      BY <1>0, <2>1
    <3>2. ASSUME Sets(u) PROVE Sets(u)'
      <4>1. call[u].patch \notin released'
        <5>1. Removes(t) => call[t].patch # call[u].patch
          BY <2>1, <3>2, PatchKinds DEF Removes, Sets, MInv, CallInv
        <5> QED BY <5>1, <3>2 DEF Sets
      <4> QED BY <3>1, <3>2, <4>1, <1>3 DEF Sets
    <3>3. ASSUME Removes(u) PROVE Removes(u)'
      <4>1. released \subseteq released'
        OBVIOUS
      <4> QED BY <3>1, <3>3, <4>1, <1>3 DEF Removes
    <3> QED BY <3>2, <3>3 DEF MInv, CallInv
  <2>2. \A u \in Threads : call'[u] = Idle \/ Sets(u)' \/ Removes(u)'
    BY <1>0, <2>1
  <2>3. ASSUME NEW u \in Threads, NEW v \in Threads, u # v,
               call'[u].patch.of = call'[v].patch.of
        PROVE  call'[u].patch = NoPatch
    <3>1. CASE u # t /\ v # t
      BY <1>0, <2>3, <3>1 DEF MInv, CallInv
    <3>2. CASE u = t
      BY <1>0, <2>3, <3>2
    <3>3. CASE v = t
      <4>1. x.patch = NoPatch
        BY <1>0, <2>3, <3>3
      <4>2. call[u].patch \in Patches \union {NoPatch}
        BY DEF MInv, TypeOK, CallStates
      <4>3. "none" \notin Kinds /\ NoPatch.of = "none"
        BY DEF Kinds, NoPatch
      <4> QED BY <1>0, <2>3, <3>3, <4>1, <4>2, <4>3, PatchKinds
    <3> QED BY <3>1, <3>2, <3>3
  <2> QED BY <2>2, <2>3 DEF CallInv
<1>5. MapsInv'
  <2>1. \A of : MapOK(of)' <=> MapOK(of)
    BY <1>3 DEF MapOK
  <2> QED BY <2>1 DEF MInv, MapsInv
<1> QED BY <1>1, <1>2, <1>4, <1>5 DEF MInv

\* Building a patch.
LEMMA MBuild ==
  ASSUME MInv, NEW t \in Threads, NEW of \in Kinds, NEW kind \in KindsOf(of),
         NEW a \in Cells, call[t] = Idle, ~Locked(of), a \notin DOMAIN AddressOf(of),
         Build(t, of, kind, a, WidthOf(of)), handlerInstalled' \in BOOLEAN,
         UNCHANGED <<bpById, bpByAddress, hookVars>>
  PROVE  MInv'
<1> USE DEF hookVars
<1>w. WidthOf(of) \in Nat /\ a \in Nat
  BY CodeConstants DEF WidthOf, Cells
<1>0. PICK p \in Patches :
        /\ Fresh(of, p)
        /\ entry' = [entry EXCEPT ![p] =
                       [kind |-> kind, address |-> a,
                        saved |-> Read(a, WidthOf(of)), body |-> Read(a, WidthOf(of))]]
        /\ call' = [call EXCEPT ![t] = [Idle EXCEPT
                       !.pc = "writable", !.op = "set", !.from = thread[t].phase,
                       !.patch = p, !.bytes = Written(p)]]
  BY DEF Build
<1>1. p.of = of /\ entry[p] = NoEntry
  BY <1>0 DEF Fresh
<1>2. /\ a + WidthOf(of) <= Size
      /\ UNCHANGED <<code, page, released, thread, crashed>>
  BY DEF Build
<1> DEFINE e == [kind |-> kind, address |-> a,
                 saved |-> Read(a, WidthOf(of)), body |-> Read(a, WidthOf(of))]
           x == [Idle EXCEPT !.pc = "writable", !.op = "set", !.from = thread[t].phase,
                             !.patch = p, !.bytes = Written(p)]
<1>3. /\ Read(a, WidthOf(of)) \in Seq(Contents)
      /\ Len(Read(a, WidthOf(of))) = WidthOf(of)
  BY <1>2, <1>w, ReadTyped DEF MInv
<1>4. e \in Entries
  <2>1. kind \in {"none", "breakpoint", "attached", "replaced"}
    BY DEF KindsOf
  <2> QED BY <1>3, <1>w, <2>1 DEF Entries
<1>5. x \in CallStates /\ x.patch = p /\ x.pc = "writable"
  <2>1. thread[t].phase \in Phases
    BY DEF MInv, TypeOK, ThreadStates, Phases
  <2> QED BY <2>1, WrittenTyped DEF Idle, CallStates
<1>6. /\ \A u \in Threads \ {t} : call'[u] = call[u]
      /\ call'[t] = x
      /\ \A q \in Patches \ {p} : entry'[q] = entry[q]
      /\ entry'[p] = e
  BY <1>0 DEF MInv, TypeOK
<1>7. e # NoEntry
  <2>1. e.kind # NoEntry.kind
    BY DEF KindsOf, NoEntry
  <2> QED BY <2>1
<1>8. TypeOK'
  BY <1>0, <1>2, <1>4, <1>5 DEF MInv, TypeOK
<1>9. EntryInv'
  <2>1. \A q \in Patches \ {p} : EntryOK(q)' <=> EntryOK(q)
    BY <1>6 DEF EntryOK
  <2>2. EntryOK(p)'
    BY <1>1, <1>2, <1>3, <1>6, <1>w DEF EntryOK, Width
  <2>3. \A q \in Patches \ {p} : entry'[q] = NoEntry \/ EntryOK(q)'
    BY <2>1, <1>6 DEF MInv, EntryInv
  <2>4. \A q \in Patches : entry[q] # NoEntry => entry'[q] # NoEntry
    BY <1>6, <1>7
  <2>5. released' = released /\ released \subseteq Patches
    BY <1>2 DEF MInv, TypeOK
  <2> QED BY <2>2, <2>3, <2>4, <2>5 DEF MInv, EntryInv
<1>10. (\A o : IdOf(o)' = IdOf(o)) /\ (\A o : AddressOf(o)' = AddressOf(o))
  BY DEF IdOf, AddressOf
<1>11. CallInv'
  <2>1. ASSUME NEW u \in Threads, u # t
        PROVE  call'[u] = Idle \/ Sets(u)' \/ Removes(u)'
    <3>1. call'[u] = call[u]
      BY <1>6, <2>1
    <3>2. ASSUME Sets(u) PROVE Sets(u)'
      <4>1. call[u].patch \in Patches \ {p}
        BY <3>2, <1>1 DEF Sets
      <4>2. entry'[call[u].patch] = entry[call[u].patch]
        BY <4>1, <1>6
      <4> QED BY <3>1, <3>2, <4>2, <1>2, <1>10 DEF Sets
    <3>3. ASSUME Removes(u) PROVE Removes(u)'
      <4>1. call[u].patch \in Patches \ {p}
        <5>1. entry[call[u].patch] # NoEntry
          BY <3>3, PatchKinds DEF Removes, MInv, MapsInv, MapOK
        <5> QED BY <3>3, <5>1, <1>1 DEF Removes
      <4>2. entry'[call[u].patch] = entry[call[u].patch]
        BY <4>1, <1>6
      <4> QED BY <3>1, <3>3, <4>2, <1>2, <1>10 DEF Removes
    <3> QED BY <3>1, <3>2, <3>3 DEF MInv, CallInv
  <2>2. Sets(t)'
    <3>1. /\ x.op = "set" /\ x.bytes = Written(p) /\ x.todo = {} /\ ~x.all
      BY DEF Idle
    <3>2. p \notin released'
      BY <1>1, <1>2 DEF MInv, EntryInv
    <3>3. e.address \notin DOMAIN AddressOf(p.of)
      BY <1>1
    <3> HIDE DEF x, e
    <3> QED BY <1>5, <1>6, <1>7, <3>1, <3>2, <3>3, <1>10 DEF Sets
  <2>3. ASSUME NEW u \in Threads, NEW v \in Threads, u # v,
               call'[u].patch.of = call'[v].patch.of
        PROVE  call'[u].patch = NoPatch
    <3>0. \A w \in Threads \ {t} : call[w].patch.of # p.of
      BY <1>1 DEF Locked
    <3>1. CASE u # t /\ v # t
      BY <1>6, <2>3, <3>1 DEF MInv, CallInv
    <3> HIDE DEF x
    <3> QED BY <1>5, <1>6, <2>3, <3>0, <3>1
  <2> QED BY <2>1, <2>2, <2>3 DEF CallInv
<1>12. MapsInv'
  <2>1. ASSUME NEW o \in Kinds
        PROVE  MapOK(o)'
    <3>1. \A q \in IdOf(o) : q.of = o /\ entry[q] # NoEntry /\ q \in Patches
      BY <2>1 DEF MInv, MapsInv, MapOK, IdOf, TypeOK
    <3>2. \A q \in IdOf(o) : entry'[q] = entry[q]
      BY <3>1, <1>1, <1>6
    <3>3. \A b \in DOMAIN AddressOf(o) : AddressOf(o)[b] \in IdOf(o)
      BY <2>1 DEF MInv, MapsInv, MapOK
    <3>4. MapOK(o)
      BY <2>1 DEF MInv, MapsInv
    <3> QED BY <3>2, <3>3, <3>4, <1>10 DEF MapOK
  <2> QED BY <2>1 DEF MapsInv
<1> QED BY <1>8, <1>9, <1>11, <1>12 DEF MInv

\* What a call that goes on with its own patch leaves as it was.
LEMMA Alone ==
  ASSUME MInv, NEW t \in Threads, call[t] # Idle
  PROVE  /\ call[t].patch \in Patches /\ entry[call[t].patch] # NoEntry
         /\ EntryOK(call[t].patch)
         /\ call[t].op = "set" <=> Sets(t)
         /\ call[t].op = "remove" <=> Removes(t)
         /\ call[t].pc # "idle" /\ call[t].op \in {"set", "remove"}
         /\ \A u \in Threads \ {t} : call[u].patch.of # call[t].patch.of
<1>1. Sets(t) \/ Removes(t)
  BY DEF MInv, CallInv
<1>2. call[t].patch \in Patches /\ entry[call[t].patch] # NoEntry
  <2>1. CASE Sets(t)
    BY <2>1 DEF Sets
  <2>2. CASE Removes(t)
    BY <2>2, PatchKinds DEF Removes, MInv, MapsInv, MapOK
  <2> QED BY <1>1, <2>1, <2>2
<1>3. (Sets(t) => call[t].op = "set") /\ (Removes(t) => call[t].op = "remove")
  BY DEF Sets, Removes
<1>4. call[t].pc # "idle"
  BY <1>1 DEF Sets, Removes
<1>5. \A u \in Threads \ {t} : call[u].patch.of # call[t].patch.of
  BY <1>2, PatchKinds DEF MInv, CallInv
<1>6. EntryOK(call[t].patch)
  BY <1>2 DEF MInv, EntryInv
<1> QED BY <1>1, <1>2, <1>3, <1>4, <1>5, <1>6

LEMMA CopyTyped ==
  ASSUME MInv, NEW t \in Threads, Copy(t)
  PROVE  code' \in [Cells -> Contents]
<1>0. call[t].bytes \in Seq(Contents) /\ code \in [Cells -> Contents]
  BY DEF MInv, TypeOK, CallStates
<1>1. CASE page = "rw"
  <2> DEFINE i(c) == c - entry[call[t].patch].address + 1
  <2>1. code' = [c \in Cells |-> IF i(c) \in DOMAIN call[t].bytes
                                 THEN call[t].bytes[i(c)] ELSE code[c]]
    BY <1>1 DEF Copy
  <2>2. ASSUME NEW c \in Cells, i(c) \in DOMAIN call[t].bytes
        PROVE  call[t].bytes[i(c)] \in Contents
    BY <1>0, <2>2
  <2> QED BY <1>0, <2>1, <2>2
<1>2. CASE page # "rw"
  BY <1>0, <1>2 DEF Copy
<1> QED BY <1>1, <1>2

GoesTo(t, pc) == call' = [call EXCEPT ![t].pc = pc]

\* The steps of makeWritableAndPatch(), and the release.
LEMMA MCodeCalls ==
  ASSUME MInv, NEW t \in Threads, CodeCall(t)
  PROVE  MInv'
<1> USE DEF bpVars, hookVars
<1>1. /\ code \in [Cells -> Contents] /\ page \in {"rx", "rw"} /\ crashed \in BOOLEAN
      /\ handlerInstalled \in BOOLEAN /\ call \in [Threads -> CallStates]
      /\ thread \in [Threads -> ThreadStates]
  BY DEF MInv, TypeOK
<1>2. call[t] # Idle
  <2>1. "idle" \notin Failures
    BY CodeConstants DEF AllFailures
  <2>2. call[t].pc \in {"writable", "copying", "executable", "releasing"} \union Failures
    BY DEF CodeCall, MakeWritable, Copy, MakeExecutable, ProtectFails, Release, At
  <2> QED BY <2>1, <2>2 DEF Idle
<1>3. UNCHANGED <<entry, thread, bpVars, hookVars>>
  BY DEF CodeCall, MakeWritable, Copy, MakeExecutable, ProtectFails, Release, codeVars
<1>4. UNCHANGED <<bpById, bpByAddress, handlerInstalled, hooksById, hooksByTarget>>
  BY <1>3
<1>5. ASSUME NEW q \in {"writable", "copying", "executable", "registering", "releasing", "erasing"},
             GoesTo(t, q),
             call[t].op = "set" =>
               q \in {"writable", "copying", "executable", "registering"} /\ released' = released,
             call[t].op = "remove" =>
               q \in {"writable", "copying", "executable", "releasing", "erasing"},
             q = "erasing" => call[t].todo = {} /\ call[t].patch \in released',
             released' = released \/ (released' = released \union {call[t].patch} /\ Removes(t)),
             code' \in [Cells -> Contents], page' \in {"rx", "rw"}, crashed' = crashed
      PROVE  MInv'
  <2> DEFINE x == [call[t] EXCEPT !.pc = q]
  <2>1. x \in CallStates /\ call' = [call EXCEPT ![t] = x] /\ x.patch = call[t].patch
    BY <1>1, <1>5 DEF CallStates, GoesTo
  <2>2. /\ call'[t].op = call[t].op /\ call'[t].patch = call[t].patch
        /\ call'[t].bytes = call[t].bytes /\ call'[t].todo = call[t].todo
        /\ call'[t].all = call[t].all /\ call'[t].pc = q
    BY <1>1, <2>1 DEF CallStates
  <2>3. (\A of : IdOf(of)' = IdOf(of)) /\ (\A of : AddressOf(of)' = AddressOf(of))
    BY <1>4 DEF IdOf, AddressOf
  <2>4. Sets(t) => Sets(t)'
    BY <1>3, <1>5, <2>2, <2>3 DEF Sets
  <2>5. Removes(t) => Removes(t)'
    <3>1. released \subseteq released'
      BY <1>5
    <3> QED BY <1>3, <1>5, <2>2, <2>3, <3>1 DEF Removes
  <2>6. Sets(t)' \/ Removes(t)'
    BY <1>2, <2>4, <2>5, Alone
  <2>7. \A u \in Threads \ {t} : call[u].patch.of # x.patch.of
    BY <1>2, <2>1, Alone
  <2>8. UNCHANGED <<entry, thread, bpById, bpByAddress, hookVars, crashed>>
    BY <1>3, <1>4, <1>5
  <2>9. released' = released \/ (released' = released \union {call[t].patch} /\ Removes(t))
    BY <1>5
  <2>10. code' \in [Cells -> Contents] /\ page' \in {"rx", "rw"} /\ handlerInstalled' \in BOOLEAN
    BY <1>1, <1>4, <1>5
  <2>11. PICK y \in CallStates : y = x
    BY <2>1
  <2>12. call' = [call EXCEPT ![t] = y]
    BY <2>1, <2>11
  <2>13. \A u \in Threads \ {t} : call[u].patch.of # y.patch.of \/ y.patch = NoPatch
    BY <2>7, <2>11
  <2>14. y = Idle \/ Sets(t)' \/ Removes(t)'
    BY <2>6
  <2> HIDE DEF x
  <2> QED BY <2>8, <2>9, <2>10, <2>12, <2>13, <2>14, MCall
<1>6. ASSUME MakeWritable(t) PROVE MInv'
  <2>1. released' = released /\ code' = code /\ page' = "rw" /\ crashed' = crashed
    BY <1>6 DEF MakeWritable
  <2>2. GoesTo(t, "copying")
    BY <1>6 DEF MakeWritable, GoesTo
  <2> QED BY <1>1, <1>5, <2>1, <2>2
<1>7. ASSUME Copy(t) PROVE MInv'
  <2>1. released' = released /\ page' = page /\ code' \in [Cells -> Contents]
    BY <1>7, CopyTyped DEF Copy
  <2>2. CASE page = "rw"
    <3>1. GoesTo(t, "executable") /\ crashed' = crashed
      BY <1>7, <2>2 DEF Copy, GoesTo
    <3> QED BY <1>1, <1>5, <2>1, <3>1
  <2>3. CASE page # "rw"
    <3>1. call' = call /\ crashed' = TRUE
      BY <1>7, <2>3 DEF Copy
    <3> QED BY <1>1, <1>3, <1>4, <2>1, <3>1, MOutside
  <2> QED BY <2>2, <2>3
<1>8. ASSUME MakeExecutable(t) PROVE MInv'
  <2>1. released' = released /\ code' = code /\ page' = "rx" /\ crashed' = crashed
    BY <1>8 DEF MakeExecutable
  <2>2. CASE call[t].op = "set"
    <3>1. GoesTo(t, "registering")
      BY <1>8, <2>2 DEF MakeExecutable, GoesTo
    <3> QED BY <1>1, <1>5, <2>1, <2>2, <3>1
  <2>3. CASE call[t].op # "set"
    <3>1. GoesTo(t, "releasing")
      BY <1>8, <2>3 DEF MakeExecutable, GoesTo
    <3> QED BY <1>1, <1>5, <2>1, <2>3, <3>1
  <2> QED BY <2>2, <2>3
<1>9. ASSUME ProtectFails(t) PROVE MInv'
  <2>1. released' = released /\ code' = code /\ page' = page /\ crashed' = crashed
        /\ call' = [call EXCEPT ![t] = Idle]
    BY <1>9 DEF ProtectFails, codeVars
  <2>2. Idle.patch = NoPatch
    BY DEF Idle
  <2> QED BY <1>1, <1>3, <1>4, <2>1, <2>2, IdleTyped, MCall
<1>10. ASSUME Release(t) PROVE MInv'
  <2>1. /\ call[t].pc = "releasing" /\ code' = code /\ page' = page /\ crashed' = crashed
        /\ released' = released \union {call[t].patch}
    BY <1>10 DEF Release, At
  <2>2. Removes(t) /\ call[t].op = "remove"
    BY <1>2, <2>1, Alone DEF Sets
  <2>3. CASE call[t].todo = {}
    <3>1. GoesTo(t, "erasing")
      BY <1>10, <2>3 DEF Release, GoesTo
    <3> QED BY <1>1, <1>5, <2>1, <2>2, <2>3, <3>1
  <2>4. CASE call[t].todo # {}
    <3>1. PICK q \in call[t].todo :
            call' = [call EXCEPT ![t] = Undoing(t, q, call[t].todo \ {q}, TRUE)]
      BY <1>10, <2>4 DEF Release
    <3> DEFINE x == Undoing(t, q, call[t].todo \ {q}, TRUE)
               of == call[t].patch.of
    <3>2. q \in IdOf(of) \ {call[t].patch} /\ of \in Kinds /\ q \in Patches
      <4>1. q \in IdOf(of) \ {call[t].patch}
        BY <2>2 DEF Removes
      <4>2. of \in Kinds
        BY <1>2, Alone, PatchKinds
      <4> QED BY <4>1, <4>2 DEF IdOf, MInv, TypeOK
    <3>3. q.of = of
      BY <3>2 DEF MInv, MapsInv, MapOK
    <3>4. entry[q] \in Entries
      BY <3>2 DEF MInv, TypeOK
    <3>5. thread[t].phase \in Phases
      BY <1>1 DEF ThreadStates, Phases
    <3>6. x \in CallStates
      <4>1. call[t].todo \in SUBSET Patches
        BY <1>1 DEF CallStates
      <4>2. call[t].todo \ {q} \in SUBSET Patches
        BY <4>1
      <4>3. entry[q].saved \in Seq(Contents)
        BY <3>4 DEF Entries
      <4> QED BY <3>2, <3>5, <4>2, <4>3 DEF Undoing, Undo, CallStates
    <3>7. /\ x.pc = "writable" /\ x.op = "remove" /\ x.patch = q /\ x.bytes = entry[q].saved
          /\ x.all = TRUE /\ x.todo = call[t].todo \ {q}
      BY DEF Undoing, Undo
    <3>8. (\A o : IdOf(o)' = IdOf(o)) /\ (\A o : AddressOf(o)' = AddressOf(o))
      BY <1>4 DEF IdOf, AddressOf
    <3>9. call'[t] = x
      BY <1>1, <3>1
    <3>10. IdOf(of) \subseteq (call[t].todo \ {q}) \union {q} \union released'
      BY <2>1, <2>2, <2>4 DEF Removes
    <3>11. call[t].todo \subseteq IdOf(of)
      BY <2>2 DEF Removes
    <3> HIDE DEF x, of
    <3>12. Removes(t)'
      BY <1>3, <3>2, <3>3, <3>7, <3>8, <3>9, <3>10, <3>11 DEF Removes
    <3>13. \A u \in Threads \ {t} : call[u].patch.of # x.patch.of
      BY <1>2, <3>3, <3>7, Alone DEF of
    <3>14. call' = [call EXCEPT ![t] = x]
      BY <3>1 DEF x
    <3> QED BY ZenonT(30), <1>1, <1>3, <1>4, <2>1, <2>2, <3>6, <3>12, <3>13, <3>14, MCall
  <2> QED BY <2>3, <2>4
<1> QED BY <1>6, <1>7, <1>8, <1>9, <1>10 DEF CodeCall

\* The start of a removal.
LEMMA MStartUndo ==
  ASSUME MInv, NEW t \in Threads, NEW of \in Kinds, NEW p \in IdOf(of),
         NEW todo \in SUBSET (IdOf(of) \ {p}), NEW all \in BOOLEAN,
         call[t] = Idle, ~Locked(of), StartUndo(t, p, todo, all),
         all <=> todo = IdOf(of) \ {p} /\ all, ~all => todo = {},
         UNCHANGED <<bpVars, hookVars>>
  PROVE  MInv'
<1> USE DEF bpVars, hookVars, codeVars
<1>1. /\ code \in [Cells -> Contents] /\ page \in {"rx", "rw"} /\ crashed \in BOOLEAN
      /\ handlerInstalled \in BOOLEAN /\ call \in [Threads -> CallStates]
      /\ thread \in [Threads -> ThreadStates]
  BY DEF MInv, TypeOK
<1>2. UNCHANGED <<code, page, entry, released, thread, bpVars, hookVars>>
  BY DEF StartUndo
<1>3. UNCHANGED <<entry, thread, bpById, bpByAddress, hooksById, hooksByTarget>>
  BY <1>2
<1>4. code' \in [Cells -> Contents] /\ page' \in {"rx", "rw"} /\ handlerInstalled' \in BOOLEAN
  BY <1>1, <1>2
<1>5. CASE call' = call /\ crashed' = TRUE
  <2>1. UNCHANGED <<entry, released, call, bpById, bpByAddress, hookVars>>
    BY <1>2, <1>5
  <2>2. thread' \in [Threads -> ThreadStates] /\ crashed' \in BOOLEAN
    BY <1>1, <1>2, <1>5
  <2> QED BY <1>4, <2>1, <2>2, MOutside
<1>6. CASE call' = [call EXCEPT ![t] = Undoing(t, p, todo, all)] /\ crashed' = crashed
  <2>1. p \in Patches /\ p.of = of
    BY DEF MInv, TypeOK, MapsInv, MapOK, IdOf
  <2>2. PICK x \in CallStates : x = Undoing(t, p, todo, all)
    <3>1. entry[p].saved \in Seq(Contents)
      BY <2>1 DEF MInv, TypeOK, Entries
    <3>2. thread[t].phase \in Phases
      BY <1>1 DEF ThreadStates, Phases
    <3>3. todo \in SUBSET Patches
      BY DEF MInv, TypeOK, IdOf
    <3>4. Undoing(t, p, todo, all) \in CallStates
      BY <2>1, <3>1, <3>2, <3>3 DEF Undoing, Undo, CallStates
    <3> QED BY <3>4
  <2>3. /\ x.pc = "writable" /\ x.op = "remove" /\ x.patch = p /\ x.bytes = entry[p].saved
        /\ x.all = all /\ x.todo = todo
    BY <2>2 DEF Undoing, Undo
  <2>4. call' = [call EXCEPT ![t] = x] /\ call'[t] = x
    BY <1>1, <1>6, <2>2
  <2>5. (\A o : IdOf(o)' = IdOf(o)) /\ (\A o : AddressOf(o)' = AddressOf(o))
    BY <1>3 DEF IdOf, AddressOf
  <2>6. all => IdOf(of) \subseteq todo \union {p} \union released
    OBVIOUS
  <2>7. Removes(t)'
    BY <1>2, <2>1, <2>3, <2>4, <2>5, <2>6 DEF Removes
  <2>8. \A u \in Threads \ {t} : call[u].patch.of # x.patch.of \/ x.patch = NoPatch
    BY <2>1, <2>3 DEF Locked
  <2>9. UNCHANGED <<entry, thread, bpById, bpByAddress, hookVars, crashed>>
    BY <1>2, <1>3, <1>6
  <2>10. released' = released \/ (released' = released \union {call[t].patch} /\ Removes(t))
    BY <1>2
  <2>11. x = Idle \/ Sets(t)' \/ Removes(t)'
    BY <2>7
  <2> QED BY <1>4, <2>4, <2>8, <2>9, <2>10, <2>11, MCall
<1> QED BY <1>5, <1>6 DEF StartUndo

\* What the end of a call does to the maps of its kind leaves the rest as it was.
LEMMA MEnds ==
  ASSUME MInv, NEW t \in Threads, NEW of \in Kinds, call[t].patch.of = of,
         Sets(t) \/ Removes(t), TypeOK',
         call' = [call EXCEPT ![t] = Idle],
         UNCHANGED <<codeVars, thread, crashed>>,
         \A o \in Kinds \ {of} : IdOf(o)' = IdOf(o),
         \A o \in Kinds \ {of} : AddressOf(o)' = AddressOf(o),
         MapOK(of)'
  PROVE  MInv'
<1> USE DEF codeVars
<1>0. call[t] # Idle
  BY DEF Idle, Sets, Removes
<1>1. /\ \A u \in Threads \ {t} : call'[u] = call[u]
      /\ call'[t] = Idle
      /\ UNCHANGED <<entry, released>>
  BY DEF MInv, TypeOK
<1>2. EntryInv'
  <2>1. \A p : EntryOK(p)' <=> EntryOK(p)
    BY DEF EntryOK
  <2> QED BY <2>1 DEF MInv, EntryInv
<1>3. CallInv'
  <2>1. ASSUME NEW u \in Threads, u # t
        PROVE  call'[u] = Idle \/ Sets(u)' \/ Removes(u)'
    <3>1. call'[u] = call[u]
      BY <1>1, <2>1
    <3>2. CASE call[u] = Idle
      BY <3>1, <3>2
    <3>3. CASE call[u] # Idle
      <4>1. call[u].patch.of \in Kinds \ {of}
        BY <1>0, <2>1, <3>3, Alone, PatchKinds
      <4>2. PICK o \in Kinds \ {of} : o = call[u].patch.of
        BY <4>1
      <4>3. IdOf(o)' = IdOf(o) /\ AddressOf(o)' = AddressOf(o)
        OBVIOUS
      <4>4. call'[u].patch.of = o
        BY <3>1, <4>2
      <4>5. Sets(u) => Sets(u)'
        BY <1>1, <3>1, <4>2, <4>3, <4>4 DEF Sets, AddressOf
      <4>6. Removes(u) => Removes(u)'
        BY <1>1, <3>1, <4>2, <4>3, <4>4 DEF Removes, IdOf
      <4> QED BY <3>3, <4>5, <4>6 DEF MInv, CallInv
    <3> QED BY <3>2, <3>3
  <2>2. ASSUME NEW u \in Threads, NEW v \in Threads, u # v,
               call'[u].patch.of = call'[v].patch.of
        PROVE  call'[u].patch = NoPatch
    <3>1. Idle.patch = NoPatch /\ NoPatch.of \notin Kinds
      BY DEF Idle, NoPatch, Kinds
    <3>2. CASE u # t /\ v # t
      BY <1>1, <2>2, <3>2 DEF MInv, CallInv
    <3>3. CASE u = t
      BY <1>1, <3>1, <3>3
    <3>4. CASE v = t
      <4>1. call[u].patch \in Patches \union {NoPatch}
        BY DEF MInv, TypeOK, CallStates
      <4> QED BY <1>1, <2>2, <3>1, <3>4, <4>1, PatchKinds
    <3> QED BY <3>2, <3>3, <3>4
  <2> QED BY <1>1, <2>1, <2>2 DEF CallInv
<1>4. MapsInv'
  <2>1. ASSUME NEW o \in Kinds \ {of}
        PROVE  MapOK(o)'
    <3>1. IdOf(o)' = IdOf(o) /\ AddressOf(o)' = AddressOf(o)
      BY <2>1
    <3>2. MapOK(o)
      BY <2>1 DEF MInv, MapsInv
    <3>3. entry' = entry
      BY <1>1
    <3> QED BY <3>1, <3>2, <3>3 DEF MapOK
  <2> QED BY <2>1 DEF MapsInv
<1> QED BY <1>2, <1>3, <1>4 DEF MInv

Adds(of, p) ==
  /\ IdOf(of)' = IdOf(of) \union {p}
  /\ AddressOf(of)' = [c \in DOMAIN AddressOf(of) \union {entry[p].address} |->
                         IF c = entry[p].address THEN p ELSE AddressOf(of)[c]]

Drops(of, gone) ==
  /\ IdOf(of)' = IdOf(of) \ gone
  /\ AddressOf(of)' = [c \in DOMAIN AddressOf(of) \ {entry[p].address : p \in gone} |->
                         AddressOf(of)[c]]

LEMMA MapAdds ==
  ASSUME MInv, NEW of \in Kinds, NEW p \in Patches, Adds(of, p), entry' = entry,
         p.of = of, entry[p] # NoEntry, entry[p].address \notin DOMAIN AddressOf(of)
  PROVE  /\ MapOK(of)' /\ DOMAIN AddressOf(of)' \subseteq Cells /\ IdOf(of)' \subseteq Patches
<1> DEFINE a == entry[p].address
           M == AddressOf(of)
           N == AddressOf(of)'
<1>1. EntryOK(p)
  BY DEF MInv, EntryInv
<1>2. a \in Cells
  <2>1. Width(p) \in Nat \ {0}
    BY CodeConstants DEF Width, WidthOf
  <2>2. a \in Nat /\ a + Width(p) <= Size
    BY <1>1 DEF EntryOK
  <2> HIDE DEF a
  <2> QED BY <2>1, <2>2, CodeConstants DEF Cells
<1>3. /\ DOMAIN N = DOMAIN M \union {a} /\ N[a] = p
      /\ \A c \in DOMAIN M : N[c] = M[c]
  BY DEF Adds
<1>4. /\ IdOf(of) = {M[c] : c \in DOMAIN M}
      /\ \A c \in DOMAIN M : entry[M[c]].address = c
      /\ \A q \in IdOf(of) : q.of = of /\ entry[q] # NoEntry
  BY DEF MInv, MapsInv, MapOK
<1>5. DOMAIN M \subseteq Cells /\ IdOf(of) \subseteq Patches
  BY DEF MInv, TypeOK, IdOf, AddressOf
<1>6. IdOf(of)' = IdOf(of) \union {p}
  BY DEF Adds
<1>7. IdOf(of)' = {N[c] : c \in DOMAIN N}
  <2> HIDE DEF N, M, a
  <2> QED BY <1>3, <1>4, <1>6
<1>8. \A c \in DOMAIN N : entry[N[c]].address = c
  <2> HIDE DEF N, M
  <2> QED BY <1>3, <1>4
<1>9. \A q \in IdOf(of)' : q.of = of /\ entry'[q] # NoEntry
  BY <1>4, <1>6
<1> QED BY <1>2, <1>3, <1>5, <1>6, <1>7, <1>8, <1>9 DEF MapOK

LEMMA MapDrops ==
  ASSUME MInv, NEW of \in Kinds, NEW gone \in SUBSET IdOf(of), Drops(of, gone), entry' = entry
  PROVE  /\ MapOK(of)' /\ DOMAIN AddressOf(of)' \subseteq Cells /\ IdOf(of)' \subseteq Patches
<1> DEFINE M == AddressOf(of)
           N == AddressOf(of)'
           D == DOMAIN M \ {entry[p].address : p \in gone}
<1>1. DOMAIN N = D /\ \A c \in D : N[c] = M[c]
  BY DEF Drops
<1>2. /\ IdOf(of) = {M[c] : c \in DOMAIN M}
      /\ \A c \in DOMAIN M : entry[M[c]].address = c
      /\ \A q \in IdOf(of) : q.of = of /\ entry[q] # NoEntry
  BY DEF MInv, MapsInv, MapOK
<1>3. DOMAIN M \subseteq Cells /\ IdOf(of) \subseteq Patches
  BY DEF MInv, TypeOK, IdOf, AddressOf
<1>4. IdOf(of)' = IdOf(of) \ gone
  BY DEF Drops
<1>5. \A c \in D : M[c] \in IdOf(of) \ gone
  BY <1>2
<1>6. ASSUME NEW q \in IdOf(of) \ gone
      PROVE  \E c \in D : M[c] = q
  <2>1. PICK c \in DOMAIN M : M[c] = q
    BY <1>2
  <2>2. ASSUME NEW p \in gone, entry[p].address = c
        PROVE  FALSE
    <3>1. PICK b \in DOMAIN M : M[b] = p
      BY <1>2
    <3> QED BY <1>2, <2>1, <2>2, <3>1
  <2> QED BY <2>1, <2>2
<1>7. IdOf(of)' = {N[c] : c \in DOMAIN N}
  <2> HIDE DEF N, M, D
  <2> QED BY <1>1, <1>4, <1>5, <1>6
<1>8. \A c \in DOMAIN N : entry[N[c]].address = c
  <2> HIDE DEF N, M
  <2> QED BY <1>1, <1>2
<1>9. \A q \in IdOf(of)' : q.of = of /\ entry'[q] # NoEntry
  BY <1>2, <1>4
<1> QED BY <1>1, <1>3, <1>4, <1>7, <1>8, <1>9 DEF MapOK

\* The ends of the calls: the breakpoint or the hook gets into the maps, or out of them.
LEMMA MRegister ==
  ASSUME MInv, NEW t \in Threads, NEW of \in Kinds, call[t].patch.of = of,
         call[t].pc = "registering", Adds(of, call[t].patch), handlerInstalled' \in BOOLEAN,
         call' = [call EXCEPT ![t] = Idle], UNCHANGED <<codeVars, thread, crashed>>,
         \A o \in Kinds \ {of} : IdOf(o)' = IdOf(o),
         \A o \in Kinds \ {of} : AddressOf(o)' = AddressOf(o)
  PROVE  MInv'
<1>0. call[t] # Idle
  BY DEF Idle
<1>1. Sets(t)
  BY <1>0, Alone DEF Removes
<1>2. PICK p \in Patches : p = call[t].patch /\ entry[p] # NoEntry /\ p.of = of
                           /\ entry[p].address \notin DOMAIN AddressOf(of)
  BY <1>1 DEF Sets
<1>3. entry' = entry
  BY DEF codeVars
<1>4. Adds(of, p)
  BY <1>2
<1>5. MapOK(of)' /\ DOMAIN AddressOf(of)' \subseteq Cells /\ IdOf(of)' \subseteq Patches
  BY <1>2, <1>3, <1>4, MapAdds
<1>6. TypeOK'
  <2>1. \A o \in Kinds : /\ DOMAIN AddressOf(o)' \subseteq Cells
                         /\ IdOf(o)' \subseteq Patches
    <3>1. \A o \in Kinds : DOMAIN AddressOf(o) \subseteq Cells /\ IdOf(o) \subseteq Patches
      BY DEF MInv, TypeOK, IdOf, AddressOf
    <3> QED BY <1>5, <3>1
  <2>2. /\ bpById' \subseteq Patches /\ DOMAIN bpByAddress' \subseteq Cells
        /\ hooksById' \subseteq Patches /\ DOMAIN hooksByTarget' \subseteq Cells
    BY <2>1 DEF Kinds, IdOf, AddressOf
  <2> QED BY <2>2, IdleTyped DEF MInv, TypeOK, codeVars
<1> QED BY <1>1, <1>5, <1>6, MEnds

LEMMA MErase ==
  ASSUME MInv, NEW t \in Threads, NEW of \in Kinds, call[t].patch.of = of,
         call[t].pc = "erasing", handlerInstalled' \in BOOLEAN,
         Drops(of, IF call[t].all THEN IdOf(of) ELSE {call[t].patch}),
         call' = [call EXCEPT ![t] = Idle], UNCHANGED <<codeVars, thread, crashed>>,
         \A o \in Kinds \ {of} : IdOf(o)' = IdOf(o),
         \A o \in Kinds \ {of} : AddressOf(o)' = AddressOf(o)
  PROVE  MInv'
<1>0. call[t] # Idle
  BY DEF Idle
<1>1. Removes(t)
  BY <1>0, Alone DEF Sets
<1>2. PICK gone \in SUBSET IdOf(of) : gone = IF call[t].all THEN IdOf(of) ELSE {call[t].patch}
  BY <1>1 DEF Removes
<1>3. entry' = entry
  BY DEF codeVars
<1>4. Drops(of, gone)
  BY <1>2
<1>5. MapOK(of)' /\ DOMAIN AddressOf(of)' \subseteq Cells /\ IdOf(of)' \subseteq Patches
  BY <1>3, <1>4, MapDrops
<1>6. TypeOK'
  <2>1. \A o \in Kinds : /\ DOMAIN AddressOf(o)' \subseteq Cells
                         /\ IdOf(o)' \subseteq Patches
    <3>1. \A o \in Kinds : DOMAIN AddressOf(o) \subseteq Cells /\ IdOf(o) \subseteq Patches
      BY DEF MInv, TypeOK, IdOf, AddressOf
    <3> QED BY <1>5, <3>1
  <2>2. /\ bpById' \subseteq Patches /\ DOMAIN bpByAddress' \subseteq Cells
        /\ hooksById' \subseteq Patches /\ DOMAIN hooksByTarget' \subseteq Cells
    BY <2>1 DEF Kinds, IdOf, AddressOf
  <2> QED BY <2>2, IdleTyped DEF MInv, TypeOK, codeVars
<1> QED BY <1>1, <1>5, <1>6, MEnds

LEMMA MBreakpointCall ==
  ASSUME MInv, NEW t \in Threads, BreakpointCall(t)
  PROVE  MInv'
<1> USE DEF hookVars, bpVars
<1>k. "breakpoint" \in Kinds /\ IdOf("breakpoint") = bpById
      /\ AddressOf("breakpoint") = bpByAddress
  BY DEF Kinds, IdOf, AddressOf
<1>t. /\ code \in [Cells -> Contents] /\ page \in {"rx", "rw"} /\ crashed \in BOOLEAN
      /\ handlerInstalled \in BOOLEAN /\ thread \in [Threads -> ThreadStates]
  BY DEF MInv, TypeOK
<1>1. ASSUME NEW a \in Cells, SetBreakpoint(t, a) PROVE MInv'
  <2>1. call[t] = Idle /\ ~Locked("breakpoint") /\ a \notin DOMAIN bpByAddress
    BY <1>1 DEF SetBreakpoint, CanSet, MayCall
  <2>2. Build(t, "breakpoint", "breakpoint", a, 1) /\ handlerInstalled' \in BOOLEAN
    BY <1>1 DEF SetBreakpoint
  <2>3. "breakpoint" \in KindsOf("breakpoint") /\ WidthOf("breakpoint") = 1
    BY DEF KindsOf, WidthOf
  <2>4. Build(t, "breakpoint", "breakpoint", a, WidthOf("breakpoint"))
    BY <2>2, <2>3
  <2>5. UNCHANGED <<bpById, bpByAddress, hookVars>>
    BY <1>1 DEF SetBreakpoint, BreakpointCall
  <2> QED BY <1>k, <2>1, <2>2, <2>3, <2>4, <2>5, MBuild
<1>2. ASSUME NEW a \in Cells, SetFails(t, a) PROVE MInv'
  <2>1. /\ UNCHANGED <<code, page, entry, released, call, thread, crashed, bpById, bpByAddress>>
        /\ handlerInstalled' \in BOOLEAN
    BY <1>2 DEF SetFails, codeVars
  <2>2. UNCHANGED hookVars
    BY DEF BreakpointCall
  <2> QED BY <1>t, <2>1, <2>2, MOutside
<1>3. ASSUME NEW p \in bpById, RemoveBreakpoint(t, p) PROVE MInv'
  <2>1. call[t] = Idle /\ ~Locked("breakpoint") /\ StartUndo(t, p, {}, FALSE)
        /\ UNCHANGED <<bpVars, hookVars>>
    BY <1>3 DEF RemoveBreakpoint, CanRemove, MayCall, BreakpointCall
  <2> QED BY <1>k, <2>1, MStartUndo
<1>4. ASSUME RemoveAll(t) PROVE MInv'
  <2>1. PICK p \in bpById : StartUndo(t, p, bpById \ {p}, TRUE)
    BY <1>4 DEF RemoveAll
  <2>2. call[t] = Idle /\ ~Locked("breakpoint") /\ UNCHANGED <<bpVars, hookVars>>
    BY <1>4 DEF RemoveAll, CanRemove, MayCall, BreakpointCall
  <2> QED BY <1>k, <2>1, <2>2, MStartUndo
<1>5. ASSUME RemoveAllOfNone(t) PROVE MInv'
  <2>1. /\ UNCHANGED <<code, page, entry, released, call, thread, crashed, bpById, bpByAddress>>
        /\ handlerInstalled' \in BOOLEAN
    BY <1>5 DEF RemoveAllOfNone, codeVars
  <2>2. UNCHANGED hookVars
    BY DEF BreakpointCall
  <2> QED BY <1>t, <2>1, <2>2, MOutside
<1>o. ASSUME UNCHANGED hookVars
      PROVE  \A o \in Kinds \ {"breakpoint"} : IdOf(o)' = IdOf(o) /\ AddressOf(o)' = AddressOf(o)
  BY <1>o DEF Kinds, IdOf, AddressOf
<1>6. ASSUME RegisterBreakpoint(t) PROVE MInv'
  <2>1. /\ call[t].pc = "registering" /\ call[t].patch.of = "breakpoint"
        /\ call' = [call EXCEPT ![t] = Idle]
        /\ UNCHANGED <<codeVars, thread, crashed, handlerInstalled>> /\ UNCHANGED hookVars
    BY <1>6 DEF RegisterBreakpoint, Working, At, BreakpointCall
  <2>2. Adds("breakpoint", call[t].patch)
    BY <1>6 DEF RegisterBreakpoint, Adds, IdOf, AddressOf
  <2>3. handlerInstalled' \in BOOLEAN
    BY <1>t, <2>1
  <2> QED BY <1>k, <1>o, <2>1, <2>2, <2>3, MRegister
<1>7. ASSUME EraseBreakpoint(t) PROVE MInv'
  <2>1. /\ call[t].pc = "erasing" /\ call[t].patch.of = "breakpoint"
        /\ call' = [call EXCEPT ![t] = Idle]
        /\ UNCHANGED <<codeVars, thread, crashed>> /\ UNCHANGED hookVars
    BY <1>7 DEF EraseBreakpoint, Working, At, BreakpointCall
  <2>2. Drops("breakpoint", IF call[t].all THEN IdOf("breakpoint") ELSE {call[t].patch})
    BY <1>7 DEF EraseBreakpoint, Drops, IdOf, AddressOf
  <2>3. handlerInstalled' \in BOOLEAN
    BY <1>7 DEF EraseBreakpoint
  <2> QED BY <1>k, <1>o, <2>1, <2>2, <2>3, MErase
<1> QED BY <1>1, <1>2, <1>3, <1>4, <1>5, <1>6, <1>7 DEF BreakpointCall

LEMMA MHookCall ==
  ASSUME MInv, NEW t \in Threads, HookCall(t)
  PROVE  MInv'
<1> USE DEF hookVars, bpVars
<1>k. "hook" \in Kinds /\ IdOf("hook") = hooksById /\ AddressOf("hook") = hooksByTarget
  BY DEF Kinds, IdOf, AddressOf
<1>t. handlerInstalled' \in BOOLEAN /\ UNCHANGED bpVars
  BY DEF MInv, TypeOK, HookCall
<1>1. ASSUME NEW a \in Cells, NEW kind \in {"attached", "replaced"}, InstallHook(t, kind, a)
      PROVE MInv'
  <2>1. /\ call[t] = Idle /\ ~Locked("hook") /\ a \notin DOMAIN hooksByTarget
        /\ Build(t, "hook", kind, a, PatchSize)
        /\ UNCHANGED <<bpById, bpByAddress, hookVars>>
    BY <1>1, <1>t DEF InstallHook, MayCall
  <2>2. kind \in KindsOf("hook") /\ WidthOf("hook") = PatchSize
    BY DEF KindsOf, WidthOf
  <2>3. Build(t, "hook", kind, a, WidthOf("hook"))
    BY <2>1, <2>2
  <2> QED BY <1>k, <1>t, <2>1, <2>2, <2>3, MBuild
<1>3. ASSUME NEW p \in hooksById, Detach(t, p) PROVE MInv'
  <2>1. call[t] = Idle /\ ~Locked("hook") /\ StartUndo(t, p, {}, FALSE)
        /\ UNCHANGED <<bpVars, hookVars>>
    BY <1>3, <1>t DEF Detach, CanDetach, MayCall
  <2> QED BY <1>k, <2>1, MStartUndo
<1>4. ASSUME NEW a \in Cells, Revert(t, a) PROVE MInv'
  <2>1. PICK p \in hooksById : p = hooksByTarget[a]
    BY <1>4, <1>k DEF Revert, MInv, MapsInv, MapOK
  <2>2. call[t] = Idle /\ ~Locked("hook") /\ StartUndo(t, p, {}, FALSE)
        /\ UNCHANGED <<bpVars, hookVars>>
    BY <1>4, <1>t, <2>1 DEF Revert, CanDetach, MayCall
  <2> QED BY <1>k, <2>2, MStartUndo
<1>5. ASSUME DetachAll(t) PROVE MInv'
  <2>1. PICK p \in hooksById : StartUndo(t, p, hooksById \ {p}, TRUE)
    BY <1>5 DEF DetachAll
  <2>2. call[t] = Idle /\ ~Locked("hook") /\ UNCHANGED <<bpVars, hookVars>>
    BY <1>5, <1>t DEF DetachAll, CanDetach, MayCall
  <2> QED BY <1>k, <2>1, <2>2, MStartUndo
<1>o. \A o \in Kinds \ {"hook"} : IdOf(o)' = IdOf(o) /\ AddressOf(o)' = AddressOf(o)
  BY <1>t DEF Kinds, IdOf, AddressOf
<1>6. ASSUME RegisterHook(t) PROVE MInv'
  <2>1. /\ call[t].pc = "registering" /\ call[t].patch.of = "hook"
        /\ call' = [call EXCEPT ![t] = Idle]
        /\ UNCHANGED <<codeVars, thread, crashed>>
    BY <1>6 DEF RegisterHook, Hooking, At
  <2>2. Adds("hook", call[t].patch)
    BY <1>6 DEF RegisterHook, Adds, IdOf, AddressOf
  <2> QED BY <1>k, <1>o, <1>t, <2>1, <2>2, MRegister
<1>7. ASSUME EraseHook(t) PROVE MInv'
  <2>1. /\ call[t].pc = "erasing" /\ call[t].patch.of = "hook"
        /\ call' = [call EXCEPT ![t] = Idle]
        /\ UNCHANGED <<codeVars, thread, crashed>>
    BY <1>7 DEF EraseHook, Hooking, At
  <2>2. Drops("hook", IF call[t].all THEN IdOf("hook") ELSE {call[t].patch})
    BY <1>7 DEF EraseHook, Drops, IdOf, AddressOf
  <2> QED BY <1>k, <1>o, <1>t, <2>1, <2>2, MErase
<1> QED BY <1>1, <1>3, <1>4, <1>5, <1>6, <1>7 DEF HookCall, Attach, Replace

\* A thread that moves, or dies.
LEMMA MMove ==
  ASSUME MInv, NEW t \in Threads, NEW th \in ThreadStates, thread' = [thread EXCEPT ![t] = th],
         UNCHANGED <<codeVars, call, crashed, bpVars, hookVars>>
  PROVE  MInv'
<1>1. thread' \in [Threads -> ThreadStates]
  BY DEF MInv, TypeOK
<1>2. /\ code' \in [Cells -> Contents] /\ page' \in {"rx", "rw"} /\ crashed' \in BOOLEAN
      /\ handlerInstalled' \in BOOLEAN
  BY DEF MInv, TypeOK, codeVars, bpVars
<1>3. UNCHANGED <<entry, released, call, bpById, bpByAddress, hookVars>>
  BY DEF codeVars, bpVars
<1> QED BY <1>1, <1>2, <1>3, MOutside

LEMMA MMoves ==
  ASSUME MInv, NEW t \in Threads, NEW phase \in Phases, NEW pc \in Nat,
         NEW patch \in Patches \union {NoPatch}, NEW told \in BOOLEAN,
         phase \in {"outside", "code", "trapped"} \/ patch \in Patches,
         Move(t, phase, pc, patch, told)
  PROVE  MInv'
<1>1. [phase |-> phase, pc |-> pc, patch |-> patch, told |-> told] \in ThreadStates
  BY DEF ThreadStates
<1> QED BY <1>1, MMove DEF Move

LEMMA MDies ==
  ASSUME MInv, NEW t \in Threads, crashed' = TRUE,
         UNCHANGED <<codeVars, call, thread, bpVars, hookVars>>
  PROVE  MInv'
<1>2. /\ code' \in [Cells -> Contents] /\ page' \in {"rx", "rw"} /\ crashed' \in BOOLEAN
      /\ handlerInstalled' \in BOOLEAN /\ thread' \in [Threads -> ThreadStates]
  BY DEF MInv, TypeOK, codeVars, bpVars
<1>3. UNCHANGED <<entry, released, call, bpById, bpByAddress, hookVars>>
  BY DEF codeVars, bpVars
<1> QED BY <1>2, <1>3, MOutside

\* What a thread is doing when it has a patch.
LEMMA ThreadTyped ==
  ASSUME TypeOK, NEW t \in Threads
  PROVE  /\ thread[t].phase \in Phases /\ thread[t].pc \in Nat /\ thread[t].told \in BOOLEAN
         /\ thread[t].phase \notin {"outside", "code", "trapped"} => thread[t].patch \in Patches
<1>1. thread[t] \in ThreadStates
  BY DEF TypeOK
<1>2. CASE thread[t] \in [phase : {"outside", "code", "trapped"}, pc : Nat, patch : {NoPatch},
                          told : BOOLEAN]
  BY <1>2 DEF Phases
<1>3. CASE thread[t] \in [phase : Phases, pc : Nat, patch : Patches, told : BOOLEAN]
  BY <1>3
<1> QED BY <1>1, <1>2, <1>3 DEF ThreadStates

LEMMA MThreadStep ==
  ASSUME MInv, NEW t \in Threads,
         ThreadStep(t) \/ Enter(t) \/ EnterFromCall(t)
  PROVE  MInv'
<1> USE DEF Phases
<1>1. TypeOK
  BY DEF MInv
<1>2. /\ thread[t].phase \in Phases /\ thread[t].pc \in Nat /\ thread[t].told \in BOOLEAN
      /\ thread[t].phase \notin {"outside", "code", "trapped"} => thread[t].patch \in Patches
  BY <1>1, ThreadTyped
<1>3. ASSUME Enter(t) \/ EnterFromCall(t) PROVE MInv'
  BY <1>3, MMoves DEF Enter, EnterFromCall
<1>4. ASSUME Execute(t) PROVE MInv'
  <2>1. PICK n \in Nat : n = thread[t].pc + 1
    BY <1>2
  <2>2. Move(t, "code", n, NoPatch, FALSE)
    BY <1>4, <2>1 DEF Execute
  <2> QED BY <2>2, MMoves
<1>5. ASSUME Trap(t) PROVE MInv'
  BY <1>2, <1>5, MMoves DEF Trap
<1>6. ASSUME TakeJump(t) PROVE MInv'
  <2>1. PICK p : p = Here(t).patch
    OBVIOUS
  <2>2. p \in Patches
    <3>1. thread[t].pc \in Cells
      <4>1. thread[t].pc < Size
        BY <1>6 DEF TakeJump, InCode
      <4> QED BY <1>2, <4>1, CodeConstants DEF Cells
    <3>2. code[thread[t].pc] \in Contents /\ code[thread[t].pc].kind = "jump"
      BY <1>1, <1>6, <3>1 DEF TypeOK, TakeJump, WholeJump, Here
    <3> QED BY <2>1, <3>2 DEF Contents, Here
  <2>3. \/ Move(t, "trampoline", 0, p, FALSE)
        \/ Move(t, "replacement", 0, p, FALSE)
    BY <1>6, <2>1 DEF TakeJump
  <2> QED BY <2>2, <2>3, MMoves
<1>7. ASSUME RunsAstray(t) \/ RunsCopiedPatch(t) \/ RunsReleased(t) PROVE MInv'
  BY <1>7, MDies DEF RunsAstray, RunsCopiedPatch, RunsReleased, Dies
<1>8. ASSUME Leave(t) \/ ReplacementReturns(t) PROVE MInv'
  BY <1>8, MMoves DEF Leave, ReplacementReturns
<1>9. ASSUME CallCallback(t) \/ CallOnLeave(t) \/ RunRelocated(t) \/ CallOriginal(t) PROVE MInv'
  <2>1. thread[t].patch \in Patches
    BY <1>2, <1>9 DEF CallCallback, CallOnLeave, RunRelocated, CallOriginal, Runs
  <2>2. \/ Move(t, "callback", 0, thread[t].patch, TRUE)
        \/ Move(t, "leaving", 0, thread[t].patch, thread[t].told)
        \/ Move(t, "relocated", 1, thread[t].patch, thread[t].told)
        \/ Move(t, "relocated", 1, thread[t].patch, TRUE)
    BY <1>9 DEF CallCallback, CallOnLeave, RunRelocated, CallOriginal
  <2> QED BY <1>2, <2>1, <2>2, MMoves
<1>10. ASSUME ExecuteRelocated(t) PROVE MInv'
  <2>1. PICK n \in Nat : n = thread[t].pc + 1
    BY <1>2
  <2>2. thread[t].patch \in Patches /\ Move(t, "relocated", n, thread[t].patch, FALSE)
    BY <1>2, <1>10, <2>1 DEF ExecuteRelocated, Runs
  <2> QED BY <2>2, MMoves
<1>11. ASSUME JumpBack(t) PROVE MInv'
  <2>1. thread[t].patch \in Patches
    BY <1>2, <1>11 DEF JumpBack, Runs
  <2>2. entry[thread[t].patch] \in Entries
    BY <1>1, <2>1 DEF TypeOK
  <2>3. BackTo(thread[t].patch) \in Nat
    BY <2>2 DEF BackTo, Entries
  <2> QED BY <1>11, <2>3, MMoves DEF JumpBack
<1>12. ASSUME SignalStep(t) PROVE MInv'
  <2>1. ASSUME Redirect(t) PROVE MInv'
    <3>1. PICK p \in Patches : p = bpByAddress[thread[t].pc]
      <4>1. /\ thread[t].pc \in DOMAIN bpByAddress
            /\ bpById = {bpByAddress[a] : a \in DOMAIN bpByAddress} /\ bpById \subseteq Patches
        BY <2>1 DEF Redirect, Claims, MInv, TypeOK, MapsInv, MapOK, IdOf, AddressOf, Kinds
      <4> QED BY <4>1
    <3>2. [Outside EXCEPT !.phase = "trampoline", !.patch = p] \in ThreadStates
      BY DEF Outside, ThreadStates
    <3>3. /\ thread' = [thread EXCEPT ![t] =
                          [Outside EXCEPT !.phase = "trampoline", !.patch = p]]
          /\ UNCHANGED <<codeVars, call, crashed, bpVars, hookVars>>
      BY <1>12, <2>1, <3>1 DEF Redirect, SignalStep
    <3> QED BY <3>2, <3>3, MMove
  <2>2. ASSUME Unclaimed(t) PROVE MInv'
    BY <1>12, <2>2, MDies DEF Unclaimed, SignalStep
  <2> QED BY <1>12, <2>1, <2>2 DEF SignalStep
<1> QED BY <1>3, <1>4, <1>5, <1>6, <1>7, <1>8, <1>9, <1>10, <1>11, <1>12 DEF ThreadStep

\* Whatever the user does: the types, the entries, the calls and the maps.
THEOREM MHolds == Spec => []MInv
<1>1. ASSUME MInv, [Next]_vars PROVE MInv'
  <2>1. CASE UNCHANGED vars
    <3>1. UNCHANGED <<entry, released, call, bpById, bpByAddress, hookVars>>
      BY <2>1 DEF vars, codeVars, bpVars
    <3>2. /\ code' \in [Cells -> Contents] /\ page' \in {"rx", "rw"} /\ crashed' \in BOOLEAN
          /\ handlerInstalled' \in BOOLEAN /\ thread' \in [Threads -> ThreadStates]
      BY <1>1, <2>1 DEF vars, codeVars, bpVars, MInv, TypeOK
    <3> QED BY <1>1, <3>1, <3>2, MOutside
  <2>2. CASE Next
    BY <1>1, <2>2, MBreakpointCall, MHookCall, MCodeCalls, MThreadStep DEF Next
  <2> QED BY <1>1, <2>1, <2>2
<1> QED BY <1>1, MInitially, PTL DEF Spec

\* Whatever the user does, each patch is in both maps of its kind or in none, under the
\* address its entry has: remove() by id and revert() by address undo the same patch.
THEOREM MapsStayInStep == Spec => []MapsAgree
<1>1. MInv => MapsAgree
  <2> SUFFICES ASSUME MInv PROVE MapsAgree
    OBVIOUS
  <2>1. MapOK("breakpoint") /\ MapOK("hook")
    BY DEF MInv, MapsInv, Kinds
  <2> QED BY <2>1 DEF MapsAgree, MapOK, IdOf, AddressOf
<1> QED BY <1>1, MHolds, PTL

--------------------------------------------------------------------------------
(* The stacks of patches, for a user who removes what is on top *)

\* What a patch has written over a cell and what it has saved of it.
Patched(p, c) == Written(p)[c - entry[p].address + 1]
Saved(p, c)   == entry[p].saved[c - entry[p].address + 1]

Setting(p, pcs)  == \E t \in Threads : call[t].patch = p /\ call[t].op = "set" /\ call[t].pc \in pcs
Removing(p, pcs) == \E t \in Threads : call[t].patch = p /\ call[t].op = "remove" /\ call[t].pc \in pcs

\* The patches whose bytes are in the code or in what others have saved.
Live == {p \in Patches : \/ Setting(p, {"executable", "registering"})
                         \/ /\ p \in Registered \ released
                            /\ ~Removing(p, {"executable", "releasing"})}

\* A cell has what a live patch has written, or the instruction; a live patch has saved
\* either what another has written or the instruction, and no two the same.
StackInv ==
  /\ \A c \in Cells :
       code[c] = Insn(c) \/ \E p \in Live : c \in CellsOf(p) /\ code[c] = Patched(p, c)
  /\ \A p \in Live : \A c \in CellsOf(p) :
       /\ Saved(p, c) # code[c]
       /\ \/ Saved(p, c) = Insn(c)
          \/ \E q \in Live \ {p} : c \in CellsOf(q) /\ Saved(p, c) = Patched(q, c)
  /\ \A p, q \in Live : \A c \in CellsOf(p) \intersect CellsOf(q) :
       p # q => Saved(p, c) # Saved(q, c) /\ Patched(p, c) # Patched(q, c)

\* A patch that has saved nothing of its own kind.
Clean(p) == \A c \in CellsOf(p) : Saved(p, c).kind # Patched(p, c).kind

\* What a loop undoes, or has undone before it threw, is clean: writing one back does
\* not bring another of the loop back.
CleanInv ==
  /\ \A p \in Registered \intersect released :
       Clean(p) \/ \E t \in Threads : call[t].patch = p /\ call[t].pc = "erasing" /\ ~call[t].all
  /\ \A t \in Threads : call[t].all => \A p \in call[t].todo \union {call[t].patch} : Clean(p)

Work(t) == call[t].todo \union ({call[t].patch} \ {NoPatch})

\* What a call has saved is still there when it writes, what it is to undo is on top or
\* is undone already, and the cells of two calls are apart.
WorkInv ==
  /\ \A t \in Threads : call[t].op = "set" /\ call[t].pc \in {"writable", "copying"} =>
       There(call[t].patch) = entry[call[t].patch].saved
  /\ \A t \in Threads : \A p \in Work(t) :
       call[t].op = "remove" /\ (p = call[t].patch => call[t].pc \in {"writable", "copying"}) =>
         (p \in Live /\ OnTop(p)) \/ Undone(p)
  /\ \A t, u \in Threads : t # u =>
       \A p \in Work(t), q \in Work(u) : CellsOf(p) \intersect CellsOf(q) = {}

PageInv == page = "rw" => \E t \in Threads : call[t].pc \in {"copying", "executable"}

NInv == StackInv /\ CleanInv /\ WorkInv /\ PageInv

\* The user of these theorems, and a system on which a page can be closed again.
Nested == "nested" \in Rules
Whole  == "executable" \notin Failures

\* The cells of a patch and what is written over them.
LEMMA PatchFacts ==
  ASSUME MInv, NEW p \in Patches, entry[p] # NoEntry
  PROVE  /\ CellsOf(p) \subseteq Cells /\ CellsOf(p) # {}
         /\ \A c \in CellsOf(p) : c - entry[p].address + 1 \in 1 .. Width(p)
         /\ p.of = "breakpoint" => CellsOf(p) = {entry[p].address}
         /\ \A c \in CellsOf(p) :
              IF p.of = "breakpoint" THEN Patched(p, c) = Brk
              ELSE Patched(p, c).kind = "jump" /\ Patched(p, c).patch = p
         /\ OnTop(p) <=> \A c \in CellsOf(p) : code[c] = Patched(p, c)
         /\ There(p) = entry[p].saved <=> \A c \in CellsOf(p) : code[c] = Saved(p, c)
<1> DEFINE a == entry[p].address
           w == Width(p)
<1>1. /\ a \in Nat /\ a + w <= Size /\ Len(entry[p].saved) = w
      /\ entry[p].saved \in Seq(Contents)
  BY DEF MInv, EntryInv, EntryOK, TypeOK, Entries
<1>2. w \in Nat \ {0} /\ (p.of = "breakpoint" => w = 1) /\ (p.of # "breakpoint" => w = PatchSize)
  BY CodeConstants DEF Width, WidthOf
<1>3. CellsOf(p) = a .. a + w - 1
  BY <1>1 DEF CellsOf, Covered
<1>4. /\ CellsOf(p) \subseteq Cells /\ a \in CellsOf(p)
      /\ \A c \in CellsOf(p) : c - a + 1 \in 1 .. w
      /\ \A i \in 1 .. w : a + i - 1 \in CellsOf(p)
  <2> HIDE DEF a, w
  <2> QED BY <1>1, <1>2, <1>3, CodeConstants DEF Cells
<1>5. p.of = "breakpoint" => CellsOf(p) = {a}
  <2> HIDE DEF a, w
  <2> QED BY <1>1, <1>2, <1>3
<1>6. ASSUME NEW c \in CellsOf(p)
      PROVE  IF p.of = "breakpoint" THEN Patched(p, c) = Brk
             ELSE Patched(p, c).kind = "jump" /\ Patched(p, c).patch = p
  <2>1. PICK i \in 1 .. w : i = c - a + 1
    BY <1>4
  <2>2. Patched(p, c) = Written(p)[i]
    BY <2>1 DEF Patched
  <2>3. CASE p.of = "breakpoint"
    <3>1. i = 1
      BY <1>2, <2>3
    <3> QED BY <2>2, <2>3, <3>1 DEF Written
  <2>4. CASE p.of # "breakpoint"
    <3>1. Written(p)[i] = Jump(p, i)
      BY <1>2, <2>4 DEF Written
    <3> QED BY <2>2, <2>4, <3>1 DEF Jump
  <2> QED BY <2>3, <2>4
<1>7. ASSUME NEW s \in Seq(Contents), Len(s) = w
      PROVE  There(p) = s <=> \A c \in CellsOf(p) : code[c] = s[c - a + 1]
  <2>1. There(p) = [i \in 1 .. w |-> code[a + i - 1]]
    BY <1>1 DEF There, Read
  <2>2. s = [i \in 1 .. w |-> s[i]]
    BY <1>7
  <2>3. There(p) = s <=> \A i \in 1 .. w : code[a + i - 1] = s[i]
    <3> HIDE DEF a, w
    <3> QED BY <2>1, <2>2
  <2>4. \A c \in CellsOf(p) : a + (c - a + 1) - 1 = c
    BY <1>1, <1>3, <1>2
  <2>5. \A i \in 1 .. w : (a + i - 1) - a + 1 = i
    BY <1>1, <1>2
  <2>6. (\A c \in CellsOf(p) : code[c] = s[c - a + 1]) => \A i \in 1 .. w : code[a + i - 1] = s[i]
    <3> SUFFICES ASSUME \A c \in CellsOf(p) : code[c] = s[c - a + 1], NEW i \in 1 .. w
                 PROVE  code[a + i - 1] = s[i]
      OBVIOUS
    <3>1. code[a + i - 1] = s[(a + i - 1) - a + 1]
      BY <1>4
    <3> QED BY <2>5, <3>1
  <2>7. (\A i \in 1 .. w : code[a + i - 1] = s[i]) => \A c \in CellsOf(p) : code[c] = s[c - a + 1]
    <3> SUFFICES ASSUME \A i \in 1 .. w : code[a + i - 1] = s[i], NEW c \in CellsOf(p)
                 PROVE  code[c] = s[c - a + 1]
      OBVIOUS
    <3>1. code[a + (c - a + 1) - 1] = s[c - a + 1]
      BY <1>4
    <3> QED BY <2>4, <3>1
  <2> QED BY <2>3, <2>6, <2>7
<1>8. OnTop(p) <=> \A c \in CellsOf(p) : code[c] = Patched(p, c)
  BY <1>7, WrittenTyped DEF OnTop, Patched
<1>9. There(p) = entry[p].saved <=> \A c \in CellsOf(p) : code[c] = Saved(p, c)
  BY <1>1, <1>7 DEF Saved
<1> QED BY <1>4, <1>5, <1>6, <1>8, <1>9

\* A live patch is in the maps, or is being set.
LEMMA LiveFacts ==
  ASSUME MInv, NEW p \in Live
  PROVE  /\ p \in Patches /\ entry[p] # NoEntry /\ p \notin released
         /\ p \in IdOf(p.of) \/ \E t \in Threads : call[t].patch = p /\ Sets(t)
<1>1. p \in Patches
  BY DEF Live
<1>2. CASE Setting(p, {"executable", "registering"})
  <2>1. PICK t \in Threads : call[t].patch = p /\ call[t].op = "set"
    BY <1>2 DEF Setting
  <2>2. Sets(t)
    BY <2>1, Alone DEF Idle
  <2> QED BY <1>1, <2>1, <2>2 DEF Sets
<1>3. CASE p \in Registered \ released
  <2>1. PICK o \in Kinds : p \in IdOf(o)
    BY <1>3 DEF Registered, IdOf, Kinds
  <2>2. p.of = o /\ entry[p] # NoEntry
    BY <2>1 DEF MInv, MapsInv, MapOK
  <2> QED BY <1>1, <1>3, <2>1, <2>2
<1> QED BY <1>2, <1>3 DEF Live

\* A registered patch is in the map of its kind, under its address.
LEMMA RegisteredFacts ==
  ASSUME MInv, NEW p \in Registered
  PROVE  /\ p \in Patches /\ p.of \in Kinds /\ p \in IdOf(p.of) /\ entry[p] # NoEntry
         /\ entry[p].address \in DOMAIN AddressOf(p.of)
         /\ AddressOf(p.of)[entry[p].address] = p
<1>1. PICK o \in Kinds : p \in IdOf(o)
  BY DEF Registered, IdOf, Kinds
<1>2. p.of = o /\ entry[p] # NoEntry /\ p \in Patches
  BY <1>1 DEF MInv, MapsInv, MapOK, TypeOK, IdOf
<1>3. PICK a \in DOMAIN AddressOf(o) : p = AddressOf(o)[a] /\ entry[p].address = a
  BY <1>1 DEF MInv, MapsInv, MapOK
<1> QED BY <1>1, <1>2, <1>3

\* Two breakpoints that are live, registered or being set are at different cells.
LEMMA BreakpointsApart ==
  ASSUME MInv, NEW p \in Patches, NEW q \in Patches, p # q,
         p.of = "breakpoint", q.of = "breakpoint",
         p \in Registered \/ \E t \in Threads : call[t].patch = p /\ Sets(t),
         q \in Registered \/ \E t \in Threads : call[t].patch = q /\ Sets(t)
  PROVE  entry[p].address # entry[q].address
<1>1. ASSUME NEW x \in Registered, NEW y \in Registered, x # y, x.of = y.of
      PROVE  entry[x].address # entry[y].address
  BY <1>1, RegisteredFacts
<1>2. ASSUME NEW x \in Registered, NEW t \in Threads, Sets(t), call[t].patch.of = x.of
      PROVE  entry[x].address # entry[call[t].patch].address
  BY <1>2, RegisteredFacts DEF Sets
<1>3. ASSUME NEW t \in Threads, NEW u \in Threads, call[t].patch = p, call[u].patch = q
      PROVE  FALSE
  <2>1. NoPatch.of # "breakpoint"
    BY DEF NoPatch
  <2> QED BY <1>3, <2>1 DEF MInv, CallInv
<1> QED BY <1>1, <1>2, <1>3

\* Known(p): the patch is in the maps, or is being set.
Known(p) == p \in Registered \/ \E t \in Threads : call[t].patch = p /\ Sets(t)

LEMMA KnownFacts ==
  ASSUME MInv
  PROVE  /\ \A p : Known(p) => p \in Patches /\ entry[p] # NoEntry
         /\ \A p \in Live : Known(p)
<1>1. \A p : Known(p) => p \in Patches /\ entry[p] # NoEntry
  BY RegisteredFacts DEF Known, Sets
<1>2. \A p \in Live : Known(p)
  BY LiveFacts DEF Known, Registered, IdOf
<1> QED BY <1>1, <1>2

\* No two patches write the same over a cell.
LEMMA Distinct ==
  ASSUME MInv, NEW p, NEW q, Known(p), Known(q), p # q,
         NEW c \in CellsOf(p) \intersect CellsOf(q)
  PROVE  Patched(p, c) # Patched(q, c) /\ Patched(p, c) # Insn(c)
<1>1. p \in Patches /\ entry[p] # NoEntry /\ q \in Patches /\ entry[q] # NoEntry
  BY KnownFacts
<1>2. Brk.kind = "brk" /\ Insn(c).kind = "insn"
  BY DEF Brk, Insn
<1>3. ~(p.of = "breakpoint" /\ q.of = "breakpoint")
  <2> SUFFICES ASSUME p.of = "breakpoint" /\ q.of = "breakpoint" PROVE FALSE
    OBVIOUS
  <2>1. entry[p].address # entry[q].address
    BY <1>1, BreakpointsApart DEF Known
  <2>2. CellsOf(p) = {entry[p].address} /\ CellsOf(q) = {entry[q].address}
    BY <1>1, PatchFacts
  <2> QED BY <2>1, <2>2
<1>4. /\ IF p.of = "breakpoint" THEN Patched(p, c) = Brk
         ELSE Patched(p, c).kind = "jump" /\ Patched(p, c).patch = p
      /\ IF q.of = "breakpoint" THEN Patched(q, c) = Brk
         ELSE Patched(q, c).kind = "jump" /\ Patched(q, c).patch = q
  BY <1>1, PatchFacts
<1> QED BY <1>2, <1>3, <1>4

LEMMA NotTheInstruction ==
  ASSUME MInv, NEW p, Known(p), NEW c \in CellsOf(p)
  PROVE  Patched(p, c) # Insn(c)
<1>1. p \in Patches /\ entry[p] # NoEntry
  BY KnownFacts
<1>2. Brk.kind = "brk" /\ Insn(c).kind = "insn"
  BY DEF Brk, Insn
<1>3. IF p.of = "breakpoint" THEN Patched(p, c) = Brk
      ELSE Patched(p, c).kind = "jump" /\ Patched(p, c).patch = p
  BY <1>1, PatchFacts
<1> QED BY <1>2, <1>3

\* A registered patch that is on top is live.
LEMMA TopIsLive ==
  ASSUME MInv, StackInv, NEW p \in Registered, OnTop(p)
  PROVE  p \in Live
<1>1. Known(p) /\ p \in Patches /\ entry[p] # NoEntry
  BY RegisteredFacts DEF Known
<1>2. PICK c \in CellsOf(p) : c \in Cells /\ code[c] = Patched(p, c)
  BY <1>1, PatchFacts
<1>3. PICK q \in Live : c \in CellsOf(q) /\ code[c] = Patched(q, c)
  BY <1>1, <1>2, NotTheInstruction DEF StackInv
<1>4. Known(q)
  BY KnownFacts
<1> QED BY <1>1, <1>2, <1>3, <1>4, Distinct

\* Patches of one kind write the same kind of thing.
LEMMA SameKind ==
  ASSUME MInv, NEW p \in Patches, NEW q \in Patches, entry[p] # NoEntry, entry[q] # NoEntry,
         p.of = q.of, NEW c \in CellsOf(p), NEW d \in CellsOf(q)
  PROVE  Patched(p, c).kind = Patched(q, d).kind
<1>1. /\ IF p.of = "breakpoint" THEN Patched(p, c) = Brk
         ELSE Patched(p, c).kind = "jump" /\ Patched(p, c).patch = p
      /\ IF q.of = "breakpoint" THEN Patched(q, d) = Brk
         ELSE Patched(q, d).kind = "jump" /\ Patched(q, d).patch = q
  BY PatchFacts
<1> QED BY <1>1

\* A step that leaves the code and the live patches as they are.
LEMMA StackStill ==
  ASSUME StackInv, code' = code, Live' = Live,
         \A p \in Live : entry'[p] = entry[p]
  PROVE  StackInv'
<1>1. \A p \in Live : CellsOf(p)' = CellsOf(p)
  BY DEF CellsOf, Covered
<1>2. \A p \in Live : \A c : Saved(p, c)' = Saved(p, c) /\ Patched(p, c)' = Patched(p, c)
  BY DEF Saved, Patched
<1>3. \A c \in Cells :
        code[c] = Insn(c) \/ \E p \in Live : c \in CellsOf(p) /\ code[c] = Patched(p, c)
  BY DEF StackInv
<1>4. \A p \in Live : \A c \in CellsOf(p) :
        /\ Saved(p, c) # code[c]
        /\ \/ Saved(p, c) = Insn(c)
           \/ \E q \in Live \ {p} : c \in CellsOf(q) /\ Saved(p, c) = Patched(q, c)
  BY DEF StackInv
<1>5. \A p, q \in Live : \A c \in CellsOf(p) \intersect CellsOf(q) :
        p # q => Saved(p, c) # Saved(q, c) /\ Patched(p, c) # Patched(q, c)
  BY DEF StackInv
<1>6. (\A c \in Cells :
        code[c] = Insn(c) \/ \E p \in Live : c \in CellsOf(p) /\ code[c] = Patched(p, c))'
  BY <1>1, <1>2, <1>3
<1>7. (\A p \in Live : \A c \in CellsOf(p) :
        /\ Saved(p, c) # code[c]
        /\ \/ Saved(p, c) = Insn(c)
           \/ \E q \in Live \ {p} : c \in CellsOf(q) /\ Saved(p, c) = Patched(q, c))'
  BY <1>1, <1>2, <1>4
<1>8. (\A p, q \in Live : \A c \in CellsOf(p) \intersect CellsOf(q) :
        p # q => Saved(p, c) # Saved(q, c) /\ Patched(p, c) # Patched(q, c))'
  BY <1>1, <1>2, <1>5
<1> QED BY <1>6, <1>7, <1>8 DEF StackInv

\* What the memcpy writes.
LEMMA CopyWrites ==
  ASSUME MInv, NEW t \in Threads, Copy(t), page = "rw", NEW p \in Patches, p = call[t].patch,
         entry[p] # NoEntry, call[t] # Idle
  PROVE  /\ \A c \in Cells \ CellsOf(p) : code'[c] = code[c]
         /\ call[t].op = "set" => \A c \in CellsOf(p) : code'[c] = Patched(p, c)
         /\ call[t].op = "remove" => \A c \in CellsOf(p) : code'[c] = Saved(p, c)
         /\ DOMAIN code' = Cells
<1> DEFINE a == entry[p].address
           w == Width(p)
<1>1. /\ a \in Nat /\ a + w <= Size /\ Len(entry[p].saved) = w
      /\ entry[p].saved \in Seq(Contents)
  BY DEF MInv, EntryInv, EntryOK, TypeOK, Entries
<1>2. w \in Nat \ {0}
  BY CodeConstants DEF Width, WidthOf
<1>3. /\ call[t].op = "set" => call[t].bytes = Written(p)
      /\ call[t].op = "remove" => call[t].bytes = entry[p].saved
      /\ call[t].op \in {"set", "remove"}
  BY Alone DEF Sets, Removes
<1>4. DOMAIN call[t].bytes = 1 .. w
  <2>1. call[t].bytes \in Seq(Contents) /\ Len(call[t].bytes) = w
    BY <1>1, <1>3, WrittenTyped
  <2> QED BY <2>1
<1>5. code' = [c \in Cells |-> IF c - a + 1 \in 1 .. w THEN call[t].bytes[c - a + 1] ELSE code[c]]
  BY <1>4 DEF Copy
<1>6. CellsOf(p) = a .. a + w - 1
  BY <1>1 DEF CellsOf, Covered
<1>7. \A c \in Cells : c \in CellsOf(p) <=> c - a + 1 \in 1 .. w
  <2> HIDE DEF a, w
  <2> QED BY <1>1, <1>2, <1>6, CodeConstants DEF Cells
<1>8. CellsOf(p) \subseteq Cells
  BY PatchFacts
<1>9. /\ \A c \in Cells \ CellsOf(p) : code'[c] = code[c]
      /\ \A c \in CellsOf(p) : code'[c] = call[t].bytes[c - a + 1]
  BY <1>5, <1>7, <1>8
<1> QED BY <1>3, <1>5, <1>9 DEF Patched, Saved

\* A patch is written on top of a stack whose topmost bytes it has saved.
LEMMA StackPushed ==
  ASSUME MInv, StackInv, NEW p, Known(p), p \notin Live, There(p) = entry[p].saved,
         Live' = Live \union {p}, entry' = entry,
         \A c \in Cells \ CellsOf(p) : code'[c] = code[c],
         \A c \in CellsOf(p) : code'[c] = Patched(p, c)
  PROVE  StackInv'
<1>1. \A q : CellsOf(q)' = CellsOf(q)
  BY DEF CellsOf, Covered
<1>2. \A q, c : Saved(q, c)' = Saved(q, c) /\ Patched(q, c)' = Patched(q, c)
  BY DEF Saved, Patched
<1>3. /\ p \in Patches /\ entry[p] # NoEntry
      /\ \A q \in Live : Known(q) /\ q # p /\ CellsOf(q) \subseteq Cells
  BY KnownFacts, PatchFacts
<1>4. CellsOf(p) \subseteq Cells /\ \A c \in CellsOf(p) : code[c] = Saved(p, c)
  BY <1>3, PatchFacts
<1>5. \A q \in Live : \A c \in CellsOf(p) \intersect CellsOf(q) : Patched(p, c) # Patched(q, c)
  BY <1>3, Distinct
<1>6. \A c \in CellsOf(p) : Patched(p, c) # Insn(c)
  BY NotTheInstruction
<1>7. \A c \in Cells :
        code'[c] = Insn(c) \/ \E q \in Live' : c \in CellsOf(q) /\ code'[c] = Patched(q, c)
  <2> SUFFICES ASSUME NEW c \in Cells
               PROVE  code'[c] = Insn(c) \/ \E q \in Live' : c \in CellsOf(q) /\ code'[c] = Patched(q, c)
    OBVIOUS
  <2>1. code[c] = Insn(c) \/ \E q \in Live : c \in CellsOf(q) /\ code[c] = Patched(q, c)
    BY DEF StackInv
  <2> QED BY <2>1
<1>8. ASSUME NEW q \in Live', NEW c \in CellsOf(q)
      PROVE  /\ Saved(q, c) # code'[c]
             /\ \/ Saved(q, c) = Insn(c)
                \/ \E r \in Live' \ {q} : c \in CellsOf(r) /\ Saved(q, c) = Patched(r, c)
  <2>1. CASE q = p
    <3>1. code[c] = Saved(p, c) /\ c \in Cells /\ code'[c] = Patched(p, c)
      BY <1>4, <1>8, <2>1
    <3>2. code[c] = Insn(c) \/ \E r \in Live : c \in CellsOf(r) /\ code[c] = Patched(r, c)
      BY <3>1 DEF StackInv
    <3>3. code[c] # Patched(p, c)
      BY <1>5, <1>6, <1>8, <2>1, <3>2
    <3> QED BY <1>3, <2>1, <3>1, <3>2, <3>3
  <2>2. CASE q \in Live
    <3>1. /\ Saved(q, c) # code[c]
          /\ \/ Saved(q, c) = Insn(c)
             \/ \E r \in Live \ {q} : c \in CellsOf(r) /\ Saved(q, c) = Patched(r, c)
      BY <1>8, <2>2 DEF StackInv
    <3>2. Saved(q, c) # code'[c]
      <4>1. CASE c \in CellsOf(p)
        BY <1>5, <1>6, <3>1, <4>1
      <4>2. CASE c \notin CellsOf(p)
        BY <1>3, <1>8, <2>2, <3>1, <4>2
      <4> QED BY <4>1, <4>2
    <3> QED BY <3>1, <3>2
  <2> QED BY <2>1, <2>2
<1>9. ASSUME NEW q \in Live', NEW r \in Live', NEW c \in CellsOf(q) \intersect CellsOf(r), q # r
      PROVE  Saved(q, c) # Saved(r, c) /\ Patched(q, c) # Patched(r, c)
  <2>1. CASE q \in Live /\ r \in Live
    BY <1>9, <2>1 DEF StackInv
  <2>2. CASE q = p
    <3>1. r \in Live /\ Saved(r, c) # code[c]
      BY <1>9, <2>2 DEF StackInv
    <3> QED BY <1>4, <1>5, <1>9, <2>2, <3>1
  <2>3. CASE r = p
    <3>1. q \in Live /\ Saved(q, c) # code[c]
      BY <1>9, <2>3 DEF StackInv
    <3> QED BY <1>4, <1>5, <1>9, <2>3, <3>1
  <2> QED BY <2>1, <2>2, <2>3
<1> QED BY <1>1, <1>2, <1>7, <1>8, <1>9 DEF StackInv

\* The patch on top is undone: what it has saved comes back, which is what the next one
\* has written.
LEMMA StackPopped ==
  ASSUME MInv, StackInv, NEW p \in Live, OnTop(p),
         Live' = Live \ {p}, entry' = entry,
         \A c \in Cells \ CellsOf(p) : code'[c] = code[c],
         \A c \in CellsOf(p) : code'[c] = Saved(p, c)
  PROVE  StackInv'
<1>1. \A q : CellsOf(q)' = CellsOf(q)
  BY DEF CellsOf, Covered
<1>2. \A q, c : Saved(q, c)' = Saved(q, c) /\ Patched(q, c)' = Patched(q, c)
  BY DEF Saved, Patched
<1>3. \A q \in Live : CellsOf(q) \subseteq Cells
  BY LiveFacts, PatchFacts
<1>4. \A c \in CellsOf(p) : code[c] = Patched(p, c)
  BY LiveFacts, PatchFacts
<1>7. ASSUME NEW c \in Cells
      PROVE  code'[c] = Insn(c) \/ \E q \in Live' : c \in CellsOf(q) /\ code'[c] = Patched(q, c)
  <2>1. CASE c \in CellsOf(p)
    <3>1. \/ Saved(p, c) = Insn(c)
          \/ \E q \in Live \ {p} : c \in CellsOf(q) /\ Saved(p, c) = Patched(q, c)
      BY <2>1 DEF StackInv
    <3> QED BY <2>1, <3>1
  <2>2. CASE c \notin CellsOf(p)
    <3>1. code[c] = Insn(c) \/ \E q \in Live : c \in CellsOf(q) /\ code[c] = Patched(q, c)
      BY DEF StackInv
    <3> QED BY <2>2, <3>1
  <2> QED BY <2>1, <2>2
<1>8. ASSUME NEW q \in Live', NEW c \in CellsOf(q)
      PROVE  /\ Saved(q, c) # code'[c]
             /\ \/ Saved(q, c) = Insn(c)
                \/ \E r \in Live' \ {q} : c \in CellsOf(r) /\ Saved(q, c) = Patched(r, c)
  <2>1. /\ Saved(q, c) # code[c]
        /\ \/ Saved(q, c) = Insn(c)
           \/ \E r \in Live \ {q} : c \in CellsOf(r) /\ Saved(q, c) = Patched(r, c)
    BY <1>8 DEF StackInv
  <2>2. Saved(q, c) # code'[c]
    <3>1. CASE c \in CellsOf(p)
      <4>1. Saved(q, c) # Saved(p, c)
        BY <1>8, <3>1 DEF StackInv
      <4> QED BY <3>1, <4>1
    <3>2. CASE c \notin CellsOf(p)
      BY <1>3, <1>8, <2>1, <3>2
    <3> QED BY <3>1, <3>2
  <2>3. ASSUME NEW r \in Live \ {q}, c \in CellsOf(r), Saved(q, c) = Patched(r, c)
        PROVE  r # p
    BY <1>4, <2>1, <2>3
  <2> QED BY <2>1, <2>2, <2>3
<1>9. \A q, r \in Live' : \A c \in CellsOf(q) \intersect CellsOf(r) :
        q # r => Saved(q, c) # Saved(r, c) /\ Patched(q, c) # Patched(r, c)
  BY DEF StackInv
<1> QED BY <1>1, <1>2, <1>7, <1>8, <1>9 DEF StackInv

LEMMA ThereStays ==
  ASSUME MInv, NEW p \in Patches, entry[p] # NoEntry, entry'[p] = entry[p],
         \A c \in CellsOf(p) : code'[c] = code[c]
  PROVE  There(p)' = There(p) /\ (OnTop(p)' <=> OnTop(p)) /\ CellsOf(p)' = CellsOf(p)
<1> DEFINE a == entry[p].address
           n == Len(entry[p].saved)
<1>1. a \in Nat /\ n \in Nat
  BY CodeConstants DEF MInv, EntryInv, EntryOK, Width, WidthOf
<1>2. CellsOf(p) = a .. a + n - 1
  BY DEF CellsOf, Covered
<1>3. \A i \in 1 .. n : a + i - 1 \in CellsOf(p)
  <2> HIDE DEF a, n
  <2> QED BY <1>1, <1>2
<1>4. \A i \in 1 .. n : code'[a + i - 1] = code[a + i - 1]
  BY <1>3
<1>5. There(p)' = [i \in 1 .. n |-> code'[a + i - 1]] /\ There(p) = [i \in 1 .. n |-> code[a + i - 1]]
  BY DEF There, Read
<1>6. There(p)' = There(p)
  <2> HIDE DEF a, n
  <2> QED BY <1>4, <1>5
<1>7. Written(p)' = Written(p)
  BY DEF Written
<1>8. CellsOf(p)' = CellsOf(p)
  BY DEF CellsOf, Covered
<1> QED BY <1>6, <1>7, <1>8 DEF OnTop

LEMMA WorkFacts ==
  ASSUME MInv, NEW t \in Threads
  PROVE  /\ \A p \in Work(t) : p \in Patches /\ entry[p] # NoEntry /\ call[t] # Idle
         /\ call[t] # Idle => call[t].patch \in Work(t)
         /\ call[t] = Idle => Work(t) = {}
<1>1. CASE call[t] = Idle
  <2>1. Work(t) = {}
    BY <1>1 DEF Work, Idle
  <2> QED BY <1>1, <2>1
<1>2. CASE call[t] # Idle
  <2>1. call[t].patch \in Patches /\ entry[call[t].patch] # NoEntry
    BY <1>2, Alone
  <2>2. call[t].patch \in Work(t)
    BY <2>1, PatchKinds DEF Work
  <2>3. ASSUME NEW p \in call[t].todo
        PROVE  p \in Patches /\ entry[p] # NoEntry
    <3>1. CASE Sets(t)
      BY <2>3, <3>1 DEF Sets
    <3>2. CASE Removes(t)
      <4>1. p \in IdOf(call[t].patch.of)
        BY <2>3, <3>2 DEF Removes
      <4>2. p \in Registered
        BY <4>1 DEF IdOf, Registered
      <4> QED BY <4>2, RegisteredFacts
    <3> QED BY <1>2, <3>1, <3>2 DEF MInv, CallInv
  <2> QED BY <1>2, <2>1, <2>2, <2>3 DEF Work
<1> QED BY <1>1, <1>2

\* A step of one call that leaves what the others are at alone.
LEMMA WorkStep ==
  ASSUME MInv, WorkInv, NEW t \in Threads, \A u \in Threads \ {t} : call'[u] = call[u],
         \A u \in Threads \ {t} : \A p \in Work(u) :
           /\ entry'[p] = entry[p] /\ \A c \in CellsOf(p) : code'[c] = code[c]
           /\ p \in Live => p \in Live',
         released \subseteq released',
         call'[t].op = "set" /\ call'[t].pc \in {"writable", "copying"} =>
           \E p \in Patches : p = call'[t].patch /\ There(p)' = entry'[p].saved,
         call'[t].op = "remove" => \A p \in Work(t)' :
           (p = call'[t].patch => call'[t].pc \in {"writable", "copying"}) =>
             (p \in Live' /\ OnTop(p)') \/ Undone(p)',
         \A u \in Threads \ {t} : \A p \in Work(t)', q \in Work(u) :
           CellsOf(p)' \intersect CellsOf(q) = {}
  PROVE  WorkInv'
<1>0. ASSUME NEW u \in Threads \ {t}
      PROVE  /\ Work(u)' = Work(u)
             /\ \A p \in Work(u) : /\ There(p)' = There(p) /\ CellsOf(p)' = CellsOf(p)
                                   /\ OnTop(p)' <=> OnTop(p)
                                   /\ Undone(p) => Undone(p)'
  <2>1. Work(u)' = Work(u)
    BY DEF Work
  <2>2. ASSUME NEW p \in Work(u)
        PROVE  There(p)' = There(p) /\ CellsOf(p)' = CellsOf(p) /\ (OnTop(p)' <=> OnTop(p))
               /\ (Undone(p) => Undone(p)')
    <3>1. There(p)' = There(p) /\ CellsOf(p)' = CellsOf(p) /\ (OnTop(p)' <=> OnTop(p))
      BY WorkFacts, ThereStays
    <3> QED BY <3>1 DEF Undone
  <2> QED BY <2>1, <2>2
<1>1. ASSUME NEW u \in Threads, call'[u].op = "set", call'[u].pc \in {"writable", "copying"}
      PROVE  (There(call[u].patch) = entry[call[u].patch].saved)'
  <2>1. CASE u = t
    <3>1. PICK p \in Patches : p = call'[t].patch /\ There(p)' = entry'[p].saved
      BY <1>1, <2>1
    <3> QED BY <2>1, <3>1 DEF There, Read
  <2>2. CASE u # t
    <3>1. There(call[u].patch) = entry[call[u].patch].saved
      BY <1>1, <2>2 DEF WorkInv
    <3>2. PICK p \in Work(u) : p = call[u].patch
      BY <1>1, <2>2, WorkFacts DEF Idle
    <3>3. There(p)' = There(p) /\ entry'[p] = entry[p]
      BY <1>0, <2>2, <3>2
    <3>4. There(p)' = entry'[p].saved /\ call'[u].patch = p
      BY <2>2, <3>1, <3>2, <3>3
    <3> QED BY <3>4 DEF There, Read
  <2> QED BY <2>1, <2>2
<1>2. ASSUME NEW u \in Threads, NEW p \in Work(u)', call'[u].op = "remove",
             p = call'[u].patch => call'[u].pc \in {"writable", "copying"}
      PROVE  (p \in Live' /\ OnTop(p)') \/ Undone(p)'
  <2>1. CASE u = t
    BY <1>2, <2>1
  <2>2. CASE u # t
    <3>1. p \in Work(u) /\ call'[u] = call[u]
      BY <1>0, <1>2, <2>2
    <3>2. (p \in Live /\ OnTop(p)) \/ Undone(p)
      BY <1>2, <3>1 DEF WorkInv
    <3> QED BY <1>0, <2>2, <3>1, <3>2
  <2> QED BY <2>1, <2>2
<1>3. ASSUME NEW u \in Threads, NEW v \in Threads, u # v, NEW p \in Work(u)', NEW q \in Work(v)'
      PROVE  CellsOf(p)' \intersect CellsOf(q)' = {}
  <2>1. CASE u = t
    BY <1>0, <1>3, <2>1
  <2>2. CASE v = t
    BY <1>0, <1>3, <2>2
  <2>3. CASE u # t /\ v # t
    <3>1. p \in Work(u) /\ q \in Work(v)
      BY <1>0, <1>3, <2>3
    <3>2. CellsOf(p)' = CellsOf(p) /\ CellsOf(q)' = CellsOf(q)
      BY <1>0, <2>3, <3>1
    <3>3. CellsOf(p) \intersect CellsOf(q) = {}
      BY <1>3, <3>1 DEF WorkInv
    <3> QED BY <3>2, <3>3
  <2> QED BY <2>1, <2>2, <2>3
<1>4. (\A u \in Threads : call[u].op = "set" /\ call[u].pc \in {"writable", "copying"} =>
         There(call[u].patch) = entry[call[u].patch].saved)'
  BY <1>1
<1>5. (\A u \in Threads : \A p \in Work(u) :
         call[u].op = "remove" /\ (p = call[u].patch => call[u].pc \in {"writable", "copying"}) =>
           (p \in Live /\ OnTop(p)) \/ Undone(p))'
  BY <1>2
<1>6. (\A u, v \in Threads : u # v =>
         \A p \in Work(u), q \in Work(v) : CellsOf(p) \intersect CellsOf(q) = {})'
  BY <1>3
<1> QED BY <1>4, <1>5, <1>6 DEF WorkInv

LEMMA LiveStays ==
  ASSUME NEW t \in Threads, \A u \in Threads \ {t} : call'[u] = call[u],
         \A p \in Patches :
           /\ call'[t].patch = p /\ call'[t].op = "set" /\ call'[t].pc \in {"executable", "registering"}
              <=> call[t].patch = p /\ call[t].op = "set" /\ call[t].pc \in {"executable", "registering"}
           /\ call'[t].patch = p /\ call'[t].op = "remove" /\ call'[t].pc \in {"executable", "releasing"}
              <=> call[t].patch = p /\ call[t].op = "remove" /\ call[t].pc \in {"executable", "releasing"},
         Registered' \ released' = Registered \ released
  PROVE  Live' = Live
<1>1. \A p \in Patches : Setting(p, {"executable", "registering"})'
                         <=> Setting(p, {"executable", "registering"})
  BY DEF Setting
<1>2. \A p \in Patches : Removing(p, {"executable", "releasing"})'
                         <=> Removing(p, {"executable", "releasing"})
  BY DEF Removing
<1>3. Patches' = Patches
  BY DEF Patches
<1> QED BY <1>1, <1>2, <1>3 DEF Live

\* A step that touches neither the code nor a call.
LEMMA NKeep ==
  ASSUME MInv, NInv, UNCHANGED <<code, page, entry, released, call, bpById, hooksById>>
  PROVE  NInv'
<1>1. Live' = Live
  BY DEF Live, Setting, Removing, Registered
<1>2. StackInv'
  BY <1>1, StackStill DEF NInv
<1>3. \A p : Clean(p)' <=> Clean(p)
  BY DEF Clean, CellsOf, Covered, Saved, Patched
<1>4. CleanInv'
  BY <1>3 DEF NInv, CleanInv, Registered
<1>5. WorkInv'
  <2>1. /\ \A p : There(p)' = There(p) /\ CellsOf(p)' = CellsOf(p)
        /\ \A p : OnTop(p)' <=> OnTop(p)
    BY DEF There, Read, CellsOf, Covered, OnTop, Written
  <2>2. /\ \A t : Work(t)' = Work(t)
        /\ \A p : Undone(p)' <=> Undone(p)
    BY <2>1 DEF Work, Undone
  <2> QED BY <1>1, <2>1, <2>2 DEF NInv, WorkInv
<1>6. PageInv'
  BY DEF NInv, PageInv
<1> QED BY <1>2, <1>4, <1>5, <1>6 DEF NInv

\* Clean patches stay clean, and a removal that is not at its end excuses nobody.
LEMMA CleanStep ==
  ASSUME MInv, CleanInv, NEW t \in Threads, \A u \in Threads \ {t} : call'[u] = call[u],
         \A p \in Patches : entry[p] # NoEntry => entry'[p] = entry[p],
         \A p \in Registered' \intersect released' :
           /\ p \in Patches /\ entry[p] # NoEntry
           /\ \/ /\ p \in Registered \intersect released
                 /\ call[t].patch = p => call[t].pc # "erasing"
              \/ Clean(p)
              \/ call'[t].patch = p /\ call'[t].pc = "erasing" /\ ~call'[t].all,
         call'[t].all => \A p \in call'[t].todo \union {call'[t].patch} :
           p \in Patches /\ entry[p] # NoEntry /\ Clean(p)
  PROVE  CleanInv'
<1>1. ASSUME NEW p \in Patches, entry[p] # NoEntry, Clean(p)
      PROVE  Clean(p)'
  <2>1. entry'[p] = entry[p]
    BY <1>1
  <2> QED BY <1>1, <2>1 DEF Clean, CellsOf, Covered, Saved, Patched, Written
<1>2. ASSUME NEW p \in Registered' \intersect released'
      PROVE  Clean(p)' \/ \E u \in Threads : call'[u].patch = p /\ call'[u].pc = "erasing"
                                             /\ ~call'[u].all
  <2>0. p \in Patches /\ entry[p] # NoEntry
    BY <1>2
  <2>1. CASE p \in Registered \intersect released /\ (call[t].patch = p => call[t].pc # "erasing")
    <3>1. Clean(p) \/ \E u \in Threads : call[u].patch = p /\ call[u].pc = "erasing" /\ ~call[u].all
      BY <2>1 DEF CleanInv
    <3>2. ASSUME NEW u \in Threads, call[u].patch = p, call[u].pc = "erasing", ~call[u].all
          PROVE  call'[u].patch = p /\ call'[u].pc = "erasing" /\ ~call'[u].all
      BY <2>1, <3>2
    <3> QED BY <1>1, <2>0, <3>1, <3>2
  <2>2. CASE Clean(p)
    BY <1>1, <2>0, <2>2
  <2>3. CASE call'[t].patch = p /\ call'[t].pc = "erasing" /\ ~call'[t].all
    BY <2>3
  <2> QED BY <1>2, <2>1, <2>2, <2>3
<1>3. ASSUME NEW u \in Threads, call'[u].all, NEW p \in call'[u].todo \union {call'[u].patch}
      PROVE  Clean(p)'
  <2>1. CASE u = t
    BY <1>1, <1>3, <2>1
  <2>2. CASE u # t
    <3>1. call'[u] = call[u]
      BY <2>2
    <3>2. Clean(p)
      BY <1>3, <3>1 DEF CleanInv
    <3>3. call[u] # Idle
      BY <1>3, <3>1 DEF Idle
    <3>4. p \in Patches /\ entry[p] # NoEntry
      BY <1>3, <3>1, <3>3, WorkFacts, PatchKinds, Alone DEF Work
    <3> QED BY <1>1, <3>2, <3>4
  <2> QED BY <2>1, <2>2
<1>4. (\A p \in Registered \intersect released :
         Clean(p) \/ \E u \in Threads : call[u].patch = p /\ call[u].pc = "erasing" /\ ~call[u].all)'
  BY <1>2
<1>5. (\A u \in Threads : call[u].all => \A p \in call[u].todo \union {call[u].patch} : Clean(p))'
  BY <1>3
<1> QED BY <1>4, <1>5 DEF CleanInv

LEMMA NBuild ==
  ASSUME MInv, NInv, Nested, NEW t \in Threads, NEW of \in Kinds, NEW kind,
         NEW a \in Cells, call[t] = Idle, Build(t, of, kind, a, WidthOf(of)),
         UNCHANGED <<bpById, hooksById>>
  PROVE  NInv'
<1>w. WidthOf(of) \in Nat \ {0} /\ a \in Nat
  BY CodeConstants DEF WidthOf, Cells
<1> DEFINE n == WidthOf(of)
<1>0. PICK p \in Patches :
        /\ Fresh(of, p)
        /\ entry' = [entry EXCEPT ![p] =
                       [kind |-> kind, address |-> a, saved |-> Read(a, n), body |-> Read(a, n)]]
        /\ call' = [call EXCEPT ![t] = [Idle EXCEPT
                       !.pc = "writable", !.op = "set", !.from = thread[t].phase,
                       !.patch = p, !.bytes = Written(p)]]
  BY DEF Build
<1>1. entry[p] = NoEntry /\ a + n <= Size
      /\ UNCHANGED <<code, page, released, thread, crashed>>
  BY <1>0 DEF Fresh, Build
<1>2. /\ \A u \in Threads \ {t} : call'[u] = call[u]
      /\ call'[t].pc = "writable" /\ call'[t].op = "set" /\ call'[t].patch = p
      /\ ~call'[t].all /\ call'[t].todo = {}
  BY <1>0 DEF MInv, TypeOK, Idle
<1>3. /\ \A q \in Patches \ {p} : entry'[q] = entry[q]
      /\ entry'[p].address = a /\ entry'[p].saved = Read(a, n)
  BY <1>0 DEF MInv, TypeOK
<1>4. \A q \in Patches : entry[q] # NoEntry => entry'[q] = entry[q]
  BY <1>1, <1>3
<1>5. Registered' = Registered
  BY DEF Registered
<1>6. call[t].pc = "idle" /\ call[t].op = "none" /\ call[t].patch = NoPatch
  BY DEF Idle
<1>7. Live' = Live
  BY <1>1, <1>2, <1>5, <1>6, LiveStays
<1>8. StackInv'
  <2>1. \A q \in Live : entry'[q] = entry[q]
    BY <1>4, LiveFacts
  <2> QED BY <1>1, <1>7, <2>1, StackStill DEF NInv
<1>9. CleanInv'
  <2>1. \A q \in Registered' \intersect released' :
          /\ q \in Patches /\ entry[q] # NoEntry
          /\ q \in Registered \intersect released
          /\ call[t].patch = q => call[t].pc # "erasing"
    BY <1>1, <1>5, <1>6, RegisteredFacts
  <2> QED BY <1>2, <1>4, <2>1, CleanStep DEF NInv
<1>10. Work(t)' = {p}
  BY <1>2, PatchKinds DEF Work
<1>11. Len(Read(a, n)) = n
  BY <1>1, <1>w, ReadTyped DEF MInv
<1>12. There(p)' = entry'[p].saved
  <2>1. There(p)' = [i \in 1 .. Len(entry'[p].saved) |-> code'[entry'[p].address + i - 1]]
    BY DEF There, Read
  <2>2. There(p)' = [i \in 1 .. n |-> code[a + i - 1]]
    BY <1>1, <1>3, <1>11, <2>1
  <2> QED BY <1>3, <2>2 DEF Read
<1>13. CellsOf(p)' = Covered(a, n)
  BY <1>3, <1>11 DEF CellsOf, Covered
<1>14. ASSUME NEW u \in Threads \ {t}, NEW q \in Work(u)
       PROVE  Covered(a, n) \intersect CellsOf(q) = {}
  <2>1. Settled(t, Covered(a, n))
    BY DEF Build, Nested
  <2> QED BY <2>1 DEF Settled, Work
<1>15. WorkInv'
  <2>1. \A u \in Threads \ {t} : \A q \in Work(u) :
          /\ entry'[q] = entry[q] /\ \A c \in CellsOf(q) : code'[c] = code[c]
          /\ q \in Live => q \in Live'
    BY <1>1, <1>4, <1>7, WorkFacts
  <2>2. \A u \in Threads \ {t} : \A x \in Work(t)', q \in Work(u) :
          CellsOf(x)' \intersect CellsOf(q) = {}
    BY <1>10, <1>13, <1>14
  <2>3. released \subseteq released' /\ WorkInv
    BY <1>1 DEF NInv
  <2> QED BY <1>2, <1>12, <2>1, <2>2, <2>3, WorkStep
<1>16. PageInv'
  <2>1. ASSUME page' = "rw"
        PROVE  \E u \in Threads : call'[u].pc \in {"copying", "executable"}
    <3>1. PICK u \in Threads : call[u].pc \in {"copying", "executable"}
      BY <1>1, <2>1 DEF NInv, PageInv
    <3> QED BY <1>2, <1>6, <3>1
  <2> QED BY <2>1 DEF PageInv
<1> QED BY <1>8, <1>9, <1>15, <1>16 DEF NInv

\* The start of a removal: what is on top is live, and of one kind no two are on top of
\* each other.
LEMMA NStartUndo ==
  ASSUME MInv, NInv, Nested, NEW t \in Threads, NEW of \in Kinds, NEW p \in IdOf(of),
         NEW todo \in SUBSET (IdOf(of) \ {p}), NEW all \in BOOLEAN,
         call[t] = Idle, ~Locked(of), StartUndo(t, p, todo, all),
         all => todo = IdOf(of) \ {p}, UNCHANGED <<bpById, hooksById>>
  PROVE  NInv'
<1>1. UNCHANGED <<code, page, entry, released, thread>>
  BY DEF StartUndo, codeVars
<1>2. \A q \in todo \union {p} : /\ q \in Registered /\ q.of = of /\ q \in Patches
                                /\ entry[q] # NoEntry /\ q \in IdOf(of)
  <2>1. \A q \in todo \union {p} : q \in IdOf(of)
    OBVIOUS
  <2>2. \A q \in IdOf(of) : q.of = of
    BY DEF MInv, MapsInv, MapOK
  <2>3. IdOf(of) \subseteq Registered
    BY DEF IdOf, Registered
  <2> QED BY <2>1, <2>2, <2>3, RegisteredFacts
<1>3. \A q \in todo \union {p} : (OnTop(q) \/ Undone(q)) /\ Settled(t, CellsOf(q))
  BY DEF StartUndo, Nested
<1>4. \A q \in todo \union {p} : (q \in Live /\ OnTop(q)) \/ Undone(q)
  BY <1>2, <1>3, TopIsLive DEF NInv
<1>5. CASE call' = call
  <2>1. UNCHANGED <<code, page, entry, released, call, bpById, hooksById>>
    BY <1>1, <1>5
  <2> QED BY <2>1, NKeep
<1>6. CASE call' = [call EXCEPT ![t] = Undoing(t, p, todo, all)]
  <2>1. /\ \A u \in Threads \ {t} : call'[u] = call[u]
        /\ call'[t].pc = "writable" /\ call'[t].op = "remove" /\ call'[t].patch = p
        /\ call'[t].all = all /\ call'[t].todo = todo
    BY <1>6 DEF MInv, TypeOK, Undoing
  <2>2. call[t].pc = "idle" /\ call[t].op = "none" /\ call[t].patch = NoPatch
    BY DEF Idle
  <2>3. Registered' = Registered
    BY DEF Registered
  <2>4. Live' = Live
    BY <1>1, <2>1, <2>2, <2>3, LiveStays
  <2>5. StackInv'
    BY <1>1, <2>4, StackStill DEF NInv
  <2>6. ASSUME all, NEW q \in todo \union {p}
        PROVE  Clean(q)
    <3>1. IdOf(of) = todo \union {p}
      BY <2>6
    <3>2. CASE q \in Live /\ OnTop(q)
      <4>1. SUFFICES ASSUME NEW c \in CellsOf(q), Saved(q, c).kind = Patched(q, c).kind
                     PROVE  FALSE
        BY DEF Clean
      <4>2. Patched(q, c).kind # "insn"
        BY <1>2, PatchFacts DEF Brk
      <4>3. PICK r \in Live \ {q} : c \in CellsOf(r) /\ Saved(q, c) = Patched(r, c)
        BY <3>2, <4>1, <4>2 DEF NInv, StackInv, Insn
      <4>4. Known(q) /\ Known(r) /\ r \in Patches /\ entry[r] # NoEntry
        BY <3>2, <4>3, KnownFacts
      <4>5. r.of = of
        <5>1. /\ IF r.of = "breakpoint" THEN Patched(r, c) = Brk
                 ELSE Patched(r, c).kind = "jump" /\ Patched(r, c).patch = r
              /\ IF q.of = "breakpoint" THEN Patched(q, c) = Brk
                 ELSE Patched(q, c).kind = "jump" /\ Patched(q, c).patch = q
          BY <1>2, <4>1, <4>3, <4>4, PatchFacts
        <5>2. Brk.kind = "brk"
          BY DEF Brk
        <5>3. r.of \in Kinds /\ q.of = of
          BY <1>2, <4>4, PatchKinds
        <5> QED BY <4>1, <4>3, <5>1, <5>2, <5>3 DEF Kinds
      <4>6. r \in IdOf(of)
        <5>1. ~\E u \in Threads : call[u].patch = r
          BY <4>5 DEF Locked
        <5> QED BY <4>3, <4>5, <5>1, LiveFacts
      <4>7. OnTop(r)
        BY <1>4, <3>1, <4>3, <4>6, LiveFacts DEF Undone
      <4>8. code[c] = Patched(q, c) /\ code[c] = Patched(r, c)
        BY <1>2, <3>2, <4>1, <4>3, <4>4, <4>7, PatchFacts
      <4> QED BY <4>1, <4>3, <4>4, <4>8, Distinct
    <3>3. CASE Undone(q)
      <4>1. q \in Registered \intersect released
        BY <1>2, <3>3 DEF Undone
      <4>2. ~\E u \in Threads : call[u].patch = q
        BY <1>2 DEF Locked
      <4> QED BY <4>1, <4>2 DEF NInv, CleanInv
    <3> QED BY <1>4, <3>2, <3>3
  <2>7. CleanInv'
    <3>1. \A q \in Registered' \intersect released' :
            /\ q \in Patches /\ entry[q] # NoEntry
            /\ q \in Registered \intersect released
            /\ call[t].patch = q => call[t].pc # "erasing"
      BY <1>1, <2>2, <2>3, RegisteredFacts
    <3>2. call'[t].all => \A q \in call'[t].todo \union {call'[t].patch} :
            q \in Patches /\ entry[q] # NoEntry /\ Clean(q)
      BY <1>2, <2>1, <2>6
    <3>3. \A q \in Patches : entry[q] # NoEntry => entry'[q] = entry[q]
      BY <1>1
    <3> QED BY <2>1, <3>1, <3>2, <3>3, CleanStep DEF NInv
  <2>8. Work(t)' = todo \union {p}
    BY <1>2, <2>1, PatchKinds DEF Work
  <2>9. \A q \in todo \union {p} : /\ CellsOf(q)' = CellsOf(q) /\ (OnTop(q)' <=> OnTop(q))
                                  /\ (Undone(q)' <=> Undone(q))
    <3>1. ASSUME NEW q \in todo \union {p}
          PROVE  There(q)' = There(q) /\ (OnTop(q)' <=> OnTop(q)) /\ CellsOf(q)' = CellsOf(q)
      <4>1. q \in Patches /\ entry[q] # NoEntry /\ entry'[q] = entry[q]
            /\ \A c \in CellsOf(q) : code'[c] = code[c]
        BY <1>1, <1>2
      <4> QED BY <4>1, ThereStays
    <3> QED BY <1>1, <3>1 DEF Undone
  <2>10. WorkInv'
    <3>1. \A u \in Threads \ {t} : \A q \in Work(u) :
            /\ entry'[q] = entry[q] /\ \A c \in CellsOf(q) : code'[c] = code[c]
            /\ q \in Live => q \in Live'
      BY <1>1, <2>4
    <3>2. \A u \in Threads \ {t} : \A x \in Work(t)', q \in Work(u) :
            CellsOf(x)' \intersect CellsOf(q) = {}
      BY <1>3, <2>8, <2>9 DEF Settled, Work
    <3>3. \A q \in Work(t)' : (q \in Live' /\ OnTop(q)') \/ Undone(q)'
      BY <1>4, <2>4, <2>8, <2>9
    <3>4. released \subseteq released' /\ WorkInv /\ call'[t].op # "set"
      BY <1>1, <2>1 DEF NInv
    <3> QED BY <2>1, <3>1, <3>2, <3>3, <3>4, WorkStep
  <2>11. PageInv'
    <3>1. ASSUME page' = "rw"
          PROVE  \E u \in Threads : call'[u].pc \in {"copying", "executable"}
      <4>1. PICK u \in Threads : call[u].pc \in {"copying", "executable"}
        BY <1>1, <3>1 DEF NInv, PageInv
      <4> QED BY <2>1, <2>2, <4>1
    <3> QED BY <3>1 DEF PageInv
  <2> QED BY <2>5, <2>7, <2>10, <2>11 DEF NInv
<1> QED BY <1>5, <1>6 DEF StartUndo

\* A step that leaves the code alone, and whose call has at most the work it had.
LEMMA NQuiet ==
  ASSUME MInv, NInv, NEW t \in Threads, \A u \in Threads \ {t} : call'[u] = call[u],
         code' = code, entry' = entry, released \subseteq released', Live' = Live,
         Work(t)' \subseteq Work(t),
         call'[t].op = "set" /\ call'[t].pc \in {"writable", "copying"} =>
           /\ call[t].op = "set" /\ call[t].pc \in {"writable", "copying"}
           /\ call'[t].patch = call[t].patch,
         call'[t].op = "remove" => \A p \in Work(t)' :
           (p = call'[t].patch => call'[t].pc \in {"writable", "copying"}) =>
             /\ call[t].op = "remove"
             /\ p = call[t].patch => call[t].pc \in {"writable", "copying"}
  PROVE  StackInv' /\ WorkInv'
<1>1. StackInv'
  BY StackStill DEF NInv
<1>2. \A p \in Work(t) : /\ p \in Patches /\ There(p)' = There(p) /\ CellsOf(p)' = CellsOf(p)
                         /\ OnTop(p)' <=> OnTop(p)
                         /\ Undone(p) => Undone(p)'
  <2>1. ASSUME NEW p \in Work(t)
        PROVE  /\ p \in Patches /\ There(p)' = There(p) /\ CellsOf(p)' = CellsOf(p)
               /\ OnTop(p)' <=> OnTop(p)
    <3>1. p \in Patches /\ entry[p] # NoEntry
      BY WorkFacts
    <3> QED BY <3>1, ThereStays
  <2> QED BY <2>1 DEF Undone
<1>3. WorkInv'
  <2>1. \A u \in Threads \ {t} : \A p \in Work(u) :
          /\ entry'[p] = entry[p] /\ \A c \in CellsOf(p) : code'[c] = code[c]
          /\ p \in Live => p \in Live'
    OBVIOUS
  <2>2. ASSUME call'[t].op = "set", call'[t].pc \in {"writable", "copying"}
        PROVE  \E p \in Patches : p = call'[t].patch /\ There(p)' = entry'[p].saved
    <3>1. PICK p \in Work(t) : p = call[t].patch
      BY <2>2, WorkFacts DEF Idle
    <3>2. There(p) = entry[p].saved
      BY <2>2, <3>1 DEF NInv, WorkInv
    <3>3. There(p)' = entry'[p].saved /\ p \in Patches /\ p = call'[t].patch
      BY <1>2, <2>2, <3>1, <3>2
    <3> QED BY <3>3
  <2>3. ASSUME call'[t].op = "remove", NEW p \in Work(t)',
               p = call'[t].patch => call'[t].pc \in {"writable", "copying"}
        PROVE  (p \in Live' /\ OnTop(p)') \/ Undone(p)'
    <3>1. (p \in Live /\ OnTop(p)) \/ Undone(p)
      BY <2>3 DEF NInv, WorkInv
    <3> QED BY <1>2, <2>3, <3>1
  <2>4. \A u \in Threads \ {t} : \A p \in Work(t)', q \in Work(u) :
          CellsOf(p)' \intersect CellsOf(q) = {}
    BY <1>2 DEF NInv, WorkInv
  <2> QED BY <2>1, <2>2, <2>3, <2>4, WorkStep DEF NInv
<1> QED BY <1>1, <1>3

LEMMA NMakeWritable ==
  ASSUME MInv, NInv, NEW t \in Threads, MakeWritable(t), UNCHANGED <<bpById, hooksById>>
  PROVE  NInv'
<1>1. call[t].pc = "writable" /\ page' = "rw" /\ UNCHANGED <<code, entry, released>>
  BY DEF MakeWritable, At
<1>2. /\ \A u \in Threads \ {t} : call'[u] = call[u]
      /\ call'[t].pc = "copying" /\ call'[t].op = call[t].op /\ call'[t].patch = call[t].patch
      /\ call'[t].all = call[t].all /\ call'[t].todo = call[t].todo
  BY DEF MakeWritable, MInv, TypeOK, CallStates
<1>3. Registered' = Registered
  BY DEF Registered
<1>4. Live' = Live
  BY <1>1, <1>2, <1>3, LiveStays
<1>5. Work(t)' = Work(t)
  BY <1>2 DEF Work
<1>6. StackInv' /\ WorkInv'
  BY <1>1, <1>2, <1>4, <1>5, NQuiet
<1>7. CleanInv'
  <2>1. \A q \in Registered' \intersect released' :
          /\ q \in Patches /\ entry[q] # NoEntry
          /\ q \in Registered \intersect released
          /\ call[t].patch = q => call[t].pc # "erasing"
    BY <1>1, <1>3, RegisteredFacts
  <2>2. call'[t].all => \A q \in call'[t].todo \union {call'[t].patch} :
          q \in Patches /\ entry[q] # NoEntry /\ Clean(q)
    <3>1. call[t] # Idle
      BY <1>1 DEF Idle
    <3>2. call[t].todo \union {call[t].patch} \subseteq Work(t)
      BY <3>1, WorkFacts DEF Work
    <3>3. call[t].all => \A q \in call[t].todo \union {call[t].patch} : Clean(q)
      BY DEF NInv, CleanInv
    <3> QED BY <1>2, <3>2, <3>3, WorkFacts
  <2>3. \A q \in Patches : entry[q] # NoEntry => entry'[q] = entry[q]
    BY <1>1
  <2> QED BY <1>2, <2>1, <2>2, <2>3, CleanStep DEF NInv
<1>8. PageInv'
  BY <1>2 DEF PageInv
<1> QED BY <1>6, <1>7, <1>8 DEF NInv

LEMMA NMakeExecutable ==
  ASSUME MInv, NInv, NEW t \in Threads, MakeExecutable(t), UNCHANGED <<bpById, hooksById>>
  PROVE  NInv'
<1>1. call[t].pc = "executable" /\ page' = "rx" /\ UNCHANGED <<code, entry, released>>
  BY DEF MakeExecutable, At
<1>2. /\ \A u \in Threads \ {t} : call'[u] = call[u]
      /\ call'[t].pc = IF call[t].op = "set" THEN "registering" ELSE "releasing"
      /\ call'[t].op = call[t].op /\ call'[t].patch = call[t].patch
      /\ call'[t].all = call[t].all /\ call'[t].todo = call[t].todo
  BY DEF MakeExecutable, MInv, TypeOK, CallStates
<1>3. Registered' = Registered
  BY DEF Registered
<1>4. Live' = Live
  <2>1. call[t].op \in {"set", "remove"}
    BY <1>1, Alone DEF Idle
  <2> QED BY <1>1, <1>2, <1>3, <2>1, LiveStays
<1>5. Work(t)' = Work(t)
  BY <1>2 DEF Work
<1>6. StackInv' /\ WorkInv'
  BY <1>1, <1>2, <1>4, <1>5, NQuiet
<1>7. CleanInv'
  <2>1. \A q \in Registered' \intersect released' :
          /\ q \in Patches /\ entry[q] # NoEntry
          /\ q \in Registered \intersect released
          /\ call[t].patch = q => call[t].pc # "erasing"
    BY <1>1, <1>3, RegisteredFacts
  <2>2. call'[t].all => \A q \in call'[t].todo \union {call'[t].patch} :
          q \in Patches /\ entry[q] # NoEntry /\ Clean(q)
    <3>1. call[t] # Idle
      BY <1>1 DEF Idle
    <3>2. call[t].todo \union {call[t].patch} \subseteq Work(t)
      BY <3>1, WorkFacts DEF Work
    <3>3. call[t].all => \A q \in call[t].todo \union {call[t].patch} : Clean(q)
      BY DEF NInv, CleanInv
    <3> QED BY <1>2, <3>2, <3>3, WorkFacts
  <2>3. \A q \in Patches : entry[q] # NoEntry => entry'[q] = entry[q]
    BY <1>1
  <2> QED BY <1>2, <2>1, <2>2, <2>3, CleanStep DEF NInv
<1>8. PageInv'
  BY <1>1 DEF PageInv
<1> QED BY <1>6, <1>7, <1>8 DEF NInv

\* A failed mprotect() before the write leaves everything as it was before the call.
LEMMA NProtectFails ==
  ASSUME MInv, NInv, Whole, NEW t \in Threads, ProtectFails(t), UNCHANGED <<bpById, hooksById>>
  PROVE  NInv'
<1>1. /\ call[t].pc = "writable"
      /\ UNCHANGED <<code, page, entry, released>> /\ call' = [call EXCEPT ![t] = Idle]
  <2>1. call[t].pc \in Failures /\ call[t].pc \in {"idle", "writable", "copying", "executable",
                                                  "registering", "releasing", "erasing"}
    BY DEF ProtectFails, MInv, TypeOK, CallStates
  <2>2. Failures \subseteq {"relocation", "writable"}
    BY CodeConstants DEF AllFailures, Whole
  <2> QED BY <2>1, <2>2 DEF ProtectFails, codeVars
<1>2. /\ \A u \in Threads \ {t} : call'[u] = call[u]
      /\ call'[t] = Idle
  BY <1>1 DEF MInv, TypeOK
<1>3. Registered' = Registered
  BY DEF Registered
<1>i. Idle.pc = "idle" /\ Idle.op = "none" /\ Idle.patch = NoPatch /\ Idle.todo = {} /\ ~Idle.all
  BY DEF Idle
<1>4. Live' = Live
  BY <1>1, <1>2, <1>3, <1>i, LiveStays
<1>5. Work(t)' = {}
  BY <1>2, <1>i DEF Work
<1>6. StackInv' /\ WorkInv'
  BY <1>1, <1>2, <1>4, <1>5, <1>i, NQuiet
<1>7. CleanInv'
  <2>1. \A q \in Registered' \intersect released' :
          /\ q \in Patches /\ entry[q] # NoEntry
          /\ q \in Registered \intersect released
          /\ call[t].patch = q => call[t].pc # "erasing"
    BY <1>1, <1>3, RegisteredFacts
  <2>2. \A q \in Patches : entry[q] # NoEntry => entry'[q] = entry[q]
    BY <1>1
  <2> QED BY <1>2, <1>i, <2>1, <2>2, CleanStep DEF NInv
<1>8. PageInv'
  <2>1. ASSUME page' = "rw"
        PROVE  \E u \in Threads : call'[u].pc \in {"copying", "executable"}
    <3>1. PICK u \in Threads : call[u].pc \in {"copying", "executable"}
      BY <1>1, <2>1 DEF NInv, PageInv
    <3> QED BY <1>1, <1>2, <3>1
  <2> QED BY <2>1 DEF PageInv
<1> QED BY <1>6, <1>7, <1>8 DEF NInv

\* The write: a patch goes on top, or the one on top goes away.
LEMMA NCopy ==
  ASSUME MInv, NInv, NEW t \in Threads, Copy(t), UNCHANGED <<bpById, hooksById>>
  PROVE  NInv'
<1>1. call[t].pc = "copying" /\ call[t] # Idle /\ UNCHANGED <<page, entry, released>>
  BY DEF Copy, At, Idle
<1>2. CASE page # "rw"
  <2>1. UNCHANGED <<code, page, entry, released, call, bpById, hooksById>>
    BY <1>1, <1>2 DEF Copy
  <2> QED BY <2>1, NKeep
<1>3. CASE page = "rw"
  <2>1. /\ \A u \in Threads \ {t} : call'[u] = call[u]
        /\ call'[t].pc = "executable" /\ call'[t].op = call[t].op
        /\ call'[t].patch = call[t].patch
        /\ call'[t].all = call[t].all /\ call'[t].todo = call[t].todo
    BY <1>3 DEF Copy, MInv, TypeOK, CallStates
  <2>2. Registered' = Registered
    BY DEF Registered
  <2>3. PICK p \in Patches : p = call[t].patch /\ entry[p] # NoEntry
    BY <1>1, Alone
  <2>4. /\ \A c \in Cells \ CellsOf(p) : code'[c] = code[c]
        /\ call[t].op = "set" => \A c \in CellsOf(p) : code'[c] = Patched(p, c)
        /\ call[t].op = "remove" => \A c \in CellsOf(p) : code'[c] = Saved(p, c)
        /\ DOMAIN code' = Cells
    BY <1>1, <1>3, <2>3, CopyWrites
  <2>5. CellsOf(p) \subseteq Cells /\ CellsOf(p) # {}
    BY <2>3, PatchFacts
  <2>6. Work(t)' = Work(t) /\ p \in Work(t)
    BY <1>1, <2>1, <2>3, WorkFacts DEF Work
  <2>7. ASSUME NEW u \in Threads \ {t}, NEW q \in Work(u)
        PROVE  /\ entry'[q] = entry[q] /\ q # p
               /\ \A c \in CellsOf(q) : code'[c] = code[c]
    <3>1. CellsOf(p) \intersect CellsOf(q) = {}
      BY <2>6, <2>7 DEF NInv, WorkInv
    <3>2. CellsOf(q) \subseteq Cells
      BY <2>7, WorkFacts, PatchFacts
    <3> QED BY <1>1, <2>4, <2>5, <3>1, <3>2
  <2>8. CleanInv'
    <3>1. \A q \in Registered' \intersect released' :
            /\ q \in Patches /\ entry[q] # NoEntry
            /\ q \in Registered \intersect released
            /\ call[t].patch = q => call[t].pc # "erasing"
      BY <1>1, <2>2, RegisteredFacts
    <3>2. call'[t].all => \A q \in call'[t].todo \union {call'[t].patch} :
            q \in Patches /\ entry[q] # NoEntry /\ Clean(q)
      <4>1. call[t].todo \union {call[t].patch} \subseteq Work(t)
        BY <1>1, WorkFacts DEF Work
      <4>2. call[t].all => \A q \in call[t].todo \union {call[t].patch} : Clean(q)
        BY DEF NInv, CleanInv
      <4> QED BY <2>1, <4>1, <4>2, WorkFacts
    <3>3. \A q \in Patches : entry[q] # NoEntry => entry'[q] = entry[q]
      BY <1>1
    <3> QED BY <2>1, <3>1, <3>2, <3>3, CleanStep DEF NInv
  <2>9. PageInv'
    BY <2>1 DEF PageInv
  <2>10. \A u \in Threads \ {t} : \A x \in Work(t)', q \in Work(u) :
           CellsOf(x)' \intersect CellsOf(q) = {}
    <3>1. \A x : CellsOf(x)' = CellsOf(x)
      BY <1>1 DEF CellsOf, Covered
    <3> QED BY <2>6, <3>1 DEF NInv, WorkInv
  <2>11. \A u \in Threads \ {t} : call[u].patch # p
    BY <1>1, <2>3, Alone
  <2>12. CASE call[t].op = "set"
    <3>1. Sets(t) /\ Known(p)
      BY <1>1, <2>3, <2>12, Alone DEF Known
    <3>2. p \notin Registered /\ p \notin released
      BY <2>3, <3>1, RegisteredFacts DEF Sets
    <3>3. p \notin Live
      <4>1. ~Setting(p, {"executable", "registering"})
        BY <1>1, <2>11 DEF Setting
      <4> QED BY <3>2, <4>1 DEF Live
    <3>4. Live' = Live \union {p}
      <4>1. ASSUME NEW q \in Patches
            PROVE  q \in Live' <=> q \in Live \/ q = p
        <5>1. CASE q = p
          <6>1. Setting(p, {"executable", "registering"})'
            BY <2>1, <2>3, <2>12 DEF Setting
          <6> QED BY <5>1, <6>1 DEF Live, Patches
        <5>2. CASE q # p
          <6>1. Setting(q, {"executable", "registering"})'
                <=> Setting(q, {"executable", "registering"})
            BY <2>1, <2>3, <5>2 DEF Setting
          <6>2. Removing(q, {"executable", "releasing"})' <=> Removing(q, {"executable", "releasing"})
            BY <2>1, <2>3, <5>2 DEF Removing
          <6> QED BY <1>1, <2>2, <5>2, <6>1, <6>2 DEF Live
        <5> QED BY <5>1, <5>2
      <4>2. Live \subseteq Patches /\ Live' \subseteq Patches
        BY DEF Live, Patches
      <4> QED BY <4>1, <4>2
    <3>5. There(p) = entry[p].saved
      BY <1>1, <2>3, <2>12 DEF NInv, WorkInv
    <3>6. StackInv'
      BY <1>1, <2>4, <2>12, <3>1, <3>3, <3>4, <3>5, StackPushed DEF NInv
    <3>7. WorkInv'
      <4>1. \A u \in Threads \ {t} : \A q \in Work(u) :
              /\ entry'[q] = entry[q] /\ \A c \in CellsOf(q) : code'[c] = code[c]
              /\ q \in Live => q \in Live'
        BY <2>7, <3>4
      <4>2. released \subseteq released' /\ WorkInv /\ call'[t].op = "set"
            /\ call'[t].pc = "executable"
        BY <1>1, <2>1, <2>12 DEF NInv
      <4> QED BY <2>1, <2>10, <4>1, <4>2, WorkStep
    <3> QED BY <2>8, <2>9, <3>6, <3>7 DEF NInv
  <2>13. CASE call[t].op = "remove"
    <3>1. Removes(t)
      BY <1>1, <2>13, Alone
    <3>2. p \in Registered /\ Known(p)
      BY <2>3, <3>1 DEF Removes, IdOf, Registered, Known
    <3>3. (p \in Live /\ OnTop(p)) \/ Undone(p)
      BY <1>1, <2>3, <2>6, <2>13 DEF NInv, WorkInv
    <3>4. Live' = Live \ {p}
      <4>1. ASSUME NEW q \in Patches
            PROVE  q \in Live' <=> q \in Live /\ q # p
        <5>1. CASE q = p
          <6>1. Removing(p, {"executable", "releasing"})'
            BY <2>1, <2>3, <2>13 DEF Removing
          <6>2. ~Setting(p, {"executable", "registering"})'
            BY <2>1, <2>3, <2>11, <2>13 DEF Setting
          <6> QED BY <5>1, <6>1, <6>2 DEF Live
        <5>2. CASE q # p
          <6>1. Setting(q, {"executable", "registering"})'
                <=> Setting(q, {"executable", "registering"})
            BY <2>1, <2>3, <5>2 DEF Setting
          <6>2. Removing(q, {"executable", "releasing"})' <=> Removing(q, {"executable", "releasing"})
            BY <2>1, <2>3, <5>2 DEF Removing
          <6> QED BY <1>1, <2>2, <5>2, <6>1, <6>2 DEF Live
        <5> QED BY <5>1, <5>2
      <4>2. Live \subseteq Patches /\ Live' \subseteq Patches
        BY DEF Live, Patches
      <4> QED BY <4>1, <4>2
    <3>5. ASSUME Undone(p)
          PROVE  code' = code /\ Live' = Live
      <4>1. \A c \in CellsOf(p) : code[c] = Saved(p, c)
        BY <2>3, <3>5, PatchFacts DEF Undone
      <4>2. \A c \in Cells : code'[c] = code[c]
        BY <2>4, <2>13, <4>1
      <4>3. code \in [Cells -> Contents] /\ code' \in [Cells -> Contents]
        BY CopyTyped DEF MInv, TypeOK
      <4>4. code' = code
        BY <4>2, <4>3
      <4>5. p \notin Live
        BY <3>5, LiveFacts DEF Undone
      <4> QED BY <3>4, <4>4, <4>5
    <3>6. StackInv'
      <4>1. CASE Undone(p)
        BY <1>1, <3>5, <4>1, StackStill DEF NInv
      <4>2. CASE p \in Live /\ OnTop(p)
        BY <1>1, <2>4, <2>13, <3>4, <4>2, StackPopped DEF NInv
      <4> QED BY <3>3, <4>1, <4>2
    <3>7. ASSUME NEW q \in Work(t), q # p
          PROVE  (q \in Live' /\ OnTop(q)') \/ Undone(q)'
      <4>1. (q \in Live /\ OnTop(q)) \/ Undone(q)
        BY <2>3, <2>13, <3>7 DEF NInv, WorkInv
      <4>2. q \in Patches /\ entry[q] # NoEntry /\ CellsOf(q) \subseteq Cells
        BY <3>7, WorkFacts, PatchFacts
      <4>3. q \in call[t].todo
        BY <2>3, <3>7 DEF Work
      <4>4. call[t].all /\ q.of = p.of /\ q \in Registered
        <5>1. q \in IdOf(p.of) /\ call[t].all
          BY <2>3, <3>1, <4>3 DEF Removes
        <5>2. q \in Registered
          BY <5>1 DEF IdOf, Registered
        <5>3. p.of \in Kinds
          BY PatchKinds
        <5> QED BY <5>1, <5>2, <5>3 DEF MInv, MapsInv, MapOK
      <4>5. Clean(q)
        BY <4>3, <4>4 DEF NInv, CleanInv
      <4>6. \A c \in CellsOf(q) : code'[c] = code[c]
        <5>1. CASE Undone(p)
          BY <3>5, <5>1
        <5>2. CASE p \in Live /\ OnTop(p)
          <6>1. ASSUME NEW c \in CellsOf(q) \intersect CellsOf(p)
                PROVE  FALSE
            <7>1. code[c] = Patched(p, c)
              BY <2>3, <5>2, PatchFacts
            <7>2. CASE q \in Live /\ OnTop(q)
              <8>1. code[c] = Patched(q, c)
                BY <4>2, <7>2, PatchFacts
              <8>2. Known(q)
                BY <4>4 DEF Known
              <8> QED BY <3>2, <3>7, <7>1, <8>1, <8>2, Distinct
            <7>3. CASE Undone(q)
              <8>1. code[c] = Saved(q, c)
                BY <4>2, <7>3, PatchFacts DEF Undone
              <8>2. Patched(p, c).kind = Patched(q, c).kind
                BY <2>3, <4>2, <4>4, SameKind
              <8> QED BY <4>5, <7>1, <8>1, <8>2 DEF Clean
            <7> QED BY <4>1, <7>2, <7>3
          <6> QED BY <2>4, <4>2, <6>1
        <5> QED BY <3>3, <5>1, <5>2
      <4>7. There(q)' = There(q) /\ (OnTop(q)' <=> OnTop(q))
        BY <1>1, <4>2, <4>6, ThereStays
      <4> QED BY <1>1, <3>4, <3>7, <4>1, <4>7 DEF Undone
    <3>8. WorkInv'
      <4>1. \A u \in Threads \ {t} : \A q \in Work(u) :
              /\ entry'[q] = entry[q] /\ \A c \in CellsOf(q) : code'[c] = code[c]
              /\ q \in Live => q \in Live'
        BY <2>7, <3>4
      <4>2. released \subseteq released' /\ WorkInv /\ call'[t].op = "remove"
            /\ call'[t].pc = "executable" /\ call'[t].patch = p
        BY <1>1, <2>1, <2>3, <2>13 DEF NInv
      <4>3. \A q \in Work(t)' : (q = call'[t].patch => call'[t].pc \in {"writable", "copying"}) =>
              (q \in Live' /\ OnTop(q)') \/ Undone(q)'
        BY <2>6, <3>7, <4>2
      <4> QED BY <2>1, <2>10, <4>1, <4>2, <4>3, WorkStep
    <3> QED BY <2>8, <2>9, <3>6, <3>8 DEF NInv
  <2> QED BY <1>1, <2>12, <2>13, Alone
<1> QED BY <1>2, <1>3

\* A release: the patch is no longer live since its bytes are gone.
LEMMA NRelease ==
  ASSUME MInv, NInv, NEW t \in Threads, Release(t), UNCHANGED <<bpById, hooksById>>
  PROVE  NInv'
<1>1. /\ call[t].pc = "releasing" /\ call[t] # Idle
      /\ UNCHANGED <<code, page, entry>> /\ released' = released \union {call[t].patch}
  BY DEF Release, At, Idle
<1>2. Removes(t) /\ call[t].op = "remove"
  BY <1>1, Alone DEF Sets
<1>3. PICK p \in Patches : p = call[t].patch /\ entry[p] # NoEntry
  BY <1>1, Alone
<1>4. \A u \in Threads \ {t} : call'[u] = call[u]
  BY DEF Release, MInv, TypeOK
<1>5. /\ call'[t].todo \union {call'[t].patch} \subseteq call[t].todo \union {p}
      /\ call'[t].op = "remove" /\ call'[t].patch \in Patches
      /\ \/ call'[t].pc = "erasing" /\ call'[t].patch = p /\ call'[t].all = call[t].all
            /\ call'[t].todo = {}
         \/ call'[t].pc = "writable" /\ call'[t].patch # p /\ call[t].all
            /\ p \notin call'[t].todo
  <2>1. CASE call[t].todo = {}
    <3>1. call' = [call EXCEPT ![t].pc = "erasing"]
      BY <2>1 DEF Release
    <3>2. /\ call'[t].pc = "erasing" /\ call'[t].patch = p /\ call'[t].all = call[t].all
          /\ call'[t].todo = {} /\ call'[t].op = "remove"
      BY <1>2, <1>3, <2>1, <3>1 DEF MInv, TypeOK, CallStates
    <3> QED BY <1>3, <3>2
  <2>2. CASE call[t].todo # {}
    <3>1. PICK q \in call[t].todo :
            call' = [call EXCEPT ![t] = Undoing(t, q, call[t].todo \ {q}, TRUE)]
      BY <2>2 DEF Release
    <3>2. /\ call'[t].pc = "writable" /\ call'[t].patch = q /\ call'[t].op = "remove"
          /\ call'[t].todo = call[t].todo \ {q}
      BY <3>1 DEF MInv, TypeOK, Undoing
    <3>3. p \notin call[t].todo /\ call[t].all
      BY <1>2, <1>3, <2>2 DEF Removes
    <3>4. q \in Patches
      BY DEF MInv, TypeOK, CallStates
    <3> QED BY <3>2, <3>3, <3>4
  <2> QED BY <2>1, <2>2
<1>6. Registered' = Registered
  BY DEF Registered
<1>7. \A u \in Threads \ {t} : call[u].patch # p
  BY <1>1, <1>3, Alone
<1>8. p \notin Live /\ p \notin Live'
  <2>1. ~Setting(p, {"executable", "registering"})
    BY <1>2, <1>7 DEF Setting
  <2>2. Removing(p, {"executable", "releasing"})
    BY <1>1, <1>2, <1>3 DEF Removing
  <2>3. ~Setting(p, {"executable", "registering"})'
    BY <1>4, <1>5, <1>7 DEF Setting
  <2> QED BY <1>1, <1>3, <2>1, <2>2, <2>3 DEF Live
<1>9. Live' = Live
  <2>1. ASSUME NEW q \in Patches, q # p
        PROVE  q \in Live' <=> q \in Live
    <3>1. Setting(q, {"executable", "registering"})'
          <=> Setting(q, {"executable", "registering"})
      BY <1>2, <1>4, <1>5 DEF Setting
    <3>2. Removing(q, {"executable", "releasing"})' <=> Removing(q, {"executable", "releasing"})
      BY <1>3, <1>4, <1>5, <2>1 DEF Removing
    <3>3. q \in Registered' \ released' <=> q \in Registered \ released
      BY <1>1, <1>3, <1>6, <2>1
    <3> QED BY <3>1, <3>2, <3>3 DEF Live
  <2>2. Live \subseteq Patches /\ Live' \subseteq Patches
    BY DEF Live, Patches
  <2> QED BY <1>8, <2>1, <2>2
<1>10. /\ Work(t)' = call'[t].todo \union {call'[t].patch}
       /\ Work(t) = call[t].todo \union {p}
  BY <1>3, <1>5, PatchKinds DEF Work
<1>11. StackInv' /\ WorkInv'
  <2>1. Work(t)' \subseteq Work(t)
    BY <1>5, <1>10
  <2>2. \A q \in Work(t)' : (q = call'[t].patch => call'[t].pc \in {"writable", "copying"}) =>
          call[t].op = "remove" /\ (q = call[t].patch => call[t].pc \in {"writable", "copying"})
    BY <1>2, <1>3, <1>5, <1>10
  <2> QED BY <1>1, <1>4, <1>5, <1>9, <2>1, <2>2, NQuiet
<1>12. call[t].all => \A q \in Work(t) : Clean(q)
  BY <1>3, <1>10 DEF NInv, CleanInv
<1>13. CleanInv'
  <2>1. ASSUME NEW q \in Registered' \intersect released'
        PROVE  /\ q \in Patches /\ entry[q] # NoEntry
               /\ \/ /\ q \in Registered \intersect released
                     /\ call[t].patch = q => call[t].pc # "erasing"
                  \/ Clean(q)
                  \/ call'[t].patch = q /\ call'[t].pc = "erasing" /\ ~call'[t].all
    <3>1. q \in Patches /\ entry[q] # NoEntry
      BY <1>6, RegisteredFacts
    <3>2. CASE q = p
      <4>1. call[t].all \/ (call'[t].patch = p /\ call'[t].pc = "erasing" /\ ~call'[t].all)
        BY <1>5
      <4>2. call[t].all => Clean(p)
        BY <1>10, <1>12
      <4> QED BY <3>1, <3>2, <4>1, <4>2
    <3>3. CASE q # p
      BY <1>1, <1>3, <1>6, <3>1, <3>3
    <3> QED BY <3>2, <3>3
  <2>2. call'[t].all => \A q \in call'[t].todo \union {call'[t].patch} :
          q \in Patches /\ entry[q] # NoEntry /\ Clean(q)
    BY <1>5, <1>10, <1>12, WorkFacts
  <2>3. \A q \in Patches : entry[q] # NoEntry => entry'[q] = entry[q]
    BY <1>1
  <2> QED BY <1>4, <2>1, <2>2, <2>3, CleanStep DEF NInv
<1>14. PageInv'
  <2>1. ASSUME page' = "rw"
        PROVE  \E u \in Threads : call'[u].pc \in {"copying", "executable"}
    <3>1. PICK u \in Threads : call[u].pc \in {"copying", "executable"}
      BY <1>1, <2>1 DEF NInv, PageInv
    <3> QED BY <1>1, <1>4, <3>1
  <2> QED BY <2>1 DEF PageInv
<1> QED BY <1>11, <1>13, <1>14 DEF NInv

\* The end of a call: what gets into the maps is live, what gets out of them is not.
LEMMA NEnds ==
  ASSUME MInv, NInv, NEW t \in Threads, call[t].pc \in {"registering", "erasing"},
         call' = [call EXCEPT ![t] = Idle], UNCHANGED codeVars,
         call[t].pc = "registering" => Registered' = Registered \union {call[t].patch},
         call[t].pc = "erasing" =>
           Registered' = Registered \ IF call[t].all THEN IdOf(call[t].patch.of)
                                      ELSE {call[t].patch}
  PROVE  NInv'
<1> USE DEF codeVars
<1>1. call[t] # Idle
  BY DEF Idle
<1>2. /\ \A u \in Threads \ {t} : call'[u] = call[u]
      /\ call'[t].pc = "idle" /\ call'[t].op = "none" /\ call'[t].patch = NoPatch
      /\ call'[t].todo = {} /\ ~call'[t].all
  BY DEF MInv, TypeOK, Idle
<1>3. PICK p \in Patches : p = call[t].patch /\ entry[p] # NoEntry
  BY <1>1, Alone
<1>4. \A u \in Threads \ {t} : call[u].patch # p
  BY <1>1, <1>3, Alone
<1>5. call[t].pc = "registering" => Sets(t)
  BY <1>1, Alone DEF Removes
<1>6. call[t].pc = "erasing" => Removes(t)
  BY <1>1, Alone DEF Sets
<1>7. /\ Live' = Live
      /\ \A q \in Registered' \intersect released' : q \in Registered \intersect released /\ q # p
  <2>1. CASE call[t].pc = "registering"
    <3>1. p \notin released /\ call[t].op = "set" /\ Registered' = Registered \union {p}
      BY <1>3, <1>5, <2>1 DEF Sets
    <3>2. p \in Live
      BY <1>3, <2>1, <3>1 DEF Live, Setting
    <3>3. p \in Live'
      <4>1. ~Removing(p, {"executable", "releasing"})'
        BY <1>2, <1>4 DEF Removing
      <4> QED BY <1>3, <3>1, <4>1 DEF Live, Patches
    <3>4. ASSUME NEW q \in Patches, q # p
          PROVE  q \in Live' <=> q \in Live
      <4>1. Setting(q, {"executable", "registering"})'
            <=> Setting(q, {"executable", "registering"})
        BY <1>2, <1>3, <3>4 DEF Setting
      <4>2. Removing(q, {"executable", "releasing"})' <=> Removing(q, {"executable", "releasing"})
        BY <1>2, <1>3, <3>4 DEF Removing
      <4>3. q \in Registered' \ released' <=> q \in Registered \ released
        BY <3>1, <3>4
      <4> QED BY <4>1, <4>2, <4>3 DEF Live, Patches
    <3>5. Live \subseteq Patches /\ Live' \subseteq Patches
      BY DEF Live, Patches
    <3> QED BY <3>1, <3>2, <3>3, <3>4, <3>5
  <2>2. CASE call[t].pc = "erasing"
    <3> DEFINE gone == IF call[t].all THEN IdOf(p.of) ELSE {p}
    <3>1. gone \subseteq released /\ p \in gone /\ Registered' = Registered \ gone
      BY <1>3, <1>6, <2>2 DEF Removes
    <3>2. Registered' \ released' = Registered \ released
      BY <3>1
    <3>3. Live' = Live
      BY <1>2, <2>2, <3>2, LiveStays
    <3> QED BY <3>1, <3>3
  <2> QED BY <2>1, <2>2
<1>8. Work(t)' = {}
  BY <1>2 DEF Work
<1>9. StackInv' /\ WorkInv'
  BY <1>2, <1>7, <1>8, NQuiet
<1>10. CleanInv'
  <2>1. \A q \in Registered' \intersect released' :
          /\ q \in Patches /\ entry[q] # NoEntry
          /\ q \in Registered \intersect released
          /\ call[t].patch = q => call[t].pc # "erasing"
    BY <1>3, <1>7, RegisteredFacts
  <2> QED BY <1>2, <2>1, CleanStep DEF NInv
<1>11. PageInv'
  <2>1. ASSUME page' = "rw"
        PROVE  \E u \in Threads : call'[u].pc \in {"copying", "executable"}
    <3>1. PICK u \in Threads : call[u].pc \in {"copying", "executable"}
      BY <2>1 DEF NInv, PageInv
    <3> QED BY <1>2, <3>1
  <2> QED BY <2>1 DEF PageInv
<1> QED BY <1>9, <1>10, <1>11 DEF NInv

LEMMA NInitially == Init => NInv
<1> SUFFICES ASSUME Init PROVE NInv
  OBVIOUS
<1> USE DEF Init, CodeInit, BreakpointInit, InterceptorInit
<1>1. \A t \in Threads : call[t] = Idle
  OBVIOUS
<1>2. Registered = {}
  BY DEF Registered
<1>3. Live = {}
  BY <1>1, <1>2 DEF Live, Setting, Idle
<1>4. StackInv
  BY <1>3 DEF StackInv, Original
<1>5. CleanInv
  BY <1>1, <1>2 DEF CleanInv, Idle
<1>6. WorkInv
  BY <1>1 DEF WorkInv, Work, Idle
<1>7. PageInv
  BY DEF PageInv
<1> QED BY <1>4, <1>5, <1>6, <1>7 DEF NInv

LEMMA NStep ==
  ASSUME MInv, NInv, Nested, Whole, [Next]_vars
  PROVE  NInv'
<1> USE DEF bpVars, hookVars
<1>k. /\ "breakpoint" \in Kinds /\ IdOf("breakpoint") = bpById
      /\ AddressOf("breakpoint") = bpByAddress
      /\ "hook" \in Kinds /\ IdOf("hook") = hooksById /\ AddressOf("hook") = hooksByTarget
      /\ WidthOf("breakpoint") = 1 /\ WidthOf("hook") = PatchSize
  BY DEF Kinds, IdOf, AddressOf, WidthOf
<1>1. CASE UNCHANGED vars
  <2>1. UNCHANGED <<code, page, entry, released, call, bpById, hooksById>>
    BY <1>1 DEF vars, codeVars
  <2> QED BY <2>1, NKeep
<1>2. ASSUME NEW t \in Threads, Enter(t) \/ EnterFromCall(t) \/ ThreadStep(t)
      PROVE  NInv'
  <2>1. UNCHANGED <<code, page, entry, released, call, bpById, hooksById>>
    BY <1>2 DEF Enter, EnterFromCall, ThreadStep, Execute, Trap, TakeJump, RunsAstray, Leave,
         CallCallback, CallOnLeave, RunRelocated, ExecuteRelocated, RunsCopiedPatch, JumpBack,
         ReplacementReturns, CallOriginal, RunsReleased, SignalStep, Redirect, Unclaimed, Move,
         Dies, codeVars
  <2> QED BY <2>1, NKeep
<1>3. ASSUME NEW t \in Threads, BreakpointCall(t)
      PROVE  NInv'
  <2>1. ASSUME NEW a \in Cells, SetBreakpoint(t, a) PROVE NInv'
    <3>1. /\ call[t] = Idle /\ Build(t, "breakpoint", "breakpoint", a, WidthOf("breakpoint"))
          /\ UNCHANGED <<bpById, hooksById>>
      BY <1>k, <1>3, <2>1 DEF SetBreakpoint, CanSet, MayCall, BreakpointCall
    <3> QED BY <1>k, <3>1, NBuild
  <2>2. ASSUME NEW a \in Cells, SetFails(t, a) PROVE NInv'
    <3>1. UNCHANGED <<code, page, entry, released, call, bpById, hooksById>>
      BY <1>3, <2>2 DEF SetFails, codeVars, BreakpointCall
    <3> QED BY <3>1, NKeep
  <2>3. ASSUME NEW p \in bpById, RemoveBreakpoint(t, p) PROVE NInv'
    <3>1. call[t] = Idle /\ ~Locked("breakpoint") /\ StartUndo(t, p, {}, FALSE)
          /\ UNCHANGED <<bpById, hooksById>>
      BY <1>3, <2>3 DEF RemoveBreakpoint, CanRemove, MayCall, BreakpointCall
    <3> QED BY <1>k, <3>1, NStartUndo
  <2>4. ASSUME RemoveAll(t) PROVE NInv'
    <3>1. PICK p \in bpById : StartUndo(t, p, bpById \ {p}, TRUE)
      BY <2>4 DEF RemoveAll
    <3>2. call[t] = Idle /\ ~Locked("breakpoint") /\ UNCHANGED <<bpById, hooksById>>
      BY <1>3, <2>4 DEF RemoveAll, CanRemove, MayCall, BreakpointCall
    <3> QED BY <1>k, <3>1, <3>2, NStartUndo
  <2>5. ASSUME RemoveAllOfNone(t) PROVE NInv'
    <3>1. UNCHANGED <<code, page, entry, released, call, bpById, hooksById>>
      BY <1>3, <2>5 DEF RemoveAllOfNone, codeVars, BreakpointCall
    <3> QED BY <3>1, NKeep
  <2>6. ASSUME RegisterBreakpoint(t) PROVE NInv'
    <3>1. /\ call[t].pc = "registering" /\ call' = [call EXCEPT ![t] = Idle] /\ UNCHANGED codeVars
          /\ Registered' = Registered \union {call[t].patch}
      BY <1>3, <2>6 DEF RegisterBreakpoint, Working, At, Registered, BreakpointCall
    <3> QED BY <3>1, NEnds
  <2>7. ASSUME EraseBreakpoint(t) PROVE NInv'
    <3>1. /\ call[t].pc = "erasing" /\ call' = [call EXCEPT ![t] = Idle] /\ UNCHANGED codeVars
          /\ call[t].patch.of = "breakpoint"
      BY <2>7 DEF EraseBreakpoint, Working, At
    <3>2. Registered' = Registered \ IF call[t].all THEN IdOf("breakpoint") ELSE {call[t].patch}
      <4>1. IdOf("breakpoint") \intersect hooksById = {} /\ call[t].patch \notin hooksById
        BY <1>k, <3>1 DEF MInv, MapsInv, MapOK
      <4>2. bpById' = bpById \ (IF call[t].all THEN bpById ELSE {call[t].patch})
            /\ hooksById' = hooksById
        BY <1>3, <2>7 DEF EraseBreakpoint, BreakpointCall
      <4> QED BY <1>k, <4>1, <4>2 DEF Registered
    <3> QED BY <3>1, <3>2, NEnds
  <2> QED BY <1>3, <2>1, <2>2, <2>3, <2>4, <2>5, <2>6, <2>7 DEF BreakpointCall
<1>4. ASSUME NEW t \in Threads, HookCall(t)
      PROVE  NInv'
  <2>0. UNCHANGED bpById
    BY <1>4 DEF HookCall
  <2>1. ASSUME NEW a \in Cells, NEW kind, InstallHook(t, kind, a) PROVE NInv'
    <3>1. /\ call[t] = Idle /\ Build(t, "hook", kind, a, WidthOf("hook"))
          /\ UNCHANGED <<bpById, hooksById>>
      BY <1>k, <2>0, <2>1 DEF InstallHook, MayCall
    <3> QED BY <1>k, <3>1, NBuild
  <2>3. ASSUME NEW p \in hooksById, Detach(t, p) PROVE NInv'
    <3>1. call[t] = Idle /\ ~Locked("hook") /\ StartUndo(t, p, {}, FALSE)
          /\ UNCHANGED <<bpById, hooksById>>
      BY <2>0, <2>3 DEF Detach, CanDetach, MayCall
    <3> QED BY <1>k, <3>1, NStartUndo
  <2>4. ASSUME NEW a \in Cells, Revert(t, a) PROVE NInv'
    <3>1. PICK p \in hooksById : p = hooksByTarget[a]
      BY <2>4, <1>k DEF Revert, MInv, MapsInv, MapOK
    <3>2. call[t] = Idle /\ ~Locked("hook") /\ StartUndo(t, p, {}, FALSE)
          /\ UNCHANGED <<bpById, hooksById>>
      BY <2>0, <2>4, <3>1 DEF Revert, CanDetach, MayCall
    <3> QED BY <1>k, <3>2, NStartUndo
  <2>5. ASSUME DetachAll(t) PROVE NInv'
    <3>1. PICK p \in hooksById : StartUndo(t, p, hooksById \ {p}, TRUE)
      BY <2>5 DEF DetachAll
    <3>2. call[t] = Idle /\ ~Locked("hook") /\ UNCHANGED <<bpById, hooksById>>
      BY <2>0, <2>5 DEF DetachAll, CanDetach, MayCall
    <3> QED BY <1>k, <3>1, <3>2, NStartUndo
  <2>6. ASSUME RegisterHook(t) PROVE NInv'
    <3>1. /\ call[t].pc = "registering" /\ call' = [call EXCEPT ![t] = Idle] /\ UNCHANGED codeVars
          /\ Registered' = Registered \union {call[t].patch}
      BY <2>0, <2>6 DEF RegisterHook, Hooking, At, Registered
    <3> QED BY <3>1, NEnds
  <2>7. ASSUME EraseHook(t) PROVE NInv'
    <3>1. /\ call[t].pc = "erasing" /\ call' = [call EXCEPT ![t] = Idle] /\ UNCHANGED codeVars
          /\ call[t].patch.of = "hook"
      BY <2>7 DEF EraseHook, Hooking, At
    <3>2. Registered' = Registered \ IF call[t].all THEN IdOf("hook") ELSE {call[t].patch}
      <4>1. IdOf("hook") \intersect bpById = {} /\ call[t].patch \notin bpById
        BY <1>k, <3>1 DEF MInv, MapsInv, MapOK
      <4>2. hooksById' = hooksById \ (IF call[t].all THEN hooksById ELSE {call[t].patch})
        BY <2>7 DEF EraseHook
      <4> QED BY <1>k, <2>0, <4>1, <4>2 DEF Registered
    <3> QED BY <3>1, <3>2, NEnds
  <2> QED BY <1>4, <2>1, <2>3, <2>4, <2>5, <2>6, <2>7 DEF HookCall, Attach, Replace
<1>5. ASSUME NEW t \in Threads, CodeCall(t)
      PROVE  NInv'
  <2>1. UNCHANGED <<bpById, hooksById>>
    BY <1>5 DEF CodeCall
  <2> QED BY <1>5, <2>1, NMakeWritable, NCopy, NMakeExecutable, NProtectFails, NRelease DEF CodeCall
<1> QED BY <1>1, <1>2, <1>3, <1>4, <1>5 DEF Next

\* For a user who removes what is on top: the patches over each cell form a stack.
THEOREM StacksHold ==
  ASSUME Nested, Whole
  PROVE  Spec => [](MInv /\ NInv)
<1>1. Init => MInv /\ NInv
  BY MInitially, NInitially
<1>2. ASSUME MInv /\ NInv, [Next]_vars PROVE NInv'
  BY <1>2, NStep
<1>3. Spec => []MInv
  BY MHolds
<1>4. MInv /\ NInv /\ MInv' /\ [Next]_vars => (MInv /\ NInv)'
  BY <1>2
<1> QED BY <1>1, <1>3, <1>4, PTL DEF Spec

\* For such a user the code never has a jump of a patch whose trampoline and relocated
\* code went back to asmjit, at no step of any call.
THEOREM JumpsAlwaysLead ==
  ASSUME Nested, Whole
  PROVE  Spec => []JumpsLead
<1>1. MInv /\ NInv => JumpsLead
  <2> SUFFICES ASSUME MInv, NInv, NEW c \in Cells, code[c].kind = "jump"
               PROVE  code[c].patch \notin released
    BY DEF JumpsLead
  <2>1. PICK p \in Live : c \in CellsOf(p) /\ code[c] = Patched(p, c)
    <3>1. code[c] # Insn(c)
      BY DEF Insn
    <3> QED BY <3>1 DEF NInv, StackInv
  <2>2. p \in Patches /\ entry[p] # NoEntry /\ p \notin released
    BY LiveFacts
  <2>3. IF p.of = "breakpoint" THEN Patched(p, c) = Brk
        ELSE Patched(p, c).kind = "jump" /\ Patched(p, c).patch = p
    BY <2>1, <2>2, PatchFacts
  <2> QED BY <2>1, <2>2, <2>3 DEF Brk
<1> QED BY <1>1, StacksHold, PTL

\* For such a user the function is what it was, on an executable page, whenever no call
\* runs and every patch is undone, whatever the order in which they came and went.
THEOREM CodeIsRestored ==
  ASSUME Nested, Whole
  PROVE  Spec => []Restored
<1>1. MInv /\ NInv => Restored
  <2> SUFFICES ASSUME MInv, NInv, NoCalls, Registered = {}
               PROVE  code = Original /\ page = "rx"
    BY DEF Restored
  <2>1. Live = {}
    BY DEF Live, Setting, NoCalls, Idle
  <2>2. \A c \in Cells : code[c] = Insn(c)
    BY <2>1 DEF NInv, StackInv
  <2>3. code = Original
    BY <2>2 DEF MInv, TypeOK, Original
  <2>4. page = "rx"
    BY DEF NInv, PageInv, NoCalls, Idle, MInv, TypeOK
  <2> QED BY <2>3, <2>4
<1> QED BY <1>1, StacksHold, PTL

--------------------------------------------------------------------------------
(* Threads and patches, for a user who keeps to all the rules *)

\* While a call runs every thread is outside, and no other call does.
OneInv ==
  \A t \in Threads : call[t] # Idle =>
    /\ call[t].from = "outside"
    /\ \A u \in Threads : thread[u].phase = "outside" /\ (u # t => call[u] = Idle)

OpenInv == \A t \in Threads : call[t].pc \in {"copying", "executable"} => page = "rw"

\* What patches have saved are instructions, and no two share a cell.
PlainInv ==
  /\ \A p \in Patches : entry[p] # NoEntry => \A c \in CellsOf(p) : Saved(p, c) = Insn(c)
  /\ \A p, q \in Patches : Known(p) /\ Known(q) /\ p # q => CellsOf(p) \intersect CellsOf(q) = {}

\* Only the call that has released a patch has it still in its maps.
GoneInv ==
  \A p \in Registered \intersect released : \E t \in Threads :
    /\ call[t].op = "remove" /\ call[t].patch.of = p.of
    /\ call[t].all \/ (call[t].patch = p /\ call[t].pc = "erasing")

HandlerInv ==
  /\ DOMAIN bpByAddress # {} => handlerInstalled
  /\ \A t \in Threads : call[t].op = "set" /\ call[t].patch.of = "breakpoint" => handlerInstalled

InPatch == {"trampoline", "callback", "leaving"}

\* A thread is never inside a jump, only in code of registered patches, and it has
\* reported at the instruction it runs next exactly if that is the patched one.
MayBe(th) ==
  /\ th.phase \in {"outside", "code", "trapped", "trampoline"} => ~th.told
  /\ th.phase = "code" =>
       th.pc <= Size /\ \A p \in Registered : th.pc \in CellsOf(p) => th.pc = entry[p].address
  /\ th.phase = "trapped" => th.pc \in DOMAIN bpByAddress
  /\ th.phase \in InPatch => th.patch \in Registered /\ entry[th.patch].kind # "replaced"
  /\ th.phase \in {"callback", "leaving"} => th.told
  /\ th.phase = "relocated" =>
       /\ th.patch \in Registered /\ th.pc \in 1 .. Len(entry[th.patch].body) + 1
       /\ th.told <=> th.pc = 1
  /\ th.phase = "replacement" => th.patch \in Registered /\ entry[th.patch].kind = "replaced"

ThreadInv == \A t \in Threads : MayBe(thread[t])

SInv == OneInv /\ OpenInv /\ PlainInv /\ GoneInv /\ HandlerInv /\ ThreadInv /\ ~crashed

\* The user of these theorems, and a system on which mprotect() does not fail.
Orderly == AllRules \subseteq Rules
Open    == Failures \subseteq {"relocation"}

LEMMA Rest ==
  ASSUME SInv, NEW t \in Threads, thread[t].phase # "outside"
  PROVE  NoCalls
BY DEF SInv, OneInv, NoCalls

\* Between the calls everything registered is in the code, and nothing else is.
LEMMA AtRest ==
  ASSUME MInv, NInv, SInv, NoCalls
  PROVE  /\ page = "rx" /\ Registered \intersect released = {}
         /\ \A p : Known(p) <=> p \in Registered
         /\ \A p \in Registered : /\ CellsOf(p) \subseteq Cells
                                  /\ \A c \in CellsOf(p) : code[c] = Patched(p, c)
         /\ \A c \in Cells : code[c] = Insn(c) \/ \E p \in Registered : c \in CellsOf(p)
<1>i. \A t \in Threads : call[t].pc = "idle" /\ call[t].op = "none"
  BY DEF NoCalls, Idle
<1>1. page = "rx"
  BY <1>i DEF MInv, TypeOK, NInv, PageInv
<1>2. Registered \intersect released = {}
  BY <1>i DEF SInv, GoneInv
<1>3. \A p : Known(p) <=> p \in Registered
  BY <1>i DEF Known, Sets
<1>4. Live = Registered
  <2>1. Registered \subseteq Patches
    BY DEF Registered, MInv, TypeOK
  <2>2. \A p \in Patches : /\ ~Setting(p, {"executable", "registering"})
                           /\ ~Removing(p, {"executable", "releasing"})
    BY <1>i DEF Setting, Removing
  <2> QED BY <1>2, <2>1, <2>2 DEF Live
<1>5. ASSUME NEW p \in Registered
      PROVE  /\ CellsOf(p) \subseteq Cells
             /\ \A c \in CellsOf(p) : code[c] = Patched(p, c)
  <2>1. p \in Patches /\ entry[p] # NoEntry /\ CellsOf(p) \subseteq Cells
    BY RegisteredFacts, PatchFacts
  <2>2. ASSUME NEW c \in CellsOf(p)
        PROVE  code[c] = Patched(p, c)
    <3>1. Saved(p, c) # code[c]
      BY <1>4 DEF NInv, StackInv
    <3>2. Saved(p, c) = Insn(c)
      BY <2>1 DEF SInv, PlainInv
    <3>3. PICK q \in Registered : c \in CellsOf(q) /\ code[c] = Patched(q, c)
      BY <1>4, <2>1, <3>1, <3>2 DEF NInv, StackInv
    <3>4. q = p
      <4>1. Known(p) /\ Known(q) /\ q \in Patches
        BY <1>3, RegisteredFacts
      <4>2. q # p => CellsOf(q) \intersect CellsOf(p) = {}
        BY <2>1, <4>1 DEF SInv, PlainInv
      <4> QED BY <2>2, <3>3, <4>2
    <3> QED BY <3>3, <3>4
  <2> QED BY <2>1, <2>2
<1>6. \A c \in Cells : code[c] = Insn(c) \/ \E p \in Registered : c \in CellsOf(p)
  BY <1>4 DEF NInv, StackInv
<1> QED BY <1>1, <1>2, <1>3, <1>5, <1>6

\* What a thread finds where it is in the function.
LEMMA Finds ==
  ASSUME MInv, NInv, SInv, NEW t \in Threads, thread[t].phase = "code", thread[t].pc < Size
  PROVE  /\ thread[t].pc \in Cells /\ NoCalls
         /\ Here(t).kind = "insn" => \A p \in Registered : thread[t].pc \notin CellsOf(p)
         /\ Here(t).kind = "brk" => \E p \in bpById : thread[t].pc = entry[p].address
         /\ Here(t).kind = "jump" => /\ Here(t).patch \in hooksById
                                     /\ thread[t].pc = entry[Here(t).patch].address
                                     /\ WholeJump(t)
         /\ Here(t).kind \in {"insn", "brk", "jump"}
<1> DEFINE pc == thread[t].pc
<1>1. pc \in Cells /\ NoCalls
  <2>1. pc \in Nat
    BY ThreadTyped DEF MInv
  <2>2. NoCalls
    BY Rest
  <2> QED BY <2>1, <2>2, CodeConstants DEF Cells
<1>2. code[pc].kind \in {"insn", "brk", "jump"}
  <2>1. code[pc] \in Contents
    BY <1>1 DEF MInv, TypeOK
  <2> QED BY <2>1 DEF Contents
<1>3. ASSUME NEW p \in Registered, pc \in CellsOf(p)
      PROVE  /\ pc = entry[p].address /\ code[pc] = Patched(p, pc)
             /\ p \in Patches /\ entry[p] # NoEntry
             /\ IF p.of = "breakpoint" THEN Patched(p, pc) = Brk
                ELSE Patched(p, pc).kind = "jump" /\ Patched(p, pc).patch = p
  <2>1. p \in Patches /\ entry[p] # NoEntry
    BY RegisteredFacts
  <2>2. pc = entry[p].address
    BY <1>3 DEF SInv, ThreadInv, MayBe
  <2>3. code[pc] = Patched(p, pc)
    BY <1>1, <1>3, AtRest
  <2> QED BY <1>3, <2>1, <2>2, <2>3, PatchFacts
<1>4. Insn(pc).kind = "insn" /\ Brk.kind = "brk"
  BY DEF Insn, Brk
<1>5. code[pc].kind = "insn" => \A p \in Registered : pc \notin CellsOf(p)
  <2> HIDE DEF pc
  <2> QED BY <1>3, <1>4
<1>6. code[pc].kind # "insn" => \E p \in Registered : pc \in CellsOf(p)
  BY <1>1, <1>4, AtRest
<1>7. ASSUME code[pc].kind = "brk"
      PROVE  \E p \in bpById : pc = entry[p].address
  <2>1. PICK p \in Registered : pc \in CellsOf(p)
    BY <1>6, <1>7
  <2>2. p.of = "breakpoint" /\ pc = entry[p].address
    BY <1>3, <1>7, <2>1
  <2>3. p \in bpById
    BY <2>2, RegisteredFacts DEF IdOf
  <2> QED BY <2>2, <2>3
<1>8. ASSUME code[pc].kind = "jump"
      PROVE  /\ code[pc].patch \in hooksById /\ pc = entry[code[pc].patch].address
             /\ WholeJump(t)
  <2>1. PICK p \in Registered : pc \in CellsOf(p)
    BY <1>6, <1>8
  <2>2. p.of # "breakpoint" /\ pc = entry[p].address /\ code[pc].patch = p
    BY <1>3, <1>4, <1>8, <2>1
  <2>3. p \in hooksById
    BY <2>2, RegisteredFacts DEF IdOf
  <2>4. p \in Patches /\ entry[p] # NoEntry
    BY <2>1, <1>3
  <2>5. OnTop(p)
    BY <1>1, <2>4, AtRest, PatchFacts
  <2>6. EntryOK(p)
    BY <2>4 DEF MInv, EntryInv
  <2>7. pc \in Nat /\ PatchSize \in Nat /\ Size \in Nat /\ pc + PatchSize <= Size
    BY <1>1, <2>2, <2>6, CodeConstants DEF EntryOK, Width, WidthOf, Cells
  <2>8. ASSUME NEW n \in 1 .. PatchSize
        PROVE  pc + n <= Size /\ code[pc + n - 1] = Jump(p, n)
    <3>1. There(p) = [i \in 1 .. PatchSize |-> code[pc + i - 1]]
      BY <2>2, <2>6 DEF There, Read, EntryOK, Width, WidthOf
    <3>2. Written(p) = [i \in 1 .. PatchSize |-> Jump(p, i)]
      BY <2>2 DEF Written
    <3>3. There(p)[n] = Written(p)[n]
      BY <2>5 DEF OnTop
    <3>4. code[pc + n - 1] = Jump(p, n)
      <4> HIDE DEF pc
      <4> QED BY <3>1, <3>2, <3>3
    <3>5. pc + n <= Size
      <4> HIDE DEF pc
      <4> QED BY <2>7
    <3> QED BY <3>4, <3>5
  <2> QED BY <1>8, <2>2, <2>3, <2>8 DEF WholeJump, Here
<1> QED BY <1>1, <1>2, <1>5, <1>7, <1>8 DEF Here

\* A thread that moves while nobody calls the API.
LEMMA SMove ==
  ASSUME MInv, SInv, NoCalls, NEW t \in Threads, NEW th, thread' = [thread EXCEPT ![t] = th],
         UNCHANGED <<codeVars, call, crashed, bpVars, hookVars>>, MayBe(th)
  PROVE  SInv'
<1> USE DEF codeVars, bpVars, hookVars
<1>1. OneInv' /\ OpenInv' /\ GoneInv' /\ HandlerInv' /\ ~crashed'
  BY DEF NoCalls, SInv, OneInv, OpenInv, GoneInv, HandlerInv, Registered
<1>2. PlainInv'
  <2>1. \A p : CellsOf(p)' = CellsOf(p)
    BY DEF CellsOf, Covered
  <2>2. \A p, c : Saved(p, c)' = Saved(p, c)
    BY DEF Saved
  <2>3. \A p : Known(p)' <=> Known(p)
    BY DEF Known, Registered, Sets, AddressOf
  <2> QED BY <2>1, <2>2, <2>3 DEF SInv, PlainInv
<1>3. ThreadInv'
  <2>1. \A x : MayBe(x)' <=> MayBe(x)
    BY DEF MayBe, Registered, CellsOf, Covered
  <2>2. \A u \in Threads : MayBe(thread'[u])
    BY DEF SInv, ThreadInv, MInv, TypeOK
  <2>3. \A u \in Threads : MayBe(thread[u])'
    BY <2>2 DEF MayBe, Registered, CellsOf, Covered
  <2> QED BY <2>3 DEF ThreadInv
<1> QED BY <1>1, <1>2, <1>3 DEF SInv

LEMMA SMoves ==
  ASSUME MInv, SInv, NoCalls, NEW t \in Threads, NEW phase, NEW pc, NEW patch, NEW told,
         Move(t, phase, pc, patch, told),
         MayBe([phase |-> phase, pc |-> pc, patch |-> patch, told |-> told])
  PROVE  SInv'
BY SMove DEF Move

\* Behind what a registered patch overwrites no other jump has its middle.
LEMMA Behind ==
  ASSUME MInv, SInv, NEW p \in Registered, NEW q \in Registered, p # q
  PROVE  entry[p].address + Width(p) \in CellsOf(q) =>
           entry[p].address + Width(p) = entry[q].address
<1>1. /\ p \in Patches /\ q \in Patches /\ entry[p] # NoEntry /\ entry[q] # NoEntry
      /\ Known(p) /\ Known(q)
  BY RegisteredFacts DEF Known
<1>2. EntryOK(p) /\ EntryOK(q)
  BY <1>1 DEF MInv, EntryInv
<1>3. CellsOf(p) \intersect CellsOf(q) = {}
  BY <1>1 DEF SInv, PlainInv
<1>4. /\ CellsOf(p) = entry[p].address .. entry[p].address + Width(p) - 1
      /\ CellsOf(q) = entry[q].address .. entry[q].address + Width(q) - 1
  BY <1>2 DEF EntryOK, CellsOf, Covered
<1>5. /\ entry[p].address \in Nat /\ entry[q].address \in Nat
      /\ Width(p) \in Nat \ {0} /\ Width(q) \in Nat \ {0}
  BY <1>2, CodeConstants DEF EntryOK, Width, WidthOf
<1>6. \A a, b, v, w : a \in Nat /\ b \in Nat /\ v \in Nat \ {0} /\ w \in Nat \ {0}
        /\ (a .. a + v - 1) \intersect (b .. b + w - 1) = {} /\ a + v \in b .. b + w - 1
        => a + v = b
  <2> SUFFICES ASSUME NEW a \in Nat, NEW b \in Nat, NEW v \in Nat \ {0}, NEW w \in Nat \ {0},
                      (a .. a + v - 1) \intersect (b .. b + w - 1) = {}, a + v \in b .. b + w - 1
               PROVE  a + v = b
    OBVIOUS
  <2>1. a + v - 1 \in a .. a + v - 1
    OBVIOUS
  <2>2. a + v - 1 \notin b .. b + w - 1
    BY <2>1
  <2> QED BY <2>2
<1> QED BY <1>3, <1>4, <1>5, <1>6

\* Every step of a thread, from where the invariants allow it to be.
LEMMA SThreadStep ==
  ASSUME MInv, NInv, SInv, Orderly, NEW t \in Threads,
         Enter(t) \/ EnterFromCall(t) \/ ThreadStep(t)
  PROVE  SInv'
<1> DEFINE th == thread[t]
<1>0. /\ MayBe(th) /\ th.pc \in Nat /\ th.told \in BOOLEAN
  BY ThreadTyped DEF SInv, ThreadInv, MInv
<1>r. ASSUME th.phase # "outside" PROVE NoCalls
  BY <1>r, Rest
<1>m. \A p \in Registered : /\ p \in Patches /\ entry[p] # NoEntry /\ EntryOK(p)
                            /\ Len(entry[p].body) = Width(p) /\ Width(p) \in Nat \ {0}
                            /\ CellsOf(p) = entry[p].address .. entry[p].address + Width(p) - 1
  <2>1. ASSUME NEW p \in Registered
        PROVE  p \in Patches /\ entry[p] # NoEntry /\ EntryOK(p)
    BY RegisteredFacts DEF MInv, EntryInv
  <2>2. ASSUME NEW p \in Registered
        PROVE  /\ Len(entry[p].body) = Width(p) /\ Width(p) \in Nat \ {0}
               /\ CellsOf(p) = entry[p].address .. entry[p].address + Width(p) - 1
    BY <2>1, CodeConstants DEF EntryOK, Width, WidthOf, CellsOf, Covered
  <2> QED BY <2>1, <2>2
<1>1. ASSUME Enter(t) PROVE SInv'
  <2>1. NoCalls /\ Move(t, "code", 0, NoPatch, FALSE)
    BY <1>1 DEF Enter, Orderly, AllRules
  <2>2. ASSUME NEW p \in Registered, 0 \in CellsOf(p)
        PROVE  0 = entry[p].address
    <3>1. entry[p].address \in Nat
      BY <1>m DEF EntryOK
    <3> QED BY <1>m, <2>2, <3>1
  <2>3. MayBe([phase |-> "code", pc |-> 0, patch |-> NoPatch, told |-> FALSE])
    BY <2>2, CodeConstants DEF MayBe, InPatch
  <2> QED BY <2>1, <2>3, SMoves
<1>2. ASSUME EnterFromCall(t) PROVE SInv'
  BY <1>2 DEF EnterFromCall, Orderly, AllRules
<1>3. ASSUME Execute(t) PROVE SInv'
  <2>1. /\ th.phase = "code" /\ th.pc < Size /\ Here(t).kind = "insn"
        /\ Move(t, "code", th.pc + 1, NoPatch, FALSE)
    BY <1>3 DEF Execute, InCode, Runs
  <2>2. NoCalls /\ \A p \in Registered : th.pc \notin CellsOf(p)
    BY <2>1, Finds
  <2>3. ASSUME NEW p \in Registered, th.pc + 1 \in CellsOf(p)
        PROVE  th.pc + 1 = entry[p].address
    <3>1. entry[p].address \in Nat /\ Width(p) \in Nat
      BY <1>m DEF EntryOK
    <3> QED BY <1>0, <1>m, <2>2, <2>3, <3>1
  <2>4. th.pc + 1 <= Size
    BY <1>0, <2>1, CodeConstants
  <2>5. MayBe([phase |-> "code", pc |-> th.pc + 1, patch |-> NoPatch, told |-> FALSE])
    BY <2>3, <2>4 DEF MayBe, InPatch
  <2> QED BY <2>1, <2>2, <2>5, SMoves
<1>4. ASSUME Trap(t) PROVE SInv'
  <2>1. /\ th.phase = "code" /\ th.pc < Size /\ Here(t).kind = "brk"
        /\ Move(t, "trapped", th.pc, NoPatch, FALSE)
    BY <1>4 DEF Trap, InCode, Runs
  <2>2. PICK p \in bpById : NoCalls /\ th.pc = entry[p].address
    BY <2>1, Finds
  <2>3. th.pc \in DOMAIN bpByAddress
    <3>1. p \in Registered /\ p.of = "breakpoint"
      BY <2>2 DEF Registered, MInv, MapsInv, MapOK, Kinds, IdOf
    <3> QED BY <2>2, <3>1, RegisteredFacts DEF AddressOf
  <2>4. MayBe([phase |-> "trapped", pc |-> th.pc, patch |-> NoPatch, told |-> FALSE])
    BY <2>3 DEF MayBe, InPatch
  <2> QED BY <2>1, <2>2, <2>4, SMoves
<1>5. ASSUME TakeJump(t) PROVE SInv'
  <2>1. th.phase = "code" /\ th.pc < Size /\ Here(t).kind = "jump"
    BY <1>5 DEF TakeJump, InCode, Runs, WholeJump
  <2>2. PICK p \in hooksById : p = Here(t).patch /\ NoCalls
    BY <2>1, Finds
  <2>3. p \in Registered /\ p.of = "hook"
    BY DEF Registered, MInv, MapsInv, MapOK, Kinds, IdOf
  <2>4. entry[p].kind \in {"attached", "replaced"}
    BY <1>m, <2>3 DEF EntryOK, KindsOf
  <2>5. CASE entry[p].kind = "attached"
    <3>1. Move(t, "trampoline", 0, p, FALSE)
      BY <1>5, <2>2, <2>5 DEF TakeJump
    <3>2. MayBe([phase |-> "trampoline", pc |-> 0, patch |-> p, told |-> FALSE])
      BY <2>3, <2>5 DEF MayBe, InPatch
    <3> QED BY <2>2, <3>1, <3>2, SMoves
  <2>6. CASE entry[p].kind = "replaced"
    <3>1. Move(t, "replacement", 0, p, FALSE)
      BY <1>5, <2>2, <2>6 DEF TakeJump
    <3>2. MayBe([phase |-> "replacement", pc |-> 0, patch |-> p, told |-> FALSE])
      BY <2>3, <2>6 DEF MayBe, InPatch
    <3> QED BY <2>2, <3>1, <3>2, SMoves
  <2> QED BY <2>4, <2>5, <2>6
<1>6. ASSUME RunsAstray(t) PROVE SInv'
  <2>1. th.phase = "code" /\ th.pc < Size /\ (page = "rx" => Here(t).kind = "jump" /\ ~WholeJump(t))
    BY <1>6 DEF RunsAstray, InCode, Runs
  <2>2. page = "rx"
    BY <2>1, Finds, AtRest
  <2> QED BY <2>1, <2>2, Finds
<1>7. ASSUME Leave(t) \/ ReplacementReturns(t) PROVE SInv'
  <2>1. NoCalls /\ Move(t, "outside", 0, NoPatch, FALSE)
    BY <1>7, <1>r DEF Leave, ReplacementReturns, Runs
  <2>2. MayBe([phase |-> "outside", pc |-> 0, patch |-> NoPatch, told |-> FALSE])
    BY DEF MayBe, InPatch
  <2> QED BY <2>1, <2>2, SMoves
<1>8. ASSUME CallCallback(t) PROVE SInv'
  <2>1. NoCalls /\ th.phase = "trampoline" /\ Move(t, "callback", 0, th.patch, TRUE)
    BY <1>8, <1>r DEF CallCallback, Runs
  <2>2. MayBe([phase |-> "callback", pc |-> 0, patch |-> th.patch, told |-> TRUE])
    BY <1>0, <2>1 DEF MayBe, InPatch
  <2> QED BY <2>1, <2>2, SMoves
<1>9. ASSUME CallOnLeave(t) PROVE SInv'
  <2>1. NoCalls /\ th.phase = "callback" /\ Move(t, "leaving", 0, th.patch, th.told)
    BY <1>9, <1>r DEF CallOnLeave, Runs
  <2>2. MayBe([phase |-> "leaving", pc |-> 0, patch |-> th.patch, told |-> th.told])
    BY <1>0, <2>1 DEF MayBe, InPatch
  <2> QED BY <2>1, <2>2, SMoves
<1>10. ASSUME RunRelocated(t) PROVE SInv'
  <2>1. NoCalls /\ th.phase \in {"callback", "leaving"} /\ Move(t, "relocated", 1, th.patch, th.told)
    BY <1>10, <1>r DEF RunRelocated, Runs
  <2>2. th.patch \in Registered /\ th.told
    BY <1>0, <2>1 DEF MayBe, InPatch
  <2>3. 1 \in 1 .. Len(entry[th.patch].body) + 1
    BY <1>m, <2>2
  <2>4. MayBe([phase |-> "relocated", pc |-> 1, patch |-> th.patch, told |-> th.told])
    BY <2>2, <2>3 DEF MayBe, InPatch
  <2> QED BY <2>1, <2>4, SMoves
<1>11. ASSUME ExecuteRelocated(t) PROVE SInv'
  <2>1. /\ NoCalls /\ th.phase = "relocated" /\ th.pc <= Len(entry[th.patch].body)
        /\ Move(t, "relocated", th.pc + 1, th.patch, FALSE)
    BY <1>11, <1>r DEF ExecuteRelocated, Runs, Body
  <2>2. th.patch \in Registered /\ th.pc \in 1 .. Len(entry[th.patch].body) + 1
    BY <1>0, <2>1 DEF MayBe
  <2>3. th.pc + 1 \in 1 .. Len(entry[th.patch].body) + 1 /\ th.pc + 1 # 1
    BY SMTT(30), <1>0, <1>m, <2>1, <2>2
  <2>4. MayBe([phase |-> "relocated", pc |-> th.pc + 1, patch |-> th.patch, told |-> FALSE])
    BY <2>2, <2>3 DEF MayBe, InPatch
  <2> QED BY <2>1, <2>4, SMoves
<1>12. ASSUME RunsCopiedPatch(t) PROVE SInv'
  <2>1. /\ th.phase = "relocated" /\ th.pc <= Len(entry[th.patch].body)
        /\ entry[th.patch].body[th.pc].kind # "insn"
    BY <1>12 DEF RunsCopiedPatch, Runs, Body
  <2>2. PICK p \in Registered : p = th.patch /\ th.pc \in 1 .. Len(entry[p].body) + 1
    BY <1>0, <2>1 DEF MayBe
  <2> DEFINE c == entry[p].address + th.pc - 1
  <2>3. th.pc \in 1 .. Width(p) /\ entry[p].body = entry[p].saved /\ entry[p].address \in Nat
    BY <1>0, <1>m, <2>1, <2>2 DEF EntryOK
  <2>4. c \in CellsOf(p) /\ c - entry[p].address + 1 = th.pc
    <3>1. Width(p) \in Nat
      BY <1>m
    <3> QED BY <1>m, <2>3, <3>1
  <2>5. Saved(p, c) = Insn(c)
    BY <1>m, <2>4 DEF SInv, PlainInv
  <2>6. entry[p].saved[th.pc] = Insn(c)
    BY <2>4, <2>5 DEF Saved
  <2>7. Insn(c).kind = "insn"
    BY DEF Insn
  <2> QED BY <2>1, <2>2, <2>3, <2>6, <2>7
<1>13. ASSUME JumpBack(t) PROVE SInv'
  <2>1. /\ NoCalls /\ th.phase = "relocated" /\ th.pc > Len(entry[th.patch].body)
        /\ Move(t, "code", BackTo(th.patch), NoPatch, FALSE)
    BY <1>13, <1>r DEF JumpBack, Runs, Body
  <2>2. PICK p \in Registered : p = th.patch
    BY <1>0, <2>1 DEF MayBe
  <2>3. BackTo(p) = entry[p].address + Width(p) /\ BackTo(p) <= Size
    BY <1>m DEF BackTo, EntryOK
  <2>4. ASSUME NEW q \in Registered, BackTo(p) \in CellsOf(q)
        PROVE  BackTo(p) = entry[q].address
    <3>1. CASE q = p
      <4>1. entry[p].address \in Nat /\ Width(p) \in Nat
        BY <1>m DEF EntryOK
      <4> QED BY <1>m, <2>3, <2>4, <3>1, <4>1
    <3>2. CASE q # p
      BY <2>3, <2>4, <3>2, Behind
    <3> QED BY <3>1, <3>2
  <2>5. MayBe([phase |-> "code", pc |-> BackTo(p), patch |-> NoPatch, told |-> FALSE])
    BY <2>3, <2>4 DEF MayBe, InPatch
  <2> QED BY <2>1, <2>2, <2>5, SMoves
<1>14. ASSUME CallOriginal(t) PROVE SInv'
  <2>1. NoCalls /\ th.phase = "replacement" /\ Move(t, "relocated", 1, th.patch, TRUE)
    BY <1>14, <1>r DEF CallOriginal, Runs
  <2>2. th.patch \in Registered
    BY <1>0, <2>1 DEF MayBe
  <2>3. 1 \in 1 .. Len(entry[th.patch].body) + 1
    BY <1>m, <2>2
  <2>4. MayBe([phase |-> "relocated", pc |-> 1, patch |-> th.patch, told |-> TRUE])
    BY <2>2, <2>3 DEF MayBe, InPatch
  <2> QED BY <2>1, <2>4, SMoves
<1>15. ASSUME RunsReleased(t) PROVE SInv'
  <2>1. th.phase \in {"trampoline", "callback", "leaving", "relocated"} /\ th.patch \in released
    BY <1>15 DEF RunsReleased, Runs
  <2>2. th.patch \in Registered /\ NoCalls
    BY <1>0, <1>r, <2>1 DEF MayBe, InPatch
  <2> QED BY <2>1, <2>2, AtRest
<1>16. ASSUME SignalStep(t) PROVE SInv'
  <2>1. th.phase = "trapped" /\ NoCalls
    BY <1>16, <1>r DEF SignalStep, Redirect, Unclaimed, Trapped
  <2>2. th.pc \in DOMAIN bpByAddress /\ handlerInstalled
    BY <1>0, <2>1 DEF MayBe, SInv, HandlerInv
  <2>3. ~Racing
    BY <2>1 DEF Racing, Working, At, NoCalls, Idle
  <2>4. ~Unclaimed(t)
    BY <2>2, <2>3 DEF Unclaimed, Claims
  <2>5. PICK p \in bpById : p = bpByAddress[th.pc]
    BY <2>2 DEF MInv, MapsInv, MapOK, Kinds, IdOf, AddressOf
  <2>6. p \in Registered /\ entry[p].kind # "replaced"
    <3>1. p \in Registered /\ p.of = "breakpoint"
      BY DEF Registered, MInv, MapsInv, MapOK, Kinds, IdOf
    <3> QED BY <1>m, <3>1 DEF EntryOK, KindsOf
  <2>7. MayBe([Outside EXCEPT !.phase = "trampoline", !.patch = p])
    BY <2>6 DEF MayBe, InPatch, Outside
  <2>8. /\ thread' = [thread EXCEPT ![t] = [Outside EXCEPT !.phase = "trampoline", !.patch = p]]
        /\ UNCHANGED <<codeVars, call, crashed, bpVars, hookVars>>
    BY <1>16, <2>4, <2>5 DEF SignalStep, Redirect
  <2> QED BY <2>1, <2>7, <2>8, SMove
<1> QED BY <1>1, <1>2, <1>3, <1>4, <1>5, <1>6, <1>7, <1>8, <1>9, <1>10, <1>11, <1>12, <1>13,
           <1>14, <1>15, <1>16 DEF ThreadStep


--------------------------------------------------------------------------------
(* Calls, while every thread is outside *)

Quiet(t) == \A u \in Threads : thread[u].phase = "outside" /\ (u # t => call[u] = Idle)

LEMMA CallsAreQuiet ==
  ASSUME SInv, Orderly, NEW t \in Threads, MayCall(t) \/ call[t] # Idle
  PROVE  Quiet(t) /\ (call[t] # Idle => call[t].from = "outside")
<1>1. CASE call[t] # Idle
  BY <1>1 DEF SInv, OneInv, Quiet
<1>2. CASE call[t] = Idle
  BY <1>2 DEF MayCall, Orderly, AllRules, NoCalls, Quiet
<1> QED BY <1>1, <1>2

\* What such a call has to see to, whatever its step does.
LEMMA SCallStep ==
  ASSUME MInv, SInv, NEW t \in Threads, Quiet(t), thread' = thread, crashed' = crashed,
         \A u \in Threads \ {t} : call'[u] = call[u],
         call'[t] = Idle \/ call'[t].from = "outside",
         call'[t].pc \in {"copying", "executable"} => page' = "rw",
         PlainInv', GoneInv', DOMAIN bpByAddress' # {} => handlerInstalled',
         call'[t].op = "set" /\ call'[t].patch.of = "breakpoint" => handlerInstalled'
  PROVE  SInv'
<1>1. \A u \in Threads \ {t} : call'[u] = Idle
  BY DEF Quiet
<1>2. \A u \in Threads : thread'[u].phase = "outside"
  BY DEF Quiet
<1>3. OneInv'
  BY <1>1, <1>2 DEF OneInv
<1>4. OpenInv'
  BY <1>1 DEF OpenInv, Idle
<1>5. HandlerInv'
  BY <1>1 DEF HandlerInv, Idle
<1>6. ThreadInv'
  <2>1. \A u \in Threads : ~thread'[u].told
    BY DEF SInv, ThreadInv, MayBe, Quiet
  <2> QED BY <1>2, <2>1 DEF ThreadInv, MayBe, InPatch
<1> QED BY <1>3, <1>4, <1>5, <1>6 DEF SInv

\* Nothing is patched anew.
LEMMA PlainKept ==
  ASSUME MInv, SInv, NEW t \in Threads, Quiet(t), entry' = entry,
         \A u \in Threads \ {t} : call'[u] = call[u],
         call'[t].op = "set" => call[t].op = "set" /\ call'[t].patch = call[t].patch,
         \A p \in Registered' : Known(p)
  PROVE  PlainInv'
<1>1. \A p : CellsOf(p)' = CellsOf(p)
  BY DEF CellsOf, Covered
<1>2. \A p, c : Saved(p, c)' = Saved(p, c)
  BY DEF Saved
<1>3. ASSUME NEW p, Known(p)' PROVE Known(p)
  <2>1. CASE p \in Registered'
    BY <2>1
  <2>2. ASSUME NEW u \in Threads, call'[u].patch = p, Sets(u)' PROVE Known(p)
    <3>1. call'[u].op = "set"
      BY <2>2 DEF Sets
    <3>2. u = t
      BY <3>1 DEF Quiet, Idle
    <3>3. call[t].op = "set" /\ call[t].patch = p
      BY <2>2, <3>1, <3>2
    <3>4. Sets(t)
      BY <3>3 DEF MInv, CallInv, Removes, Idle
    <3> QED BY <3>3, <3>4 DEF Known
  <2> QED BY <1>3, <2>1, <2>2 DEF Known
<1> QED BY <1>1, <1>2, <1>3 DEF SInv, PlainInv

\* Before the only call undoes anything nothing registered is released.
LEMMA NothingGone ==
  ASSUME SInv, NEW t \in Threads, Quiet(t), call[t].op # "remove"
  PROVE  Registered \intersect released = {}
BY DEF SInv, GoneInv, Quiet, Idle

\* The steps on the code: makeWritableAndPatch() cannot find the page closed.
LEMMA SCodeCall ==
  ASSUME MInv, SInv, Orderly, Open, NEW t \in Threads, CodeCall(t)
  PROVE  SInv'
<1> USE DEF bpVars, hookVars
<1>0. UNCHANGED <<bpVars, hookVars>>
  BY DEF CodeCall
<1>i. Idle.pc = "idle" /\ Idle.op = "none" /\ Idle.from = "outside"
  BY DEF Idle
<1>p. /\ call[t].pc \in {"writable", "copying", "executable", "releasing"}
      /\ call[t] # Idle /\ call \in [Threads -> CallStates]
  BY <1>i DEF CodeCall, MakeWritable, Copy, MakeExecutable, ProtectFails, Release, At, Open,
       MInv, TypeOK, CallStates
<1>q. Quiet(t) /\ call[t].from = "outside"
  BY <1>p, CallsAreQuiet
<1>s. \A p \in Registered : Known(p)
  BY DEF Known
\* A step to another pc.
<1>g. ASSUME NEW pc \in {"copying", "executable", "registering", "releasing"}, GoesTo(t, pc),
             pc \in {"copying", "executable"} => page' = "rw",
             UNCHANGED <<entry, released, thread, crashed>>
      PROVE  SInv'
  <2>1. call' = [call EXCEPT ![t].pc = pc]
    BY <1>g DEF GoesTo
  <2>2. /\ \A u \in Threads \ {t} : call'[u] = call[u]
        /\ call'[t].pc = pc /\ call'[t].op = call[t].op /\ call'[t].patch = call[t].patch
        /\ call'[t].all = call[t].all /\ call'[t].from = call[t].from
    BY <1>p, <2>1 DEF CallStates
  <2>3. Registered' = Registered
    BY <1>0 DEF Registered
  <2>4. PlainInv'
    BY <1>g, <1>q, <1>s, <2>2, <2>3, PlainKept
  <2>5. GoneInv'
    <3> SUFFICES ASSUME NEW p \in Registered' \intersect released'
                 PROVE  /\ call'[t].op = "remove" /\ call'[t].patch.of = p.of /\ call'[t].all
      BY DEF GoneInv
    <3>1. PICK u \in Threads : /\ call[u].op = "remove" /\ call[u].patch.of = p.of
                               /\ call[u].all \/ (call[u].patch = p /\ call[u].pc = "erasing")
      BY <1>g, <2>3 DEF SInv, GoneInv
    <3>2. u = t
      BY <1>i, <1>q, <3>1 DEF Quiet
    <3> QED BY <1>p, <2>2, <3>1, <3>2
  <2>6. /\ DOMAIN bpByAddress' # {} => handlerInstalled'
        /\ call'[t].op = "set" /\ call'[t].patch.of = "breakpoint" => handlerInstalled'
    BY <1>0, <2>2 DEF SInv, HandlerInv
  <2> QED BY <1>g, <1>q, <2>2, <2>4, <2>5, <2>6, SCallStep
<1>1. CASE MakeWritable(t)
  BY <1>1, <1>g DEF MakeWritable, GoesTo
<1>2. CASE Copy(t)
  <2>1. page = "rw"
    BY <1>2 DEF Copy, At, SInv, OpenInv
  <2> QED BY <1>2, <1>g, <2>1 DEF Copy, GoesTo
<1>3. CASE MakeExecutable(t)
  <2>1. CASE call[t].op = "set"
    BY <1>3, <1>g, <2>1 DEF MakeExecutable, GoesTo
  <2>2. CASE call[t].op # "set"
    BY <1>3, <1>g, <2>2 DEF MakeExecutable, GoesTo
  <2> QED BY <2>1, <2>2
<1>4. CASE ProtectFails(t)
  BY <1>4, <1>p DEF ProtectFails, Open
<1>5. CASE Release(t)
  <2>1. /\ call[t].pc = "releasing" /\ released' = released \union {call[t].patch}
        /\ UNCHANGED <<entry, thread, crashed>>
    BY <1>5 DEF Release, At
  <2>2. Removes(t)
    BY <1>p, <2>1 DEF MInv, CallInv, Sets
  <2>3. Registered' = Registered
    BY <1>0 DEF Registered
  <2>4. thread[t].phase = "outside"
    BY <1>q DEF Quiet
  <2>5. /\ \A u \in Threads \ {t} : call'[u] = call[u]
        /\ call'[t].op = "remove" /\ call'[t].from = "outside"
        /\ call'[t].pc \notin {"copying", "executable"}
        /\ call'[t].patch.of = call[t].patch.of
        /\ call'[t].all \/ (call'[t].pc = "erasing" /\ call'[t].patch = call[t].patch)
        /\ call[t].all => call'[t].all
    <3>1. CASE call[t].todo = {}
      <4>1. call' = [call EXCEPT ![t].pc = "erasing"]
        BY <1>5, <3>1 DEF Release
      <4> QED BY <1>p, <1>q, <2>2, <4>1 DEF CallStates, Removes
    <3>2. CASE call[t].todo # {}
      <4>1. PICK q \in call[t].todo :
              call' = [call EXCEPT ![t] = Undoing(t, q, call[t].todo \ {q}, TRUE)]
        BY <1>5, <3>2 DEF Release
      <4>2. q.of = call[t].patch.of
        <5>1. PICK o \in Kinds : o = call[t].patch.of
          BY <2>2, PatchKinds DEF Removes
        <5>2. q \in IdOf(o)
          BY <2>2, <5>1 DEF Removes
        <5> QED BY <5>1, <5>2 DEF MInv, MapsInv, MapOK
      <4> QED BY <1>p, <2>4, <4>1, <4>2 DEF Undoing
    <3> QED BY <3>1, <3>2
  <2>6. PlainInv'
    BY <1>q, <1>s, <2>1, <2>3, <2>5, PlainKept
  <2>7. GoneInv'
    <3> SUFFICES ASSUME NEW p \in Registered' \intersect released'
                 PROVE  /\ call'[t].op = "remove" /\ call'[t].patch.of = p.of
                        /\ call'[t].all \/ (call'[t].patch = p /\ call'[t].pc = "erasing")
      BY DEF GoneInv
    <3>1. CASE p = call[t].patch
      BY <2>5, <3>1
    <3>2. CASE p # call[t].patch
      <4>1. p \in Registered \intersect released
        BY <2>1, <2>3, <3>2
      <4>2. PICK u \in Threads : /\ call[u].op = "remove" /\ call[u].patch.of = p.of
                                 /\ call[u].all \/ (call[u].patch = p /\ call[u].pc = "erasing")
        BY <4>1 DEF SInv, GoneInv
      <4>3. u = t
        BY <1>i, <1>q, <4>2 DEF Quiet
      <4> QED BY <2>1, <2>5, <4>2, <4>3
    <3> QED BY <3>1, <3>2
  <2>8. DOMAIN bpByAddress' # {} => handlerInstalled'
    BY <1>0 DEF SInv, HandlerInv
  <2> QED BY <1>q, <2>1, <2>5, <2>6, <2>7, <2>8, SCallStep
<1> QED BY <1>1, <1>2, <1>3, <1>4, <1>5 DEF CodeCall

\* Undoing begins, with entries that nobody has deleted.
LEMMA SStartUndo ==
  ASSUME MInv, SInv, Orderly, NEW t \in Threads, MayCall(t), NEW p, NEW todo, NEW all,
         todo \union {p} \subseteq Registered, StartUndo(t, p, todo, all),
         UNCHANGED <<bpVars, hookVars>>
  PROVE  SInv'
<1> USE DEF bpVars, hookVars
<1>i. Idle.pc = "idle" /\ Idle.op = "none" /\ Idle.from = "outside"
  BY DEF Idle
<1>q. Quiet(t) /\ call[t] = Idle /\ thread[t].phase = "outside"
  BY CallsAreQuiet DEF MayCall, Quiet
<1>1. Registered \intersect released = {}
  BY <1>i, <1>q, NothingGone
<1>2. call' = [call EXCEPT ![t] = Undoing(t, p, todo, all)] /\ UNCHANGED <<codeVars, thread, crashed>>
  BY <1>1 DEF StartUndo
<1>3. /\ \A u \in Threads \ {t} : call'[u] = call[u]
      /\ call'[t].op = "remove" /\ call'[t].pc = "writable" /\ call'[t].from = "outside"
  BY <1>2, <1>q DEF MInv, TypeOK, Undoing
<1>4. Registered' = Registered /\ \A q \in Registered : Known(q)
  BY DEF Registered, Known
<1>5. PlainInv'
  BY <1>2, <1>3, <1>4, <1>q, PlainKept DEF codeVars
<1>6. GoneInv'
  BY <1>1, <1>2, <1>4 DEF GoneInv, codeVars
<1>7. DOMAIN bpByAddress' # {} => handlerInstalled'
  BY DEF SInv, HandlerInv
<1> QED BY <1>2, <1>3, <1>5, <1>6, <1>7, <1>q, SCallStep

\* The maps get what was set or forget what was undone; the call returns.
LEMMA SEnds ==
  ASSUME MInv, SInv, Orderly, NEW t \in Threads, call[t] # Idle,
         call' = [call EXCEPT ![t] = Idle], UNCHANGED <<codeVars, thread, crashed>>,
         \A p \in Registered' : Known(p), Registered' \intersect released = {},
         DOMAIN bpByAddress' # {} => handlerInstalled'
  PROVE  SInv'
<1> USE DEF codeVars
<1>i. Idle.pc = "idle" /\ Idle.op = "none"
  BY DEF Idle
<1>q. Quiet(t)
  BY CallsAreQuiet
<1>1. call'[t] = Idle /\ \A u \in Threads \ {t} : call'[u] = call[u]
  BY DEF MInv, TypeOK
<1>2. PlainInv'
  BY <1>i, <1>q, <1>1, PlainKept
<1>3. GoneInv'
  BY DEF GoneInv
<1> QED BY <1>i, <1>q, <1>1, <1>2, <1>3, SCallStep

\* A patch is built on instructions only, and on no other patch's.
LEMMA SBuild ==
  ASSUME MInv, NInv, SInv, Orderly, NEW t \in Threads, MayCall(t), NEW of \in Kinds, NEW kind,
         NEW a \in Cells, Build(t, of, kind, a, WidthOf(of)),
         UNCHANGED <<bpById, bpByAddress, hookVars>>,
         handlerInstalled' \/ (of = "hook" /\ UNCHANGED handlerInstalled)
  PROVE  SInv'
<1> USE DEF hookVars
<1> DEFINE w == WidthOf(of)
<1>i. Idle.pc = "idle" /\ Idle.op = "none" /\ Idle.from = "outside"
  BY DEF Idle
<1>q. Quiet(t) /\ call[t] = Idle /\ thread[t].phase = "outside"
  BY CallsAreQuiet DEF MayCall, Quiet
<1>n. NoCalls
  BY <1>q DEF Quiet, NoCalls
<1>w. a \in Nat /\ w \in Nat \ {0} /\ a + w <= Size
  BY CodeConstants DEF Build, Cells, WidthOf
<1>1. PICK p \in Patches :
        /\ Fresh(of, p)
        /\ entry' = [entry EXCEPT ![p] =
             [kind |-> kind, address |-> a, saved |-> Read(a, w), body |-> Read(a, w)]]
        /\ call' = [call EXCEPT ![t] = [Idle EXCEPT
             !.pc = "writable", !.op = "set", !.from = thread[t].phase,
             !.patch = p, !.bytes = Written(p)]]
  BY DEF Build
<1>2. /\ \A c \in Covered(a, w) : code[c] = Insn(c)
      /\ UNCHANGED <<code, page, released, thread, crashed>>
  BY DEF Build, Orderly, AllRules
<1>3. /\ \A u \in Threads \ {t} : call'[u] = call[u]
      /\ call'[t].op = "set" /\ call'[t].pc = "writable" /\ call'[t].from = "outside"
      /\ call'[t].patch = p
  BY <1>1, <1>q DEF MInv, TypeOK, Idle
<1>4. /\ entry[p] = NoEntry /\ p.of = of
      /\ entry'[p].address = a /\ entry'[p].saved = Read(a, w)
      /\ \A q \in Patches \ {p} : entry'[q] = entry[q]
  BY <1>1 DEF Fresh, MInv, TypeOK
<1>5. Registered' = Registered
  BY DEF Registered
<1>6. Registered \intersect released = {}
  BY <1>i, <1>q, NothingGone
<1>7. GoneInv'
  BY <1>2, <1>5, <1>6 DEF GoneInv
<1>8. \A q \in Patches \ {p} : CellsOf(q)' = CellsOf(q) /\ \A c : Saved(q, c)' = Saved(q, c)
  BY <1>4 DEF CellsOf, Covered, Saved
<1>9. Len(Read(a, w)) = w /\ CellsOf(p)' = Covered(a, w)
  BY <1>4, <1>w, ReadTyped DEF CellsOf, MInv
<1>10. \A c \in Covered(a, w) : Saved(p, c)' = Insn(c)
  <2> SUFFICES ASSUME NEW c \in Covered(a, w) PROVE Read(a, w)[c - a + 1] = Insn(c)
    BY <1>4 DEF Saved
  <2>1. c - a + 1 \in 1 .. w /\ a + (c - a + 1) - 1 = c
    <3> HIDE DEF w
    <3> QED BY <1>w DEF Covered
  <2>2. Read(a, w)[c - a + 1] = code[a + (c - a + 1) - 1]
    <3> HIDE DEF w
    <3> QED BY <2>1 DEF Read
  <2> QED BY <1>2, <2>1, <2>2
<1>11. ASSUME NEW q, Known(q)', q # p PROVE q \in Registered
  <2>1. CASE q \in Registered'
    BY <1>5, <2>1
  <2>2. ASSUME NEW u \in Threads, call'[u].patch = q, Sets(u)' PROVE FALSE
    <3>1. call'[u].op = "set"
      BY <2>2 DEF Sets
    <3>2. u = t
      BY <1>3, <1>q, <3>1 DEF Quiet, Idle
    <3> QED BY <1>3, <1>11, <2>2, <3>2
  <2> QED BY <1>11, <2>1, <2>2 DEF Known
<1>12. ASSUME NEW q \in Registered
       PROVE  /\ q \in Patches \ {p} /\ CellsOf(q)' = CellsOf(q)
              /\ Covered(a, w) \intersect CellsOf(q) = {}
  <2>1. q \in Patches /\ entry[q] # NoEntry /\ Known(q)
    BY RegisteredFacts DEF Known
  <2>2. ASSUME NEW c \in Covered(a, w) \intersect CellsOf(q) PROVE FALSE
    <3>1. code[c] = Patched(q, c)
      BY <1>n, AtRest
    <3>2. Patched(q, c) # Insn(c)
      BY <2>1, NotTheInstruction
    <3> QED BY <1>2, <3>1, <3>2
  <2> QED BY <1>4, <1>8, <2>1, <2>2
<1>13. PlainInv'
  <2>1. ASSUME NEW q \in Patches, entry'[q] # NoEntry, NEW c \in CellsOf(q)'
        PROVE  Saved(q, c)' = Insn(c)
    <3>1. CASE q = p
      BY <1>9, <1>10, <2>1, <3>1
    <3>2. CASE q # p
      <4>1. entry[q] # NoEntry /\ c \in CellsOf(q) /\ Saved(q, c)' = Saved(q, c)
        BY <1>4, <1>8, <2>1, <3>2
      <4> QED BY <4>1 DEF SInv, PlainInv
    <3> QED BY <3>1, <3>2
  <2>2. ASSUME NEW q, NEW r, Known(q)', Known(r)', q # r
        PROVE  (CellsOf(q) \intersect CellsOf(r) = {})'
    <3>1. CASE q = p
      BY <1>9, <1>11, <1>12, <2>2, <3>1
    <3>2. CASE r = p
      BY <1>9, <1>11, <1>12, <2>2, <3>2
    <3>3. CASE q # p /\ r # p
      <4>1. q \in Registered /\ r \in Registered
        BY <1>11, <2>2, <3>3
      <4>2. CellsOf(q) \intersect CellsOf(r) = {}
        BY <2>2, <4>1, RegisteredFacts DEF SInv, PlainInv, Known
      <4> QED BY <1>12, <4>1, <4>2
    <3> QED BY <3>1, <3>2, <3>3
  <2>3. \A q \in Patches : \A c : (Insn(c) = Insn(c)')
    BY DEF Insn
  <2> QED BY <2>1, <2>2, <2>3 DEF PlainInv
<1>14. /\ DOMAIN bpByAddress' # {} => handlerInstalled'
       /\ call'[t].op = "set" /\ call'[t].patch.of = "breakpoint" => handlerInstalled'
  BY <1>3, <1>4 DEF SInv, HandlerInv
<1> QED BY <1>2, <1>3, <1>7, <1>13, <1>14, <1>q, SCallStep

LEMMA SBreakpointCall ==
  ASSUME MInv, NInv, SInv, Orderly, NEW t \in Threads, BreakpointCall(t)
  PROVE  SInv'
<1> USE DEF bpVars, hookVars
<1>k. /\ "breakpoint" \in Kinds /\ IdOf("breakpoint") = bpById
      /\ AddressOf("breakpoint") = bpByAddress /\ WidthOf("breakpoint") = 1
      /\ bpById \subseteq Registered
  BY DEF Kinds, IdOf, AddressOf, WidthOf, Registered
<1>0. UNCHANGED hookVars
  BY DEF BreakpointCall
<1>i. Idle.pc = "idle" /\ Idle.op = "none" /\ Idle.patch.of = "none"
  BY DEF Idle, NoPatch
<1>1. ASSUME NEW a \in Cells, SetBreakpoint(t, a) PROVE SInv'
  <2>1. /\ MayCall(t) /\ Build(t, "breakpoint", "breakpoint", a, WidthOf("breakpoint"))
        /\ UNCHANGED <<bpById, bpByAddress>> /\ handlerInstalled'
    BY <1>k, <1>1 DEF SetBreakpoint, CanSet
  <2> QED BY <1>0, <1>k, <2>1, SBuild
\* The call is over at once and only the handler has come or gone.
<1>f. ASSUME MayCall(t), UNCHANGED <<codeVars, call, thread, crashed, bpById, bpByAddress>>,
             DOMAIN bpByAddress # {} => handlerInstalled'
      PROVE  SInv'
  <2>1. Quiet(t) /\ call[t] = Idle
    BY <1>f, CallsAreQuiet DEF MayCall
  <2>2. call'[t] = Idle /\ \A u \in Threads \ {t} : call'[u] = call[u]
    BY <1>f, <2>1
  <2>3. Registered' = Registered /\ \A p \in Registered : Known(p)
    BY <1>0, <1>f DEF Registered, Known
  <2>4. PlainInv'
    BY <1>f, <1>i, <2>1, <2>2, <2>3, PlainKept DEF codeVars
  <2>5. GoneInv'
    BY <1>f, <1>i, <2>1, <2>3, NothingGone DEF GoneInv, codeVars
  <2> QED BY <1>f, <1>i, <2>1, <2>2, <2>4, <2>5, SCallStep
<1>2. ASSUME NEW a \in Cells, SetFails(t, a) PROVE SInv'
  BY <1>2, <1>f DEF SetFails, CanSet
<1>3. ASSUME NEW p \in bpById, RemoveBreakpoint(t, p) PROVE SInv'
  <2>1. MayCall(t) /\ StartUndo(t, p, {}, FALSE) /\ UNCHANGED bpVars
    BY <1>3 DEF RemoveBreakpoint, CanRemove
  <2> QED BY <1>0, <1>k, <2>1, SStartUndo
<1>4. ASSUME RemoveAll(t) PROVE SInv'
  <2>1. PICK p \in bpById : StartUndo(t, p, bpById \ {p}, TRUE)
    BY <1>4 DEF RemoveAll
  <2>2. MayCall(t) /\ UNCHANGED bpVars
    BY <1>4 DEF RemoveAll, CanRemove
  <2> QED BY <1>0, <1>k, <2>1, <2>2, SStartUndo
<1>5. ASSUME RemoveAllOfNone(t) PROVE SInv'
  <2>1. DOMAIN bpByAddress = {}
    <3>1. bpById = {bpByAddress[c] : c \in DOMAIN bpByAddress}
      BY <1>k DEF MInv, MapsInv, MapOK
    <3> QED BY <1>5, <3>1 DEF RemoveAllOfNone
  <2> QED BY <1>5, <1>f, <2>1 DEF RemoveAllOfNone, CanRemove
<1>6. ASSUME RegisterBreakpoint(t) PROVE SInv'
  <2>1. /\ call[t].pc = "registering" /\ call[t].patch.of = "breakpoint"
        /\ call' = [call EXCEPT ![t] = Idle] /\ UNCHANGED <<codeVars, thread, crashed>>
        /\ bpById' = bpById \union {call[t].patch} /\ UNCHANGED handlerInstalled
    BY <1>6 DEF RegisterBreakpoint, Working, At
  <2>2. call[t] # Idle /\ Sets(t)
    BY <1>i, <2>1 DEF MInv, CallInv, Removes
  <2>3. Registered' = Registered \union {call[t].patch}
    BY <1>0, <2>1 DEF Registered
  <2>4. \A p \in Registered' : Known(p)
    BY <2>2, <2>3 DEF Known
  <2>5. Registered' \intersect released = {}
    <3>1. Registered \intersect released = {}
      BY <2>2, CallsAreQuiet, NothingGone DEF Sets
    <3> QED BY <2>2, <2>3, <3>1 DEF Sets
  <2>6. handlerInstalled'
    BY <2>1, <2>2 DEF SInv, HandlerInv, Sets
  <2> QED BY <2>1, <2>2, <2>4, <2>5, <2>6, SEnds
<1>7. ASSUME EraseBreakpoint(t) PROVE SInv'
  <2> DEFINE gone == IF call[t].all THEN bpById ELSE {call[t].patch}
  <2>1. /\ call[t].pc = "erasing" /\ call[t].patch.of = "breakpoint"
        /\ call' = [call EXCEPT ![t] = Idle] /\ UNCHANGED <<codeVars, thread, crashed>>
        /\ bpById' = bpById \ gone
        /\ handlerInstalled' <=> (handlerInstalled /\ Needed(bpByAddress'))
    BY <1>7 DEF EraseBreakpoint, Working, At
  <2>2. DOMAIN bpByAddress' \subseteq DOMAIN bpByAddress
    BY <1>7 DEF EraseBreakpoint
  <2>3. call[t] # Idle
    BY <1>i, <2>1
  <2>4. Registered' \subseteq Registered /\ \A p \in Registered' : Known(p)
    BY <1>0, <2>1 DEF Registered, Known
  <2>5. Registered' \intersect released = {}
    <3> SUFFICES ASSUME NEW p \in Registered', p \in released PROVE FALSE
      OBVIOUS
    <3>1. PICK u \in Threads : /\ call[u].op = "remove" /\ call[u].patch.of = p.of
                               /\ call[u].all \/ (call[u].patch = p /\ call[u].pc = "erasing")
      BY <2>4 DEF SInv, GoneInv
    <3>2. u = t
      BY <1>i, <2>3, <3>1, CallsAreQuiet DEF Quiet
    <3>3. p.of = "breakpoint" /\ p \in bpById
      BY <1>k, <2>1, <2>4, <3>1, <3>2, RegisteredFacts
    <3>4. p \in gone
      BY <3>1, <3>2, <3>3
    <3>5. p \notin hooksById'
      <4>1. \A q \in hooksById : q.of = "hook"
        BY DEF MInv, MapsInv, MapOK, IdOf, Kinds
      <4> QED BY <1>0, <3>3, <4>1
    <3> QED BY <2>1, <3>4, <3>5 DEF Registered
  <2>6. DOMAIN bpByAddress' # {} => handlerInstalled'
    BY <2>1, <2>2 DEF SInv, HandlerInv, Needed
  <2> QED BY <2>1, <2>3, <2>4, <2>5, <2>6, SEnds
<1> QED BY <1>1, <1>2, <1>3, <1>4, <1>5, <1>6, <1>7 DEF BreakpointCall

LEMMA SHookCall ==
  ASSUME MInv, NInv, SInv, Orderly, NEW t \in Threads, HookCall(t)
  PROVE  SInv'
<1> USE DEF bpVars, hookVars
<1>k. /\ "hook" \in Kinds /\ IdOf("hook") = hooksById /\ AddressOf("hook") = hooksByTarget
      /\ WidthOf("hook") = PatchSize /\ hooksById \subseteq Registered
  BY DEF Kinds, IdOf, AddressOf, WidthOf, Registered
<1>0. UNCHANGED bpVars
  BY DEF HookCall
<1>h. DOMAIN bpByAddress' # {} => handlerInstalled'
  BY <1>0 DEF SInv, HandlerInv
<1>i. Idle.pc = "idle" /\ Idle.op = "none"
  BY DEF Idle
<1>1. ASSUME NEW a \in Cells, NEW kind, InstallHook(t, kind, a) PROVE SInv'
  <2>1. MayCall(t) /\ Build(t, "hook", kind, a, WidthOf("hook")) /\ UNCHANGED hookVars
    BY <1>k, <1>1 DEF InstallHook
  <2> QED BY <1>0, <1>k, <2>1, SBuild
<1>3. ASSUME NEW p \in hooksById, Detach(t, p) PROVE SInv'
  <2>1. MayCall(t) /\ StartUndo(t, p, {}, FALSE) /\ UNCHANGED hookVars
    BY <1>3 DEF Detach, CanDetach
  <2> QED BY <1>0, <1>k, <2>1, SStartUndo
<1>4. ASSUME NEW a \in Cells, Revert(t, a) PROVE SInv'
  <2>1. PICK p \in hooksById : p = hooksByTarget[a]
    BY <1>4, <1>k DEF Revert, MInv, MapsInv, MapOK
  <2>2. MayCall(t) /\ StartUndo(t, p, {}, FALSE) /\ UNCHANGED hookVars
    BY <1>4, <2>1 DEF Revert, CanDetach
  <2> QED BY <1>0, <1>k, <2>2, SStartUndo
<1>5. ASSUME DetachAll(t) PROVE SInv'
  <2>1. PICK p \in hooksById : StartUndo(t, p, hooksById \ {p}, TRUE)
    BY <1>5 DEF DetachAll
  <2>2. MayCall(t) /\ UNCHANGED hookVars
    BY <1>5 DEF DetachAll, CanDetach
  <2> QED BY <1>0, <1>k, <2>1, <2>2, SStartUndo
<1>6. ASSUME RegisterHook(t) PROVE SInv'
  <2>1. /\ call[t].pc = "registering" /\ call' = [call EXCEPT ![t] = Idle]
        /\ UNCHANGED <<codeVars, thread, crashed>>
        /\ hooksById' = hooksById \union {call[t].patch}
    BY <1>6 DEF RegisterHook, Hooking, At
  <2>2. call[t] # Idle /\ Sets(t)
    BY <1>i, <2>1 DEF MInv, CallInv, Removes
  <2>3. Registered' = Registered \union {call[t].patch}
    BY <1>0, <2>1 DEF Registered
  <2>4. \A p \in Registered' : Known(p)
    BY <2>2, <2>3 DEF Known
  <2>5. Registered' \intersect released = {}
    <3>1. Registered \intersect released = {}
      BY <2>2, CallsAreQuiet, NothingGone DEF Sets
    <3> QED BY <2>2, <2>3, <3>1 DEF Sets
  <2> QED BY <1>h, <2>1, <2>2, <2>4, <2>5, SEnds
<1>7. ASSUME EraseHook(t) PROVE SInv'
  <2> DEFINE gone == IF call[t].all THEN hooksById ELSE {call[t].patch}
  <2>1. /\ call[t].pc = "erasing" /\ call[t].patch.of = "hook"
        /\ call' = [call EXCEPT ![t] = Idle] /\ UNCHANGED <<codeVars, thread, crashed>>
        /\ hooksById' = hooksById \ gone
    BY <1>7 DEF EraseHook, Hooking, At
  <2>3. call[t] # Idle
    BY <1>i, <2>1
  <2>4. Registered' \subseteq Registered /\ \A p \in Registered' : Known(p)
    BY <1>0, <2>1 DEF Registered, Known
  <2>5. Registered' \intersect released = {}
    <3> SUFFICES ASSUME NEW p \in Registered', p \in released PROVE FALSE
      OBVIOUS
    <3>1. PICK u \in Threads : /\ call[u].op = "remove" /\ call[u].patch.of = p.of
                               /\ call[u].all \/ (call[u].patch = p /\ call[u].pc = "erasing")
      BY <2>4 DEF SInv, GoneInv
    <3>2. u = t
      BY <1>i, <2>3, <3>1, CallsAreQuiet DEF Quiet
    <3>3. p.of = "hook" /\ p \in hooksById
      BY <1>k, <2>1, <2>4, <3>1, <3>2, RegisteredFacts
    <3>4. p \in gone
      BY <3>1, <3>2, <3>3
    <3>5. p \notin bpById'
      <4>1. \A q \in bpById : q.of = "breakpoint"
        BY DEF MInv, MapsInv, MapOK, IdOf, Kinds
      <4> QED BY <1>0, <3>3, <4>1
    <3> QED BY <2>1, <3>4, <3>5 DEF Registered
  <2> QED BY <1>h, <2>1, <2>3, <2>4, <2>5, SEnds
<1> QED BY <1>1, <1>3, <1>4, <1>5, <1>6, <1>7 DEF HookCall, Attach, Replace

LEMMA SInitially == Init => SInv
<1> SUFFICES ASSUME Init PROVE SInv
  OBVIOUS
<1> USE DEF Init, CodeInit, BreakpointInit, InterceptorInit
<1>1. OneInv /\ OpenInv /\ GoneInv /\ ~crashed
  BY DEF OneInv, OpenInv, GoneInv, Registered, Idle
<1>2. PlainInv
  BY DEF PlainInv, Known, Registered, Sets, Idle
<1>3. HandlerInv
  BY DEF HandlerInv, Idle
<1>4. ThreadInv
  BY DEF ThreadInv, MayBe, Outside, InPatch
<1> QED BY <1>1, <1>2, <1>3, <1>4 DEF SInv

LEMMA SStep ==
  ASSUME MInv, NInv, SInv, Orderly, Open, [Next]_vars
  PROVE  SInv'
<1>1. CASE UNCHANGED vars
  <2> USE <1>1 DEF vars, codeVars, bpVars, hookVars
  <2>1. OneInv' /\ OpenInv' /\ GoneInv' /\ HandlerInv' /\ ~crashed'
    BY DEF SInv, OneInv, OpenInv, GoneInv, HandlerInv, Registered
  <2>2. \A p : CellsOf(p)' = CellsOf(p)
    BY DEF CellsOf, Covered
  <2>3. \A p, c : Saved(p, c)' = Saved(p, c)
    BY DEF Saved
  <2>4. \A p : Known(p)' <=> Known(p)
    BY DEF Known, Registered, Sets, AddressOf
  <2>5. PlainInv'
    BY <2>2, <2>3, <2>4 DEF SInv, PlainInv
  <2>6. ThreadInv'
    BY DEF SInv, ThreadInv, MayBe, Registered, CellsOf, Covered
  <2> QED BY <2>1, <2>5, <2>6 DEF SInv
<1>2. ASSUME NEW t \in Threads, Enter(t) \/ EnterFromCall(t) \/ ThreadStep(t) PROVE SInv'
  BY <1>2, SThreadStep
<1>3. ASSUME NEW t \in Threads, BreakpointCall(t) PROVE SInv'
  BY <1>3, SBreakpointCall
<1>4. ASSUME NEW t \in Threads, HookCall(t) PROVE SInv'
  BY <1>4, SHookCall
<1>5. ASSUME NEW t \in Threads, CodeCall(t) PROVE SInv'
  BY <1>5, SCodeCall
<1> QED BY <1>1, <1>2, <1>3, <1>4, <1>5 DEF Next

LEMMA RulesForStacks ==
  /\ Orderly => Nested
  /\ Open => Whole
BY DEF Orderly, Nested, Open, Whole, AllRules

\* For a user who keeps to all the rules, where mprotect() does not fail: calls run
\* alone, and every thread is in the function, or in code of a registered patch.
THEOREM ThreadsHold ==
  ASSUME Orderly, Open
  PROVE  Spec => [](MInv /\ NInv /\ SInv)
<1>1. Init => SInv
  BY SInitially
<1>2. MInv /\ NInv /\ SInv /\ [Next]_vars => SInv'
  BY SStep
<1>3. Spec => [](MInv /\ NInv)
  BY RulesForStacks, StacksHold
<1> QED BY <1>1, <1>2, <1>3, PTL DEF Spec

\* For such a user no patch kills the program: no thread meets half a jump, a page that
\* is not executable, a trap nobody claims or code that was given back.
THEOREM NobodyIsKilled ==
  ASSUME Orderly, Open
  PROVE  Spec => []Survives
<1>1. SInv => Survives
  BY DEF SInv, Survives
<1> QED BY <1>1, ThreadsHold, PTL

--------------------------------------------------------------------------------
(* The breakpoints and hooks of such a user are transparent *)

\* Position(t), of a thread that is to become th.
PositionOf(th) ==
  LET a == entry[th.patch].address
  IN CASE th.phase = "outside" -> Size + 1
       [] th.phase = "replacement" -> Size + 2
       [] th.phase \in {"code", "trapped"} -> th.pc
       [] th.phase \in {"trampoline", "callback", "leaving"} -> a
       [] th.phase = "relocated" -> a + th.pc - 1

LEMMA Positioned ==
  ASSUME TypeOK, NEW t \in Threads
  PROVE  /\ Positions[t] = PositionOf(thread[t]) /\ Reported[t] = thread[t].told
         /\ thread[t].phase = "outside" => Positions[t] = Size + 1
         /\ thread[t].phase = "replacement" => Positions[t] = Size + 2
         /\ thread[t].phase \in {"code", "trapped"} => Positions[t] = thread[t].pc
         /\ thread[t].phase \in {"trampoline", "callback", "leaving"} =>
              Positions[t] = entry[thread[t].patch].address
         /\ thread[t].phase = "relocated" =>
              Positions[t] = entry[thread[t].patch].address + thread[t].pc - 1
<1>1. Positions[t] = Position(t) /\ Reported[t] = thread[t].told
  BY DEF Positions, Reported
<1>2. Position(t) = PositionOf(thread[t])
  BY DEF Position, PositionOf
<1>3. thread[t].phase = "outside" => Position(t) = Size + 1
  BY DEF Position
<1>4. thread[t].phase = "replacement" => Position(t) = Size + 2
  BY DEF Position
<1>5. thread[t].phase \in {"code", "trapped"} => Position(t) = thread[t].pc
  BY DEF Position
<1>6. thread[t].phase \in {"trampoline", "callback", "leaving"} =>
        Position(t) = entry[thread[t].patch].address
  BY DEF Position
<1>7. thread[t].phase = "relocated" => Position(t) = entry[thread[t].patch].address + thread[t].pc - 1
  BY DEF Position
<1> QED BY <1>1, <1>2, <1>3, <1>4, <1>5, <1>6, <1>7

\* What is armed and what is replaced are instructions of the function, and different ones.
Configured ==
  /\ AddressesOf(Reporting) \subseteq 0 .. Size - 1
  /\ AddressesOf(Diverting) \subseteq 0 .. Size - 1
  /\ AddressesOf(Reporting) \intersect AddressesOf(Diverting) = {}

LEMMA RegisteredAt ==
  ASSUME MInv, NEW p \in Registered
  PROVE  /\ EntryOK(p) /\ entry[p].address \in Cells /\ entry[p].address \in CellsOf(p)
         /\ p \in Reporting \/ p \in Diverting
         /\ p \in bpById \/ p \in hooksById
<1>1. p \in Patches /\ entry[p] # NoEntry
  BY RegisteredFacts
<1>2. EntryOK(p)
  BY <1>1 DEF MInv, EntryInv
<1>3. Width(p) \in Nat \ {0} /\ entry[p].address \in Nat /\ entry[p].address + Width(p) <= Size
  BY <1>2, CodeConstants DEF EntryOK, Width, WidthOf
<1>4. entry[p].address \in Cells
  BY <1>3, CodeConstants DEF Cells
<1>5. CellsOf(p) = entry[p].address .. entry[p].address + Width(p) - 1
  BY <1>2 DEF EntryOK, CellsOf, Covered
<1>6. entry[p].address \in CellsOf(p)
  BY <1>3, <1>5
<1>7. p \in bpById \/ p \in hooksById
  BY DEF Registered
<1>8. p \in hooksById => entry[p].kind \in {"attached", "replaced"}
  <2>1. p \in hooksById => p.of = "hook"
    BY DEF MInv, MapsInv, MapOK, IdOf, Kinds
  <2> QED BY <1>2, <2>1 DEF EntryOK, KindsOf
<1> QED BY <1>2, <1>4, <1>6, <1>7, <1>8 DEF Reporting, Diverting

LEMMA ConfiguredHolds ==
  ASSUME MInv, SInv
  PROVE  Configured
<1>0. Reporting \subseteq Registered /\ Diverting \subseteq Registered
  BY DEF Reporting, Diverting, Registered
<1>1. ASSUME NEW p \in Reporting, NEW q \in Diverting, entry[p].address = entry[q].address
      PROVE  FALSE
  <2>1. p # q
    <3>1. bpById \intersect hooksById = {}
      BY DEF MInv, MapsInv, MapOK, IdOf, Kinds
    <3> QED BY <3>1 DEF Reporting, Diverting
  <2>2. entry[p].address \in CellsOf(p) \intersect CellsOf(q)
    BY <1>0, <1>1, RegisteredAt
  <2>3. p \in Patches /\ q \in Patches /\ Known(p) /\ Known(q)
    BY <1>0, RegisteredFacts DEF Known
  <2> QED BY <2>1, <2>2, <2>3 DEF SInv, PlainInv
<1>2. \A p \in Registered : entry[p].address \in 0 .. Size - 1
  BY RegisteredAt DEF Cells
<1> QED BY <1>0, <1>1, <1>2 DEF Configured, AddressesOf

\* The position of a thread in this phase.
IsAt(pos, phase, pc, patch) ==
  /\ phase \in Phases
  /\ phase = "outside" => pos = Size + 1
  /\ phase = "replacement" => pos = Size + 2
  /\ phase \in {"code", "trapped"} => pos = pc
  /\ phase \in {"trampoline", "callback", "leaving"} => pos = entry[patch].address
  /\ phase = "relocated" => pos = entry[patch].address + pc - 1

\* A thread moves and nothing else changes.
LEMMA MapsTo ==
  ASSUME TypeOK, NEW t \in Threads, NEW th, thread' = [thread EXCEPT ![t] = th],
         UNCHANGED <<codeVars, bpVars, hookVars>>,
         NEW pos, IsAt(pos, th.phase, th.pc, th.patch), NEW told, th.told = told
  PROVE  Contract!Goes(t, pos, told)
<1>1. UNCHANGED <<entry, bpById, hooksById>>
  BY DEF codeVars, bpVars, hookVars
<1>2. UNCHANGED <<AddressesOf(Reporting), AddressesOf(Diverting)>>
  BY <1>1 DEF AddressesOf, Reporting, Diverting
<1>3. \A u \in Threads : thread'[u] = IF u = t THEN th ELSE thread[u]
  BY DEF TypeOK
<1>4. Reported' = [Reported EXCEPT ![t] = told]
  <2>1. \A u \in Threads : thread'[u].told = IF u = t THEN told ELSE thread[u].told
    BY <1>3
  <2> QED BY <2>1 DEF Reported
<1>5. \A u \in Threads : Position(u)' = IF u = t THEN PositionOf(th) ELSE Position(u)
  <2>1. \A u, x : thread[u] = x => Position(u) = PositionOf(x)
    BY DEF Position, PositionOf
  <2>2. \A u, x : thread'[u] = x => Position(u)' = PositionOf(x)'
    BY DEF Position, PositionOf
  <2>3. \A x : PositionOf(x)' = PositionOf(x)
    BY <1>1 DEF PositionOf
  <2> QED BY <1>3, <2>1, <2>2, <2>3
<1>6. PositionOf(th) = pos
  BY DEF PositionOf, IsAt, Phases
<1>7. Positions' = [Positions EXCEPT ![t] = pos]
  BY <1>5, <1>6 DEF Positions
<1> QED BY <1>2, <1>4, <1>7 DEF Contract!Goes

LEMMA Maps ==
  ASSUME TypeOK, NEW t \in Threads, NEW phase, NEW pc, NEW patch, NEW told,
         Move(t, phase, pc, patch, told), NEW pos, IsAt(pos, phase, pc, patch)
  PROVE  Contract!Goes(t, pos, told)
<1>1. PICK th : th = [phase |-> phase, pc |-> pc, patch |-> patch, told |-> told]
  OBVIOUS
<1>2. th.phase = phase /\ th.pc = pc /\ th.patch = patch /\ th.told = told
  BY <1>1
<1>3. thread' = [thread EXCEPT ![t] = th] /\ UNCHANGED <<codeVars, bpVars, hookVars>>
  BY <1>1 DEF Move
<1> QED BY <1>2, <1>3, MapsTo

LEMMA Stutters ==
  ASSUME TypeOK, NEW t \in Threads, NEW pos, NEW told, Contract!Goes(t, pos, told),
         pos = Positions[t], told = Reported[t]
  PROVE  UNCHANGED Contract!vars
<1>1. Positions' = Positions
  BY DEF Contract!Goes, Positions
<1>2. Reported' = Reported
  BY DEF Contract!Goes, Reported
<1> QED BY <1>1, <1>2 DEF Contract!Goes, Contract!vars

\* Every step of a thread does what the contract allows, or nothing it can see.
LEMMA ContractThreadStep ==
  ASSUME MInv, NInv, SInv, ~crashed', Orderly, NEW t \in Threads,
         Enter(t) \/ EnterFromCall(t) \/ ThreadStep(t)
  PROVE  [Contract!Next]_(Contract!vars)
<1> DEFINE th == thread[t]
<1>0. /\ MayBe(th) /\ th.pc \in Nat /\ TypeOK
      /\ Size \in Nat
  BY ThreadTyped, CodeConstants DEF SInv, ThreadInv, MInv
<1>r. ASSUME th.phase # "outside" PROVE NoCalls
  BY <1>r, Rest
<1>p. /\ Reported[t] = th.told
      /\ th.phase = "outside" => Positions[t] = Size + 1
      /\ th.phase = "replacement" => Positions[t] = Size + 2
      /\ th.phase \in {"code", "trapped"} => Positions[t] = th.pc
      /\ th.phase \in {"trampoline", "callback", "leaving"} =>
           Positions[t] = entry[th.patch].address
      /\ th.phase = "relocated" => Positions[t] = entry[th.patch].address + th.pc - 1
  BY <1>0, Positioned
<1>m. \A p \in Registered : /\ EntryOK(p) /\ Width(p) \in Nat \ {0}
                            /\ Len(entry[p].body) = Width(p)
                            /\ CellsOf(p) = entry[p].address .. entry[p].address + Width(p) - 1
  <2>1. \A p \in Registered : EntryOK(p)
    BY RegisteredAt
  <2> QED BY <2>1, CodeConstants DEF EntryOK, Width, WidthOf, CellsOf, Covered
<1>a. AddressesOf(Reporting) \union AddressesOf(Diverting) = {entry[p].address : p \in Registered}
  <2>1. Reporting \union Diverting = Registered
    BY RegisteredAt DEF Reporting, Diverting, Registered
  <2> QED BY <2>1 DEF AddressesOf
\* The contract's step and the one that changes nothing it can see.
<1>n. ASSUME \/ Contract!Enter(t) \/ Contract!Report(t) \/ Contract!Execute(t)
             \/ Contract!Divert(t) \/ Contract!RunOriginal(t) \/ Contract!Leave(t)
      PROVE  [Contract!Next]_(Contract!vars)
  BY <1>n DEF Contract!Next
<1>c. PICK i, q, b : i = th.pc /\ q = th.patch /\ b = th.told
  OBVIOUS
<1>s. ASSUME NEW pos, NEW told, Contract!Goes(t, pos, told), pos = Positions[t], told = Reported[t]
      PROVE  [Contract!Next]_(Contract!vars)
  BY <1>0, <1>s, Stutters
<1>g. ASSUME NEW phase, NEW pc, NEW patch, NEW told, Move(t, phase, pc, patch, told),
             NEW pos, IsAt(pos, phase, pc, patch)
      PROVE  Contract!Goes(t, pos, told)
  BY <1>0, <1>g, Maps
<1>d. ~Dies(t)
  BY DEF Dies
<1>1. ASSUME Enter(t) PROVE [Contract!Next]_(Contract!vars)
  <2>1. th.phase = "outside" /\ Move(t, "code", 0, NoPatch, FALSE)
    BY <1>1 DEF Enter, Runs
  <2>2. Contract!Goes(t, 0, FALSE)
    <3>1. IsAt(0, "code", 0, NoPatch)
      BY DEF IsAt, Phases
    <3> QED BY <1>g, <2>1, <3>1
  <2>3. Contract!Enter(t)
    BY <1>p, <2>1, <2>2 DEF Contract!Enter, Contract!Outside
  <2> QED BY <1>n, <2>3
<1>2. ~EnterFromCall(t)
  BY DEF EnterFromCall, Orderly, AllRules
<1>3. ASSUME Execute(t) PROVE [Contract!Next]_(Contract!vars)
  <2>1. /\ th.phase = "code" /\ th.pc < Size /\ Here(t).kind = "insn"
        /\ Move(t, "code", th.pc + 1, NoPatch, FALSE)
    BY <1>3 DEF Execute, InCode, Runs
  <2>2. \A p \in Registered : th.pc \notin CellsOf(p)
    BY <2>1, Finds
  <2>3. \A p \in Registered : th.pc # entry[p].address
    BY <2>2, RegisteredAt
  <2>4. Contract!Goes(t, th.pc + 1, FALSE)
    <3>1. Move(t, "code", i + 1, NoPatch, FALSE)
      BY <1>c, <2>1
    <3>2. IsAt(i + 1, "code", i + 1, NoPatch)
      BY DEF IsAt, Phases
    <3>3. Contract!Goes(t, i + 1, FALSE)
      BY <1>g, <3>1, <3>2
    <3> QED BY <1>c, <3>3
  <2>5. Positions[t] = th.pc /\ Positions[t] \notin AddressesOf(Reporting) \union AddressesOf(Diverting)
    BY <1>a, <1>p, <2>1, <2>3
  <2>6. Contract!Execute(t)
    BY <2>1, <2>4, <2>5 DEF Contract!Execute
  <2> QED BY <1>n, <2>6
<1>4. ASSUME Trap(t) PROVE [Contract!Next]_(Contract!vars)
  <2>1. th.phase = "code" /\ Move(t, "trapped", th.pc, NoPatch, FALSE)
    BY <1>4 DEF Trap, InCode, Runs
  <2>2. Positions[t] = i /\ Reported[t] = FALSE
    BY <1>0, <1>c, <1>p, <2>1 DEF MayBe
  <2>3. Move(t, "trapped", i, NoPatch, FALSE)
    BY <1>c, <2>1
  <2>4. IsAt(i, "trapped", i, NoPatch)
    BY DEF IsAt, Phases
  <2>5. Contract!Goes(t, i, FALSE)
    BY <1>g, <2>3, <2>4
  <2> QED BY <1>s, <2>2, <2>5
<1>5. ASSUME TakeJump(t) PROVE [Contract!Next]_(Contract!vars)
  <2>1. th.phase = "code" /\ th.pc < Size /\ Here(t).kind = "jump"
    BY <1>5 DEF TakeJump, InCode, Runs, WholeJump
  <2>2. PICK p \in hooksById : p = Here(t).patch /\ th.pc = entry[p].address
    BY <2>1, Finds
  <2>3. Move(t, IF entry[p].kind = "attached" THEN "trampoline" ELSE "replacement", 0, p, FALSE)
    BY <1>5, <2>2 DEF TakeJump
  <2>4. entry[p].kind \in {"attached", "replaced"}
    <3>1. p \in Registered /\ p.of = "hook"
      BY DEF Registered, MInv, MapsInv, MapOK, IdOf, Kinds
    <3> QED BY <1>m, <3>1 DEF EntryOK, KindsOf
  <2>5. Positions[t] = th.pc /\ Reported[t] = FALSE
    BY <1>0, <1>p, <2>1 DEF MayBe
  <2>6. CASE entry[p].kind = "attached"
    <3>1. Move(t, "trampoline", 0, p, FALSE)
      BY <2>3, <2>6
    <3>2. IsAt(i, "trampoline", 0, p)
      BY <1>c, <2>2 DEF IsAt, Phases
    <3>3. Contract!Goes(t, i, FALSE)
      BY <1>g, <3>1, <3>2
    <3> QED BY <1>c, <1>s, <2>5, <3>3
  <2>7. CASE entry[p].kind = "replaced"
    <3>1. Contract!Goes(t, Size + 2, FALSE)
      <4>1. Move(t, "replacement", 0, p, FALSE)
        BY <2>3, <2>7
      <4>2. IsAt(Size + 2, "replacement", 0, p)
        BY DEF IsAt, Phases
      <4> QED BY <1>g, <4>1, <4>2
    <3>2. Positions[t] \in AddressesOf(Diverting)
      BY <2>2, <2>5, <2>7 DEF AddressesOf, Diverting
    <3>3. Contract!Divert(t)
      BY <2>5, <3>1, <3>2 DEF Contract!Divert, Contract!Diverted
    <3> QED BY <1>n, <3>3
  <2> QED BY <2>4, <2>6, <2>7
<1>6. ~RunsAstray(t)
  BY <1>d DEF RunsAstray
<1>7. ASSUME Leave(t) PROVE [Contract!Next]_(Contract!vars)
  <2>1. th.phase = "code" /\ th.pc = Size /\ Move(t, "outside", 0, NoPatch, FALSE)
    BY <1>7 DEF Leave, Runs
  <2>2. Contract!Goes(t, Size + 1, FALSE)
    <3>1. IsAt(Size + 1, "outside", 0, NoPatch)
      BY DEF IsAt, Phases
    <3> QED BY <1>g, <2>1, <3>1
  <2>3. Contract!Leave(t)
    BY <1>p, <2>1, <2>2 DEF Contract!Leave, Contract!Outside
  <2> QED BY <1>n, <2>3
<1>8. ASSUME CallCallback(t) PROVE [Contract!Next]_(Contract!vars)
  <2>1. th.phase = "trampoline" /\ Move(t, "callback", 0, th.patch, TRUE)
    BY <1>8 DEF CallCallback, Runs
  <2>2. th.patch \in Registered /\ entry[th.patch].kind # "replaced" /\ Reported[t] = FALSE
    BY <1>0, <1>p, <2>1 DEF MayBe, InPatch
  <2>3. PICK p \in Reporting : p = th.patch
    BY <2>2, RegisteredAt DEF Diverting
  <2>a. PICK a : a = entry[p].address
    OBVIOUS
  <2>4. Positions[t] = a /\ Positions[t] \in AddressesOf(Reporting)
    BY <1>p, <2>1, <2>3, <2>a DEF AddressesOf
  <2>5. Contract!Goes(t, Positions[t], TRUE)
    <3>1. Move(t, "callback", 0, p, TRUE)
      BY <2>1, <2>3
    <3>2. IsAt(a, "callback", 0, p)
      BY <2>a DEF IsAt, Phases
    <3>3. Contract!Goes(t, a, TRUE)
      BY <1>g, <3>1, <3>2
    <3> QED BY <2>4, <3>3
  <2>6. Contract!Report(t)
    BY <2>2, <2>4, <2>5 DEF Contract!Report
  <2> QED BY <1>n, <2>6
<1>9. ASSUME CallOnLeave(t) PROVE [Contract!Next]_(Contract!vars)
  <2>1. th.phase = "callback" /\ Move(t, "leaving", 0, th.patch, th.told)
    BY <1>9 DEF CallOnLeave, Runs
  <2>2. PICK a : a = entry[th.patch].address
    OBVIOUS
  <2>3. Positions[t] = a /\ Reported[t] = b
    BY <1>c, <1>p, <2>1, <2>2
  <2>4. Move(t, "leaving", 0, q, b)
    BY <1>c, <2>1
  <2>5. IsAt(a, "leaving", 0, q)
    BY <1>c, <2>2 DEF IsAt, Phases
  <2>6. Contract!Goes(t, a, b)
    BY <1>g, <2>4, <2>5
  <2> QED BY <1>s, <2>3, <2>6
<1>10. ASSUME RunRelocated(t) PROVE [Contract!Next]_(Contract!vars)
  <2>1. th.phase \in {"callback", "leaving"} /\ Move(t, "relocated", 1, th.patch, th.told)
    BY <1>10 DEF RunRelocated, Runs
  <2>2. th.patch \in Registered
    BY <1>0, <2>1 DEF MayBe, InPatch
  <2>3. PICK a \in Nat : a = entry[th.patch].address
    BY <1>m, <2>2 DEF EntryOK
  <2>4. Positions[t] = a /\ Reported[t] = b
    BY <1>c, <1>p, <2>1, <2>3
  <2>5. Move(t, "relocated", 1, q, b)
    BY <1>c, <2>1
  <2>6. IsAt(a, "relocated", 1, q)
    <3>1. a = entry[q].address + 1 - 1
      BY <1>c, <2>3
    <3> QED BY <3>1 DEF IsAt, Phases
  <2>7. Contract!Goes(t, a, b)
    BY <1>g, <2>5, <2>6
  <2> QED BY <1>s, <2>4, <2>7
\* In the relocated code of a patch a thread is somewhere behind its address.
<1>b. ASSUME th.phase = "relocated"
      PROVE  \E p \in Registered :
               /\ p = th.patch /\ EntryOK(p) /\ entry[p].address \in Nat
               /\ Len(Body(t)) = Width(p) /\ Width(p) \in Nat \ {0}
               /\ entry[p].address + Width(p) <= Size
               /\ Positions[t] = entry[p].address + th.pc - 1
               /\ th.pc \in 1 .. Width(p) + 1 /\ (th.told <=> th.pc = 1)
  <2>1. th.patch \in Registered /\ th.pc \in 1 .. Len(entry[th.patch].body) + 1
        /\ (th.told <=> th.pc = 1)
    BY <1>0, <1>b DEF MayBe
  <2>2. PICK p \in Registered : p = th.patch
    BY <2>1
  <2>3. EntryOK(p) /\ Width(p) \in Nat \ {0} /\ Len(entry[p].body) = Width(p)
    BY <1>m
  <2>4. entry[p].address \in Nat /\ entry[p].address + Width(p) <= Size
    BY <2>3 DEF EntryOK
  <2> QED BY <1>b, <1>p, <2>1, <2>2, <2>3, <2>4 DEF Body
<1>11. ASSUME ExecuteRelocated(t) PROVE [Contract!Next]_(Contract!vars)
  <2>1. /\ th.phase = "relocated" /\ th.pc <= Len(Body(t))
        /\ Move(t, "relocated", th.pc + 1, th.patch, FALSE)
    BY <1>11 DEF ExecuteRelocated, Runs
  <2>2. PICK p \in Registered :
          /\ p = th.patch /\ EntryOK(p) /\ entry[p].address \in Nat
          /\ Len(Body(t)) = Width(p) /\ Width(p) \in Nat \ {0}
          /\ entry[p].address + Width(p) <= Size
          /\ Positions[t] = entry[p].address + th.pc - 1
          /\ th.pc \in 1 .. Width(p) + 1 /\ (th.told <=> th.pc = 1)
    BY <1>b, <2>1
  <2> DEFINE a == entry[p].address
             w == Width(p)
  <2>3. /\ a \in Nat /\ w \in Nat \ {0} /\ i \in 1 .. w + 1 /\ i <= w /\ a + w <= Size
        /\ Positions[t] = a + i - 1
    BY <1>c, <2>1, <2>2
  <2>4. Positions[t] < Size /\ Positions[t] + 1 = a + (i + 1) - 1
    <3> HIDE DEF a, w
    <3> QED BY <1>0, <2>3
  <2>5. ASSUME NEW r \in Registered, Positions[t] = entry[r].address PROVE i = 1
    <3>1. CASE r = p
      <4>1. a + i - 1 = a
        BY <2>3, <2>5, <3>1
      <4> HIDE DEF a, w
      <4> QED BY <2>3, <4>1
    <3>2. CASE r # p
      <4>1. Positions[t] \in CellsOf(r)
        BY <2>5, RegisteredAt
      <4>2. Positions[t] \in CellsOf(p)
        <5>1. CellsOf(p) = a .. a + w - 1
          BY <1>m
        <5> HIDE DEF a, w
        <5> QED BY <2>3, <5>1
      <4>3. p \in Patches /\ r \in Patches /\ Known(p) /\ Known(r)
        BY RegisteredFacts DEF Known
      <4> QED BY <3>2, <4>1, <4>2, <4>3 DEF SInv, PlainInv
    <3> QED BY <3>1, <3>2
  <2>6. Positions[t] \in AddressesOf(Reporting) \union AddressesOf(Diverting) => Reported[t]
    <3>1. i = 1 => Reported[t]
      BY <1>c, <1>p, <2>2
    <3> QED BY <1>a, <2>5, <3>1
  <2>7. Contract!Goes(t, Positions[t] + 1, FALSE)
    <3>1. PICK pos : pos = Positions[t] + 1
      OBVIOUS
    <3>2. Move(t, "relocated", i + 1, q, FALSE)
      BY <1>c, <2>1
    <3>3. IsAt(pos, "relocated", i + 1, q)
      <4>1. pos = entry[q].address + (i + 1) - 1
        BY <1>c, <2>2, <2>4, <3>1
      <4> QED BY <4>1 DEF IsAt, Phases
    <3>4. Contract!Goes(t, pos, FALSE)
      BY <1>g, <3>2, <3>3
    <3> QED BY <3>1, <3>4
  <2>8. Contract!Execute(t)
    BY <2>4, <2>6, <2>7 DEF Contract!Execute
  <2> QED BY <1>n, <2>8
<1>12. ~RunsCopiedPatch(t)
  BY <1>d DEF RunsCopiedPatch
<1>13. ASSUME JumpBack(t) PROVE [Contract!Next]_(Contract!vars)
  <2>1. /\ th.phase = "relocated" /\ th.pc > Len(Body(t))
        /\ Move(t, "code", BackTo(th.patch), NoPatch, FALSE)
    BY <1>13 DEF JumpBack, Runs
  <2>2. PICK p \in Registered :
          /\ p = th.patch /\ EntryOK(p) /\ entry[p].address \in Nat
          /\ Len(Body(t)) = Width(p) /\ Width(p) \in Nat \ {0}
          /\ entry[p].address + Width(p) <= Size
          /\ Positions[t] = entry[p].address + th.pc - 1
          /\ th.pc \in 1 .. Width(p) + 1 /\ (th.told <=> th.pc = 1)
    BY <1>b, <2>1
  <2>3. BackTo(p) = entry[p].address + Width(p)
    BY <1>m DEF BackTo
  <2>4. th.pc = Width(p) + 1 /\ th.pc # 1
    BY <2>1, <2>2
  <2>5. BackTo(p) = Positions[t]
    BY <2>2, <2>3, <2>4
  <2>6. Reported[t] = FALSE
    <3>1. th.told \in BOOLEAN
      BY <1>0, ThreadTyped
    <3> QED BY <1>p, <2>2, <2>4, <3>1
  <2>7. PICK a \in Nat : a = BackTo(p)
    BY <2>2, <2>3
  <2>8. Move(t, "code", a, NoPatch, FALSE)
    BY <2>1, <2>2, <2>7
  <2>9. IsAt(a, "code", a, NoPatch)
    BY DEF IsAt, Phases
  <2>10. Contract!Goes(t, a, FALSE)
    BY <1>g, <2>8, <2>9
  <2> QED BY <1>s, <2>5, <2>6, <2>7, <2>10
<1>14. ASSUME ReplacementReturns(t) PROVE [Contract!Next]_(Contract!vars)
  <2>1. th.phase = "replacement" /\ Move(t, "outside", 0, NoPatch, FALSE)
    BY <1>14 DEF ReplacementReturns, Runs
  <2>2. Contract!Goes(t, Size + 1, FALSE)
    <3>1. IsAt(Size + 1, "outside", 0, NoPatch)
      BY DEF IsAt, Phases
    <3> QED BY <1>g, <2>1, <3>1
  <2>3. Contract!Leave(t)
    BY <1>p, <2>1, <2>2 DEF Contract!Leave, Contract!Outside, Contract!Diverted
  <2> QED BY <1>n, <2>3
<1>15. ASSUME CallOriginal(t) PROVE [Contract!Next]_(Contract!vars)
  <2>1. th.phase = "replacement" /\ Move(t, "relocated", 1, th.patch, TRUE)
    BY <1>15 DEF CallOriginal, Runs
  <2>2. th.patch \in Registered /\ entry[th.patch].kind = "replaced"
    BY <1>0, <2>1 DEF MayBe
  <2>3. PICK p \in Registered : p = th.patch /\ entry[p].kind = "replaced"
    BY <2>2
  <2>4. p \in Diverting
    <3>1. EntryOK(p) /\ (p \in bpById \/ p \in hooksById)
      BY RegisteredAt
    <3>2. p \in bpById => p.of = "breakpoint"
      BY DEF MInv, MapsInv, MapOK, IdOf, Kinds
    <3> QED BY <2>3, <3>1, <3>2 DEF EntryOK, KindsOf, Diverting
  <2>5. entry[p].address \in AddressesOf(Diverting)
    BY <2>4 DEF AddressesOf
  <2>6. PICK a \in Nat : a = entry[p].address
    BY <1>m DEF EntryOK
  <2>7. Contract!Goes(t, a, TRUE)
    <3>1. Move(t, "relocated", 1, p, TRUE)
      BY <2>1, <2>3
    <3>2. IsAt(a, "relocated", 1, p)
      <4>1. a = entry[p].address + 1 - 1
        BY <2>6
      <4> QED BY <4>1 DEF IsAt, Phases
    <3> QED BY <1>g, <3>1, <3>2
  <2>8. Contract!RunOriginal(t)
    BY <1>p, <2>1, <2>5, <2>6, <2>7 DEF Contract!RunOriginal, Contract!Diverted
  <2> QED BY <1>n, <2>8
<1>16. ~RunsReleased(t)
  BY <1>d DEF RunsReleased
<1>17. ASSUME SignalStep(t) PROVE [Contract!Next]_(Contract!vars)
  <2>1. Redirect(t) /\ th.phase = "trapped" /\ th.pc \in DOMAIN bpByAddress
    BY <1>17 DEF SignalStep, Redirect, Unclaimed, Trapped, Claims
  <2>2. PICK p : p = bpByAddress[th.pc] /\ entry[p].address = th.pc
    <3>1. MapOK("breakpoint")
      BY DEF MInv, MapsInv, Kinds
    <3> QED BY <2>1, <3>1 DEF MapOK, AddressOf
  <2>3. PICK x : x = [Outside EXCEPT !.phase = "trampoline", !.patch = p]
    OBVIOUS
  <2>4. thread' = [thread EXCEPT ![t] = x] /\ UNCHANGED <<codeVars, bpVars, hookVars>>
    BY <1>17, <2>1, <2>2, <2>3 DEF SignalStep, Redirect
  <2>5. x.phase = "trampoline" /\ x.patch = p /\ x.told = FALSE
    BY <2>3 DEF Outside
  <2>6. IsAt(i, x.phase, x.pc, x.patch)
    BY <1>c, <2>2, <2>5 DEF IsAt, Phases
  <2>7. Positions[t] = i /\ Reported[t] = FALSE
    BY <1>0, <1>c, <1>p, <2>1, <2>2 DEF MayBe
  <2>8. Contract!Goes(t, i, FALSE)
    BY <1>0, <2>4, <2>5, <2>6, MapsTo
  <2> QED BY <1>s, <2>7, <2>8
<1> QED BY <1>1, <1>2, <1>3, <1>4, <1>5, <1>6, <1>7, <1>8, <1>9, <1>10, <1>11, <1>12, <1>13,
           <1>14, <1>15, <1>16, <1>17 DEF ThreadStep

\* A call finds every thread outside; what it changes is what is armed and replaced.
LEMMA ContractCall ==
  ASSUME MInv, SInv, Configured', Orderly, NEW t \in Threads,
         BreakpointCall(t) \/ HookCall(t) \/ CodeCall(t)
  PROVE  [Contract!Next]_(Contract!vars)
<1>i. Idle.pc = "idle"
  BY DEF Idle
<1>1. MayCall(t) \/ call[t] # Idle
  <2>1. ASSUME BreakpointCall(t) PROVE MayCall(t) \/ call[t] # Idle
    BY <1>i, <2>1 DEF BreakpointCall, SetBreakpoint, SetFails, CanSet, RemoveBreakpoint, RemoveAll,
         RemoveAllOfNone, CanRemove, RegisterBreakpoint, EraseBreakpoint, Working, At
  <2>2. ASSUME HookCall(t) PROVE MayCall(t) \/ call[t] # Idle
    BY <1>i, <2>2 DEF HookCall, Attach, Replace, InstallHook, Revert, Detach, DetachAll, CanDetach,
         RegisterHook, EraseHook, Hooking, At
  <2>3. ASSUME CodeCall(t) PROVE MayCall(t) \/ call[t] # Idle
    <3>1. call[t].pc # "idle"
      <4>1. ASSUME ProtectFails(t) PROVE call[t].pc # "idle"
        BY <4>1, CodeConstants DEF ProtectFails, AllFailures
      <4> QED BY <2>3, <4>1 DEF CodeCall, MakeWritable, Copy, MakeExecutable, Release, At
    <3> QED BY <1>i, <3>1
  <2> QED BY <2>1, <2>2, <2>3
<1>2. \A u \in Threads : thread[u].phase = "outside"
  BY <1>1, CallsAreQuiet DEF Quiet
<1>3. thread' = thread
  <2>1. ASSUME BreakpointCall(t) PROVE thread' = thread
    BY <2>1 DEF BreakpointCall, SetBreakpoint, SetFails, Build, RemoveBreakpoint, RemoveAll,
         RemoveAllOfNone, StartUndo, RegisterBreakpoint, EraseBreakpoint
  <2>2. ASSUME HookCall(t) PROVE thread' = thread
    BY <2>2 DEF HookCall, Attach, Replace, InstallHook, Build, Revert, Detach, DetachAll,
         StartUndo, RegisterHook, EraseHook
  <2>3. ASSUME CodeCall(t) PROVE thread' = thread
    BY <2>3 DEF CodeCall, MakeWritable, Copy, MakeExecutable, ProtectFails, Release
  <2> QED BY <2>1, <2>2, <2>3
<1>4. Reported' = Reported
  BY <1>3 DEF Reported
<1>5. \A u \in Threads : Position(u) = Size + 1
  BY <1>2 DEF Position
<1>6. \A u \in Threads : Position(u)' = Size + 1
  BY <1>2, <1>3 DEF Position
<1>7. Positions' = Positions /\ \A u \in Threads : Positions[u] = Size + 1
  BY <1>5, <1>6 DEF Positions
<1>8. Contract!Configure
  BY <1>4, <1>7 DEF Contract!Configure, Contract!Outside, Configured
<1> QED BY <1>8 DEF Contract!Next

\* For such a user every thread runs the instructions of the function once and in order,
\* reports at each breakpoint and hook before it runs what is there, and runs what is
\* replaced only when the replacement asks for it.
THEOREM PatchesAreTransparent ==
  ASSUME Orderly, Open
  PROVE  Spec => ImplementsContract
<1>1. Init => Contract!Init
  <2> SUFFICES ASSUME Init PROVE Contract!Init
    OBVIOUS
  <2> USE DEF Init, CodeInit, BreakpointInit, InterceptorInit
  <2>1. \A t \in Threads : Position(t) = Size + 1
    BY DEF Position, Outside
  <2>2. Reported = [t \in Threads |-> FALSE]
    BY DEF Reported, Outside
  <2>3. AddressesOf(Reporting) = {} /\ AddressesOf(Diverting) = {}
    BY DEF AddressesOf, Reporting, Diverting
  <2> QED BY <2>1, <2>2, <2>3 DEF Contract!Init, Contract!Outside, Positions
<1>2. MInv /\ NInv /\ SInv /\ Configured' /\ SInv' /\ [Next]_vars
        => [Contract!Next]_(Contract!vars)
  <2> SUFFICES ASSUME MInv, NInv, SInv, Configured', SInv', [Next]_vars
               PROVE  [Contract!Next]_(Contract!vars)
    OBVIOUS
  <2>1. CASE UNCHANGED vars
    BY <2>1 DEF vars, codeVars, bpVars, hookVars, Contract!vars, Positions, Position, Reported,
         AddressesOf, Reporting, Diverting
  <2>2. ASSUME NEW t \in Threads, Enter(t) \/ EnterFromCall(t) \/ ThreadStep(t)
        PROVE  [Contract!Next]_(Contract!vars)
    <3>1. ~crashed'
      BY DEF SInv
    <3> QED BY <2>2, <3>1, ContractThreadStep
  <2>3. ASSUME NEW t \in Threads, BreakpointCall(t) \/ HookCall(t) \/ CodeCall(t)
        PROVE  [Contract!Next]_(Contract!vars)
    BY <2>3, ContractCall
  <2> QED BY <2>1, <2>2, <2>3 DEF Next
<1>3. MInv /\ SInv => Configured
  BY ConfiguredHolds
<1>4. Spec => [](MInv /\ NInv /\ SInv)
  BY ThreadsHold
<1> QED BY <1>1, <1>2, <1>3, <1>4, PTL DEF Spec, ImplementsContract, Contract!Spec
==================================================================================
