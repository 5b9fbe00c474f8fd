--------------------------- MODULE NativeMemoryProofs ---------------------------
(****************************************************************************)
(* NativeMemory implements FaultContract: whatever the number of threads,   *)
(* pages and calls, seen from outside safeReadMemory() leaves the signal    *)
(* table alone and answers no fault that is not its own.  If a read may     *)
(* throw, a fault of a read still ends in that read.                        *)
(*                                                                          *)
(* The inductive invariant says what the table holds at each point of a     *)
(* read (TableInv) and that there is one call at a time (CallInv).          *)
(****************************************************************************)
EXTENDS NativeMemory, TLAPS

OneCall == "one-call" \in Rules
Alike   == "alike" \in Rules

\* The table when nobody reads.
Base == IF saved = NotInstalled THEN Own ELSE [s \in Signals |-> "chromatic"]

ReadPcs  == {"read.SIGBUS", "read.bytes", "read.give-SIGSEGV-back", "read.give-SIGBUS-back"}
OtherPcs == {"program", "faulted", "read.SIGSEGV", "patch.writable", "patch.bytes",
             "patch.executable"}

\* What a thread may have kept of the table.
Entries == {Own[s] : s \in Signals} \union {"chromatic", "safe-read", "none"}

Places == [pc : ReadPcs \union OtherPcs, page : Pages \union {Program.page},
           needs : {"r", "w", "x"}, old : Entries, active : BOOLEAN]

\* One call at a time, and only a thread that reads through a page has asked for the jump.
CallInv ==
  /\ thread \in [Threads -> Places]
  /\ \A t, u \in Threads : Busy(t) /\ Busy(u) => t = u
  /\ \A t \in Threads : thread[t].active => thread[t].pc = "read.bytes"

\* What the table holds while thread t is at pc; before the read the two entries are alike.
TableAt(pc) ==
  CASE pc = "read.SIGBUS"            -> [Base EXCEPT !["SIGSEGV"] = "safe-read"]
    [] pc = "read.bytes"             -> [s \in Signals |-> "safe-read"]
    [] pc = "read.give-SIGSEGV-back" -> [s \in Signals |-> "safe-read"]
    [] pc = "read.give-SIGBUS-back"  -> [Base EXCEPT !["SIGBUS"] = "safe-read"]
    [] OTHER                         -> Base

TableInv ==
  /\ saved \in {NotInstalled, Own}
  /\ (\A t \in Threads : ~Reading(t)) => table = Base
  /\ \A t \in Threads : Busy(t) => table = TableAt(thread[t].pc)
  /\ \A t \in Threads :
       Reading(t) \/ thread[t].pc = "read.SIGSEGV" => Base["SIGSEGV"] = Base["SIGBUS"]
  /\ \A t \in Threads : Reading(t) => thread[t].old = Base["SIGSEGV"]

IInv == CallInv /\ TableInv
--------------------------------------------------------------------------------
(* The table *)

LEMMA BaseFacts ==
  /\ Signals = {"SIGSEGV", "SIGBUS"}
  /\ Base \in [Signals -> Entries]
  /\ \A s \in Signals : Base[s] # "safe-read"
  /\ \A s \in Signals : (Base[s] = "chromatic") <=> (saved # NotInstalled)
  /\ saved # NotInstalled => Base = [s \in Signals |-> "chromatic"]
  /\ saved = NotInstalled => Base = Own
<1>1. Own \in [Signals -> STRING] /\ \A s \in Signals : Own[s] \notin {"chromatic", "safe-read"}
  BY MemoryConstants
<1>2. Signals = {"SIGSEGV", "SIGBUS"}
  BY DEF Signals
<1>3. CASE saved = NotInstalled
  <2>1. Base = Own
    BY <1>3 DEF Base
  <2>2. Base \in [Signals -> Entries]
    BY <1>1, <2>1 DEF Entries
  <2>3. QED
    BY <1>1, <1>2, <1>3, <2>1, <2>2
<1>4. CASE saved # NotInstalled
  <2>1. Base = [s \in Signals |-> "chromatic"]
    BY <1>4 DEF Base
  <2>2. Base \in [Signals -> Entries] /\ \A s \in Signals : Base[s] = "chromatic"
    BY <2>1 DEF Entries
  <2>3. \A s \in Signals : Base[s] # "safe-read"
    BY <2>2
  <2>4. QED
    BY <1>2, <1>4, <2>1, <2>2, <2>3
<1>5. QED
  BY <1>3, <1>4

LEMMA OwnIsATable == Own # NotInstalled /\ Own \in [Signals -> STRING]
<1>1. Own \in [Signals -> STRING] /\ "SIGBUS" \in DOMAIN Own
  BY MemoryConstants DEF Signals
<1>2. DOMAIN NotInstalled = {}
  BY DEF NotInstalled
<1>3. QED
  BY <1>1, <1>2

LEMMA OutsideIsBase ==
  ASSUME TableInv
  PROVE  OutsideTable = Base
BY DEF TableInv, OutsideTable, Base

LEMMA ProgramPlace == Program \in Places /\ ~Program.active /\ Program.pc = "program"
BY DEF Program, Places, OtherPcs, Entries

\* Where a thread comes to, it has what the step says and keeps the flag.
LEMMA GoesPlace ==
  ASSUME NEW t, thread[t] \in Places, NEW pc \in OtherPcs, NEW p \in Pages \union {Program.page},
         NEW needs \in {"r", "w", "x"}, Goes(t, pc, p, needs)
  PROVE  \E th \in Places : /\ th.pc = pc /\ th.active = thread[t].active
                            /\ thread' = [thread EXCEPT ![t] = th]
<1> DEFINE th == [Program EXCEPT !.pc = pc, !.page = p, !.needs = needs,
                                 !.active = thread[t].active]
<1>1. thread[t].active \in BOOLEAN
  BY DEF Places
<1>2. th \in Places /\ th.pc = pc /\ th.active = thread[t].active
  BY <1>1, ProgramPlace DEF Places
<1>3. thread' = [thread EXCEPT ![t] = th]
  BY DEF Goes
<1> HIDE DEF th
<1>4. QED
  BY <1>2, <1>3

LEMMA ReadingIsBusy ==
  ASSUME NEW t \in Threads, Reading(t)
  PROVE  Busy(t)
BY DEF Reading, Busy

\* The entry of a signal is the reader's own or what it is outside.
LEMMA TableEntries ==
  ASSUME TableInv, NEW s \in Signals
  PROVE  table[s] \in {"safe-read", Base[s]}
<1>1. CASE \A t \in Threads : ~Reading(t)
  BY <1>1 DEF TableInv
<1>2. ASSUME NEW t \in Threads, Reading(t)
      PROVE  table[s] \in {"safe-read", Base[s]}
  <2>1. table = TableAt(thread[t].pc)
    BY <1>2, ReadingIsBusy DEF TableInv
  <2>2. QED
    BY <1>2, <2>1, BaseFacts DEF TableAt, Reading
<1>3. QED
  BY <1>1, <1>2
--------------------------------------------------------------------------------
(* Steps that leave the table alone *)

\* A step of a call that is no read, or of a thread in the program.
Aside ==
  /\ UNCHANGED tableVars
  /\ \/ UNCHANGED thread
     \/ \E t \in Threads, th \in Places :
          /\ ~Reading(t) /\ ~th.active /\ th.pc \in OtherPcs
          /\ th.pc \notin {"program", "faulted"} => Busy(t) \/ \A u \in Threads : ~Busy(u)
          /\ th.pc = "read.SIGSEGV" => table["SIGSEGV"] = table["SIGBUS"]
          /\ thread' = [thread EXCEPT ![t] = th]

LEMMA AsideKeeps ==
  ASSUME IInv, Aside
  PROVE  IInv' /\ UNCHANGED OutsideTable
<1> USE DEF IInv
<1>1. Base' = Base /\ UNCHANGED <<table, saved>>
  BY DEF Aside, tableVars, Base
<1>2. CASE UNCHANGED thread
  BY <1>1, <1>2 DEF CallInv, TableInv, TableAt, Busy, Reading, OutsideTable
<1>3. ASSUME NEW t \in Threads, NEW th \in Places, ~Reading(t), ~th.active, th.pc \in OtherPcs,
             th.pc \notin {"program", "faulted"} => Busy(t) \/ \A u \in Threads : ~Busy(u),
             th.pc = "read.SIGSEGV" => table["SIGSEGV"] = table["SIGBUS"],
             thread' = [thread EXCEPT ![t] = th]
      PROVE  IInv' /\ UNCHANGED OutsideTable
  <2>1. thread' \in [Threads -> Places] /\ thread'[t] = th
        /\ \A u \in Threads \ {t} : thread'[u] = thread[u]
    BY <1>3 DEF CallInv
  <2>2. ~Reading(t)'
    BY <1>3, <2>1 DEF Reading, OtherPcs
  <2>3. \A u \in Threads \ {t} : (Busy(u)' <=> Busy(u)) /\ (Reading(u)' <=> Reading(u))
    BY <2>1 DEF Busy, Reading
  <2>4. \A u \in Threads : Reading(u)' <=> Reading(u)
    BY <1>3, <2>2, <2>3
  <2>5. Busy(t)' => \A u \in Threads \ {t} : ~Busy(u)
    BY <1>3, <2>1 DEF Busy, CallInv
  <2>6. CallInv'
    BY <1>3, <2>1, <2>3, <2>5 DEF CallInv
  <2>7. Busy(t)' => table' = TableAt(thread[t].pc)'
    <3>1. TableAt(thread[t].pc)' = Base
      BY <1>1, <1>3, <2>1 DEF TableAt, OtherPcs
    <3>2. Busy(t)' => \A u \in Threads : ~Reading(u)
      BY <1>3, <2>5, ReadingIsBusy
    <3>3. QED
      BY <1>1, <3>1, <3>2 DEF TableInv
  <2>8. Reading(t)' \/ th.pc = "read.SIGSEGV" => Base["SIGSEGV"] = Base["SIGBUS"]
    <3>1. th.pc = "read.SIGSEGV" => \A u \in Threads : ~Reading(u)
      BY <1>3, <2>1, <2>5, ReadingIsBusy DEF Busy
    <3>2. QED
      BY <1>3, <2>2, <3>1 DEF TableInv
  <2>9. TableInv'
    <3>1. \A u \in Threads : Busy(u)' => table' = TableAt(thread[u].pc)'
      <4>1. ASSUME NEW u \in Threads \ {t}
            PROVE  Busy(u)' => table' = TableAt(thread[u].pc)'
        BY <1>1, <2>1, <2>3 DEF TableInv, TableAt
      <4>2. QED
        BY <2>7, <4>1
    <3>2. (\A u \in Threads : ~Reading(u)') => table' = Base'
      BY <1>1, <2>4 DEF TableInv
    <3>3. \A u \in Threads : Reading(u)' \/ thread'[u].pc = "read.SIGSEGV"
                               => Base'["SIGSEGV"] = Base'["SIGBUS"]
      BY <1>1, <2>1, <2>3, <2>8 DEF TableInv
    <3>4. \A u \in Threads : Reading(u)' => thread'[u].old = Base'["SIGSEGV"]
      BY <1>1, <2>1, <2>2, <2>3 DEF TableInv
    <3>5. saved' \in {NotInstalled, Own}
      BY <1>1 DEF TableInv
    <3>6. QED
      BY <3>1, <3>2, <3>3, <3>4, <3>5 DEF TableInv
  <2>10. UNCHANGED OutsideTable
    BY <1>1, <2>9, OutsideIsBase DEF OutsideTable, Base, TableInv
  <2>11. QED
    BY <2>6, <2>9, <2>10
<1>4. QED
  BY <1>2, <1>3 DEF Aside

--------------------------------------------------------------------------------
(* The steps of a read *)

\* A step of the thread that reads: the table is what the place it comes to says.
ReadStep(t, th) ==
  /\ Busy(t) /\ th.pc \in ReadPcs \union {"program"}
  /\ saved' = saved /\ table' = TableAt(th.pc)
  /\ th.pc # "program" => th.old = Base["SIGSEGV"]
  /\ Base["SIGSEGV"] = Base["SIGBUS"]
  /\ th.active => th.pc = "read.bytes"
  /\ thread' = [thread EXCEPT ![t] = th]

LEMMA ReadKeeps ==
  ASSUME IInv, NEW t \in Threads, NEW th \in Places, ReadStep(t, th)
  PROVE  IInv' /\ UNCHANGED OutsideTable
<1> USE DEF IInv
<1>1. /\ Busy(t) /\ th.pc \in ReadPcs \union {"program"}
      /\ saved' = saved /\ table' = TableAt(th.pc)
      /\ th.pc # "program" => th.old = Base["SIGSEGV"]
      /\ Base["SIGSEGV"] = Base["SIGBUS"]
      /\ th.active => th.pc = "read.bytes"
      /\ thread' = [thread EXCEPT ![t] = th]
  BY DEF ReadStep
<1>2. Base' = Base
  BY <1>1 DEF Base
<1>3. /\ thread' \in [Threads -> Places] /\ thread'[t] = th
      /\ \A u \in Threads \ {t} : thread'[u] = thread[u]
  BY <1>1 DEF CallInv
<1>4. \A u \in Threads \ {t} : ~Busy(u) /\ ~Busy(u)' /\ ~Reading(u)'
  BY <1>1, <1>3, ReadingIsBusy DEF CallInv, Busy, Reading
<1>5. CallInv'
  BY <1>1, <1>3, <1>4 DEF CallInv
<1>6. TableAt(thread[t].pc)' = TableAt(th.pc)
  BY <1>2, <1>3 DEF TableAt
<1>7. ~Reading(t)' => th.pc = "program"
  BY <1>1, <1>3 DEF Reading, ReadPcs
<1>8. TableInv'
  <2>1. saved' \in {NotInstalled, Own}
    BY <1>1 DEF TableInv
  <2>2. (\A u \in Threads : ~Reading(u)') => table' = Base'
    BY <1>1, <1>2, <1>7 DEF TableAt
  <2>3. \A u \in Threads : Busy(u)' => table' = TableAt(thread[u].pc)'
    BY <1>1, <1>4, <1>6
  <2>4. Base'["SIGSEGV"] = Base'["SIGBUS"]
    BY <1>1, <1>2
  <2>5. \A u \in Threads : Reading(u)' => thread'[u].old = Base'["SIGSEGV"]
    BY <1>1, <1>2, <1>3, <1>4 DEF Reading
  <2>6. QED
    BY <2>1, <2>2, <2>3, <2>4, <2>5 DEF TableInv
<1>9. UNCHANGED OutsideTable
  BY <1>2, <1>8, OutsideIsBase DEF OutsideTable, Base, TableInv
<1>10. QED
  BY <1>5, <1>8, <1>9

\* The steps of safeReadMemory() after its first.
LEMMA Reads ==
  ASSUME IInv, NEW t \in Threads,
         \/ TakeSegv(t) \/ TakeBus(t) \/ ReadBytes(t) \/ JumpsOut(t)
         \/ GiveSegvBack(t) \/ GiveBusBack(t)
  PROVE  \E th \in Places : ReadStep(t, th)
<1> USE DEF IInv
<1> DEFINE th == thread[t]
<1>1. th \in Places
  BY DEF CallInv
<1>2. Busy(t) => table = TableAt(th.pc)
  BY DEF TableInv
<1>3. Reading(t) => Base["SIGSEGV"] = Base["SIGBUS"] /\ th.old = Base["SIGSEGV"]
  BY DEF TableInv
<1>4. CASE TakeSegv(t)
  <2> DEFINE new == [th EXCEPT !.pc = "read.SIGBUS", !.old = table["SIGSEGV"]]
  <2>1. th.pc = "read.SIGSEGV" /\ Busy(t) /\ ~Reading(t) /\ ~th.active
    BY <1>4 DEF TakeSegv, At, Busy, Reading, CallInv
  <2>2. table = Base /\ Base["SIGSEGV"] = Base["SIGBUS"]
    BY <1>2, <2>1 DEF TableAt, TableInv
  <2>3. new \in Places /\ new.pc = "read.SIGBUS" /\ new.old = Base["SIGSEGV"] /\ ~new.active
    BY <1>1, <2>1, <2>2, BaseFacts DEF Places, ReadPcs
  <2>4. table' = TableAt("read.SIGBUS") /\ saved' = saved
    BY <1>4, <2>2 DEF TakeSegv, TableAt
  <2>5. thread' = [thread EXCEPT ![t] = new]
    BY <1>4 DEF TakeSegv, CallInv
  <2>6. ReadStep(t, new)
    BY <2>1, <2>2, <2>3, <2>4, <2>5 DEF ReadStep, ReadPcs
  <2>7. QED
    BY <2>3, <2>6
<1>5. CASE TakeBus(t)
  <2> DEFINE new == [th EXCEPT !.pc = "read.bytes", !.active = TRUE]
  <2>1. th.pc = "read.SIGBUS" /\ Busy(t) /\ Reading(t)
    BY <1>5 DEF TakeBus, At, Busy, Reading
  <2>2. new \in Places /\ new.pc = "read.bytes" /\ new.old = Base["SIGSEGV"]
    BY <1>1, <1>3, <2>1 DEF Places, ReadPcs
  <2>3. table' = TableAt("read.bytes") /\ saved' = saved
    <3>1. table = [Base EXCEPT !["SIGSEGV"] = "safe-read"]
      BY <1>2, <2>1 DEF TableAt
    <3>2. table' = [table EXCEPT !["SIGBUS"] = "safe-read"] /\ saved' = saved
      BY <1>5 DEF TakeBus
    <3>3. table' = [s \in Signals |-> "safe-read"]
      BY <3>1, <3>2, BaseFacts
    <3>4. QED
      BY <3>2, <3>3 DEF TableAt
  <2>4. thread' = [thread EXCEPT ![t] = new]
    BY <1>5 DEF TakeBus, CallInv
  <2>5. ReadStep(t, new)
    BY <1>3, <2>1, <2>2, <2>3, <2>4 DEF ReadStep, ReadPcs
  <2>6. QED
    BY <2>2, <2>5
<1>6. CASE ReadBytes(t) \/ JumpsOut(t)
  <2> DEFINE new == [th EXCEPT !.pc = "read.give-SIGSEGV-back", !.active = FALSE]
  <2>1. th.pc = "read.bytes" /\ Busy(t) /\ Reading(t)
    BY <1>6 DEF ReadBytes, JumpsOut, At, Busy, Reading, CallInv
  <2>2. new \in Places /\ new.pc = "read.give-SIGSEGV-back" /\ new.old = Base["SIGSEGV"]
        /\ ~new.active
    BY <1>1, <1>3, <2>1 DEF Places, ReadPcs
  <2>3. table' = TableAt("read.give-SIGSEGV-back") /\ saved' = saved
    BY <1>2, <1>6, <2>1 DEF ReadBytes, JumpsOut, tableVars, TableAt
  <2>4. thread' = [thread EXCEPT ![t] = new]
    BY <1>6 DEF ReadBytes, JumpsOut, CallInv
  <2>5. ReadStep(t, new)
    BY <1>3, <2>1, <2>2, <2>3, <2>4 DEF ReadStep, ReadPcs
  <2>6. QED
    BY <2>2, <2>5
<1>7. CASE GiveSegvBack(t)
  <2> DEFINE new == [th EXCEPT !.pc = "read.give-SIGBUS-back"]
  <2>1. th.pc = "read.give-SIGSEGV-back" /\ Busy(t) /\ Reading(t) /\ ~th.active
    BY <1>7 DEF GiveSegvBack, At, Busy, Reading, CallInv
  <2>2. new \in Places /\ new.pc = "read.give-SIGBUS-back" /\ new.old = Base["SIGSEGV"]
        /\ ~new.active
    BY <1>1, <1>3, <2>1 DEF Places, ReadPcs
  <2>3. table' = TableAt("read.give-SIGBUS-back") /\ saved' = saved
    <3>1. table = [s \in Signals |-> "safe-read"]
      BY <1>2, <2>1 DEF TableAt
    <3>2. table' = [table EXCEPT !["SIGSEGV"] = Base["SIGSEGV"]] /\ saved' = saved
      BY <1>3, <1>7, <2>1 DEF GiveSegvBack
    <3>3. table' = [Base EXCEPT !["SIGBUS"] = "safe-read"]
      BY <3>1, <3>2, BaseFacts
    <3>4. QED
      BY <3>2, <3>3 DEF TableAt
  <2>4. thread' = [thread EXCEPT ![t] = new]
    BY <1>7 DEF GiveSegvBack, Step, CallInv
  <2>5. ReadStep(t, new)
    BY <1>3, <2>1, <2>2, <2>3, <2>4 DEF ReadStep, ReadPcs
  <2>6. QED
    BY <2>2, <2>5
<1>8. CASE GiveBusBack(t)
  <2>1. th.pc = "read.give-SIGBUS-back" /\ Busy(t) /\ Reading(t)
    BY <1>8 DEF GiveBusBack, At, Busy, Reading
  <2>2. Program \in Places /\ Program.pc = "program" /\ ~Program.active
    BY ProgramPlace
  <2>3. table' = TableAt("program") /\ saved' = saved
    <3>1. table = [Base EXCEPT !["SIGBUS"] = "safe-read"]
      BY <1>2, <2>1 DEF TableAt
    <3>2. table' = [table EXCEPT !["SIGBUS"] = Base["SIGBUS"]] /\ saved' = saved
      BY <1>3, <1>8, <2>1 DEF GiveBusBack
    <3>3. table' = Base
      BY <3>1, <3>2, BaseFacts
    <3>4. QED
      BY <3>2, <3>3 DEF TableAt
  <2>4. thread' = [thread EXCEPT ![t] = Program]
    BY <1>8 DEF GiveBusBack
  <2>5. ReadStep(t, Program)
    BY <1>3, <2>1, <2>2, <2>3, <2>4 DEF ReadStep, ReadPcs
  <2>6. QED
    BY <2>2, <2>5
<1>9. QED
  BY <1>4, <1>5, <1>6, <1>7, <1>8

--------------------------------------------------------------------------------
(* All steps *)

LEMMA CallsAlone ==
  ASSUME OneCall, NEW t \in Threads, Calls(t)
  PROVE  thread[t].pc = "program" /\ \A u \in Threads : ~Busy(u)
BY DEF OneCall, Calls, At

LEMMA AlikeRead ==
  ASSUME Alike, NEW t \in Threads, NEW p \in Pages, SafeRead(t, p)
  PROVE  table["SIGSEGV"] = table["SIGBUS"]
BY DEF Alike, SafeRead

\* Nobody but the signal handler of a read takes the fault of a read.
LEMMA WhoAnswers ==
  ASSUME IInv, NEW t \in Threads, thread[t].pc = "read.bytes"
  PROVE  Passed(t) = "safe-read"
<1>1. Busy(t) /\ SignalOf(t) \in Signals
  BY DEF Busy, SignalOf, Signals
<1>2. table = [s \in Signals |-> "safe-read"]
  BY <1>1 DEF IInv, TableInv, TableAt
<1>3. QED
  BY <1>1, <1>2 DEF Passed

\* The steps that do not touch the table.
LEMMA Asides ==
  ASSUME IInv, OneCall, Alike, NEW t \in Threads,
         \/ PatchWritable(t) \/ PatchBytes(t) \/ PatchExecutable(t)
         \/ ProcessAnswers(t) \/ MonitorAnswers(t) \/ GoesOn(t)
         \/ \E p \in Pages :
              \/ SafeRead(t, p) \/ Allocate(t, p) \/ Free(t, p) \/ Protect(t, p)
              \/ PatchCode(t, p) \/ Watch(t, p) \/ Unwatch(t, p)
              \/ \E needs \in {"r", "w", "x"} : Touch(t, p, needs)
  PROVE  Aside
<1> USE DEF IInv
<1> DEFINE th == thread[t]
<1>1. th \in Places /\ (~Reading(t) => ~th.active)
  BY DEF CallInv, Reading
<1>2. ASSUME NEW pc \in {"program", "faulted"}, NEW p \in Pages \union {Program.page},
             NEW needs \in {"r", "w", "x"}, Goes(t, pc, p, needs), UNCHANGED tableVars, ~Reading(t)
      PROVE  Aside
  <2>1. pc \in OtherPcs
    BY DEF OtherPcs
  <2>2. PICK new \in Places : /\ new.pc = pc /\ new.active = th.active
                              /\ thread' = [thread EXCEPT ![t] = new]
    BY <1>1, <1>2, <2>1, GoesPlace
  <2>3. QED
    BY <1>1, <1>2, <2>2 DEF Aside, OtherPcs
<1>3. ASSUME NEW pc \in {"read.SIGSEGV", "patch.writable"}, NEW p \in Pages,
             NEW needs \in {"r", "w", "x"}, Goes(t, pc, p, needs), UNCHANGED tableVars, Calls(t),
             pc = "read.SIGSEGV" => table["SIGSEGV"] = table["SIGBUS"]
      PROVE  Aside
  <2>1. ~Reading(t) /\ \A u \in Threads : ~Busy(u)
    BY <1>3, CallsAlone, ReadingIsBusy
  <2>2. pc \in OtherPcs
    BY DEF OtherPcs
  <2>3. PICK new \in Places : /\ new.pc = pc /\ new.active = th.active
                              /\ thread' = [thread EXCEPT ![t] = new]
    BY <1>1, <1>3, <2>2, GoesPlace
  <2>4. QED
    BY <1>1, <1>3, <2>1, <2>3 DEF Aside, OtherPcs
<1>4. CASE PatchWritable(t) \/ PatchBytes(t) \/ PatchExecutable(t)
  <2>1. PICK pc \in {"patch.bytes", "patch.executable", "program"} :
          /\ th.pc \in {"patch.writable", "patch.bytes", "patch.executable"}
          /\ thread' = [thread EXCEPT ![t].pc = pc] /\ UNCHANGED tableVars
    BY <1>4 DEF PatchWritable, PatchBytes, PatchExecutable, Mprotect, At, Step
  <2> DEFINE new == [th EXCEPT !.pc = pc]
  <2>2. new \in Places /\ new.pc = pc /\ ~new.active /\ new.pc \in OtherPcs
        /\ new.pc # "read.SIGSEGV"
    BY <1>1, <2>1 DEF Places, OtherPcs, CallInv
  <2>3. thread' = [thread EXCEPT ![t] = new]
    BY <2>1 DEF CallInv
  <2>4. ~Reading(t) /\ Busy(t)
    BY <2>1 DEF Reading, Busy
  <2> HIDE DEF new
  <2>5. QED
    BY <2>1, <2>2, <2>3, <2>4 DEF Aside
<1>5. CASE ProcessAnswers(t)
  <2>1. ~Reading(t)
    BY <1>5, WhoAnswers DEF ProcessAnswers, Faulting, Reading
  <2>2. UNCHANGED tableVars /\ Goes(t, "program", Program.page, "r")
    BY <1>5 DEF ProcessAnswers
  <2>3. QED
    BY <1>2, <2>1, <2>2
<1>6. CASE MonitorAnswers(t)
  BY <1>6 DEF MonitorAnswers, Aside
<1>7. CASE GoesOn(t)
  <2>1. ~Reading(t)
    BY <1>7 DEF GoesOn, At, Reading
  <2>2. UNCHANGED tableVars /\ Goes(t, "program", Program.page, "r")
    BY <1>7 DEF GoesOn
  <2>3. QED
    BY <1>2, <2>1, <2>2
<1>8. ASSUME NEW p \in Pages, SafeRead(t, p)
      PROVE  Aside
  <2>1. Goes(t, "read.SIGSEGV", p, "r") /\ Calls(t) /\ UNCHANGED tableVars
    BY <1>8 DEF SafeRead
  <2>2. QED
    BY <1>3, <1>8, <2>1, AlikeRead
<1>9. ASSUME NEW p \in Pages, PatchCode(t, p)
      PROVE  Aside
  <2>1. Goes(t, "patch.writable", p, "w") /\ Calls(t) /\ UNCHANGED tableVars
    BY <1>9 DEF PatchCode
  <2>2. QED
    BY <1>3, <2>1
<1>10. ASSUME NEW p \in Pages, NEW needs \in {"r", "w", "x"}, Touch(t, p, needs)
       PROVE  Aside
  <2>1. Goes(t, "faulted", p, needs) /\ ~Reading(t) /\ UNCHANGED tableVars
    BY <1>10 DEF Touch, At, Reading
  <2>2. QED
    BY <1>2, <2>1
<1>11. ASSUME NEW p \in Pages, \/ Allocate(t, p) \/ Free(t, p) \/ Protect(t, p)
                               \/ Watch(t, p) \/ Unwatch(t, p)
       PROVE  Aside
  BY <1>11 DEF Allocate, Free, Protect, Watch, Unwatch, Aside
<1>12. QED
  BY <1>4, <1>5, <1>6, <1>7, <1>8, <1>9, <1>10, <1>11

\* enable() and disable() of the exception handler.
LEMMA Switches ==
  ASSUME IInv, OneCall, NEW t \in Threads, Enable(t) \/ Disable(t)
  PROVE  /\ IInv'
         /\ OutsideTable' = table'
         /\ Enable(t) => table' = [s \in Signals |-> "chromatic"]
         /\ Disable(t) => table' = Own
<1> USE DEF IInv
<1>1. thread' = thread /\ Calls(t)
  BY DEF Enable, Disable
<1>2. \A u \in Threads : ~Busy(u) /\ ~Reading(u) /\ thread[u].pc # "read.SIGSEGV"
  BY <1>1, CallsAlone, ReadingIsBusy DEF Busy
<1>3. table = Base
  BY <1>2 DEF TableInv
<1>4. CASE Enable(t)
  <2>1. saved = NotInstalled /\ saved' = Own /\ table' = [s \in Signals |-> "chromatic"]
    BY <1>3, <1>4, BaseFacts DEF Enable
  <2>2. table' = Base'
    BY <2>1, OwnIsATable DEF Base
  <2>3. QED
    BY <1>1, <1>2, <1>4, <2>1, <2>2, OwnIsATable
    DEF CallInv, TableInv, Busy, Reading, OutsideTable, Disable
<1>5. CASE Disable(t)
  <2>1. saved = Own /\ saved' = NotInstalled /\ table' = Own
    BY <1>5 DEF Disable, TableInv
  <2>2. table' = Base'
    BY <2>1 DEF Base
  <2>3. QED
    BY <1>1, <1>2, <1>5, <2>1, <2>2, OwnIsATable
    DEF CallInv, TableInv, Busy, Reading, OutsideTable, Enable
<1>6. QED
  BY <1>4, <1>5

LEMMA Initially == Init => IInv
<1> SUFFICES ASSUME Init PROVE IInv
  OBVIOUS
<1>1. /\ thread = [t \in Threads |-> Program] /\ table = Own /\ saved = NotInstalled
      /\ Program \in Places /\ ~Program.active /\ Program.pc = "program"
  BY ProgramPlace DEF Init
<1>2. \A t \in Threads : ~Busy(t) /\ ~Reading(t) /\ thread[t].pc # "read.SIGSEGV"
  BY <1>1 DEF Busy, Reading
<1>3. CallInv
  BY <1>1, <1>2 DEF CallInv
<1>4. TableInv
  BY <1>1, <1>2 DEF TableInv, Base
<1>5. QED
  BY <1>3, <1>4 DEF IInv

\* A fault that reaches the process is one of the program's own or of patchCode(), and its
\* answer is what the table holds for it.
LEMMA FaultStep ==
  ASSUME IInv, NEW t \in Threads, ProcessAnswers(t) \/ MonitorAnswers(t)
  PROVE  \E s \in Signals, of \in {"program", "patch"} :
           \E by \in Contract!Answerers(s) :
             /\ answered' = [signal |-> s, by |-> by, of |-> of]
             /\ dead = "no" /\ dead' = IF by = "default" THEN s ELSE "no"
<1> USE DEF IInv
<1> DEFINE s  == SignalOf(t)
           by == Passed(t)
           of == CASE thread[t].pc = "faulted"     -> "program"
                   [] thread[t].pc = "read.bytes" -> "read"
                   [] OTHER                        -> "patch"
<1>1. s \in Signals
  BY DEF SignalOf, Signals
<1>2. by # "safe-read" /\ dead = "no"
  BY DEF ProcessAnswers, MonitorAnswers, Faulting, Alive
<1>3. thread[t].pc \in {"faulted", "patch.bytes"}
  BY <1>2, WhoAnswers DEF ProcessAnswers, MonitorAnswers, Faulting
<1>4. of \in {"program", "patch"}
  BY <1>3
<1>5. by \in Contract!Answerers(s)
  <2>1. OutsideTable[s] = Base[s]
    BY OutsideIsBase
  <2>2. table[s] \in {"safe-read", Base[s]}
    BY <1>1, TableEntries
  <2>3. CASE table[s] = "chromatic" /\ thread[t].page \notin watched
    <3>1. Base[s] = "chromatic" /\ by = saved[s]
      BY <2>2, <2>3 DEF Passed
    <3>2. saved = Own
      BY <1>1, <3>1, BaseFacts DEF TableInv
    <3>3. QED
      BY <2>1, <3>1, <3>2 DEF Contract!Answerers
  <2>4. CASE ~(table[s] = "chromatic" /\ thread[t].page \notin watched)
    <3>1. by = table[s]
      BY <2>4 DEF Passed
    <3>2. by = Base[s]
      BY <1>2, <2>2, <3>1
    <3>3. QED
      BY <2>1, <3>2 DEF Contract!Answerers
  <2>5. QED
    BY <2>3, <2>4
<1>6. answered' = [signal |-> s, by |-> by, of |-> of]
  BY DEF ProcessAnswers, MonitorAnswers, Answers
<1>7. dead' = IF by = "default" THEN s ELSE "no"
  BY <1>2 DEF ProcessAnswers, MonitorAnswers
<1> HIDE DEF s, by, of
<1>8. QED
  BY <1>1, <1>2, <1>4, <1>5, <1>6, <1>7

\* As long as no read throws no jump goes into one that is over.
LEMMA NoThrow ==
  ASSUME IInv, threw' = FALSE, NEW t \in Threads
  PROVE  ~ReadThrows(t) /\ ~JumpsNowhere(t)
BY DEF IInv, CallInv, ReadThrows, JumpsNowhere

\* What a read that throws leaves behind is never forgotten.
LEMMA ThrewStays ==
  ASSUME threw \in BOOLEAN, [Next]_vars
  PROVE  threw' \in BOOLEAN /\ (threw => threw')
<1>1. ASSUME NEW t \in Threads, CallStep(t) \/ SignalStep(t)
      PROVE  threw' = threw \/ threw' = TRUE
  BY <1>1 DEF CallStep, SignalStep, TakeSegv, TakeBus, ReadBytes, ReadThrows, GiveSegvBack,
              GiveBusBack, PatchWritable, PatchBytes, PatchExecutable, Mprotect, ProcessAnswers,
              MonitorAnswers, JumpsOut, JumpsNowhere, GoesOn
<1>2. ASSUME NEW t \in Threads,
             \/ Enable(t) \/ Disable(t)
             \/ \E p \in Pages :
                  \/ SafeRead(t, p) \/ Allocate(t, p) \/ Free(t, p) \/ Protect(t, p)
                  \/ PatchCode(t, p) \/ Watch(t, p) \/ Unwatch(t, p)
                  \/ \E needs \in {"r", "w", "x"} : Touch(t, p, needs)
      PROVE  threw' = threw
  BY <1>2 DEF Enable, Disable, SafeRead, Allocate, Free, Protect, PatchCode, Watch, Unwatch, Touch
<1>3. CASE UNCHANGED vars
  BY <1>3 DEF vars
<1>4. threw' = threw \/ threw' = TRUE
  BY <1>1, <1>2, <1>3 DEF Next
<1>5. QED
  BY <1>4

\* As long as no read throws every step keeps the invariant and is, seen from outside, a
\* step of the contract or none.
LEMMA StepImplements ==
  ASSUME IInv, OneCall, Alike, threw = FALSE, threw' = FALSE, [Next]_vars
  PROVE  IInv' /\ [Contract!Next]_(Contract!vars)
<1>1. ASSUME UNCHANGED <<OutsideTable, dead, answered>>
      PROVE  [Contract!Next]_(Contract!vars)
  BY <1>1 DEF Contract!vars
<1>2. CASE UNCHANGED vars
  <2>1. Aside
    BY <1>2 DEF vars, tableVars, Aside
  <2>2. IInv' /\ UNCHANGED OutsideTable
    BY <2>1, AsideKeeps
  <2>3. QED
    BY <1>1, <1>2, <2>2 DEF vars
<1>3. ASSUME NEW t \in Threads,
             \/ TakeSegv(t) \/ TakeBus(t) \/ ReadBytes(t) \/ JumpsOut(t)
             \/ GiveSegvBack(t) \/ GiveBusBack(t)
      PROVE  IInv' /\ [Contract!Next]_(Contract!vars)
  <2>1. PICK th \in Places : ReadStep(t, th)
    BY <1>3, Reads
  <2>2. IInv' /\ UNCHANGED OutsideTable
    BY <2>1, ReadKeeps
  <2>3. UNCHANGED <<dead, answered>>
    BY <1>3 DEF TakeSegv, TakeBus, ReadBytes, JumpsOut, GiveSegvBack, GiveBusBack
  <2>4. QED
    BY <1>1, <2>2, <2>3
<1>4. ASSUME NEW t \in Threads, ProcessAnswers(t) \/ MonitorAnswers(t)
      PROVE  IInv' /\ [Contract!Next]_(Contract!vars)
  <2>1. IInv' /\ UNCHANGED OutsideTable
    BY <1>4, Asides, AsideKeeps
  <2>2. Contract!Next
    BY <1>4, <2>1, FaultStep DEF Contract!Next, Contract!Fault
  <2>3. QED
    BY <2>1, <2>2
<1>5. ASSUME NEW t \in Threads, Enable(t) \/ Disable(t)
      PROVE  IInv' /\ [Contract!Next]_(Contract!vars)
  <2>1. IInv' /\ OutsideTable' = table'
        /\ (OutsideTable' = [s \in Signals |-> "chromatic"] \/ OutsideTable' = Own)
    BY <1>5, Switches
  <2>2. UNCHANGED <<dead, answered>>
    BY <1>5 DEF Enable, Disable
  <2>3. Contract!Next
    BY <2>1, <2>2 DEF Contract!Next, Contract!Enable, Contract!Disable
  <2>4. QED
    BY <2>1, <2>3
<1>6. ASSUME NEW t \in Threads,
             \/ PatchWritable(t) \/ PatchBytes(t) \/ PatchExecutable(t) \/ GoesOn(t)
             \/ \E p \in Pages :
                  \/ SafeRead(t, p) \/ Allocate(t, p) \/ Free(t, p) \/ Protect(t, p)
                  \/ PatchCode(t, p) \/ Watch(t, p) \/ Unwatch(t, p)
                  \/ \E needs \in {"r", "w", "x"} : Touch(t, p, needs)
      PROVE  IInv' /\ [Contract!Next]_(Contract!vars)
  <2>1. IInv' /\ UNCHANGED OutsideTable
    BY <1>6, Asides, AsideKeeps
  <2>2. UNCHANGED <<dead, answered>>
    BY <1>6 DEF PatchWritable, PatchBytes, PatchExecutable, Mprotect, GoesOn, SafeRead, Allocate,
                Free, Protect, PatchCode, Watch, Unwatch, Touch
  <2>3. QED
    BY <1>1, <2>1, <2>2
<1>7. QED
  BY <1>2, <1>3, <1>4, <1>5, <1>6, NoThrow DEF Next, CallStep, SignalStep

\* The invariant holds until a read throws.
UnlessThrown == threw \in BOOLEAN /\ (~threw => IInv)

\* Where calls of the API do not overlap and the process handles SIGSEGV and SIGBUS alike
\* when memory is read safely, safeReadMemory() is invisible to the rest of the process,
\* until one throws: the table is as it was, a fault of the program goes to the handler of
\* that very signal, and a page the read cannot read is no fault of the process.
THEOREM ReadsAreInvisible ==
  ASSUME OneCall, Alike
  PROVE  Spec => ImplementsContract
<1>1. Init => UnlessThrown
  BY Initially DEF Init, UnlessThrown
<1>2. UnlessThrown /\ [Next]_vars => UnlessThrown' /\ [Contract!Next]_(Contract!vars)
  <2> SUFFICES ASSUME UnlessThrown, [Next]_vars
               PROVE  UnlessThrown' /\ [Contract!Next]_(Contract!vars)
    OBVIOUS
  <2>1. threw \in BOOLEAN /\ threw' \in BOOLEAN /\ (threw => threw')
    BY ThrewStays DEF UnlessThrown
  <2>2. CASE threw' = TRUE
    <3>1. Contract!Next
      BY <2>2 DEF Contract!Next
    <3>2. QED
      BY <2>2, <3>1 DEF UnlessThrown
  <2>3. CASE threw' = FALSE
    <3>1. threw = FALSE /\ IInv
      BY <2>1, <2>3 DEF UnlessThrown
    <3>2. QED
      BY <2>3, <3>1, StepImplements DEF UnlessThrown
  <2>4. QED
    BY <2>1, <2>2, <2>3
<1>3. Init => Contract!Init
  <2>1. Init => /\ OutsideTable = Own /\ dead = "no" /\ answered = Unanswered
                /\ threw = FALSE
    BY Initially, OutsideIsBase DEF Init, IInv, Base
  <2>2. QED
    BY <2>1 DEF Contract!Init, Unanswered, Contract!Unanswered
<1>4. QED
  BY <1>1, <1>2, <1>3, PTL DEF Spec, ImplementsContract, Contract!Spec

--------------------------------------------------------------------------------
(* Reads of any size *)

Tables == [Signals -> Entries]

\* A thread that is about to read through a page has its handler in both entries and has
\* asked for the jump, whatever reads before have left behind.
InsideInv ==
  /\ table \in Tables /\ (saved # NotInstalled => saved \in Tables)
  /\ thread \in [Threads -> Places]
  /\ \A t, u \in Threads : Busy(t) /\ Busy(u) => t = u
  /\ \A t \in Threads :
       /\ thread[t].pc = "read.SIGBUS" => table["SIGSEGV"] = "safe-read"
       /\ thread[t].pc = "read.bytes" =>
            thread[t].active /\ table = [s \in Signals |-> "safe-read"]
  /\ ReadsStayInside

IsBusy(th) == th.pc \notin {"program", "faulted"}

\* Thread t comes to th, and only a thread that makes a call changes the table.
Moves(t, th) ==
  /\ th \in Places /\ thread' = [thread EXCEPT ![t] = th]
  /\ table' \in Tables /\ (saved' # NotInstalled => saved' \in Tables)
  /\ IsBusy(th) => Busy(t) \/ \A u \in Threads : ~Busy(u)
  /\ table' = table \/ Busy(t) \/ \A u \in Threads : ~Busy(u)
  /\ th.pc = "read.SIGBUS" => table'["SIGSEGV"] = "safe-read"
  /\ th.pc = "read.bytes" => th.active /\ table' = [s \in Signals |-> "safe-read"]
  /\ answered'.of # "read"

LEMMA MovesKeep ==
  ASSUME InsideInv, NEW t \in Threads, NEW th, Moves(t, th)
  PROVE  InsideInv'
<1>1. /\ th \in Places /\ thread' = [thread EXCEPT ![t] = th]
      /\ table' \in Tables /\ (saved' # NotInstalled => saved' \in Tables)
      /\ IsBusy(th) => Busy(t) \/ \A u \in Threads : ~Busy(u)
      /\ table' = table \/ Busy(t) \/ \A u \in Threads : ~Busy(u)
      /\ th.pc = "read.SIGBUS" => table'["SIGSEGV"] = "safe-read"
      /\ th.pc = "read.bytes" => th.active /\ table' = [s \in Signals |-> "safe-read"]
      /\ answered'.of # "read"
  BY DEF Moves
<1>2. /\ thread' \in [Threads -> Places] /\ thread'[t] = th
      /\ \A u \in Threads \ {t} : thread'[u] = thread[u]
  BY <1>1 DEF InsideInv
<1>3. (Busy(t)' <=> IsBusy(th)) /\ \A u \in Threads \ {t} : Busy(u)' <=> Busy(u)
  BY <1>2 DEF Busy, IsBusy
<1>4. \A u, v \in Threads : Busy(u)' /\ Busy(v)' => u = v
  BY <1>1, <1>3 DEF InsideInv
<1>5. ASSUME NEW u \in Threads \ {t}, Busy(u)
      PROVE  table' = table /\ thread'[u] = thread[u]
  BY <1>1, <1>2, <1>5 DEF InsideInv
<1>6. ASSUME NEW u \in Threads
      PROVE  /\ thread'[u].pc = "read.SIGBUS" => table'["SIGSEGV"] = "safe-read"
             /\ thread'[u].pc = "read.bytes" =>
                  thread'[u].active /\ table' = [s \in Signals |-> "safe-read"]
  <2>1. CASE u = t
    BY <1>1, <1>2, <2>1
  <2>2. CASE u # t /\ thread[u].pc \in {"read.SIGBUS", "read.bytes"}
    <3>1. table' = table /\ thread'[u] = thread[u]
      BY <1>5, <2>2 DEF Busy
    <3>2. QED
      BY <3>1 DEF InsideInv
  <2>3. CASE u # t /\ thread[u].pc \notin {"read.SIGBUS", "read.bytes"}
    BY <1>2, <2>3
  <2>4. QED
    BY <2>1, <2>2, <2>3
<1>7. QED
  BY <1>1, <1>2, <1>4, <1>6 DEF InsideInv, ReadsStayInside

\* A step that leaves the table and the answer alone and comes to a place outside of a read.
LEMMA MovesAside ==
  ASSUME InsideInv, NEW t \in Threads, NEW pc \in OtherPcs \union {"read.give-SIGSEGV-back"},
         NEW th \in Places, th.pc = pc, thread' = [thread EXCEPT ![t] = th],
         UNCHANGED tableVars, answered'.of # "read",
         pc \in {"program", "faulted"} \/ Busy(t) \/ \A u \in Threads : ~Busy(u)
  PROVE  InsideInv'
<1>1. Moves(t, th)
  BY DEF Moves, InsideInv, IsBusy, tableVars, OtherPcs
<1>2. QED
  BY <1>1, MovesKeep

\* A step of no thread: all that changes is the table while nobody makes a call.
LEMMA TableMoves ==
  ASSUME InsideInv, UNCHANGED thread, answered'.of # "read",
         table' \in Tables, saved' # NotInstalled => saved' \in Tables,
         table' = table \/ \A u \in Threads : ~Busy(u)
  PROVE  InsideInv'
<1>1. thread' = thread /\ (\A u \in Threads : Busy(u)' <=> Busy(u))
  BY DEF Busy
<1>2. ASSUME NEW u \in Threads, thread[u].pc \in {"read.SIGBUS", "read.bytes"}
      PROVE  table' = table
  BY <1>2 DEF Busy
<1>3. QED
  BY <1>1, <1>2 DEF InsideInv, ReadsStayInside

\* The steps of a read that change the table.
LEMMA TableSteps ==
  ASSUME InsideInv, NEW t \in Threads,
         TakeSegv(t) \/ TakeBus(t) \/ GiveSegvBack(t) \/ GiveBusBack(t)
  PROVE  InsideInv'
<1> DEFINE th == thread[t]
<1>1. /\ th \in Places /\ table \in Tables /\ (saved # NotInstalled => saved \in Tables)
      /\ answered.of # "read" /\ Signals = {"SIGSEGV", "SIGBUS"} /\ "safe-read" \in Entries
  BY DEF InsideInv, ReadsStayInside, Signals, Entries
<1>2. table["SIGSEGV"] \in Entries /\ th.old \in Entries
  BY <1>1 DEF Tables, Places
<1>3. CASE TakeSegv(t)
  <2> DEFINE new == [th EXCEPT !.pc = "read.SIGBUS", !.old = table["SIGSEGV"]]
  <2>1. new \in Places /\ new.pc = "read.SIGBUS"
    BY <1>1, <1>2 DEF Places, ReadPcs
  <2>2. thread' = [thread EXCEPT ![t] = new]
    BY <1>3 DEF TakeSegv, InsideInv
  <2>3. Busy(t) /\ saved' = saved /\ answered' = answered
        /\ table' = [table EXCEPT !["SIGSEGV"] = "safe-read"]
    BY <1>3 DEF TakeSegv, At, Busy
  <2>4. table' \in Tables /\ table'["SIGSEGV"] = "safe-read"
    BY <1>1, <2>3 DEF Tables
  <2> HIDE DEF new
  <2>5. Moves(t, new)
    BY <1>1, <2>1, <2>2, <2>3, <2>4 DEF Moves
  <2>6. QED
    BY <2>5, MovesKeep
<1>4. CASE TakeBus(t)
  <2> DEFINE new == [th EXCEPT !.pc = "read.bytes", !.active = TRUE]
  <2>1. new \in Places /\ new.pc = "read.bytes" /\ new.active
    BY <1>1 DEF Places, ReadPcs
  <2>2. thread' = [thread EXCEPT ![t] = new]
    BY <1>4 DEF TakeBus, InsideInv
  <2>3. Busy(t) /\ saved' = saved /\ answered' = answered
        /\ table' = [table EXCEPT !["SIGBUS"] = "safe-read"]
    BY <1>4 DEF TakeBus, At, Busy
  <2>4. table["SIGSEGV"] = "safe-read"
    BY <1>4 DEF TakeBus, At, InsideInv
  <2>5. table' \in Tables /\ table' = [s \in Signals |-> "safe-read"]
    BY <1>1, <2>3, <2>4 DEF Tables
  <2> HIDE DEF new
  <2>6. Moves(t, new)
    BY <1>1, <2>1, <2>2, <2>3, <2>5 DEF Moves
  <2>7. QED
    BY <2>6, MovesKeep
<1>5. CASE GiveSegvBack(t)
  <2> DEFINE new == [th EXCEPT !.pc = "read.give-SIGBUS-back"]
  <2>1. new \in Places /\ new.pc = "read.give-SIGBUS-back"
    BY <1>1 DEF Places, ReadPcs
  <2>2. thread' = [thread EXCEPT ![t] = new]
    BY <1>5 DEF GiveSegvBack, Step, InsideInv
  <2>3. Busy(t) /\ saved' = saved /\ answered' = answered
        /\ table' = [table EXCEPT !["SIGSEGV"] = th.old]
    BY <1>5 DEF GiveSegvBack, At, Busy
  <2>4. table' \in Tables
    BY <1>1, <1>2, <2>3 DEF Tables
  <2> HIDE DEF new
  <2>5. Moves(t, new)
    BY <1>1, <2>1, <2>2, <2>3, <2>4 DEF Moves
  <2>6. QED
    BY <2>5, MovesKeep
<1>6. CASE GiveBusBack(t)
  <2>1. thread' = [thread EXCEPT ![t] = Program] /\ Busy(t) /\ saved' = saved
        /\ answered' = answered /\ table' = [table EXCEPT !["SIGBUS"] = th.old]
    BY <1>6 DEF GiveBusBack, At, Busy
  <2>2. table' \in Tables
    BY <1>1, <1>2, <2>1 DEF Tables
  <2>3. Moves(t, Program)
    BY <1>1, <2>1, <2>2, ProgramPlace DEF Moves
  <2>4. QED
    BY <2>3, MovesKeep
<1>7. QED
  BY <1>3, <1>4, <1>5, <1>6

\* A fault of a read gets to its own handler, which jumps back into it.
LEMMA InsideFault ==
  ASSUME InsideInv, NEW t \in Threads, thread[t].pc = "read.bytes"
  PROVE  Passed(t) = "safe-read"
BY DEF InsideInv, Passed, SignalOf, Signals

\* The other steps of a thread.
LEMMA PlaceSteps ==
  ASSUME InsideInv, OneCall, NEW t \in Threads,
         \/ ReadBytes(t) \/ ReadThrows(t) \/ JumpsOut(t) \/ ProcessAnswers(t) \/ GoesOn(t)
         \/ PatchWritable(t) \/ PatchBytes(t) \/ PatchExecutable(t)
         \/ \E p \in Pages : \/ SafeRead(t, p) \/ PatchCode(t, p)
                             \/ \E needs \in {"r", "w", "x"} : Touch(t, p, needs)
  PROVE  InsideInv'
<1> DEFINE th == thread[t]
<1>1. th \in Places /\ answered.of # "read"
  BY DEF InsideInv, ReadsStayInside
<1>2. ASSUME NEW pc \in OtherPcs, NEW p \in Pages \union {Program.page},
             NEW needs \in {"r", "w", "x"}, Goes(t, pc, p, needs), UNCHANGED tableVars,
             answered'.of # "read",
             pc \in {"program", "faulted"} \/ \A u \in Threads : ~Busy(u)
      PROVE  InsideInv'
  <2>1. PICK new \in Places : new.pc = pc /\ thread' = [thread EXCEPT ![t] = new]
    BY <1>1, <1>2, GoesPlace
  <2>2. QED
    BY <1>2, <2>1, MovesAside
<1>3. CASE ReadBytes(t) \/ JumpsOut(t)
  <2> DEFINE new == [th EXCEPT !.pc = "read.give-SIGSEGV-back", !.active = FALSE]
  <2>1. new \in Places /\ new.pc = "read.give-SIGSEGV-back"
    BY <1>1 DEF Places, ReadPcs
  <2>2. thread' = [thread EXCEPT ![t] = new] /\ Busy(t) /\ UNCHANGED tableVars
        /\ answered' = answered
    BY <1>3 DEF ReadBytes, JumpsOut, At, Busy, InsideInv
  <2> HIDE DEF new
  <2>3. QED
    BY <1>1, <2>1, <2>2, MovesAside
<1>4. CASE ReadThrows(t) \/ GoesOn(t)
  <2>1. Goes(t, "program", Program.page, "r") /\ UNCHANGED tableVars /\ answered' = answered
    BY <1>4 DEF ReadThrows, GoesOn
  <2>2. QED
    BY <1>1, <1>2, <2>1 DEF OtherPcs
<1>5. CASE ProcessAnswers(t)
  <2>1. Goes(t, "program", Program.page, "r") /\ UNCHANGED tableVars
    BY <1>5 DEF ProcessAnswers
  <2>2. thread[t].pc \in {"faulted", "patch.bytes"}
    BY <1>5, InsideFault DEF ProcessAnswers, Faulting
  <2>3. answered'.of # "read"
    BY <1>5, <2>2 DEF ProcessAnswers, Answers
  <2>4. QED
    BY <1>2, <2>1, <2>3 DEF OtherPcs
<1>6. CASE PatchWritable(t) \/ PatchBytes(t) \/ PatchExecutable(t)
  <2>1. PICK pc \in {"patch.bytes", "patch.executable", "program"} :
          /\ Busy(t) /\ thread' = [thread EXCEPT ![t].pc = pc]
          /\ UNCHANGED tableVars /\ answered' = answered
    BY <1>6 DEF PatchWritable, PatchBytes, PatchExecutable, Mprotect, At, Step, Busy
  <2> DEFINE new == [th EXCEPT !.pc = pc]
  <2>2. new \in Places /\ new.pc = pc /\ pc \in OtherPcs
    BY <1>1 DEF Places, OtherPcs
  <2>3. thread' = [thread EXCEPT ![t] = new]
    BY <2>1 DEF InsideInv
  <2> HIDE DEF new
  <2>4. QED
    BY <1>1, <2>1, <2>2, <2>3, MovesAside
<1>7. ASSUME NEW p \in Pages, SafeRead(t, p)
      PROVE  InsideInv'
  <2>1. Goes(t, "read.SIGSEGV", p, "r") /\ Calls(t) /\ UNCHANGED tableVars /\ answered' = answered
    BY <1>7 DEF SafeRead
  <2>2. QED
    BY <1>1, <1>2, <2>1, CallsAlone DEF OtherPcs
<1>8. ASSUME NEW p \in Pages, PatchCode(t, p)
      PROVE  InsideInv'
  <2>1. Goes(t, "patch.writable", p, "w") /\ Calls(t) /\ UNCHANGED tableVars
        /\ answered' = answered
    BY <1>8 DEF PatchCode
  <2>2. QED
    BY <1>1, <1>2, <2>1, CallsAlone DEF OtherPcs
<1>9. ASSUME NEW p \in Pages, NEW needs \in {"r", "w", "x"}, Touch(t, p, needs)
      PROVE  InsideInv'
  <2>1. Goes(t, "faulted", p, needs) /\ UNCHANGED tableVars /\ answered' = answered
    BY <1>9 DEF Touch
  <2>2. QED
    BY <1>1, <1>2, <2>1 DEF OtherPcs
<1>10. QED
  BY <1>3, <1>4, <1>5, <1>6, <1>7, <1>8, <1>9

\* The steps that move no thread.
LEMMA OtherSteps ==
  ASSUME InsideInv, OneCall, NEW t \in Threads,
         \/ MonitorAnswers(t) \/ JumpsNowhere(t) \/ Enable(t) \/ Disable(t)
         \/ \E p \in Pages : \/ Allocate(t, p) \/ Free(t, p) \/ Protect(t, p)
                             \/ Watch(t, p) \/ Unwatch(t, p)
  PROVE  InsideInv'
<1>1. table \in Tables /\ (saved # NotInstalled => saved \in Tables) /\ answered.of # "read"
  BY DEF InsideInv, ReadsStayInside
<1>2. CASE Enable(t) \/ Disable(t)
  <2>1. Calls(t) /\ UNCHANGED thread /\ answered' = answered
    BY <1>2 DEF Enable, Disable
  <2>2. table' \in Tables /\ (saved' # NotInstalled => saved' \in Tables)
    BY <1>1, <1>2 DEF Enable, Disable, Tables, Entries
  <2>3. QED
    BY <1>1, <2>1, <2>2, CallsAlone, TableMoves
<1>3. CASE MonitorAnswers(t)
  <2>1. UNCHANGED tableVars /\ UNCHANGED thread
    BY <1>3 DEF MonitorAnswers
  <2>2. thread[t].pc \in {"faulted", "patch.bytes"}
    BY <1>3, InsideFault DEF MonitorAnswers, Faulting
  <2>3. answered'.of # "read"
    BY <1>3, <2>2 DEF MonitorAnswers, Answers
  <2>4. QED
    BY <1>1, <2>1, <2>3, TableMoves DEF tableVars
<1>4. CASE \/ JumpsNowhere(t)
           \/ \E p \in Pages : \/ Allocate(t, p) \/ Free(t, p) \/ Protect(t, p)
                               \/ Watch(t, p) \/ Unwatch(t, p)
  <2>1. UNCHANGED tableVars /\ UNCHANGED thread /\ answered' = answered
    BY <1>4 DEF JumpsNowhere, Allocate, Free, Protect, Watch, Unwatch
  <2>2. QED
    BY <1>1, <2>1, TableMoves DEF tableVars
<1>5. QED
  BY <1>2, <1>3, <1>4

\* If calls of the API do not overlap, a page that a safe read cannot read is never a fault
\* of the process, however its handlers differ, whoever watches the page, and also after
\* reads of a size that made them throw (native_memory.cc:253-272).
THEOREM ReadFaultsStayInside ==
  ASSUME OneCall
  PROVE  Spec => []ReadsStayInside
<1>1. Init => InsideInv
  <2> SUFFICES ASSUME Init PROVE InsideInv
    OBVIOUS
  <2>1. /\ thread = [t \in Threads |-> Program] /\ table = Own /\ saved = NotInstalled
        /\ answered = Unanswered
    BY DEF Init
  <2>2. Own \in Tables
    BY MemoryConstants DEF Tables, Entries
  <2>3. QED
    BY <2>1, <2>2, ProgramPlace DEF InsideInv, Busy, ReadsStayInside, Unanswered
<1>2. InsideInv /\ [Next]_vars => InsideInv'
  <2> SUFFICES ASSUME InsideInv, [Next]_vars PROVE InsideInv'
    OBVIOUS
  <2>1. CASE UNCHANGED vars
    BY <2>1, TableMoves DEF vars, InsideInv, ReadsStayInside
  <2>2. CASE Next
    BY <2>2, TableSteps, PlaceSteps, OtherSteps DEF Next, CallStep, SignalStep
  <2>3. QED
    BY <2>1, <2>2
<1>3. InsideInv => ReadsStayInside
  BY DEF InsideInv
<1>4. QED
  BY <1>1, <1>2, <1>3, PTL DEF Spec
================================================================================
