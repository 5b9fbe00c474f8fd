------------------------------- MODULE DebugTraps -------------------------------
(****************************************************************************)
(* Hardware and software breakpoints in one program.  Both kinds are        *)
(* handled through the same signal: the handlers are asked in the order in  *)
(* which they were registered, and each takes what it recognises.  The      *)
(* program is straight-line code of one-byte instructions, each of which    *)
(* may write a variable.  A software breakpoint is set and removed at once  *)
(* and only while no thread is in the program (CodePatches has the rest).   *)
(* Nothing in the code clears DR6: what a trap of a debug register leaves   *)
(* there is seen at the traps that follow, those of an INT3 included.       *)
(****************************************************************************)
EXTENDS HardwareBreakpoint

CONSTANTS
  Size,     \* instructions of the program
  Advance   \* how far INT3 moves the program counter

ASSUME TrapConstants == Size \in Nat /\ Code = 0 .. Size - 1 /\ Advance = 1

VARIABLES
  software,   \* the keys of g_bpByAddress
  thread,     \* where each thread is
  dr6,        \* the slots whose bit is set in the DR6 of each thread
  reported,   \* history: the last write that trapped, and whose callback was told
  crowded,    \* history: two hardware breakpoints have been set at the same time
  crashed     \* the process died of a trap nobody handled

vars == <<hwVars, chain, software, thread, dr6, reported, crowded, crashed>>

Outside   == [phase |-> "outside", at |-> 0, id |-> 0, told |-> FALSE]
Elsewhere == Size + 1      \* a program counter in relocated code
NoReport  == [write |-> {}, to |-> {}]

Init == /\ HardwareInit /\ software = {} /\ reported = NoReport
        /\ crowded = FALSE /\ crashed = FALSE
        /\ thread = [t \in Threads |-> Outside] /\ dr6 = [t \in Threads |-> {}]

--------------------------------------------------------------------------------
(* The script *)

MayCall(t) ==
  /\ ~crashed
  /\ "one-thread" \in Rules => t = Script
  /\ thread[t].phase \in IF "outside" \in Rules THEN {"outside"} ELSE {"outside", "callback"}

\* The breakpoints at code, and whether one more keeps its distance.
Breakpoints == software \union (DOMAIN hwByAddress \intersect Code)

MayBreak(a) == "apart" \in Rules => \A b \in Breakpoints : b - a \notin {-1, 0, 1}

AllOutside == \A t \in Threads : thread[t].phase = "outside"

SetSoftware(t, a) ==
  /\ MayCall(t) /\ AllOutside
  /\ a \in Code \ software /\ MayBreak(a)
  /\ "software-first" \in Rules => InChain("sw") \/ ~InChain("hw")
  /\ software' = software \union {a}
  /\ chain' = IF InChain("sw") THEN chain ELSE Append(chain, "sw")
  /\ UNCHANGED <<hwVars, thread, dr6, reported, crowded, crashed>>

RemoveSoftware(t, a) ==
  /\ MayCall(t) /\ AllOutside
  /\ a \in software
  /\ software' = software \ {a}
  /\ chain' = IF software' = {} THEN RemoveFirst(chain, "sw") ELSE chain
  /\ UNCHANGED <<hwVars, thread, dr6, reported, crowded, crashed>>

\* A data address is watched for writes, an instruction for being executed.
TypeAt(a) == IF a \in Code THEN "execute" ELSE "write"

HardwareCall(t) ==
  /\ MayCall(t)
  /\ \/ \E a \in Addresses :
          /\ a \in Code => MayBreak(a)
          /\ SetHardware(t, a, TypeAt(a))
     \/ \E a \in Addresses : SetHardwareFails(a)
     \/ \E id \in hwById : RemoveHardware(t, id)
     \/ RemoveAllHardware(t)
  /\ crowded' = (crowded \/ \E id, other \in hwById' : id # other)
  /\ UNCHANGED <<software, thread, dr6, reported, crashed>>

--------------------------------------------------------------------------------
(* The signal *)

\* Fault: the handler takes the program counter for the address of the breakpoint.
SwClaimsHere(pc) == pc \in software

\* breakpointSigtrapHandler()
SwClaims(pc) == pc - Advance \in software

Claims(name, pc, bits) == IF name = "sw" THEN SwClaims(pc) ELSE HwClaims(pc, bits)

\* DR6 as the handler reads it.  INT3 leaves it alone; a debug register that stops the
\* thread adds its bit, and the kernel may have dropped older ones.
StatusBits(t, hits) ==
  IF hits = {} THEN {dr6[t]}
  ELSE {{w.slot : w \in hits} \union old : old \in SUBSET dr6[t]}

\* Who is asked: hits of debug registers may come as single steps (si_code TRAP_TRACE).
Asked(hits) == {chain} \union (IF hits # {} /\ stepHandled THEN {<<"hw">>} ELSE {})

\* Who handles the trap: the first that claims it.
Handler(asked, pc, bits) == SelectInSeq(asked, LAMBDA name : Claims(name, pc, bits))

GoesTo(t, where) == thread' = [thread EXCEPT ![t] = where]

In(phase, a, id, told) == [phase |-> phase, at |-> a, id |-> id, told |-> told]

\* A trap of thread t at pc, after which it would go on at next.  written is the
\* watched variable whose write trapped, if one did.
Trapped(t, pc, hits, written, next) ==
  \E bits \in StatusBits(t, hits), asked \in Asked(hits) :
    /\ dr6' = [dr6 EXCEPT ![t] = bits]
    /\ LET i == Handler(asked, pc, bits)
       IN \/ /\ i = 0
             /\ crashed' = TRUE /\ UNCHANGED <<thread, reported>>
          \/ /\ i # 0 /\ asked[i] = "sw"
             /\ GoesTo(t, In("trampoline", pc - Advance, 0, FALSE))
             /\ reported' = [write |-> written, to |-> {}] /\ UNCHANGED crashed
          \/ /\ i # 0 /\ asked[i] = "hw" /\ HwRedirects(pc)
             /\ GoesTo(t, In("trampoline", pc, hwByAddress[pc], FALSE))
             /\ reported' = [write |-> written, to |-> {}] /\ UNCHANGED crashed
          \/ /\ i # 0 /\ asked[i] = "hw" /\ ~HwRedirects(pc)
             /\ GoesTo(t, next)
             /\ \E id \in Owners(bits) :
                  reported' = [write |-> written, to |-> {hwEntry[id].address}]
             /\ UNCHANGED crashed

--------------------------------------------------------------------------------
(* A thread in the program *)

Runs(t, phase) == ~crashed /\ thread[t].phase = phase

NoCall == UNCHANGED <<hwVars, chain, software, crowded>>
NoTrap == UNCHANGED <<dr6, reported, crashed>>

Enter(t) == /\ Runs(t, "outside") /\ GoesTo(t, In("code", 0, 0, FALSE))
            /\ NoCall /\ NoTrap

Watches(t, a, type) == {w \in armed : w.thread = t /\ w.address = a /\ w.type = type}

InCode(t) == Runs(t, "code") /\ thread[t].at < Size

\* A debug register stops the thread before the instruction.
HardwareTrap(t) ==
  LET pc == thread[t].at
      hits == Watches(t, pc, "execute")
  IN /\ InCode(t) /\ hits # {}
     /\ Trapped(t, pc, hits, {}, thread[t])
     /\ NoCall

\* INT3 stands for the instruction: whoever handles the trap and lets the thread go on
\* lets it go on behind that.
SoftwareTrap(t) ==
  LET pc == thread[t].at
  IN /\ InCode(t) /\ pc \in software /\ Watches(t, pc, "execute") = {}
     /\ Trapped(t, pc + Advance, {}, {}, In("code", pc + Advance, 0, FALSE))
     /\ NoCall

\* The instruction runs and writes the variables of written; a watched one stops the
\* thread behind it.
Instruction(t, pc, written, next) ==
  LET hits == UNION {Watches(t, d, "write") : d \in written}
  IN /\ IF hits = {} THEN GoesTo(t, next) /\ NoTrap
        ELSE Trapped(t, pc, hits, written, next)
     /\ NoCall

Written == {{}} \union {{d} : d \in Data}

Execute(t) ==
  LET pc == thread[t].at
  IN /\ InCode(t) /\ pc \notin software /\ Watches(t, pc, "execute") = {}
     /\ \E written \in Written :
          Instruction(t, pc + 1, written, In("code", pc + 1, 0, FALSE))

\* The trampoline calls onHit, and goes on to the relocated instruction.
CallCallback(t) ==
  LET th == thread[t]
  IN /\ Runs(t, "trampoline") /\ GoesTo(t, In("callback", th.at, th.id, TRUE))
     /\ NoCall /\ NoTrap

RunRelocated(t) ==
  LET th == thread[t]
  IN /\ Runs(t, "callback") /\ GoesTo(t, In("relocated", th.at, th.id, TRUE))
     /\ NoCall /\ NoTrap

\* Fault: relocated code jumps back to the instruction it stands for.
BackToSource(a) == a

\* Fault: one byte too far.
BackTooFar(a) == a + 2

\* source + bytesConsumed
BackTo(a) == a + 1

ExecuteRelocated(t) ==
  /\ Runs(t, "relocated")
  /\ \E written \in Written :
       Instruction(t, Elsewhere, written, In("code", BackTo(thread[t].at), 0, FALSE))

\* The trampoline or the relocated code was released by remove().
RunsReleased(t) ==
  /\ ~crashed /\ thread[t].phase \in {"trampoline", "callback", "relocated"}
  /\ thread[t].id # 0 /\ thread[t].id \notin hwById
  /\ crashed' = TRUE
  /\ NoCall /\ UNCHANGED <<thread, dr6, reported>>

Leave(t) == /\ Runs(t, "code") /\ thread[t].at = Size /\ GoesTo(t, Outside)
            /\ NoCall /\ NoTrap

Next == \E t \in Threads :
  \/ \E a \in Code : SetSoftware(t, a) \/ RemoveSoftware(t, a)
  \/ HardwareCall(t)
  \/ Enter(t) \/ HardwareTrap(t) \/ SoftwareTrap(t) \/ Execute(t)
  \/ CallCallback(t) \/ RunRelocated(t) \/ ExecuteRelocated(t) \/ RunsReleased(t) \/ Leave(t)

Spec == Init /\ [][Next]_vars

--------------------------------------------------------------------------------
(* Properties *)

TypeOK ==
  /\ hwById \subseteq 1 .. nextHwId - 1 /\ nextHwId \in 1 .. MaxIds + 1
  /\ \A id \in hwById : /\ hwEntry[id].address \in Addresses /\ hwEntry[id].slot \in Slots
                        /\ hwEntry[id].type = TypeAt(hwEntry[id].address)
  /\ DOMAIN hwByAddress \subseteq Addresses
  /\ usedSlots \subseteq Slots /\ {w.slot : w \in armed} \subseteq Slots
  /\ software \subseteq Code
  /\ \A t \in Threads : thread[t].at \in 0 .. Size /\ dr6[t] \subseteq Slots
  /\ crashed \in BOOLEAN

\* Registers, slots and maps name the same breakpoints: no register stays armed after
\* remove(), none is given to two breakpoints, and no breakpoint is without one.
RegistersAgree ==
  /\ hwById = {hwByAddress[a] : a \in DOMAIN hwByAddress}
  /\ usedSlots = SlotsOf(hwById)
  /\ \A w, v \in armed : w.thread = v.thread /\ w.slot = v.slot => w = v
  /\ {[address |-> w.address, slot |-> w.slot, type |-> w.type] : w \in armed}
       = {hwEntry[id] : id \in hwById}

\* No trap goes unhandled, in whatever order the handlers are asked and whatever is left
\* in DR6: a thread dies only when the breakpoint in whose callback it is is removed, for
\* remove() releases the code the callback returns to.
DiesOnlyOfRelease ==
  crashed => \E t \in Threads : thread[t].id # 0 /\ thread[t].id \notin hwById

\* A write to a watched variable is reported to the callback of that watchpoint, as long as
\* there never were two registers that can be in DR6: the handler tells the first entry it
\* finds there, and stops.
WritesReachTheirWatchpoint == ~crowded => reported.to = reported.write

\* The instructions a thread stops at.
Stops(t) == software \union {w.address : w \in {w \in armed : w.thread = t}}

\* Breakpoints of both kinds are transparent (breakpoint.ts:14-16): a thread goes through
\* the program an instruction at a time, and reports at every breakpoint, once, before it
\* passes it.  So they are as long as the handler that looks at DR6 is asked last: it
\* takes an INT3 for the hit of a watchpoint whose bit is still there.
Passes(t) == thread[t].phase \in {"code", "relocated"} /\ thread[t]'.phase # "outside"
             /\ thread[t]'.at # thread[t].at

InOrder ==
  [][\A t \in Threads :
       /\ thread[t].phase # "outside" /\ thread[t]'.phase # "outside" =>
            thread[t]'.at \in {thread[t].at, thread[t].at + 1}
       /\ Passes(t) => thread[t].at \notin Stops(t) \/ thread[t].told
       /\ thread[t].phase = "trampoline" => thread[t].at \in Stops(t)
       /\ thread[t].told /\ thread[t]'.at = thread[t].at => thread[t]'.told]_vars
================================================================================
