--------------------------- MODULE HardwareBreakpoint ---------------------------
(****************************************************************************)
(* native_hw_breakpoint.cc: set(), remove() and removeAll(), and what the   *)
(* SIGTRAP handler recognises.  Debug registers belong to a thread: a call  *)
(* arms and clears those of the thread that makes it.  Each call runs under *)
(* g_hwMutex and touches its register in one place, so it is one step.      *)
(* This is the build with registers (macOS on x86-64; Windows has the same  *)
(* code for its CONTEXT).  On Linux every set() ends as SetHardwareFails:   *)
(* the kernel refuses a perf event with sigtrap and without remove_on_exec. *)
(****************************************************************************)
EXTENDS Integers, Sequences, FiniteSets, SequencesExt

CONSTANTS
  Threads,    \* threads of the program, the script's own one among them
  Script,     \* the script's thread
  Code,       \* addresses of instructions
  Data,       \* addresses of variables
  MaxHw,      \* platformMaxBreakpoints()
  MaxIds,     \* bound on g_nextHwId
  Rules       \* the rules the user of the API keeps to

\* "one-thread": only the script's thread calls the API.
\* "outside": no thread calls the API while it is in the instrumented program.
\* "apart": breakpoints are not at the same and not at adjacent addresses.
\* "software-first": when the first software breakpoint is set, the handler of the
\* hardware breakpoints is not registered, so that it comes second in the chain.
AllRules == {"one-thread", "outside", "apart", "software-first"}

ASSUME HardwareConstants ==
  /\ Script \in Threads /\ Code \subseteq Nat /\ Data \subseteq Nat /\ Code \intersect Data = {}
  /\ MaxHw \in Nat /\ MaxIds \in Nat
  /\ Rules \subseteq AllRules

VARIABLES
  hwEntry,       \* the HwBreakpointEntry of each id
  nextHwId,      \* g_nextHwId
  hwById,        \* the keys of g_hwById
  hwByAddress,   \* g_hwByAddress
  usedSlots,     \* g_usedSlots
  armed,         \* what the processor watches for: [thread, slot, address, type]
  chain,         \* who handles ExceptionType::Breakpoint, in order: "hw", "sw"
  stepHandled    \* the handler is registered for ExceptionType::SingleStep

hwVars == <<hwEntry, nextHwId, hwById, hwByAddress, usedSlots, armed, stepHandled>>

Addresses == Code \union Data
Ids   == 1 .. MaxIds
Slots == 0 .. MaxHw - 1

NoEntry == [address |-> 0, type |-> "none", slot |-> 0]

HardwareInit ==
  /\ hwEntry = [id \in Ids |-> NoEntry] /\ nextHwId = 1
  /\ hwById = {} /\ hwByAddress = <<>> /\ usedSlots = {} /\ armed = {}
  /\ chain = <<>> /\ stepHandled = FALSE

InChain(name) == Contains(chain, name)

\* ensureHwHandlerInstalled()
EnsureHandler ==
  IF InChain("hw") THEN UNCHANGED <<chain, stepHandled>>
  ELSE chain' = Append(chain, "hw") /\ stepHandled' = TRUE

\* maybeRemoveHwHandler().  Nobody kept the id of the second registration.
MaybeRemoveHandler(left) ==
  /\ chain' = IF DOMAIN left = {} THEN RemoveFirst(chain, "hw") ELSE chain
  /\ UNCHANGED stepHandled

--------------------------------------------------------------------------------
(* set() *)

\* A set() that is not refused: the address is free and fewer than maxBp are set.
Accepted(a) ==
  /\ a \notin DOMAIN hwByAddress
  /\ Cardinality(DOMAIN hwByAddress) < MaxHw

\* findFreeSlot()
FreeSlot == CHOOSE s \in Slots \ usedSlots : \A r \in Slots \ usedSlots : s <= r

SetHardware(t, a, type) ==
  /\ Accepted(a) /\ nextHwId <= MaxIds
  /\ LET id   == nextHwId
         slot == FreeSlot
     IN /\ hwEntry' = [hwEntry EXCEPT ![id] = [address |-> a, type |-> type, slot |-> slot]]
        /\ usedSlots' = usedSlots \union {slot}
        /\ armed' = armed \union {[thread |-> t, slot |-> slot, address |-> a, type |-> type]}
        /\ hwById' = hwById \union {id}
        /\ hwByAddress' = [b \in DOMAIN hwByAddress \union {a} |->
                             IF b = a THEN id ELSE hwByAddress[b]]
  /\ nextHwId' = nextHwId + 1
  /\ EnsureHandler

\* The new entry, buildRelocatedCode(), buildTrampoline() or perf_event_open() fails, the
\* handler being registered already.
SetHardwareFails(a) ==
  /\ Accepted(a)
  /\ EnsureHandler
  /\ UNCHANGED <<hwEntry, nextHwId, hwById, hwByAddress, usedSlots, armed>>

--------------------------------------------------------------------------------
(* remove() and removeAll() *)

SlotsOf(ids) == {hwEntry[id].slot : id \in ids}

\* Fault: the address is reset, but not the bit that enables the register.
ClearedNone(t, ids) == {}

\* darwinClearDebugReg() clears a register of the calling thread, whoever armed it.
Cleared(t, ids) == {w \in armed : w.slot \in SlotsOf(ids) /\ w.thread = t}

RemoveIds(t, ids) ==
  /\ armed' = armed \ Cleared(t, ids)
  /\ usedSlots' = usedSlots \ SlotsOf(ids)
  /\ hwById' = hwById \ ids
  /\ hwByAddress' = [a \in {a \in DOMAIN hwByAddress : hwByAddress[a] \notin ids} |->
                       hwByAddress[a]]
  /\ MaybeRemoveHandler(hwByAddress')
  /\ UNCHANGED <<hwEntry, nextHwId>>

RemoveHardware(t, id) == id \in hwById /\ RemoveIds(t, {id})

RemoveAllHardware(t) == RemoveIds(t, hwById)

--------------------------------------------------------------------------------
(* hwBpSigtrapHandler() *)

\* An execute breakpoint at the program counter is looked for first ...
HwRedirects(pc) == pc \in DOMAIN hwByAddress /\ hwEntry[hwByAddress[pc]].type = "execute"

\* ... then the entry that owns the lowest of the slots whose bit DR6 has and that an
\* entry owns.
Owners(bits) ==
  LET hit == {id \in hwById : hwEntry[id].slot \in bits}
  IN {id \in hit : \A other \in hit : hwEntry[id].slot <= hwEntry[other].slot}

HwClaims(pc, bits) == HwRedirects(pc) \/ Owners(bits) # {}
================================================================================
