# Verification of chromatic

chromatic is a C++ library with a QuickJS scripting layer that instruments the process it is loaded
into: it disassembles and patches code, sets software and hardware breakpoints, hooks functions,
watches memory through page protection, scans memory and calls native functions. The modules in this
directory model its stateful core and check it with TLC; the central results are proved with TLAPS
for every value of the constants.

Paths are relative to the repository. `bindings/` stands for `src/core/bindings/`.

## 1. Inventory

| component | source | state it keeps | operations |
|---|---|---|---|
| exception handler | `bindings/native_exception_handler.cc` | `g_enabled`, `g_refCount`, the chain `g_handlers`, the list `g_jsCallbacks`, the saved `sigaction`s; the signal table of the process | `enable`, `disable`, `refEnable`, `refDisable`, `registerHandler`, `unregisterHandler`, `addCallback`, `removeCallback`, `removeAllCallbacks`; dispatch in signal context |
| memory access monitor | `bindings/native_memory_access_monitor.cc` | `g_monitors`, the `fired` flag of each range, the ring `g_pending`; page protections | `enable`, `disable`, `disableAll`, `drainPending`; `monitorSegvHandler` in signal context |
| software breakpoints | `bindings/native_breakpoint.cc` | `g_bpById`, `g_bpByAddress`, `g_handlerInstalled`; patched code bytes, trampolines | `set`, `remove`, `removeAll`; `breakpointSigtrapHandler` in signal context, `chromatic_bp_dispatch` in normal context |
| interceptor | `bindings/native_interceptor.cc` | `hooksById`, `hooksByTarget`; patched code bytes, trampolines | `attach`, `detach`, `detachAll`, `replace`, `revert`; the two dispatch functions |
| code relocator | `bindings/internal/code_relocator.cc` | the shared JIT runtime | `makeWritableAndPatch`, `buildRelocatedCode`, `buildTrampoline`, `releaseCode` |
| hardware breakpoints | `bindings/native_hw_breakpoint.cc` | `g_hwById`, `g_hwByAddress`, `g_usedSlots`; the debug registers of each thread | `set`, `remove`, `removeAll`, the `SIGTRAP` handler |
| script runtime | `src/core/script.cc` | the QuickJS context | `cleanup`, `reset`, `eval_script` |
| FFI | `bindings/native_ffi.cc` | registered callbacks and their closures | `callFunction`, `createCallback`, `destroyCallback`, the callback handler |
| memory | `bindings/native_memory.cc` | a process-wide handler swapped in by `safeReadMemory` | read, write, scan, allocate, `patchCode` |
| process and modules | `bindings/native_process.cc` | none | enumeration of modules, ranges, exports |
| disassembler | `bindings/native_disassembler.cc` | a Capstone handle | disassemble, analyse, cross references, filter |
| console | `bindings/console.cc` | timers and counters | log, time, count |
| TypeScript layer | `src/core/typescript/src/*.ts` | thin wrappers; `NativePointer`, `Int64` arithmetic | the script's API |

**How they interact.** Software breakpoints, hardware breakpoints and the memory access monitor take
a reference on the exception handler and put handlers into its chain; the chain runs in signal
context on whatever thread trapped. Software breakpoints and the interceptor write to the same code
through the code relocator, which copies whatever bytes it finds. Script callbacks run inside drains
and trampolines. The API is called on the one thread that runs the QuickJS context; the threads of
the instrumented program trap, fault and run patched code at any moment.

**What is hard.** Signal handlers that run between any two instructions of an API call; handlers that
read maps without a lock; windows between changing memory and registering who is responsible for it;
a ring buffer filled by several threads; locks held across callbacks; patches that overlap and are
undone out of order; code that is freed while a thread is inside it; a user switch and a reference
count that share one set of installed handlers.

**What makes each component correct.** Exception handler: signals are chromatic's while anybody needs
them and the process's own afterwards, and every trap of an armed subsystem reaches it. Monitor: a
watched access is survived, reported once, in order, and no page stays inaccessible. Patches: the
program executes its own instructions, each patched address reports every pass, and the original bytes
come back. Hardware breakpoints: no slot is used twice or lost. Runtime: after a cleanup nothing of
chromatic is left in the process, and native code calls only callbacks that exist. Memory: a safe read
disturbs no other thread's faults and no handler of the process. FFI: a value survives the way through its
texts. Algorithms: relocated instructions do what the originals did; searches find exactly the matches,
over the whole module.

## 2. Plan

| step | modules | proofs | state |
|---|---|---|---|
| 1 | `ExceptionHandler`, its contract `SignalOwnership` | `ExceptionHandlerProofs` | modelled, checked, proved |
| 2 | `MemoryAccessMonitor`, its contract `AccessLog` | `MemoryAccessMonitorProofs` | modelled, checked, proved |
| 3 | `CodeMemory`, `SoftwareBreakpoint`, `Interceptor`, composed in `CodePatches`, their contract `Instrumentation` | `CodePatchesProofs` | modelled, checked, proved |
| 4 | `HardwareBreakpoint`, composed with software breakpoints in `DebugTraps` | `DebugTrapsProofs` | modelled, checked, proved |
| 5 | `ScriptRuntime` over all subsystems and FFI callbacks, `ForeignValues` | `ScriptRuntimeProofs` | modelled, checked, proved |
| 6 | `NativeMemory`, its contract `FaultContract` | `NativeMemoryProofs` | modelled, checked, proved |
| 7 | `PatternScan`, `XrefSweep`, composed with the memory map in `ModuleSearch`; `Relocation` | `ModuleSearchProofs`, `RelocationProofs` | modelled, checked, proved |
| 8 | `Memory.patchCode` of the TypeScript layer beside breakpoints and hooks, in `CodePatches` | | not begun |

"Proved" is said of the safety properties and the refinements of the passing runs, every one of which is a
theorem of section 5; liveness is checked only. The console, value types in TypeScript and the generated
bindings keep no state that two steps could disagree about and are left out.

## 3. Modules and code

All modules model the POSIX build. A handler that runs in signal context is split wherever another
thread can see its effect; so is an API call, except where a comment of the module says that the call
touches shared state in one place. `Script` is the thread of the QuickJS context.

Where the code is correct only if its user is careful, the module has a constant `Rules`: the set of
rules the user keeps to. No rule is written down in the repository; each is a guard in the actions, named
and described at its declaration. A passing run says which rules a promise needs; a violation run drops
one and shows what happens. What a rule excludes no property covers: such a hazard is listed in
`PROJECT.json` without one, with the rule and what fails without it.

**`ExceptionHandler`** - `native_exception_handler.cc`. `enabled`, `refCount`, `handlers`, `saved` and
`jsCallbacks` are the static variables of lines 42-65 and 211-214; `disposition` is the signal table of the
process. `installHandlers` and `removeHandlers` are four `sigaction` calls each, one step per call
(`Install`, `Remove`), with signals in between. `StartRelease`, `RegisterHandler`, `UnregisterHandler` and
`RefEnable` are the sequence every subsystem goes through (`ensureHandlerInstalled`/`maybeRemoveHandler` in
`native_breakpoint.cc`); one that is `Forgetful`, as the hardware breakpoints are, withdraws the first of
its handlers only and leaves the other in the chain. A thread copies the chain, asks its entries one at a
time and forwards what nobody claims. `SignalOwnership` is the promise: signals change hands between the
process and chromatic, and never away from chromatic while a subsystem relies on it.

**`MemoryAccessMonitor`** - `native_memory_access_monitor.cc`. `enable` is protecting (page by page of
each range), registering, inserting; `disable` is draining, restoring, deleting; `monitorSegvHandler`
is scanning (restarted at every range, since it holds no lock), marking `fired`, restoring, reserving a
slot of the ring, writing and publishing it. Of several addresses a later one may not parse: `enable`
throws with the pages of the earlier ones closed, the handlers counted in and no monitor registered
(`AddressThrows`; `Abandoned` keeps what it has closed); the rule "addresses-parse" excludes it.
`AccessLog` is the promise: every armed range is logged at most once, and the log is read from the front.

**`CodeMemory`, `SoftwareBreakpoint`, `Interceptor`, `CodePatches`** - `internal/code_relocator.cc`,
`native_breakpoint.cc`, `native_interceptor.cc`. `code` is one function, cell by cell; a hook takes
`PatchSize` cells, a breakpoint one. `makeWritableAndPatch` is three steps (`MakeWritable`, `Copy`,
`MakeExecutable`), each of which another thread or the other API can come between; `Release` gives the
trampoline back. `SoftwareBreakpoint` and `Interceptor` are the calls around it under their own mutexes
and maps, with the calls that throw. `CodePatches` adds the threads of the program: they run cells,
trap, are redirected, jump into trampolines, call back, run the relocated copy and jump back.
`Instrumentation` is the promise: a thread runs every instruction once and in order and reports at each
armed one before it passes it.

**`HardwareBreakpoint`, `DebugTraps`** - `native_hw_breakpoint.cc` with the signal handlers of both kinds
of breakpoint, on a machine with debug registers (macOS on x86-64). `armed` is what the debug registers of
each thread hold; `chain` is the order in which the two handlers were registered for
`ExceptionType::Breakpoint`. `Trapped` is one signal: which handler claims it, and where the thread goes.
`dr6` is the status register of each thread. No line of the code clears it, so the handler of the hardware
breakpoints, which is asked at every trap and goes by DR6, may find the bit of an earlier hit: at an INT3, or
beside the bit of another register. When a debug register traps, the kernel may have dropped any of the old
bits (`StatusBits`). `SetHardwareFails` is also what every `set()` does on Linux, where `perf_event_open` refuses
`sigtrap` without `remove_on_exec` after the handler was registered. Instructions are one byte long, as the INT3
that stands for one. Rules: "one-thread" (one thread calls the API), "outside" (and not from a callback),
"apart" (breakpoints at code are not at adjacent bytes), "software-first" (a software breakpoint is set before
the first hardware one, so that its handler comes before the one that goes by DR6). `crowded` is a history:
once two hardware breakpoints have been set at a time nothing is said of who is told of a write, since DR6 may
name both.

**`ScriptRuntime`, `ForeignValues`** - `script.cc`, `native_ffi.cc`, `native-function.ts`,
`native-callback.ts`. `host` is where `cleanup()` is; each of its six calls is a step (`TakeBack` for the
four kinds of things a script installs, `RemoveAllCallbacks`, `DisableAtLast`), any of the two that patch
code may be refused by the system, and the program runs in between. The subsystems are what they have in
common here: a kind is armed for a context, counts on the exception handler, and a `set()` that throws has
counted itself in already. `object` and `callbacks` are the NativeCallback objects and the closures at
their addresses, which are used again. `CallFunction`, `CallbackHandler`, `HandlerReturns` and
`FunctionReturns` carry a value from a NativeFunction to a NativeCallback and back; `ForeignValues` is what
each conversion does to it, for integers of the sizes `Size` (2^8, 2^16, 2^32 and 2^64 in the program) and
numbers that are exact up to `Exact` (2^53). Rules: "quiet" (no callback runs while it is destroyed or the context goes),
"destroyed" (scripts destroy their NativeCallbacks), "once" (not twice), "no-early-disable".

**`NativeMemory`** - `native_memory.cc`. `table` is the signal table of the process, which
`safeReadMemory()` changes in four `sigaction` calls, one step each, while chromatic's exception handler
(one step here) and the process's own handlers are in it. Threads fault at any moment; who answers is decided
by the table at that moment and by the thread, because the jump buffer of a read belongs to one. A handler
that returns without resolving anything makes the thread fault again: no step of the model until something
has changed. `ReadThrows` is `bytesToHex` throwing for the size it was given, inside the guarded read: the
handlers and `safe_read_active` stay, a later fault of that thread jumps into a frame that is gone
(`JumpsNowhere`) and one of another thread is never resolved. The history `threw` ends what `FaultContract`
promises (its `void`). `PatchCode` is three steps whose `mprotect` may fail unnoticed. `FaultContract` is the
promise: seen from outside the table changes only by `enable()` and `disable()`, and every fault is
answered by the handler the table holds for it. Rules: "one-call" (calls do not overlap), "alike" (the
process handles SIGSEGV and SIGBUS alike, or chromatic is enabled, when memory is read safely). `ReadsStayInside`
needs the first only, and holds after a throw too: what it leaves in the table does not keep the next read from
catching its own fault.

**`PatternScan`, `XrefSweep`, `ModuleSearch`** - `native_memory.cc` 130-219, `native_disassembler.cc`
220-306, `native_process.cc`. A comparison and the shift after it is one step of `PatternScan`, an
instruction one of `XrefSweep` (`Starts`, where instructions begin, is the smallest set that is closed under
going on behind an instruction); both know which bytes they read, and a byte that is not mapped is a fault.
What Capstone decodes is the constant `Decode`. `ModuleSearch` builds the module before it searches it:
`ReadLine` is one line of `/proc/self/maps`, as it is when it is read, since other threads may unload a
library between two lines or during the search (`Unload`). The size of a module is cut to an int (`ToInt`, an
int from -`HalfInt` to `HalfInt` - 1) and the search of a pattern makes a `size_t` of it again (`ToSizeT`): a file
that is mapped twice, far apart, is searched too short, or far beyond its end. What is promised of a whole
module has the proviso that its size fits (`FitsInt`).

**`Relocation`** - `buildRelocatedCode` of `code_relocator.cc` with what it takes from
`analyzeInstruction`, on both processors. `Translate` is the branch taken for one instruction, `out` the
items it emitted, each with the byte where it begins, its size, displacement or embedded pointer. Then the processor runs the
original and the copy from one state of the flags, and `RunsAlike` compares what they did. `Faithful` says
for which kinds of instruction that holds; the others are listed in section 6.

`ModuleSearch`, `Relocation`, `NativeMemory`, `ScriptRuntime` and `CodePatches` have no type invariant
among their properties; what they check are the hazards alone.

## 4. Runs

| run | what it checks | result |
|---|---|---|
| `exception_handler` | types, that references keep the handlers, that originals are never overwritten, that `disable()` restores, that every signal is resolved, `SignalOwnership` | holds |
| `monitor` | under all rules: no access kills, unfired ranges stay guarded, reports equal records, calls return, `AccessLog` | holds |
| `monitor_unruly` | under no rules: no page is inaccessible without somebody to restore it, but those of an `enable()` that threw; no report is invented or repeated, the handler returns | holds |
| `monitor_race` | two threads touch one range: the second one's fault is not claimed and kills the process | violated |
| `patches` | under all rules: nothing crashes, every thread gets out, `Instrumentation` | holds |
| `patches_nested` | patches on top of each other, undone from the top, threads and callbacks at any moment, calls that throw: the code comes back, jumps lead somewhere, the maps agree | holds |
| `traps` | hardware and software breakpoints together, called from outside and from callbacks, apart from each other and the software handler first: types, registers and maps agree, no trap is unhandled, the program runs in order whatever DR6 holds, every write reaches its own watchpoint until two hardware breakpoints are set at a time | holds |
| `traps_stale` | a software breakpoint is set after a hardware one: with the bit of an earlier hit in DR6 the INT3 is taken for another hit, and the thread goes on behind it | violated |
| `module_search` | a module is looked up while libraries may be unloaded, and searched for a pattern or for references: every match and every reference is found and in order, over the whole module, faults come from gaps only (both if an int holds the size), the search ends | holds |
| `relocation` | every sequence of two or three instructions, on both processors, beside the original under every state of the flags: the copy of what is `Faithful` does the same, no jump ends inside an item | holds |
| `native_memory` | safe reads, patches and changes of rights beside faulting threads, with and without chromatic's handlers: `FaultContract` and that every fault is answered, both until a read throws; that the fault of a read ends in that read, also after one has thrown | holds |
| `runtime` | scripts, contexts that are replaced, cleanups that are refused half-way, NativeCallbacks and calls: only live callbacks run, the handlers stay while needed and no longer, values survive | holds |

A rule can be dropped in a cfg to see what it is for: the MC modules have the sets. `RulesButDisjoint` of
`MCMemoryAccessMonitor` violates `UnfiredStaysGuarded` (two ranges on one page: firing one silently opens
the other), `RulesButNoReentry` violates `CallsReturn` (a callback that calls the API waits for its own
thread); `RulesButDisjoint` of `MCCodePatches` violates `Restored` (the lower of two patches undone first:
its trap is written back for good), `RulesButAllocator` violates `Survives` (a breakpoint on `malloc` traps
inside its own `set()`); dropping either of its rules violates `ImplementsContract` of `NativeMemory`, and
any one of "quiet", "destroyed" and "once" `OnlyLiveCallbacks` of `ScriptRuntime`.

**Bounds.** `exception_handler`: three subsystems, two of which share a type, five handler ids (two arm and
release cycles of the one that leaves a handler behind, beside another), one thread in signal context
besides the script's (threads share only the chain and the table, which the script changes under them).
`monitor`: two pages of two bytes, so a request can end in the middle of a page, span two, or name two
ranges that share one; two monitors; a ring of two slots, which two ranges fill and a second round wraps.
`monitor_unruly`: one request, watched by two monitors at once. `patches`: three cells and hooks of two, so
patches meet at the same, an earlier or a later cell and the jump back lands on a patched or a plain one;
two of each kind; two threads, and the relocation may fail. `patches_nested`: two cells, two breakpoints
and a hook, three patches deep. `traps` and
`traps_stale`: three instructions, two variables, two registers and three calls of `set()`, so a slot is reused
and the bit of one watchpoint can stay while another one is hit; two threads, one of which has no registers
armed. `module_search`: three
files, two of one name and one with a blank in its path, sixteen addresses in seven layouts (adjacent mappings,
a gap, another file or an anonymous mapping in between; two mappings so far apart that an int, here from -6 to
5, makes the size negative or cuts it to a positive one), bytes of four values, patterns of up to three
tokens: a pattern is shorter than, as long as and longer than a mapping, and overlaps itself. `relocation`:
a patch of three bytes over instructions of one and two, so it ends at and inside an instruction; two
condition codes of each of two flags. `native_memory`: two threads, two pages, three calls, so a read, a
watch and `enable()` or `disable()`, or a read that throws and one after it, meet; a process that handles SIGSEGV and dies of SIGBUS. `runtime`: two
threads, two NativeCallbacks that share one address, two contexts, four calls; registers of six bits, ints
of four, shorts of three, chars of two and a number exact to 2^5, with values at both ends of each (the
theorem is about any widths). The
second failure of `mprotect` in `makeWritableAndPatch` ("executable" in `AllFailures`) is in no run:
nothing is promised after it, the page staying not executable.

**Fairness.** Weak fairness of the steps of an API call that has begun and of a thread inside a signal
handler (`ExceptionHandler`, `MemoryAccessMonitor`, `NativeMemory`), of a search that has begun
(`ModuleSearch`), and of a thread inside the function or the trampolines (`CodePatches`): the operating
system schedules them, and none of these steps waits for another thread except at a mutex. A thread whose
fault the handler of a read does not resolve waits for the read to end, which weak fairness of the read
brings about. No fairness is assumed for the program touching memory, or for the script calling the API.
`DebugTraps`, `Relocation` and `ScriptRuntime` have safety properties only.

**Deadlock** is not checked: the script may stop calling, ids run out at their bounds, and a process that
has died stays dead. A search or a relocation that is over stays over.

## 5. Proofs

Every invariant and every refinement of a passing run is a theorem, for every value of the constants that
the assumptions of the modules admit: any number of threads, pages, breakpoints, hooks, monitors, contexts,
any program, pattern and memory. Where a run needs rules of the user, so does the theorem, as a hypothesis
(`ASSUME "..." \in Rules`); often it needs fewer than the run. In the tables "rules" lists them: "none" means
that the theorem holds whatever the user does. None of the properties is inductive; each table is followed
by the invariant it takes.

**`ExceptionHandlerProofs`**: any threads, finite set of subsystems, assignment of types to them, whichever
of them leave handlers behind, and any signal table the process may have had.

| theorem | statement | rules |
|---|---|---|
| `InvariantHolds` | `[]IInv` | none |
| `TypeCorrect` | `[]TypeOK` | none |
| `ReferencesKeepHandlers` | `[]RefsKeepHandlers` | none |
| `OriginalsStayRecoverable` | `[]OriginalsRecoverable` | none |
| `DisableGivesBack` | `[]DisableRestores` | none |
| `ContractKept` | `ImplementsOwnership` | none |
| `ChainHolds` | `[]HInv` | none |
| `TrapsReachTheirOwner` | `[]ClaimedReachesOwner` | none |

`IInv` has four parts besides `TypeOK`: `CountInv` (the reference count is the cardinality of the subsystems
that hold something or are about to), `CallInv` (where an interrupted call can be, and that one which removes
the handlers has no users), `OwnInv` (how much of the table is chromatic's at each of the four steps of an
installation, and that it is all of it while there are users) and `SavedInv` (a saved original is the
original: the reason a second installation is harmless only while no `disable()` has left the handlers in
place, the history variable `kept`). `StepKinds` divides `Next` into the steps that touch none of this and the
few that do; each part is preserved by a lemma of its own. Dispatch needs more: `HInv` says that a
subsystem holds the ids it has in the chain, in order, and that the copy of the chain a thread works on still
has the entry that answers its trap, unless the subsystem has withdrawn it meanwhile.

**`MemoryAccessMonitorProofs`**: any pages, requests, threads, monitors and size of the ring.

| theorem | statement | rules |
|---|---|---|
| `TypeCorrect` | `[]TypeOK` | none |
| `RegistryHolds` | `[]RegistryInv` | none |
| `NoPageForgotten` | `[]NoOrphanPage` | none |
| `RingHolds` | `[]RingInv` | none |
| `ReportsFollowTheRecord` | `[]ReportsInOrder` | none |
| `NobodyIsKilled` | `[]AccessSurvives` | "quiesced", "one-at-a-time", "addresses-parse" |
| `WatchedStaysGuarded` | `[]UnfiredStaysGuarded` | "quiesced", "disjoint" |
| `EveryAccessIsReported` | `[]ReportedAsRecorded` | "quiesced" |
| `MonitorKeepsItsLog` | `ImplementsLog` | "quiesced", "one-at-a-time", "addresses-parse" |

`RegistryInv` ties `g_monitors`, the freed monitors, the call under way and the registered handlers together;
`OrphanInv` says of every inaccessible page who will open it: a monitor that will be disabled (`Kept`) or a
handler between marking and restoring (`Held`); or that an `enable()` closed it before it threw
(`Abandoned`), and then nobody will. `QuietInv` and `AloneInv` give each thread in the handler a
range of its own that claims its page; `GuardInv` needs that no range shares a page with another that may
still restore it. The ring (`SlotsInv`, `DrawnInv`, `RingInv`, `ToldInv`) is followed through reserving,
writing, publishing and reading: until it overruns, slot i holds the i-th record, whatever order the threads
publish in. `ExactInv` adds where the drain is.

**`CodePatchesProofs`**: functions and patches of any size, any number of threads, breakpoints and hooks.

| theorem | statement | rules |
|---|---|---|
| `MapsStayInStep` | `[]MapsAgree` | none |
| `StacksHold` | `[](MInv /\ NInv)` | "nested"; restoring the page's rights does not fail |
| `JumpsAlwaysLead` | `[]JumpsLead` | the same |
| `CodeIsRestored` | `[]Restored` | the same |
| `ThreadsHold` | `[](MInv /\ NInv /\ SInv)` | all; of the calls only the relocation fails |
| `NobodyIsKilled` | `[]Survives` | the same |
| `PatchesAreTransparent` | `ImplementsContract` | the same |

`MInv` is what holds in any case: types, what each call under way has done, and that a patch is in both maps
of its kind or in none. `NInv` is the stack over each cell: the code has what the topmost patch has written,
each has saved what the one below has written, the lowest the instruction; a call in the middle of a copy has
a part of one patch and the rest of the other (`WorkInv`), and what a loop such as `removeAll()` undoes is
`Clean`, so writing one back does not bring another of the loop back. `SInv` adds the threads: calls run alone,
and a thread is in the function, at a trap of a registered patch or in its code, and has reported exactly what
it is about to pass (`MayBe`). The refinement maps every step of these threads to a step of `Instrumentation`.

**`DebugTrapsProofs`**: any program, threads, registers and breakpoints.

| theorem | statement | rules |
|---|---|---|
| `TypeCorrect` | `[]TypeOK` | none |
| `RegistersAlwaysAgree` | `[]RegistersAgree` | "one-thread" |
| `TrapsAreHandled` | `[]DiesOnlyOfRelease` | "one-thread" |
| `WritesAreReported` | `[]WritesReachTheirWatchpoint` | "one-thread", "software-first" |
| `ProgramRunsInOrder` | `InOrder` | "one-thread", "apart", "software-first" |
| `NobodyDies` | `[]~crashed` | "one-thread", "apart", "outside", "software-first" |

They are about programs of one-byte instructions (`TrapConstants`), and assume nothing of DR6: a bit that was
set may stay for ever. `BaseInv` (the maps, the chain of handlers, the places of the threads) holds whoever
calls. With one caller the armed registers are those of the map (`ArmedInv`); `FirstInv` says that the handler
of the software breakpoints is the first of the chain if it is there, so that the other is never asked about
an INT3, and `OnlyInv` that there is one hardware breakpoint until `crowded`, so that the slot found in DR6 is its own.
`TrampolineInv` and `ApartInv` say where a thread that was redirected came from, and that no two breakpoints
take each other's trap. `NobodyDies` is the theorem about a careful user that the rules add up to, and no run
states it. That `findFreeSlot()` finds one uses that a set of naturals has a least element (`LeastExists`),
which follows from well-foundedness.

**`ScriptRuntimeProofs`**: any threads, NativeCallbacks, contexts and refusals, integers of any width.

| theorem | statement | rules |
|---|---|---|
| `HandlersCounted` | `[]HandlerInv` | none |
| `HandlersStayWhileNeeded` | `[]HandlersWhileNeeded` | "no-early-disable" |
| `CallbacksAreOfTheContext` | `[]OnlyLiveCallbacks` | "quiet", "destroyed", "once" |
| `ValuesArrive` | `[]ValuesSurvive` | none |

`HandlerInv` follows the references through each of the six calls of `cleanup()`: what it has dealt with
(`TakenBack`) is neither armed nor counted, also when a later call is refused. `CallbackInv` says that between
two contexts nothing of the scripts is left. `ValueInv` says what a register or a script holds of a value at each
station: in a register it is the value modulo the size of the register, and each conversion gives the value
back (`Passes`, one lemma per group of types). The widths are constants: of their sizes the assumption
`ForeignConstants` asks that they are even, grow and divide each other, and that a number is exact between the
size of an int and half of a register's, which the real ones (2^8, 2^16, 2^32, 2^64, 2^53) fulfil.

**`NativeMemoryProofs`**: any threads, pages, calls and handlers of the process.

| theorem | statement | rules |
|---|---|---|
| `ReadsAreInvisible` | `ImplementsContract` | "one-call", "alike" |
| `ReadFaultsStayInside` | `[]ReadsStayInside` | "one-call" |

`TableInv` says what the table holds at each of the four `sigaction` calls of a read, and what the thread has kept
of it; `CallInv` that there is one call at a time (`UnlessThrown`: both as long as no read has thrown). Afterwards
neither table nor saved action can be known, and `InsideInv` says only what the second theorem needs: both entries are the read's while it looks at
the bytes, and its thread is the active one.

**`ModuleSearchProofs`**: any memory, patterns, files, layouts and unloading, and any instruction set.

| theorem | statement |
|---|---|
| `SearchHolds` | `[]IInv` |
| `EveryMatchIsFound` | `[]FindsEveryMatch` |
| `EveryXrefIsFound` | `[]FindsEveryXref` |
| `ModuleIsSearched` | `[]WholeModuleSearched` |
| `AbsentIfNotFound` | `[]NotFoundMeansAbsent` |
| `FaultsComeFromGaps` | `[]FaultsOnlyInGaps` |

`ModuleIsSearched` and `FaultsComeFromGaps` are about modules whose size an int holds (`FitsInt`). The theorems
assume that the kernel's mappings do not overlap and that Capstone decodes no instruction longer than its
bytes (`SearchConstants`, `SweepConstants`). `ScanInv` is the argument of the search: every match before the
cursor is in the results, which is preserved because the shift is the distance to the last place in the pattern
where the byte read, or a wildcard, could stand. `SweepInv` says the same of instructions, `ModuleInv` that the
records made so far are what the kernel has shown of each file, `FoundInv` what of it the search was given.

**`RelocationProofs`**: any program, size of the patch and state of the flags, on both processors.

| theorem | statement |
|---|---|
| `BuildHolds` | `[]BuildInv` |
| `CopyLeavesForATarget` | `[]LeavesForATarget` |
| `CopyRunsAlike` | `[]RunsAlike` |

They assume that at least as many instructions as the patch has bytes are there to decode
(`RelocationConstants`). `BuildInv` says that there is a layout: a sequence of offsets such that the n-th
instruction became the items between two of them, in the form its kind asks for, and the jump back stands
behind the last. A run of the copy is always at such an offset or behind a condition that did not jump
(`LeaveInv`), with what the original had done when it came to that instruction (`AlikeInv`, for which the
positions of the original's effects in its trace are guessed as a function).

**What stays with TLC.** Liveness under fairness: `SignalResolved`, `CallsReturn`, `FaultResolved`, `GetsOut`,
`FaultsAreAnswered` and `SearchEnds` (these provers have neither `ENABLED` nor fairness). The two
violated runs are counterexamples. Induction over data was avoided: no recursive operator is left in a module
with theorems, and where an argument needs a least or a last element it is taken from well-foundedness.

## 6. Disagreements between code and documentation

`PROJECT.json` lists them under `findings`, with the line of each and the run or the model that shows it.
Beside the violated runs above: `onLeave` runs before the hooked function and sees no return value; callbacks of
`ExceptionHandler.addCallback` are never called; the last `refDisable()` removes nothing; `disable()` with a
reference outstanding leaves the handlers installed (the proviso `~kept` of four properties);
an `enable()` of the monitor that throws at a later address leaves pages closed for good; `safeReadMemory`
installs the old SIGSEGV action for SIGBUS, and leaves its handlers installed when it throws for a negative
size; the size of a module is cut to an int; PC-relative instructions other than jumps and
calls are copied without being fixed up, an x86 call looks for its pointer in the wrong place, and short
jumps, loops and jumps through memory become conditional on the overflow flag; hardware breakpoints leave a
handler in the chain at each round, go by bits of DR6 that nothing clears, and can never be set on Linux; a cleanup destroys no NativeCallback and ends the process when one of
its calls throws in the destructor; `bool` travels as a pointer, a `uint32` result comes back signed,
`size_t` is void; allocated memory is not executable and `protectMemory` returns no old protection;
`enumerateExports` is empty on Linux, and an export of a module that is not loaded is looked for anywhere.

What the rules of `DebugTraps` stand for is not documented either. Without "apart" a breakpoint of each
kind on adjacent bytes (x86) takes the other's trap, which violates `InOrder`; without "software-first" the handler
that goes by DR6 takes an INT3 for a hit (`traps_stale`); once two hardware breakpoints have been set a write is told to the
lowest slot that DR6 names, an earlier one's, or is not told at all when the next instruction has an execute
breakpoint (`crowded`); without "one-thread" `remove()` leaves the register of the thread that called `set()` armed;
without "outside" a callback that removes its own breakpoint returns into code that was released
(`DiesOnlyOfRelease` says that this is the only way a trap kills the process).

## 7. Not modelled

- The Windows branches (vectored handlers, `VirtualProtect`, `CONTEXT` registers): the same structure
  with other system calls. macOS on ARM64 refuses every hardware breakpoint.
- Undefined behaviour of unlocked maps: the handlers of breakpoints read `unordered_map`s that an API call
  on another thread may be rehashing. The models let the read see the map before or after the call.
- Reading a `MonitorEntry` or trampoline after it was freed is modelled as what it can lead to
  (`RunsReleased`, `freed`), not as bytes.
- Sizes of watchpoints and instructions that hit several of them; register snapshots of callbacks; what a
  replacement does after it has called the original.
- `CodeMemory` takes each copied instruction to do what the original did; `Relocation` says when that is so.
- `Memory.patchCode` of the TypeScript layer, which copies code, calls the script and writes all of it back:
  a patch set meanwhile is overwritten. `CodePatches` has no step for it yet.
- Reading and writing memory through `NativePointer` (typed reads, texts), `Int64` arithmetic, hex dumps:
  values without state. Float, double and void in the FFI.
- `enumerateRanges`, exports and `findModuleByAddress`, which ask the operating system and keep no
  state; `disassemble` and `filterInstructions`, which decode one instruction after the other; the
  asynchronous variants, which run the same code on a worker and deliver a result.
- The console (output; its counters and timers belong to one thread), the generated bindings and the empty
  entry point.
