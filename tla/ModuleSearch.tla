------------------------------ MODULE ModuleSearch ------------------------------
(****************************************************************************)
(* NativeMemory::scanModule() and NativeDisassembler::findXrefsInModule():   *)
(* enumerateModules() merges the lines of /proc/self/maps into modules       *)
(* (native_process.cc, Linux), findModuleByName() takes the first of that    *)
(* name, and bmhScan() or findXrefs() goes from its base to its end.  Other  *)
(* threads may unload a library meanwhile.                                   *)
(****************************************************************************)
EXTENDS XrefSweep, FiniteSets

CONSTANTS
  Top,        \* mapped addresses are below Top
  HalfInt,    \* an int is in -HalfInt .. HalfInt - 1 (2^31 in the code)
  SizeTs,     \* number of values of a size_t (2^64)
  Paths,      \* paths of files
  NoPath,     \* what a line without a path, or one like "[heap]", names
  PathRead,   \* what "%511s" reads of a path: up to the first blank
  Name,       \* the short name: a path from its last "/" on
  MapFiles,   \* the process's mappings when the call begins, one set for each case
  Memories,   \* what memory holds, one function for each case
  Tokens      \* patterns the user may ask for, before they are parsed

Mapping == [start : 0 .. Top, end : 0 .. Top, path : Paths \union {NoPath}]

\* The kernel's mappings are not empty and do not overlap.
Apart(lines) ==
  \A l, o \in lines : l.start < l.end /\ (l = o \/ l.end <= o.start \/ o.end <= l.start)

ASSUME SearchConstants ==
  /\ Top \in Nat /\ HalfInt \in Nat \ {0}
  /\ SizeTs \in Nat /\ 2 * HalfInt <= SizeTs /\ Top + HalfInt <= SizeTs
  /\ NoPath \notin Paths
  /\ PathRead \in [Paths -> Paths] /\ DOMAIN Name = Paths
  /\ \A maps \in MapFiles : maps \subseteq Mapping /\ Apart(maps)
  /\ \A c \in Memories : c \in [0 .. Top -> Byte]
  /\ \A t \in Tokens : t \in Seq(Nat \union {Any, NoHex})

VARIABLES
  maps,      \* the mappings of the process
  unloaded,  \* history: paths that were unmapped after the call began
  memory,    \* what the addresses hold
  call,      \* "idle", "maps", "not-found" or "search"
  name,      \* moduleName
  at,        \* where the kernel goes on with the lines
  modules,   \* the LinuxModInfo records so far
  found      \* the one that is searched

vars == <<maps, unloaded, memory, call, name, at, modules, found, scanVars, sweepVars>>

NoModule == [name |-> NoPath, path |-> NoPath, base |-> 0, end |-> 0]

Mapped(a) == \E l \in maps : l.start <= a /\ a < l.end

--------------------------------------------------------------------------------
Init ==
  /\ maps \in MapFiles /\ memory \in Memories
  /\ unloaded = {} /\ call = "idle" /\ name = NoPath /\ at = 0
  /\ modules = <<>> /\ found = NoModule
  /\ ScanInit /\ SweepInit

\* findModuleByName() opens the file.
FindModule ==
  /\ call = "idle"
  /\ \E p \in Paths : name' = Name[p]
  /\ call' = "maps" /\ at' = 0 /\ modules' = <<>>
  /\ UNCHANGED <<maps, unloaded, memory, found, scanVars, sweepVars>>

\* The kernel hands out the lines by address, each as it is when it is read.
NextLine(l) ==
  /\ l \in maps /\ l.start >= at
  /\ \A o \in maps : o.start >= at => l.start <= o.start

\* enumerateModules(): a path seen before grows its module, a new one is listed.
EntryKeepsPath(l) == [name |-> l.path, path |-> PathRead[l.path], base |-> l.start, end |-> l.end]
Entry(l) ==
  [name |-> Name[PathRead[l.path]], path |-> PathRead[l.path], base |-> l.start, end |-> l.end]

GrownDown(mod, l) == [mod EXCEPT !.base = IF l.start < @ THEN l.start ELSE @]
Grown(mod, l) == [mod EXCEPT !.base = IF l.start < @ THEN l.start ELSE @,
                             !.end = IF l.end > @ THEN l.end ELSE @]

ReadLine ==
  /\ call = "maps"
  /\ \E l \in maps :
       /\ NextLine(l)
       /\ at' = l.end
       /\ \/ /\ l.path = NoPath
             /\ UNCHANGED modules
          \/ /\ l.path # NoPath
             /\ LET known == {n \in DOMAIN modules : modules[n].path = PathRead[l.path]}
                IN modules' =
                     IF known = {} THEN Append(modules, Entry(l))
                     ELSE [n \in DOMAIN modules |->
                             IF n \in known THEN Grown(modules[n], l) ELSE modules[n]]
  /\ UNCHANGED <<maps, unloaded, memory, call, name, found, scanVars, sweepVars>>

NoLineLeft == \A l \in maps : l.start < at

\* What a conversion to int keeps of a number, and one to size_t of an int.
ToInt(n) == ((n + HalfInt) % (2 * HalfInt)) - HalfInt
ToSizeT(n) == IF n < 0 THEN n + SizeTs ELSE n

\* The size that enumerateModules() gives is an int.
SizeRoundedUp(mod) == ToInt(mod.end - mod.base + 1)
SizeOf(mod) == ToInt(mod.end - mod.base)

\* The n bytes from address b on, and which of them are mapped.
BytesFrom(b, n) == [k \in 1 .. n |-> IF b + k - 1 <= Top THEN memory[b + k - 1] ELSE 0]
MappedFrom(b, n) == {k \in 0 .. n - 1 : Mapped(b + k)}

\* findModuleByName() behind the last line; then scanModule() parses the pattern and
\* starts to search as many bytes as a size_t makes of the size, or findXrefsInModule()
\* starts its sweep.
Lookup ==
  /\ call = "maps" /\ NoLineLeft
  /\ LET named == {n \in DOMAIN modules : modules[n].name = name}
     IN \/ /\ named = {}
           /\ call' = "not-found"
           /\ UNCHANGED <<found, scanVars, sweepVars>>
        \/ /\ named # {}
           /\ LET mod == modules[CHOOSE n \in named : \A o \in named : n <= o]
                  size == SizeOf(mod)
                  len == ToSizeT(size)
              IN /\ found' = mod
                 /\ \/ /\ \E t \in Tokens :
                            ScanMemory(BytesFrom(mod.base, len), MappedFrom(mod.base, len), t)
                       /\ UNCHANGED sweepVars
                    \/ \E t \in Targets :
                         FindXrefs(mod.base, BytesFrom(mod.base, size),
                                   MappedFrom(mod.base, size), t)
           /\ call' = "search"
  /\ UNCHANGED <<maps, unloaded, memory, name, at, modules>>

Search ==
  /\ \/ ScanStep /\ UNCHANGED sweepVars
     \/ SweepStep
  /\ UNCHANGED <<maps, unloaded, memory, call, name, at, modules, found>>

\* dlclose() on another thread: the mappings of a file go.
Unload(p) ==
  /\ \E l \in maps : l.path = p
  /\ maps' = {l \in maps : l.path # p}
  /\ unloaded' = unloaded \union {p}
  /\ readable' = {k \in readable : \E l \in maps' : l.start <= found.base + k
                                                    /\ found.base + k < l.end}
  /\ UNCHANGED <<memory, call, name, at, modules, found>>
  /\ UNCHANGED <<haystack, pattern, i, results, scan, sweepVars>>

Next ==
  \/ FindModule \/ ReadLine \/ Lookup \/ Search
  \/ \E p \in Paths : Unload(p)

Spec == Init /\ [][Next]_vars /\ WF_vars(ReadLine \/ Lookup \/ Search)

--------------------------------------------------------------------------------
(* Properties *)

\* The pattern is at address a, inside the mapping l.
Occurs(a, l) ==
  /\ l.start <= a /\ a + m <= l.end
  /\ \A j \in 0 .. m - 1 : At(pattern, j) \in {Any, memory[a + j]}

\* The size of the module is the one it has: base and end are less than 2 GiB apart.
FitsInt(mod) == mod.end - mod.base < HalfInt

\* Every occurrence inside a mapping of the file that was looked up is reported, however
\* the kernel has split the file, unless it was unloaded meanwhile (the merging loop of
\* enumerateModules() and the search together, native_process.cc:197-213) or its mappings
\* are so far apart that an int does not hold the size (native_process.cc:222).
WholeModuleSearched ==
  scan = "done" /\ m > 0 /\ FitsInt(found) =>
    \A l \in maps, a \in 0 .. Top - 1 :
      /\ l.path # NoPath /\ l.path \notin unloaded
      /\ PathRead[l.path] = found.path /\ Occurs(a, l)
      => \E n \in DOMAIN results : found.base + results[n] = a

\* scanModule() throws "Module not found" only if no loaded file has the name (one with
\* a blank in its path is read up to the blank, native_process.cc:192).
NotFoundMeansAbsent ==
  call = "not-found" =>
    \A l \in maps : l.path # NoPath /\ PathRead[l.path] = l.path => Name[l.path] # name

\* A search faults only if the module has a hole: an address between base and end that is
\* not mapped (two mappings of the file with a gap between them, or a file unloaded
\* meanwhile), whatever lies behind the module (native_memory.cc:199-219,
\* native_disassembler.cc:280-282), as long as an int holds the size: a negative one is a
\* huge size_t.
FaultsOnlyInGaps ==
  scan = "fault" /\ FitsInt(found) => \E a \in found.base .. found.end - 1 : ~Mapped(a)

\* A search returns, throws or dies of a fault (no shift is zero, native_memory.cc:217).
SearchEnds ==
  (call = "maps") ~> (call = "not-found" \/ scan \in {"done", "threw", "fault"})

================================================================================
