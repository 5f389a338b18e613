# Verification of WindowsInternalsSuite

TLA+ models of the suite's own logic, TLC configurations that check them on
small instances, and proofs that TLAPS checks for every instance. Paths below
are relative to `src/` of the repository unless they begin with a module name.

The suite is a library in four layers. `ui` holds view models that an
application refreshes from a timer; `core` holds managers that answer questions
about processes, threads, handles, memory, modules, PE files and symbols;
`ntapi` wraps the native calls; `common` holds owners, errors and text. Nothing
in the suite keeps a lasting store. What makes it hard is that its subject moves:
between any two native calls a process may exit, a pid, tid, handle value or
module base may be given to somebody else, a table may grow, a page may go.

## 1. Inventory

Each entry names state, operations, interactions, what is hard, and what makes
the component correct.

**Process explorer view model** (`ui/src/viewmodels/ProcessExplorerVM.cpp`).
State: rows, tree, selected pid, details, last error, a callback. Operations:
`refreshAt`, `select`, `clearSelection`, `loadDetails`, `setOnChanged`. Calls the
process manager and the sampler, and the callback at the end of each. Hard: everything is keyed
by pid while pids are reused; parents are known only by pid and creation time;
failed refreshes in between. Correct when the tree joins creators and created,
shows each row once, and details belong to the selection.

**Thread explorer view model** (`ThreadExplorerVM.cpp`). The same for the threads
of one process that can be changed (`setProcess`). Correct when no rows and no
baseline of the former subject survive the change.

**CPU sampler** (`ui/include/ui/detail/CpuSampler.hpp`). State: the time and the CPU
times of the last good round. Hard: reuse of an id, a clock that stands or goes
back, intervals below a CPU-time unit, failed rounds. Correct when a percentage
is the CPU use of that very process since the previous good snapshot.

**Handle names** (`core/src/handle/HandleManager.cpp`, `resolveName`). State of a
call: two handles, a detached worker, a state both share under a mutex, a done
flag. Hard: the query may block for ever, the deadline races the answer, the
worker keeps a raw handle value. Correct when no value is closed or reused under
the worker, every call ends, an answer is that of the handle asked for, and
nothing else leaks.

**Process and thread snapshots** (`core/include/core/detail/SnapshotWalk.hpp`,
`ProcessManager.cpp`, `ThreadManager.cpp`). A walk over variable-length records
chained by offsets. Hard: limits and sums at the end of the buffer, chains that
are cut short. Correct when nothing is read outside, nothing well formed is
rejected, and a result without error is complete.

**Growing-buffer query** (`ntapi/include/ntapi/detail/QueryBuffer.hpp`). State: a
length, an attempt, a buffer. Hard: the answer grows between two asks, and the
length type wraps. Correct when an answer is complete, headroom does what it is
for, and the loop ends.

**Memory map and scan** (`core/src/memory`). State of a scan: the map, a region, an
offset, matches. Hard: overlapping windows, partial reads, memory that changes
under the scan. Correct when what stays in place is found exactly once.

**Module list** (`core/src/module/ModuleManager.cpp`, `ntapi/src/NativeApi.cpp`). Two
calls to enumerate, two queries per module. Hard: modules that come and go
between them, queries that fail. Correct when a module that stays is listed once,
as itself.

**Symbols** (`core/src/symbols/SymbolResolver.cpp`). State: a process handle, a
ready flag, a mutex; behind it dbghelp's table of sessions, keyed by handle
value. Hard: dbghelp is not thread-safe, handle values are reused, resolvers are
moved. Correct when a session belongs to one living resolver and calls of one
resolver never overlap.

**Scoped privilege** (`common/src/raii/ScopedPrivilege.cpp`). State: a token handle and
a previous state; behind it the one token of the process. Hard: scopes that do
not nest, moves. Correct when the privilege is enabled while needed and put back.

**PE files** (`core/src/pe`, `core/include/core/pe`). State of a parse: offsets and
counters of nested loops over file data; the result. Operations: `parseFile` and a
parser for each of seven directories. Hard: everything is where the file says it
is, so tables end behind the file, overlap, share parts and lead back to
themselves, and sums of 32 bits wrap. Correct when nothing outside the file is read,
addresses translate as the section table lays them out, what is listed is what the
file says, and every loop goes forward.

**Remote queries** (`PebTebReader`, `TokenInspector`, `HeapInspector`,
`SystemInfoProvider`, `queryDetails` of processes and threads). A list of steps that
open something or fill a field; some are needed, others may fail. Hard: the steps
are at different moments and go by ids that are reused. Correct when a report is
of one process, is refused only without what it needs, and gives back what it
opened.

**Tables of the kernel** (`ObjectTypeTable`, `HandleManager::snapshot`, page files and
topology in `SystemInfoProvider`). Walks over records of varying size; the table of
types is asked for after the handles it is to explain, and the count of handles has
to be held against the buffer. Correct when a table is listed whole and every handle
has the name of its own type.

**Mapped files** (`common/src/io/MappedFile.cpp`). State: two handles, a view, a size.
Hard: `open` fails half way, results are moved, others write to the file. Correct
when a view is of the whole file as long as it is held, nothing outlives what it
was made from, and every resource has one owner.

**The rest** keeps no state between calls or hardly any: file metadata and
signatures, owners of local and virtual memory, the logger (one stream under one
lock), errors, text conversions, row formatting. The README of the repository names
a Native API monitor, Win32 views and an application; they have no source.

`PROJECT.json` lists every component with its sources and status, and every hazard
with its line and the properties that cover it.

## 2. Modules

| module | models | composed with |
|---|---|---|
| `OsObjects` | processes or threads of the system: creation, exit, CPU use, reuse of ids | |
| `CpuSampler` | the sampler, as operators on its record | |
| `ProcessExplorer` | the process view model | extends both |
| `ThreadExplorer` | the thread view model | extends both |
| `HandleName` | what `resolveName` promises, without threads or handles | |
| `HandleNameQuery` | caller, worker, deadline, mutex and the handle table | refines `HandleName` |
| `QueryBuffer` | the growing-buffer loop | |
| `SnapshotWalk` | the snapshot walk and its two callers | |
| `MemoryScan` | memory map and signature scan | |
| `ModuleSnapshot` | module enumeration | |
| `Inspection` | the remote queries, as lists of steps | extends `ModuleSnapshot` |
| `TableWalks` | handle snapshot, type table, page files, topology | extends `SnapshotWalk` |
| `PEParser` | headers, section table, address translation | |
| `PEDirectories` | the seven directory parsers | extends `PEParser` |
| `SymbolResolver` | resolvers, threads and dbghelp's sessions | |
| `ScopedPrivilege` | scopes and the token | |
| `MappedFile` | mapped files and their other users | |
| `Owners` | the three owners above | extends all three |
| `MCMemoryScan`, `MCTableWalks`, `MCPEDirectories` | values that a `.cfg` cannot spell | |
| `Queries_proofs` | theorems of `QueryBuffer`, `SnapshotWalk`, `TableWalks`, `ModuleSnapshot`, `Inspection` | |
| `PEDirectories_proofs` | theorems of `PEParser` and `PEDirectories` | |
| the other `..._proofs` | theorems of the module they are named after | |

Where a module extends one it shares nothing with (`Inspection`, `TableWalks`,
`Owners`), a behaviour is of one component and the others stay at their start: they
ask one question and share a run.

### State and actions against the code

*Processes and pids.* A process is an instance number that is never used twice;
its pid is. The code sees pids, the properties compare instances (`inst`,
`parentInst`). `CreateGap` says how far creation times are apart; it contains 0
where two objects may share a tick of the clock. `Quantum` is the number of clock steps in
one CPU-time unit, so that an interval may round to none.

*ProcessExplorer, ThreadExplorer.* One action per public operation, and a second
one for its failure (`RefreshAt`/`RefreshFails`, `LoadDetails`/`LoadDetailsFails`). What an
operation calls on its way - the stale-selection test, the tree, the sampler's
round - is part of the action. The notification at its end is left out: the callback
changes nothing of the model. `observed` is history: the CPU times behind the rows,
and when they were read.

*HandleNameQuery.* `caller` and `worker` are program counters of every call; `table`
is the handle table of the process, value to object, so that a value closed too
early can be given away again. `Deadline` may be taken at any poll that has not
seen `done`. A query has no fairness: it may block for ever.

*QueryBuffer.* `need` is the kernel's and changes at any time; lengths are taken
modulo the width of the length type; of the bytes only their number is kept.

*SnapshotWalk.* A record is chosen when its header is read. No offset is read
twice (`offset` only grows), so this covers every content of the buffer. Sums are
those of `size_t`, modulo its width. A row is the offset it is copied from.

*MemoryScan.* One address is a byte and a page at once. Each native call is an
action, and the process may write, protect, free or exit between any two.

*ModuleSnapshot.* A module is a base and an identity; the next module at the base
has another identity. The loader lists modules in load order, and each call of
`EnumProcessModulesEx` sees one moment of it; a call that meets a list being
changed may fail instead. The two queries of a module answer who is at its base, or
fail (`Answers`), also for a module that is there: a path longer than the last buffer, a
call that does not succeed. `snapshot` keeps the row and goes on.

*Inspection.* `Plan` is the code of each call as data: its steps in order, what each
opens or fills, whether the call can go on without it, and through which handle or
earlier field it goes. One action runs the next step, others fail it, with the
early return or the default the code has there. Field values are reduced to
whose they are and whether they are whole. Ids are reused at once, except while a
handle keeps the object, which is what makes `readTeb` right. When a call has its
result, its locals go one after the other, the youngest first (`CloseYoungest`); others
may exit and come in between. `CanDestroy` says whether ntdll exports the function that
destroys a debug buffer; without it `release` forgets the buffer (`leaked`), against
`DebugBuffer.hpp:4-5`. The run takes that branch; no property speaks of it.

*TableWalks.* The kernel lays out a table as its contract says; the walk reads
offsets and knows records only by where they begin, so that a wrong step lands
between two records. Handles and types change between the two queries,
processors between the call that sizes and the one that fills. The count that a
snapshot of handles declares is one less than its entries, as many or one more
(`Counts`); with more the snapshot is refused after the types were asked for.

*PEParser, PEDirectories.* A parser is a stack of loops (`tables`), each with a base, an
index and a limit; a step reads the next entry of the innermost one. An entry is
chosen when it is first read and kept (`content`), so that what is read twice is
the same twice, and the result can be compared with a file rather than with
itself. `touched` is the ranges the last step read. Payloads, names and texts are
the offset they begin at; where a text ends is chosen each time it is read, and each
byte on the way there that passes the test of the loop is in `touched` (`TextFrom`).

*SymbolResolver.* A thread is inside dbghelp while its pc says so. C++ demands
that whoever constructs, moves or destroys an object is alone with it; `Unused` is
that demand, and nothing else is assumed of callers.

*ScopedPrivilege.* `AdjustTokenPrivileges` reports the previous state only of what it
changed. Scopes may end in any order and be assigned to at any time. History:
`older` says which tokens are older than another, which moves hand on;
`nested` and `overwritten` remember what the properties depend on.

*MappedFile.* A resource is a number that is free when it is made, so one that is
closed too early or never would be seen. `open` is four steps, each of which may fail;
what a variable gave up is closed in steps too (`closing`), in the order of the
members or of `release`. Others open the file for writing, which the share mode
permits only while it is not open here, and resize it.

### External parts

The kernel, dbghelp and the loader are not in the repository. They are modelled
from how the code uses them and are marked external in the map.

## 3. Runs

Passing runs:

| run | question | bounds |
|---|---|---|
| `process_explorer` | tree, selection, CPU shares | 2 pids beside the idle one, 3 processes: a pid reused while the parent, the child or a third lives, in one tick of the clock or in several; two instants, so the clock advances, stands still and goes back |
| `thread_explorer` | subject changes, stale rows, sampling | 2 processes, 2 tids they share, 3 threads, also of one tick of the clock; instants half a CPU-time unit apart, so intervals of 0, a half and 1 unit; CPU use beyond the capacity of an interval, so the clamp is met |
| `handle_name` | handles, the refinement, does every call end? | 2 calls on 3 values: one value fewer than both need, so values are reused and a call finds none |
| `query_buffer` | giving up, completeness, termination | 4 attempts from 4 bytes, needs up to the last length before the wrap: success and giving up at every attempt, lengths that wrap and lengths that become 0 |
| `table_walks` | limits and completeness of the walks | buffers from shorter than a header to three records; offsets and counts that fit exactly, by one too few, and not at all; tables of up to three records with every mix of two sizes, one of them with padding; handles declared one fewer and one more than the buffer holds; a topology that shrinks and grows between its calls |
| `memory_scan` | are the stable matches found once? does a scan end? | 4 addresses, windows of 3, 2 readable protections, 1 change at any moment, ceiling below the end of the address space; patterns with and without wildcard, shorter than a window, as long, and so long that the step of a window becomes 0 or wraps |
| `inspection` | are stable modules listed? is a report of one process, complete or refused? | 3 bases, 4 loads, any unloads: growth and shrinkage between the two passes, reuse of a base, queries of a module that fail; 2 ids, 3 processes and threads: an id reused between any two steps, also by the other kind |
| `pe` | reads, translation, results and progress of every parser | files that end in a header, behind the headers and behind the tables; no section or two, with a tail that no byte backs, cut off by the end of the file, or twice the same; RVAs of 4 bits, so cursors wrap; counts up to 3 against caps of 2; strings of up to 2 bytes, which may begin at the last byte of the file; resource directories that are shared and lead back to themselves |
| `owners` | are sessions, privileges, handles and views owned by one, kept while used, given back? | 3 threads, 3 resolvers, 2 handle values: fewer than resolvers; 4 scopes ended in any order, moved, assigned; 2 files, 2 variables, 6 resources: two mapped files at once |

Violation runs, each a place where code and comment disagree; `PROJECT.json` quotes
the lines:

| run | what the code does |
|---|---|
| `handle_name_leak` | the duplicate of a timed-out query is never closed |
| `query_buffer_empty` | an empty answer comes back as a full buffer of zeros |
| `module_overread` | more elements are read than the array has |

### Where a property stops

Some properties say less than a comment in the code does, and say so in their
own text, because the code keeps the smaller promise only:

- `EdgesAreReal`, `TreeShowsEveryRow`, `UsageIsTruthful` (of processes and of threads)
  except holders of one pid or tid from one clock tick: the creation time is all that
  tells them apart. Two
  processes of one tick that carry each other's pid as parent are adopted by each
  other and vanish from the tree.
- `DetailsAreOfSelectedPid` is about the pid. A refresh after the selected pid was
  reused keeps the details of the process that exited
  (`ProcessExplorerVM.cpp:60-61` intends to drop them).
- `StableMatchesAreFound` is about patterns no longer than a window; a longer one is
  never found (`MemoryManager.cpp:20-21` names no limit).
- `OneResolverIsSerialized` is about one resolver. `SymbolResolver::create` enters dbghelp
  without a lock (`SymbolResolver.hpp:5-6` speaks of every call), and the search path
  of the environment is not tested for servers (`:26-28`).
- `EnabledWhileHeld` needs scopes that end youngest first, `RestoredAtTheEnd` scopes that
  are not assigned to while they hold a token (`ScopedPrivilege.hpp:3-4`). The latter
  holds in whatever order the scopes end.
- `StableModulesAreListed` permits the path and the data of a module to be unknown, each
  for itself: a query of a module that is there may fail, and the row stays.
- `FailsForGoodReason` permits `collect` to throw away the page size and the page files
  it has read when topology, memory and version all failed, although
  `SystemInfoProvider.cpp:246` speaks of every sub-query.
- `ReportsAreOfOne` is about `readTeb` calls whose process owned the thread; the code
  does not compare the pid it is given with the one the thread reports.
- `TablesAreListedWhole` permits the last record of the topology to be left out when it
  is shorter than the union the walk demands to fit (`SystemInfoProvider.cpp:81`).
- `RecordsAscend` is about relocation blocks that end within the 32-bit address space;
  behind it the cursor wraps and an earlier block may be counted again.
- `TranslationFollowsLayout` is about images whose sections lie behind the headers, do not
  overlap and end below the last RVA (`WellLaid`); of two that overlap, the first of the
  table holds the RVA.
- `HandlesHaveTheirTypes` permits all names to be blank together, which is what happens
  without a type table. It is about counts whose product with the size of an entry
  does not wrap (`HandleManager.cpp:55`).
- `ReadsStayInFile` is about places, not about contents: a string may end elsewhere
  when it is read a second time.

Each property of a passing run has a mutant in `PROJECT.json`: a definition with a
plausible bug under which TLC finds the property violated in that run.

*Type invariants.* Each component's module states one, and each is proved.
`InspectTypeOK` is part of its run too, because fields and handles of different
calls meet in one record there. The others are left out of the `.cfg` files,
which keep to what the code could get wrong.

*Deadlock.* It is checked where the system always can go on (the view models and the
owners). The other models follow calls that are made once and end; their
configurations say `CHECK_DEADLOCK FALSE`.

*Fairness.* `HandleNameQuery` assumes weak fairness of each caller (it polls with a
sleep and a deadline, so it always returns to the processor) and of a worker that
has come back from its query; none of the query, which is the reason for the
deadline. `QueryBuffer` and `MemoryScan` assume weak fairness of the loop, one
sequential thread whose native calls return; the kernel and the scanned process
have none, they may also stop or never move.

## 4. Proofs

| module | theorem | establishes |
|---|---|---|
| `HandleNameQuery_proofs` | `TypeCorrect` | `TypeOK` |
| | `NeverClosedInUse` | `OpenWhileInUse` |
| | `NothingElseLeaks` | `FinishedCallsHoldNoHandle` |
| | `Implements` | `KeepsPromise`, the refinement of `HandleName` |
| `ProcessExplorer_proofs` | `TypeCorrect` | `TypeOK` |
| | `DetailsMatchSelection` | `DetailsAreOfSelectedPid` |
| | `TreeEdgesAreReal` | `EdgesAreReal` |
| | `CreatorsKeepTheirChildren` | `LiveParentsAreShown` |
| | `TreeIsAForest` | `TreeShowsEveryRow` |
| | `UsageIsAlwaysTruthful` | `UsageIsTruthful` |
| `Queries_proofs`: `QueryBuffer` | `AnswersAreComplete` | `AnswerIsComplete` |
| | `GivingUpMeansOutgrown` | `GivesUpOnlyIfOutgrown` |
| | `GrowthIsAbsorbed` | `HeadroomAbsorbsGrowth` |
| `SnapshotWalk` | `TypeCorrect` | `TypeOK` |
| | `NothingIsReadOutside` | `ReadsStayInBuffer` |
| | `NothingWellFormedIsRejected` | `WellFormedIsAccepted` |
| | `ResultsAreTheChain` | `ResultIsTheChain` |
| `TableWalks` | `TablesTypesHold` | `TablesTypeOK` |
| | `TablesAreAlwaysListedWhole` | `TablesAreListedWhole` |
| | `HandlesAlwaysHaveTheirTypes` | `HandlesHaveTheirTypes` |
| `ModuleSnapshot`, `Inspection` | `InspectTypesHold` | `InspectTypeOK` |
| | `StableModulesAreListedExactlyOnce` | `StableModulesAreListed` |
| | `ReportsAreOfOneProcess` | `ReportsAreOfOne` |
| | `CallsFailForGoodReason` | `FailsForGoodReason` |
| `PEDirectories_proofs` | `TypesAreRight` | `TypeOK` |
| | `ReadsStay` | `ReadsStayInFile` |
| | `LayoutIsFollowed` | `TranslationFollowsLayout` |
| | `NeverBack` | `NeverGoesBack` |
| | `RecordsAlwaysAscend` | `RecordsAscend` |
| | `SymbolsAlwaysMirrorFile` | `SymbolsMirrorFile` |
| | `ResourcesAlwaysMirrorFile` | `ResourcesMirrorFile` |
| `ThreadExplorer_proofs` | `TypeCorrect` | `TypeOK` |
| | `RowsAreAlwaysOfBoundProcess` | `RowsAreOfBoundProcess` |
| | `UsageIsAlwaysTruthful` | `UsageIsTruthful` |
| `MemoryScan_proofs` | `TypeCorrect` | `TypeOK` |
| | `MapAlwaysTiles` | `MapTiles` |
| | `MatchesAlwaysAscend` | `MatchesAscend` |
| | `StableMatchesAreAlwaysFound` | `StableMatchesAreFound` |
| `Owners_proofs` | `ResolverInvariant`, `PrivilegeInvariant`, `MappedInvariant` | types, and the invariants below |
| | `SessionsAreAlwaysOwned` | `SessionsAreOwned` |
| | `OneResolverIsAlwaysSerialized` | `OneResolverIsSerialized` |
| | `AlwaysEnabledWhileHeld` | `EnabledWhileHeld` |
| | `AlwaysRestoredAtTheEnd` | `RestoredAtTheEnd` |
| | `ViewsAlwaysShowWholeFiles` | `ViewsShowWholeFiles` |
| | `ResourcesAreAlwaysOwnedInOrder` | `ResourcesAreOwnedInOrder` |

`CpuSampler_proofs` holds the lemmas on the sampler that both view models use.

They hold for every value of the constants that satisfies the named assumptions
of the modules. These type the constants, and in three modules say a little more.
`SnapshotWalk`: sums and products of 32-bit fields fit in a `size_t`, as they do on x64,
the only target the type sizes of `NtTypes.hpp` compile for. `MemoryScan`: the length of a
window fits its type. `TableWalks`: a type name is longer than its terminator, and two
records of a topology are longer than the union of them all, which the layouts of
the system give. No theorem takes an assumption of its own: where the sampler cannot tell
two holders of an id apart, the property makes the exception itself. The
theorems of `Owners_proofs` are about `Spec`, `PrivilegeSpec` and `MappedSpec`, the behaviours
of one component; the run interleaves nothing more.

*HandleNameQuery.* `OpenWhileInUse` is not inductive: that the value stays open follows
from who owns it. The invariant says what each program counter owns - which
handles are open on behalf of a caller at each of its steps - and that two calls
never own one value. The refinement adds what the shared state holds: `done`
implies that the name was written, and the name is the kernel's decision.

*ProcessExplorer.* The tree is a function of the rows (`TreeInv`), so its properties
follow from the rows alone. `OsInv` numbers instances in the order of creation;
`Genealogy` says that whoever holds the parent pid of a process and is no younger
is its creator or of its tick, and that a creator still running is found that way;
`RowsGenealogy` carries this from the moment of the snapshot to the rows. The
forest is proved from the instance numbers, which grow strictly from creator to
created, by taking the oldest row of a group. For the percentages, `BaselineInv` says
that the sampler's baseline and the rows are of one snapshot, and that a process
that is still the one of its row has used no less CPU time since.

*QueryBuffer.* `SizeInv` ties the next length to the length that was reported last.
Giving up is about powers: `GrowthInv` says that after n attempts without a wrap the
length is at least (3/2)^n times the first one, so a loop that gives up has asked
with the last length its attempts allow.

*SnapshotWalk.* Nothing wraps (`NoWrap`, `WalkSums`), so the tests mean what they say.
That nothing well formed is rejected needs `OffsetInv`: the offset of the next
header is the sum of the last one and its next-offset, so a header that does not
fit condemns the record before it. `ChainInv` adds what was collected: the headers read
are linked, none before the last is the process looked for, and the list is their
offsets, or at the end the threads of the last.

*TableWalks.* Where records begin is a recursive function of their sizes; `Layout` has
what follows from it by induction: the beginnings ascend, and each record ends
where the next begins. `PlaceInv` says that the walk stands where a record begins
and has listed those before it, so that the bytes it reads are those of a record.
For handles, `Named` is the part of the type table that was built, and `NamesInv`
that the snapshot is filtered with all of it or with none. Only a count that fits is
filtered by, so each row is an entry of the buffer.

*ModuleSnapshot.* `InArray`: an array sized for fewer modules still holds those that
stayed, since modules that unload only move them towards its front. `BasesInv` and
`RowsInv` follow an address that stayed from the array to its row, and no address
but the filler is in the array twice. A query that fails changes only a field to
unknown, so a row is there whatever its queries answer.

*Inspection.* The lists of steps are data, so the proof first says what they have in
common (`OpeningsAreSound`, `FillingsAreSound`, `OrderIsSound`, `OneSource`, `TebSources`) and then
uses nothing else of them. `HeldInv` says which handles a call has at each step, and that
whoever is held keeps the id; `ReadInv` that what was reported is from the handle
its step names. `readTeb` alone has two sources; its process is that of the thread
because the thread keeps it, and the process its id. Closing takes handles away
and changes nothing that was reported.

*ThreadExplorer.* A percentage is computed from the sampler's baseline, the property
speaks of what was observed. `BaselineInv` joins the two: the sampler's baseline is the last
good snapshot of this subject, thread by thread, and one of it that still lives has
its creation time and has used no less CPU time since. A thread that matches the
baseline by tid and creation time is then the one that was seen, or one that took
its tid within the same tick.

*MemoryScan.* Three layers. `MapInv`: the regions lie one behind the other and end
where the walk stands. `ScanInv`: matches reported so far lie before the window, or
the pattern is longer than any window and nothing matches. `Mapped` and `Decided`:
memory that was not reprotected is still as in the map, and what the windows
passed is decided, because a stable region can be read to its end and a step never
goes past the first address that could begin another match (`StepIsExact`).

*PEParser, PEDirectories.* An RVA is translated to an offset or to nothing (`OffsetType`), so
what `Fits` tested lies in the file; that is what `ReadsStayInFile` needs of every header, entry
and payload (`PieceInside`). Of a string each byte is read behind a test of its own (`TextInside`).
`TypesInv` has the types, the bounds of the loops and of their stack. `ParseChanges` sums up a
step: it ends the innermost loop, fails, or goes forward in it and pushes one loop
at most, from which `NeverGoesBack` and the order of records (`ListInv`) follow. What is
listed is related to the entries that were read, and `KnownKept` says that a later step
changes none of these. `ImportsInv`: each module listed is that of its descriptor, its
symbols those of its thunks, all of them but for the last one while its loop runs.
`ExportsInv`: the same for functions, each with the name of the first position that
has its index. `ResourcesInv`: each loop of the stack lists what is below one position of
the tree (`Lists`), as many as its index says, everything below any other position is
listed (`Complete`), and a depth has one position that is still open (`OnePosition`).
Directories that are shared or lead back to themselves need no case of their own:
the relation is between positions in the list and entries of the file, and an entry
may stand at several positions.

*Owners.* For resolvers the invariant says for each program counter of a thread which
object it is alone with, which handle it carries, and that handle, session and
ready flag go together for every handle value; `SessionsAreOwned` and
`OneResolverIsSerialized` are read off it. For privileges, `older` orders the tokens.
`RestoreInv` is what the end rests on: a privilege that was enabled at first is never
told "disabled", and otherwise, unless a scope was assigned over, an enabled
privilege has a scope that will disable it, whatever the order they end in.
`NestInv` is what nesting rests on: while tokens are given up youngest first, only the
oldest one was told "disabled", so the end of another one leaves the privilege on.
For mapped files, what a variable or `open` holds is in the table under numbers
nobody else has, made in order from one file (`Backed`, `ViewOf`); the file cannot
change its size because it is shared for reading only while it is in the table
(`SharingInv`), which is where the size taken before the mapping comes to agree with
the view made after it.

*Induction.* A fact about sequences of any length, or about a recursive function, is
proved by taking the least number for which it fails (`Smallest`, `UpTo`,
`LeastNumber`), which rests on the library's well-foundedness of the natural numbers. The
functions are written as functions, so that their bodies can be unfolded.

*Only model-checked.* Liveness: `EveryCallFinishes` and the two `Terminates`. They need
fairness, and with it `ENABLED`, which the prover does not handle. Every other
property of a passing run is the property of a theorem. What the violation runs refute
has no theorem, of course.

## 5. What is not modelled

- *Text*: wording, number layout, encodings, the brand string of the processor, the
  compiler from text to pattern. No property here depends on it; a compiled
  pattern, a name or a message is a value.
- *File metadata and signatures*: a straight sequence of calls of version.dll and
  wintrust, each of which leaves its field empty when it fails. The rows of
  `ModuleSnapshot` do not have these fields.
- *Logger*: one operation under one lock. The threshold is read without it and the
  time is taken before it; lines may be written out of the order of their times,
  and nothing in the repository says they are not.
- *Change notification* (`IViewModel`): one callback, called at the end of every
  operation on the one thread of the user interface. What is left would be that no
  operation forgets the call, which is a matter of its last line.
- *Errors and results*: value types. That a call fails is a path of the models, with
  which error is not.
- *Heap summary*: sums over the blocks of a heap. The debug buffer around it is in
  `Inspection`, also where it cannot be destroyed.
- *UniqueLocalMem, UniqueVirtualAlloc*: one pointer with one owner, the pattern of
  `UniqueHandle` without anything that happens in between; the second is not used.
- *Interfaces* without an implementation in the repository.

Known gaps inside modelled parts: a pid that changes hands between the two
`openProcess` calls of a scan; idle threads, which all have tid 0; destruction of a
`HandleManager` while a timed-out worker still uses it; two-call queries of a token,
which are one step; counts of handles so large that their product wraps; flags of PE
entries that only label a value. Where one of them is a hazard, `PROJECT.json` lists it
with its reason.

What would come next is on the side of the model: the gaps above that need two
components at once, a `HandleManager` destroyed under its worker and a scan that opens two
processes; and an abstract specification of a PE parser, a function from a file to a
list, which `SymbolsMirrorFile` and `ResourcesMirrorFile` state for the last state only.
