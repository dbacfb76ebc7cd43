# A TLA+ model of libgunwinder

libgunwinder unwinds user stacks from samples (registers and a copy of the top
of the stack, usually captured by eBPF) outside the sampled process. These
modules model its stateful parts, its two evaluators and the way from a mapped
file to a symbol, check them with TLC on
small instances, and prove with TLAPS, for every value of the constants, the safety
of the caches, the interval search, the listener table, the kernel tables, the
unwind loops, the walk of a path, what a load gives back, and the address and the
file a sample is looked up with. `PROJECT.json` maps each
definition to the lines it models; paths there, and below, start at the
repository, which is `src/` (so the library itself is `src/src/`).

## The system and its parts

| part | code | modules | state |
|---|---|---|---|
| Retire timer thread | `gu_stacktrace.c` 157-251 | `RetireTimer` | modelled, proved |
| ELF cache (reference counts, retirement, sweep) | `gu_stacktrace.c` 253-391, 1205-1457 | `GuCache`, `SharedEntries` | modelled, proved |
| PID context cache (load, reload, PID reuse) | `gu_stacktrace.c` 1521-2070 | `GuCache` | modelled, proved |
| Context lifecycle | `gu_init()`, `gu_cleanup()` | `GuCache` | modelled, proved |
| PID context events | `gu_pid_ctx_event.c` | `PidCtxEvents`, `GuCache` | modelled, proved |
| Interval array | `gu_interval_array.c` | `IntervalArray` | construction and search, proved; used by `ElfLoad` and `KernelSymbols` |
| Kernel symbols | `gu_stacktrace.c` 2072-2221 | `KernelSymbols` | one loader, several searchers, contents of the tables; proved |
| Unwind loops | `gu_stacktrace.c` 2226-2854 | `UnwindLoop` | control and limits on symbolic stacks; proved |
| DWARF expression evaluator | `gu_unwinder.c`, `gu_cfi_helper.c` 1131-1462 | `DwarfEval` | modelled on scaled words |
| CFI loading, programs, scratch and parse cache | `gu_cfi_helper.c` 95-140, 218-1129, 1464-1560 | `CfiParse`, `CfiDecode` | from decoded entries, with encoded offsets |
| ELF and symbol loading, debug files | `gu_stacktrace.c` 395-1000, 1205-1625, `gu_elf.c` | `ElfLoad`, `ElfSymbols` | modelled, from decoded sections; what a load gives back and where a sample is looked up are proved |
| Path resolution in a mount namespace | `gu_stacktrace.c` 1003-1195 | `PathWalk` | modelled, proved |
| `/proc/<pid>/maps`, vDSO copy, identity of files | `gu_comm.c` | `ElfSymbols`, `ElfLoad` | modelled; logging and path joining are text |
| Profiling | `profile_debug.c` | none | prints timings |
| Tools, vendored containers | `tools/`, `include/ut*.h` | none | drivers; third-party |

How they interact. A *context* belongs to one thread at a time; the library's
README asks the caller to serialise calls on it. `gu_unwind()` first sweeps the retired ELF entries if
the timer thread has raised its flag, then finds the PID's context, drops it if
the sample's start time says the PID was reused, and loads it from
`/proc/<pid>/maps` if there is none. Loading takes one reference on an ELF entry
for each executable mapping; entries are shared by build ID between processes.
A file is opened inside the root of the process (`PathWalk`), or through the live
mapping when it was deleted; its symbols, or those of its debug file, become a
searchable table (`ElfLoad`).
A PC outside all mappings asks for a reload, at most once per loop and not
before a jittered deadline. For each frame the loop searches the mapping and the symbol
(two interval arrays), runs the CFI program of the PC into operations
(`CfiParse`), evaluates them over the snapshot (`DwarfEval`) and moves to the
caller. Creating and destroying a PID context is announced to listeners in a
process-global table.

What runs concurrently: the timer thread with the owner of its context;
processes that start and exit under the sampler, and rename files while a path
is walked; the threads that search kernel
symbols during a reload; threads with contexts of their own, which share the
listener table and the CFI scratch.

## Modules

**RetireTimer** has the thread's program counter, its three atomics and the
eventfd. One action is one atomic access or system call, so every interleaving
of the two sides is a behaviour. The order modelled is the code's: clock, flag,
poll. It has no next-state relation of its own: GuCache runs it.

**GuCache** is a context, composed with the timer and with the operating system
(`Fork`, `Exit`, `Tick`). `apc` says where the call in progress is. A call is cut
into steps wherever it reads an atomic, asks the kernel about the process, or
goes on to the next mapping; a cut elsewhere would not be visible to anyone. An
ELF entry is its build ID; a PID's processes are numbered, which stands for the
start time that the code calls `unique_id`. A mapping is a *slot* `<<pid, i>>`
that points to an entry or `NoElf`. Two fields of a context are history: `maps_inst` says
which process the mappings were read from, `maps_ns` when, on the cached clock. Failing allocations and files that
cannot be opened are alternatives of the load steps.

**SharedEntries** is the promise of the ELF cache: an entry stays at least as
long as somebody holds it. GuCache implements it under the mapping
`cached <- elf_ctx_list`, `held <- Refs` (the slots pointing at an entry).

**PidCtxEvents**, the listener table; a notification copies it under the lock and
calls the listeners after releasing it, so registrations come in between.

**IntervalArray** builds a table (unstable sort, closing of open ends, truncation
to 32 bits when the last end fits) and searches it, one round per step.

**PathWalk** opens a path inside a root. The file system is a tree that other
processes rename in; `InRoot` is the kernel's `openat2(RESOLVE_IN_ROOT)`, a recursive
function on what is left of a path (`Resolved`); the
fallback is one action for each component, link and reopening by name. `visible`
is a history variable: what was below the root since the walk began.

**ElfSymbols** has the pure parts: which symbols enter the table, the executable
ranges and their lookup, and the reading of the maps.

**ElfLoad** composes PathWalk, ElfSymbols and IntervalArray into `gu_load_pid()`
of one process and `load_elf()` of each of its mappings, up to the lookup of a
sampled address. A load is cut into steps where it opens or reads something. `ld` is
`ctx->tmp_ctx` with what it holds, `out` counts allocations, `fds` descriptors;
every failure of the code that has a path of its own is an alternative. What a file *is*
(sections, symbols, segments) is the constant `Content`; what a process has mapped is
`Process`.

**KernelSymbols** loads `/proc/kallsyms`, which changes as modules come and go,
into the two tables, with the room made for them and enlarged while reading. A
table is named by the load that built it. Lookups by address run IntervalArray's
search under the mutex; the lookup by name reads its entry after the mutex is
released, and finds garbage if it was freed.

**UnwindLoop** runs `gu_unwind()`, its frame-pointer tail and `gu_unwind_by_fp()`
on a *true stack*: a sequence of frames with what their mapping offers, whether
they have a frame record, whether the PC lies at the edge of its function. The
registers recovered are the true caller's where the snapshot and CFI allow it,
and arbitrary where the lookup went to the wrong function. So what is reported
can be compared with what is there.

**DwarfEval** is `gen_reg()`: the operations made from a register rule, the fast
path, and the stack machine with its operand stack, branches by byte offset, step
budget, nested evaluation of the CFA and bounds of the snapshot. Expression
blocks are compiled from small trees, which have a meaning of their own
(`Meaning`). Arithmetic is modulo the word size, signed where the code casts.

**CfiDecode** decodes offsets in LEB128 as the code does, payload by payload at the
widths of `int` and `uint64_t`; `Unsigned` and `Signed` say what the bytes mean.

**CfiParse** is `gu_cfi_init()`, `gu_cfi_destroy()` and `gu_cfi_parse_cfi_ex()`.
Loading chooses a section, reads its FDEs by `.eh_frame_hdr` or by a scan until
an entry cannot be read, and gives each the row its CIE starts from; the first
CIE read in the process fixes the default row (`default_align`). A parse resets
the scratch, looks into the parse cache, runs the program, and has one action for
each store of operations. `IsRowAt` defines the row of a PC without loading or
running anything: `FdeAt` says which FDEs can be read, and an entry of the row is
what the last instruction that still counts has made of it, from the default row
with the CIE's own factor. On ARM64 the default row has no rule for the return
address; on x86-64 it has one, scaled by the factor.

Two kinds of entries are exempt from `RowExact` and `CacheFaithful`, because there
the code does not give what DWARF means; without either exemption TLC refutes them (see
the differences below). A return address that only the default row has a rule for is
claimed where `OwnDefault` holds: the CIE has the factor of the first CIE read, or the file is
of ARM64. An offset is claimed where it is `Usual`: held by an `int`, or signed with
at most nine bytes, and for a register within the 61 bits of its field. The other
entries of such a row are claimed, and so is that the parse succeeds.

## What the runs check

Eight runs pass.

| run | instance | what it shows |
|---|---|---|
| `cache_timer` | 1 PID that is reused, 1 ELF, 1 mapping, clock to 2, reload interval 1, timer on | no sweep is missed (`NoOverdueEntry`); nothing is freed before its deadline has passed on the real clock (`FreedOnlyWhenExpired`) and everything at the end (`CleanupFreesAll`); maps are not discarded sooner than the interval after they were read (`ReloadThrottled`); an unwind uses live entries of its own process (`UnwindUsesLiveElf`, `SampleSeesItsProcess`); metadata stays with its process through reloads and reuse (`PrivateOfSameProcess`); listeners were told what is cached (`ListenersMirrorCache`); retired entries do not stay and `gu_cleanup()` returns |
| `cache_calls` | 2 PIDs sharing 1 ELF, 2 mappings each, clock to 2, no reuse and no reload, through every public call | exact counts and gauges through every failing load, exits and the expiry of the entry; the refinement of SharedEntries |
| `elf_load` | 12 processes and 108 trees with links, one rename, with and without `openat2()` | the fallback finds what the kernel would (`WalkExact`) and never leaves the root (`StaysInRoot`); every failure gives everything back once (`NothingLeaks`); an address gets the bias of its segment (`BiasExact`) and its symbol (`SymbolExact`, `SearchExact`), from the file that is mapped (`ReadsMappedFile`); every load returns |
| `kernel_symbols` | 2 searchers, 2 loads, 5 contents of the file | searches under the mutex meet live tables; the answer is the function that the searched table has there; no table is lost, and a failing load keeps the old one |
| `pid_ctx_events` | 2 threads, 2 events each, 3 listeners for 2 slots | each listener gets each event once and in order |
| `unwind_loop` | all valid stacks of up to 3 frames, limits 3 and 1 | frames come outward and once, also across the hand-over to the tail; callers are attributed; a full capture gives the full stack; callbacks are bounded; the CFI loop does not go on with a PC it has just reported (`RepeatsCut`) |
| `dwarf_eval` | 4 snapshots, about 500 rules and trees, words of 2 base-4 digits | the register gets the value its rule means, a failure has the right reason, reads stay within the snapshot, loops end |
| `cfi_parse` | 892 pairs of files: every program of 3 instructions and some longer, offsets of every form and length, sections with bad entries, headers in any order, every choice of section; 6 PCs, a cache of 2 slots | a parse leaves the row of its PC, or nothing, whatever was loaded and parsed before |

Four runs state a sentence of the repository that the code does not keep; TLC
finds the violation.

- `unknown_frames_kept`: with `GU_FLAG_FP_ALLOW_UNKNOWN` the frame-pointer loop
  goes on after a reload that failed, and the next search reads through a NULL
  `pid_ctx` (`gu_stacktrace.c:1802`, `:1829`).
- `register_only_innermost`: `loop_count` is incremented inside the argument of
  `GU_VERBOSE()` (`:2682`), which is evaluated only when logging is verbose.
  Otherwise every frame counts as the innermost, and the sampled register
  replaces return addresses outside the snapshot.
- `live_mapping_read`: a deleted mapping is to be read "/proc/<pid>/exe for the main
  executable, map_files for everything else" (`:1565`); the code takes the first
  executable mapping for the main executable (`:1569`), so a deleted memory file mapped
  below it gets the executable's symbols.
- `separate_contexts`: the CFI scratch is process-global, so two threads with a
  context each overwrite each other's operations (`gu_cfi_helper.c:1042-1063`).

Each property of a passing run has a mutant in `PROJECT.json`: a definition
with a plausible bug, next to the original, under which the property fails.

### Bounds, and why they are enough

Two PIDs with one file show sharing between processes, and an entry that one
process retires and the other revives. A clock to two with a time to live of one
allows an entry to be retired, revived, retired again and to expire, and two reloads of the
maps. `MaxInst` 2 is one reuse of a PID; it is in `cache_timer`, with the reloads. `cache_calls`
has two PIDs instead: reload intervals of two keep a PC miss from discarding maps before the clock
stops, and the run within its time. In the loops, three frames give an innermost, a middle and an outermost one
(a signal trampoline needs the middle), and limits below the depth are reached. In the
evaluator, two base-4 digits per word are enough for a read that straddles the
end of a snapshot, for wrap-around and for a sign bit; the operand stack (5) and
the budget (14) are reached by blocks that grow and spin. A parse cache of two slots for
six PCs collides on every parse or two. Offsets have 3 bits to a byte, an `int` of
8 bits and words of 16, read up to 4 bytes unsigned and 6 signed: as with 7, 32, 64, 8 and 10,
an `int` ends inside a group, a signed number may fill the word and an unsigned one not.

In `elf_load` three links and two pinned directories are few enough for a walk to
reach both limits; one rename is enough to move a pinned directory out of the root,
or to put another file at the last component. Symbols of the vDSO process lie beyond
"32 bits" (90), so both ways of storing a table occur. Two kernel loads are
the least that replace a table; the file changes once, so that the room of the
first load is too small for the second.

Symmetry is used where the models treat the elements alike and no liveness
is checked: the PIDs of `cache_calls` and the searchers of `kernel_symbols`.

`CHECK_DEADLOCK FALSE` is used where the system stops: after `gu_cleanup()`,
after all events of the model are sent, and when an unwind has returned.

### Fairness

`GuCache!FairSpec`: time passes and the thread is scheduled (the operating
system; `poll()` has a timeout); a call that has begun goes on, and its unwind
loop ends (`StopUnwind`: the loops have limits, which `UnwindLoop` checks); the
client goes on calling, without which nobody sweeps. `LoadSpec` is fair to
`LoadStep`, the thread that loads, and to no one else. The other runs with
liveness assume only that the running function takes its next step.

## What is proved

TLAPS checks 35 theorems in eight modules. They hold for any finite sets of PIDs and
files, any number of mappings, any time to live and reload intervals; for any number
of threads, listeners, kernel symbols and reloads; for stacks of any depth; for any
file system, links, paths, renames and files to load.

| module | theorems |
|---|---|
| `GuCacheProofs` (with the steps of a call in `GuCallProofs`) | `CacheTypes`, `RefcountsAreExact`, `RetiredExactlyWhenUnreferenced`, `GaugesAreExact`, `SweepDeadlineCovers`, `PublishedClockIsPast`, `ThreadQuietAfterJoin`, `NothingFreedEarly`, `NoSweepIsSkipped`, `UnwindHoldsLiveElf`, `CleanupLeavesNothing`, `CacheImplementsSharedEntries`, `ReloadsAreThrottled`, `ReuseIsDetected`, `ListenersSeeTheCache`, `MetadataStaysWithItsProcess` |
| `SymbolTableProofs` | `SearchIsExact`, `SearchIsSound`, `SearchInBounds`, `SearchNarrows` |
| `KernelSymbolsProofs` (with the tables in `SymbolTableProofs`) | `LookupsMeetLiveTables`, `LookupsAreExact`, `LoadsFreeWhatTheyReplace` |
| `CallbackProofs` | what the callers of the library are told: `FramesAreOutward`, `CallersAreAttributed`, `UnwindIsComplete`, `FramesAreBounded`, `RepeatsAreCut`, `EventsCalledOnce`, `RegistrationsAreKept` |
| `ElfLoadProofs` (with the walk in `PathWalkProofs`) | `WalksAreExact`, `WalksStayInRoot`, `LoadsLeakNothing` |
| `SampleProofs` | `DeletedMappingsAreRead`, `SampledAddressesAreExact` |

**The caches.** None of the properties is inductive alone. That counts are exact
at a `put` needs the slot to be one that still counts, and that a load does not
overwrite a reference needs the slot to be empty; both depend on where the call
is. `CoreInv` therefore joins the ELF part (`ElfInv`: types, exact counts,
retirement, gauges, early-exit deadline), the control part (`ControlOK`: which
context is out of the hash at which step, `SlotsOwned`: which slots may be
filled) and the timer's clock. The argument has three layers.
`GuCallProofs` proves what each helper of the timer
and the cache does to their part (with the cardinality facts of counting
references), and then that every step of a call keeps types, control and slots. In `GuCacheProofs`, `ElfSteps` shows that whatever the
program does, the ELF cache sees one of five things (nothing, a sweep, a load, a
load undone at once, a put), each of which keeps `ElfInv`; the action
properties and the refinement follow from the same five.

`NoOverdueEntry` needs the order of the thread's two stores: between the clock
and the flag an entry may be overdue with the flag down. `QuietAfterJoin` needs that
a stopped timer has no thread (`NoThread`), and that only `gu_cleanup()`
writes the eventfd.

**Reloads.** `ReloadsSpaced` says that the deadline of a listed context is at least the
interval after its maps were read; `TimeSteps`, that a step leaves both times alone, reads the
maps of a context that is not listed, or gives one its deadline and lists it. Maps may be read
some time before the deadline is set, so `MapsReadBefore` is needed too, and with it that the cached clock
never goes back, also not when `gu_cleanup()` stops the timer (`ClockNext`).
`ReloadsAreThrottled` is about the cached clock, as the code is: on the real
one two reloads may be closer by what the cached clock lags.

**Identity.** `IdInv` adds that start times are ordered: a context's mappings are not
older than the start time it was loaded for, and not newer than the PID's latest
process. So a context with the sample's start time, when that process still
has the PID, was read from that process.

**The search.** `Inv` says that on a disjoint table storage changes nothing
(the last end is the largest, so if it fits all do) and that an interval
holding the address is never outside `left..right`.

**The listeners.** A call that is still to be made is in no variable of the
property: `CopiesExact` says that the copy a thread works through holds exactly the
listeners its running event is due to and that have not got it, none twice. A
registration in between changes the table and no copy.

**The kernel tables.** `Pointers` orders the tables by the load that built them:
array and hash in the context come from one load except between the loader's two
stores, the loader's old pointers are those of the context until it stores, and all that
was freed is older than what the context has. With `MutexHeld` this gives live tables
and what a load frees. That the answer is exact needs what was built
(`BuiltTable`: an item for each function, sorted and each ending where the next starts,
so that the 32-bit form changes nothing) and what the search has ruled out
(`RuledOut`, stronger than the invariant of the search alone because aliases make
empty items). A table that was enlarged while reading has arbitrary ends, and is only
shown to answer with one of its functions.

**The unwind loops.** `Outward` says where a loop stands in the true stack: the CFI
loop at the frame after the last one reported, the tail's frame record outside every
report. The hand-over is the delicate step: the tail starts at the record of a frame
that may have been reported already, and starts with the current PC only in an anonymous
mapping. `Budget` counts reports by loop; `NoTail` says that on
stacks covered by CFI the loop never hands over before the bottom. `Moving` says that the
frame about to be reported differs in its PC from the last one reported, from the
third on: the guard compares the caller with the current PC, except in the first round.

**The walk.** The reference is recursive, on the number of links left and then the
length of the path. That the recursion defines a function on every path is proved first, from
the well-ordering of the natural numbers: the shortest resolution on which two
solutions differ, or without a solution, would be determined by shorter ones.
`Following` is then the invariant of the walk: as long as nothing was renamed, what is
left of the path, from the directory pinned last and with the links followed so far, leads
to where the whole path leads from the root, and the pinned directories are the way
there, so that dropping the last one is `..`. With renames only `Pinned` remains: every pinned directory
begins at the root and was below it at some time of the walk, so `..` cannot leave it.

**The load.** `LoadInv` balances the books at every step: allocations of each kind
are those of `tmp_ctx`, of the cached entries and of the process's items; descriptors
are those of the walk and of `tmp_ctx`; the statistic is the sum over the entries.
A sum over the cache is the cardinality of its units (`Total`), for which adding, taking
and replacing an entry are lemmas. `TmpSteps` says what `tmp_ctx` cannot hold yet at
each step, without which an assignment would leak what it overwrites, and that the
key of a file being read is not in the cache, without which publishing it would. `Keyed` says
that every item of the process counts in the entry it points to.

**The sample.** What is looked up when an address is sampled was decided long before, by
loads that other processes may have made, and both theorems rest on three invariants
that carry it there. `ShapeInv` has the shape of the records, and that a load is of a
mapping still to be loaded; `Steps` then sorts the actions into ten kinds, by what they do to
the process, to `tmp_ctx` and to the cache, and everything after it goes by kind.
`MappedInv` relates items to mappings: an item has the bounds of its mapping and, if that
is a deleted one, the identity of what `/proc/<pid>/exe` or map_files names, from the
opening of the file to the item; a sample has the item that holds its address. Since a map
file is the file of the lines it spans, `DeletedMappingsAreRead` follows. `CacheInv` is
about the entries: the ranges of an entry are those of the file it was read from
(`EntriesRead`, and `TmpRead` while it is built), an item is placed with the ranges of its
entry (`ItemsPlaced`), and a reference count is the number of items that use the entry and of
loads that have found it (`Counted`), without which a sweep could free or a later load replace
the entry of an item. The rest is arithmetic (`PlaceInSegment`): the first range that
holds the mapping is that of its segment, because ranges are whole pages that ascend and do not
overlap in the file; and a mapping placed at address 0, which the code takes for not
found, is the start of the first range, which it then uses. Nothing is said of a file whose
segments are laid out otherwise (`Regular`), nor of one whose ranges could not be read.

Assumptions are those of the `ASSUME`s: finite sets, at least one PID, positive
time to live, a 32-bit limit below the 64-bit one; limits of at least one frame;
a thread is neither "free" nor "loader"; a file of kernel symbols fits the table;
nodes, names and error numbers are different things; the trees of the processes are
trees, in which the process's root is not below itself; a path of the maps has
names as components. `BuildSegments`: files of one identity have the same segments, which
is what a build ID promises and what the code relies on when it shares an entry.
`OneFileMappings`: the lines that `gu_get_maps_info()` joins are of one file and of pages of one
of its executable segments, and the joined mapping starts and ends with a line. The code
compares addresses, offsets, permission and path, and neither the inode nor the mark of a
deleted file, so that this is about the kernel and the loader of programs: adjacent lines
whose path and offsets continue each other are one mapping that was split. TLC evaluates
each of them on an instance.

Seven theorems state definitions that no run lists (`PublishedClock`,
`QuietAfterJoin`, `RetiredIffUnreferenced`, `NextDeadlineCovers`, and of the
search `SearchSound`, `TypeOK`, `LoopNarrows`): the properties the runs check
rest on them, and the proof covers every instance. IntervalArray's theorems are
about its own `Spec`; `KernelSymbolsProofs` uses their lemmas for the searches of the kernel
tables, and for `ElfLoad`, which runs the same actions, TLC checks `SearchExact`.

**Checked by TLC only.** Liveness (`RetiredEventuallyFreed`, `CleanupReturns`,
`GenRegReturns`, `LoadReturns`), which is beyond the prover. What the
evaluator and the CFI programs compute (`DwarfEval`, `CfiParse`): their references are
recursive over expressions and programs, they use bitwise operators, and the prover
has no induction over data. Of a sample, its symbol (`SymbolExact`): the table is a
selection from the symbols of the file (`SelectSeq`), about which nothing can be proved here
for the same reason.

## What the models leave out

- `GuCache` has no reasons and no frames, `UnwindLoop` no caches: the first
  takes any PC, the second fixed mappings. Counters of the statistics that only
  grow are left out.
- `DwarfEval` has no blocks that branch to offset 0 (shared with the prepended
  `DW_OP_call_frame_cfa`) and no such operation inside a CFA expression. A block
  beyond `DWARF_OPS_MAX`, or with an unknown operation, has no operations.
- `CfiParse` starts from decoded entries, opcodes and registers; only offsets are
  bytes, and one that is cut is the last of its program; the FDEs of a section are disjoint and its
  size is its number of entries; loading a file is one step; the address of
  `DW_CFA_set_loc` is decoded; CIE programs are well formed and have no remember or restore;
  allocation does not fail.
- `KernelSymbols` has one loader per context; the memory statistic is left out.
- `PathWalk` has paths without slashes to repeat or trail, and no limit on their
  length (`PATH_MAX`).
- `ElfLoad` starts from sections and segments that libelf has decoded. The
  candidates for a debug file are given by place, a CRC is that of the file it names, and
  the identity of a file without a build ID, an MD5 of its first 2 MB and its base name
  (`gu_comm.c:95-100`), is the file: two files that agree there share an entry in the code
  and not in the model. It has one context and one process; when an entry is swept
  is in `GuCache`. Mapping symbols have no suffixed forms.
- `CfiParse` has no Go files: `load_elf()` calls `gu_cfi_init()` for none
  (`gu_stacktrace.c`), so the branch for them in `gu_cfi_init()` is never taken.
- A critical section of the listener table is one step.

## Differences met while modelling

Besides the four violated runs, these places of the code differ from what a
comment or header says, or surprised us; they have no run.

- `gu_search_kernel_address()` reads `entry->addr` (`gu_stacktrace.c:2220`) after
  it has released the mutex (`:2218`), while a reload may free the entry.
- Two calls of `gu_load_kernel_symbols()` at once each read the old pointers before
  the mutex (`:2156`) and free them; the repository's README does not list the
  call among those to serialise.
- A dump of the vDSO that was cut short passes `stat()` and is not made again
  (`:1226`), though the comment (`:1218`) is about a partial attempt.
- A debug file that cannot be opened or read makes the load of the mapped file fail
  (`:1372`).
- A path with a space is cut there by `sscanf()` (`gu_comm.c:242`); another file of
  the shorter name is loaded for the mapping. The buffers of that function are
  static (`:204`), so separate contexts share them.
- Adjacent lines of a deleted file are joined when their permissions agree in
  `perm[0] | perm[1] | perm[2]`, and map_files has no such name: the load of that mapping fails.
- `gu_cleanup()` sends no `GU_PID_CTX_EVENT_DESTROY` (`:1884`, `unwinder.h:47`).
- The frame-pointer flag is read (`:2593`) before a Go process sets it
  (`:2630`), so its first sample goes to the CFI loop.
- An ELF entry can be revived after its time to live, if no sweep came first
  (`:1318`, `unwinder_types.h:225`).
- `GU_EVENT_MODULE_RELOAD` reloads kernel symbols only (`:2023`,
  `unwinder_types.h:211`).
- With overlapping intervals `max` is the end of the last item and the search
  may miss (`gu_interval_array.c:69`, `:202`; header lines 52, 82).
- The part of the kernel symbol array gained by `realloc()` has uninitialised
  ends (`gu_stacktrace.c:2121-2137`).
- `gu_unwind()` returns the number of rounds, one more than the limit on
  exhaustion (`:2853`, `unwinder.h:79`); a tail that reported anything ends with
  END_OF_STACK (`:2450`) wherever it stopped, so `CompleteUnwind` concludes nothing from that
  reason and asks for the whole stack of unwinds that stay in the CFI loop; PROCESS_EXIT is overwritten by callers (`:1817`, `:2851`).
- Genuine recursion with the same return address trips the loop guard (`:2820`), so
  that such a stack is cut (`RepeatsCut` states the guard, `CompleteUnwind` excludes recursion);
  the first return address is not compared (`:2812`).
- `gu_unwind_by_fp()` never looks up `pc - 1`.
- `gu_get_pid_private_info()` returns a copy the caller must free
  (`unwinder.h:114` says it is owned by the context).
- The default row is made with the `data_alignment_factor` of the first CIE read
  in the process (`gu_cfi_helper.c:668-671`), so for a CIE of another factor that
  has no rule for the return address the row depends on which file came first.
- The branch of `gu_cfi_init()` that a comment describes as "directly use
  debug_frame" for Go programs (`gu_cfi_helper.c:987`) is dead: `load_elf()` does
  not call it for them.
- `decode_uleb128()` shifts an `int` (`gu_cfi_helper.c:103`): a number of 2^31 or more
  is widened with a sign, and groups from the sixth on are mixed into the low ones (by what
  x86-64 and arm64 do; C leaves it undefined). `decode_sleb128()` shifts by 70
  after ten bytes (`:132`).
- The offset of a register is stored in a bit field of 61 bits (`gu_cfi_helper.h:91`): one beyond
  it is cut off.
- A CFI program that fails between remember and restore leaks the remembered
  rows (`gu_cfi_helper.c:1505`); an undecodable RSP rule falls back to the CFA
  (`:1528`); a branch to the end of an expression finds no operation there
  (`gu_unwinder.c:547`).

## Not modelled, and plan

1. Opcodes, encoded pointers and augmentations from bytes, into the entries that
   CfiParse starts from; loading of two contexts at once, with the race on
   `_default_init` (`gu_cfi_helper.c:669`).
2. A composition of UnwindLoop with GuCache, so that reloads and exits happen in
   the middle of a stack and reasons are kept.
3. KernelSymbols with two loaders of one context, once it is settled whether
   callers may do that.
4. Proofs of the operand stack and of the scratch of DwarfEval and CfiParse, in modules
   without recursion and bitwise operators; and that the table of a file has its
   symbols (`SymbolExact`), with the facts about tables of `KernelSymbolsProofs`.
5. Never: logging, formatting, `profile_debug.c`, the tools and the vendored
   containers. They hold no state of the library.
