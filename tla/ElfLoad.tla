------------------------------- MODULE ElfLoad -------------------------------
(***************************************************************************)
(* Loading the mappings of one process (src/gu_stacktrace.c): gu_load_pid() *)
(* reads the maps, load_elf() opens each file, inside the process' root or  *)
(* through the live mapping when it was deleted, finds its debug file,      *)
(* builds the symbol table and publishes the entry under its build ID; a    *)
(* sampled address is then turned into a symbol.  GuCache has the life of   *)
(* the entries; here is what they are made of and what loading them opens,  *)
(* allocates and gives back.                                                *)
(*                                                                          *)
(* A load is cut into steps where the file system may change under it.      *)
(***************************************************************************)
EXTENDS PathWalk, ElfSymbols, FiniteSets, TLC

CONSTANTS
  Content,      \* of each file: whether it is an ELF, its sections and segments
  StandardId,   \* the build IDs of STANDARD_BUILD_ID_LEN
  Process       \* the processes sampled: maps, files and options of the context

(* A process has a root, and in it the files that its maps name.            *)
ASSUME LoadConstants ==
  \A p \in Process :
    LET maps == gu_get_maps_info(p.lines) IN
    /\ TreeOK(p.tree) /\ p.openat2 \in BOOLEAN
    /\ \A i \in 1..Len(maps) : maps[i].path \in Seq(Component) \cup {<<"[vdso]">>}

(* The identity of a file: get_elf_build_id(), or the MD5 of the file.      *)
Identity(scn, file) ==
  IF "go_build_id" \in DOMAIN scn THEN scn["go_build_id"]
  ELSE IF "gnu_build_id" \in DOMAIN scn THEN scn["gnu_build_id"]
  ELSE file

(* A segment has a place in memory and in the file; files of one build have *)
(* the same segments.                                                       *)
ASSUME BuildSegments ==
  \A f, g \in File :
    /\ DOMAIN Content[f].segs \subseteq Nat
    /\ \A i \in DOMAIN Content[f].segs :
         LET p == Content[f].segs[i] IN p.vaddr \in Nat /\ p.offset \in Nat /\ p.memsz \in Nat /\ p.align \in Nat
    /\ Identity(Content[f].scn, f) = Identity(Content[g].scn, g) => Content[f].segs = Content[g].segs

(* The segments of a file as a linker lays them out: whole pages, one after *)
(* the other.                                                               *)
Regular(segs, page) ==
  \A i, j \in DOMAIN segs :
    /\ segs[i].align > 0 /\ segs[i].align % page = 0
    /\ (segs[i].vaddr - segs[i].offset) % segs[i].align = 0
    /\ (i < j /\ segs[i].exec /\ segs[j].exec) =>
         /\ segs[i].vaddr <= segs[j].vaddr
         /\ align_up(segs[i].offset + segs[i].memsz, segs[i].align)
              <= align_down(segs[j].offset, segs[j].align)

(* The mapping is of pages of one executable segment of the line's file,    *)
(* and the line knows by how much they were moved.                          *)
OfSegment(map, line, page) ==
  LET segs == Content[line.file].segs IN
  /\ line.file \in File /\ line.bias \in Int /\ map.offset \in Nat
  /\ (Regular(segs, page) /\ ExecRanges(segs) # <<>>) =>
       \E i \in DOMAIN ExecRanges(segs) :
         /\ align_down(segs[i].offset, page) <= map.offset
         /\ map.offset + (map.end - map.start) <= align_up(segs[i].offset + segs[i].memsz, page)
         /\ map.start - line.bias = segs[i].vaddr + (map.offset - segs[i].offset)

(* The lines of a mapping do not overlap and are of one segment of one      *)
(* file: that of the line where it starts, deleted or not as that line is.  *)
OfOneFile(map, lines, page) ==
  /\ map.start \in Nat /\ map.end \in Nat
  /\ \E first \in DOMAIN lines :
       /\ {j \in DOMAIN lines : lines[j].start = map.start} = {first}
       /\ \A x \in map.start..(map.end - 1) :
            \E j \in DOMAIN lines :
              /\ {k \in DOMAIN lines : lines[k].start <= x /\ x < lines[k].end} = {j}
              /\ OfSegment(map, lines[j], page)
              /\ lines[j].deleted = map.deleted
              /\ lines[j].file = lines[first].file

(* Lines that gu_get_maps_info() joins into one mapping are of one file.    *)
ASSUME OneFileMappings ==
  \A p \in Process :
    LET maps == gu_get_maps_info(p.lines)
    IN p.page \in Nat \ {0} /\ \A i \in 1..Len(maps) : OfOneFile(maps[i], p.lines, p.page)

VARIABLES
  proc,         \* the sampled process
  pid,          \* its context: the maps read and the items made from them
  ld,           \* the load_elf() in progress, with ctx->tmp_ctx
  cache,        \* ctx->elf_ctx_list: entries by build ID
  out,          \* allocations not given back
  vdso,         \* ctx->vdso_dumped and the dump on disk
  mem,          \* statistics: symbols_mem_size and cfi_mem_size
  sample        \* the address looked up and the symbol found

loadVars == <<proc, pid, ld, cache, out, vdso, mem, sample>>
allVars == <<walkVars, vars, loadVars>>

(* What a context allocates.  Descriptors are counted in fds.               *)
Resource == {"base_name", "elf_file_path", "build_id", "exec_ranges", "debug_file_path",
             "elf", "debug_elf", "gu_cfi", "symbols", "arena", "name", "map_ctx"}

Alloc(o, held) == [r \in Resource |-> IF r \in held THEN o[r] + 1 ELSE o[r]]

(* tmp_ctx.  A name is on the heap, in the arena of the entry, or left out. *)
NoTmp == [pc |-> "idle", file |-> NoNode, debug |-> NoNode, scn |-> <<>>, key |-> NoNode,
          held |-> {}, fds |-> 0, kept |-> <<>>, names |-> 0, owner |-> "heap",
          ranges |-> <<>>, first |-> 0, items |-> <<>>, array |-> NoArray]

NoPid == [pc |-> "none", maps |-> <<>>, items |-> <<>>]

NoSample == [pc |-> "none", x |-> 0, key |-> NoNode, relative |-> 0, sym |-> NoNode]

(* No table is being built or searched.                                     *)
NoTable ==
  /\ items' = <<>> /\ array' = NoArray /\ pc' = "failed"
  /\ addr' = 0 /\ left' = 1 /\ right' = 0 /\ result' = 0

LoadInit ==
  /\ proc \in Process
  /\ tree = proc.tree
  /\ WalkInit
  /\ items = <<>> /\ array = NoArray /\ pc = "failed"
  /\ addr = 0 /\ left = 1 /\ right = 0 /\ result = 0
  /\ pid = NoPid
  /\ ld = NoTmp
  /\ cache = <<>>
  /\ out = [r \in Resource |-> 0]
  /\ vdso = [dumped |-> FALSE, file |-> NoNode]
  /\ mem = [symbols |-> 0, cfi |-> 0]
  /\ sample = NoSample

-----------------------------------------------------------------------------
(* gu_load_pid(): the executable mappings; without one there is no context. *)
ReadMaps ==
  /\ pid.pc = "none"
  /\ pid' = [pc |-> "loading", maps |-> gu_get_maps_info(proc.lines), items |-> <<>>]
  /\ UNCHANGED <<walkVars, vars, proc, ld, cache, out, vdso, mem, sample>>

Next_i == Len(pid.items) + 1

(* The mapping that is being loaded.                                        *)
Map == pid.maps[Next_i]

Loading == pid.pc = "loading" /\ Next_i <= Len(pid.maps)

(* The line of the process that starts where the mapping does.              *)
Line(map) == CHOOSE j \in DOMAIN proc.lines : proc.lines[j].start = map.start

(* /proc/<pid>/map_files: the kernel's mappings, by their bounds.           *)
MapFile(start, end) ==
  LET found == {j \in DOMAIN proc.lines : proc.lines[j].start = start /\ proc.lines[j].end = end}
  IN IF found = {} THEN NoNode ELSE proc.lines[CHOOSE j \in found : TRUE].file

(* Mutant: a deleted mapping is opened by its path.                         *)
LiveMappingByPath(map) == FALSE

(* The mapping's file was unlinked: its path may name another one by now.   *)
LiveMapping(map) == map.deleted /\ ~proc.debug

IsVdso(map) == map.path = <<"[vdso]">>

(* The host's file that load_elf() opens: the dump of the vDSO, the live    *)
(* mapping (/proc/<pid>/exe for the first one), or a file of the dump.      *)
HostFile(map, i) ==
  CASE LiveMapping(map) /\ i = 1 -> proc.exe
    [] LiveMapping(map) /\ i > 1 -> MapFile(map.start, map.end)
    [] ~LiveMapping(map) /\ IsVdso(map) -> vdso.file
    [] OTHER -> proc.lines[Line(map)].file

(* gu_dump_vdso(): what is on disk after it, nothing or some file.          *)
gu_dump_vdso == {NoNode} \cup proc.vdso

(* The vDSO is dumped once per context: whatever file is there is taken.    *)
DumpVdso ==
  /\ Loading /\ ld.pc = "idle" /\ IsVdso(Map) /\ ~vdso.dumped
  /\ \E file \in gu_dump_vdso :
       /\ vdso' = [dumped |-> file # NoNode, file |-> file]
       /\ ld' = IF file = NoNode THEN [ld EXCEPT !.pc = "loaded"] ELSE ld
  /\ UNCHANGED <<walkVars, vars, proc, pid, cache, out, mem, sample>>

(* load_elf(): tmp_ctx gets its names, or one is missing; the file is       *)
(* opened on the host, or inside the root of the process.                   *)
LoadBegin ==
  /\ Loading /\ ld.pc = "idle" /\ (IsVdso(Map) => vdso.dumped)
  /\ \E held \in {{"base_name"}, {"base_name", "elf_file_path"}} :
       LET tmp == [NoTmp EXCEPT !.held = held]
           host == LiveMapping(Map) \/ IsVdso(Map) \/ proc.debug
           file == HostFile(Map, Next_i)
       IN /\ out' = Alloc(out, held)
          /\ IF "elf_file_path" \notin held \/ (~host /\ Map.path = <<>>)
               THEN /\ ld' = [tmp EXCEPT !.pc = "exit"]
                    /\ UNCHANGED walkVars
             ELSE IF host
               THEN /\ ld' = IF file = NoNode THEN [tmp EXCEPT !.pc = "exit"]
                             ELSE [tmp EXCEPT !.pc = "scan", !.file = file, !.fds = 1]
                    /\ fds' = IF file = NoNode THEN fds ELSE fds + 1
                    /\ UNCHANGED <<tree, renames, visible, availability, walk>>
             ELSE /\ gu_open_pid_root_path(Map.path)
                  /\ ld' = [tmp EXCEPT !.pc = "open"]
  /\ UNCHANGED <<vars, proc, pid, cache, vdso, mem, sample>>

(* The walk returned a descriptor or an error.                              *)
LoadOpened ==
  /\ ld.pc = "open" /\ walk.pc = "returned"
  /\ ld' = IF walk.result \in Node
             THEN [ld EXCEPT !.pc = "scan", !.file = walk.result, !.fds = 1]
             ELSE [ld EXCEPT !.pc = "exit"]
  /\ walk' = NoWalk
  /\ UNCHANGED <<tree, renames, visible, availability, fds, vars, proc, pid, cache, out,
                 vdso, mem, sample>>

Walk ==
  /\ ld.pc = "open"
  /\ gu_openat2_in_root(proc.openat2) \/ gu_openat2_in_root_compat
  /\ UNCHANGED <<vars, loadVars>>

-----------------------------------------------------------------------------
(* A section that is already known stays.                                   *)
scan_all_elf_scn(scn, elf) == scn @@ Content[elf].scn

(* elf_begin(), scan_all_elf_scn() and the identity.  An entry with that    *)
(* identity is shared.                                                      *)
LoadScan ==
  /\ ld.pc = "scan"
  /\ IF ld.file \notin File
       THEN ld' = [ld EXCEPT !.pc = "exit"] /\ UNCHANGED <<out, cache>>
     ELSE IF ~Content[ld.file].elf
       THEN /\ ld' = [ld EXCEPT !.pc = "exit", !.held = @ \cup {"elf"}]
            /\ out' = Alloc(out, {"elf"})
            /\ UNCHANGED cache
     ELSE LET key == Identity(Content[ld.file].scn, ld.file)
              hit == key \in DOMAIN cache
          IN /\ ld' = [ld EXCEPT !.pc = IF hit THEN "hit" ELSE "debug", !.key = key,
                                 !.scn = scan_all_elf_scn(@, ld.file),
                                 !.held = @ \cup {"elf", "build_id"}]
             /\ out' = Alloc(out, {"elf", "build_id"})
             /\ cache' = IF hit THEN [cache EXCEPT ![key].refcnt = @ + 1] ELSE cache
  /\ UNCHANGED <<walkVars, vars, proc, pid, vdso, mem, sample>>

(* The first of the candidates that is there.                               *)
FirstOf(candidates) ==
  LET there == {i \in DOMAIN candidates : candidates[i] # NoNode}
  IN IF there = {} THEN NoNode ELSE candidates[First(there)]

(* The CRC of the file is the one of the link.                              *)
gu_debuglink_crc_matches(d) == d # NoNode /\ d = ld.scn["gnu_debuglink"]

(* find_debug_info_path_by_debuglink(): only a matching candidate counts.   *)
ByDebuglink(dirs, live, deleted) ==
  LET candidates == (IF deleted THEN <<>> ELSE <<dirs.obj, dirs.dotdebug>>)
                      \o (IF live THEN <<dirs.target, dirs.host>> ELSE <<dirs.host>>)
  IN FirstOf([i \in DOMAIN candidates |->
                IF gu_debuglink_crc_matches(candidates[i]) THEN candidates[i] ELSE NoNode])

(* The debug file: by a standard build ID, on the host and then in the      *)
(* root; by the debuglink; or none but the mapped file.                     *)
DebugFile ==
  LET dirs == proc.debugs[ld.file]
      byId == IF ld.key \notin StandardId THEN NoNode
              ELSE IF proc.debug THEN dirs.hostId ELSE FirstOf(<<dirs.hostId, dirs.targetId>>)
  IN IF byId # NoNode THEN byId
     ELSE IF "gnu_debuglink" \notin DOMAIN ld.scn THEN NoNode
     ELSE ByDebuglink(dirs, ~proc.debug, LiveMapping(Map))

(* The executable ranges and the path of the debug file.  Ranges that       *)
(* cannot be read leave the first executable address.                       *)
LoadDebugPath ==
  /\ ld.pc = "debug"
  /\ \E ranges \in {ExecRanges(Content[ld.file].segs), <<>>} :
       LET new == {"debug_file_path"} \cup (IF ranges = <<>> THEN {} ELSE {"exec_ranges"})
       IN /\ ld' = [ld EXCEPT !.pc = IF DebugFile = NoNode THEN "cfi" ELSE "opendebug",
                              !.debug = DebugFile, !.ranges = ranges, !.held = @ \cup new,
                              !.first = IF ranges # <<>> THEN FirstStart(ranges)
                                        ELSE ExecVirtAddr(Content[ld.file].segs)]
          /\ out' = Alloc(out, new)
  /\ UNCHANGED <<walkVars, vars, proc, pid, cache, vdso, mem, sample>>

(* The debug file may be gone by now, or no ELF: the load fails with it.    *)
(* Its sections only add to those of the mapped file.                       *)
LoadDebugFile ==
  /\ ld.pc = "opendebug"
  /\ \/ /\ ld' = [ld EXCEPT !.pc = "exit"]
        /\ UNCHANGED <<out, fds>>
     \/ /\ ld' = IF Content[ld.debug].elf
                   THEN [ld EXCEPT !.pc = "cfi", !.held = @ \cup {"debug_elf"}, !.fds = @ + 1,
                                   !.scn = scan_all_elf_scn(@, ld.debug)]
                   ELSE [ld EXCEPT !.pc = "exit", !.held = @ \cup {"debug_elf"}, !.fds = @ + 1]
        /\ out' = Alloc(out, {"debug_elf"})
        /\ fds' = fds + 1
  /\ UNCHANGED <<tree, renames, visible, availability, walk, vars, proc, pid, cache, vdso, mem,
                 sample>>

-----------------------------------------------------------------------------
(* gu_cfi_init(), for all but Go files (CfiParse has what it reads).        *)
LoadCfi ==
  /\ ld.pc = "cfi"
  /\ \/ /\ "go_build_id" \notin DOMAIN ld.scn /\ "eh_frame" \in DOMAIN ld.scn
        /\ ld' = [ld EXCEPT !.pc = "fill", !.held = @ \cup {"gu_cfi"}]
        /\ out' = Alloc(out, {"gu_cfi"})
        /\ mem' = [mem EXCEPT !.cfi = @ + 1]
     \/ /\ ld' = [ld EXCEPT !.pc = "fill"]
        /\ UNCHANGED <<out, mem>>
  /\ UNCHANGED <<walkVars, vars, proc, pid, cache, vdso, sample>>

(* fill_symbols_debug_info(): the symbols that are read.                    *)
Symbols(scn) ==
  IF "symtab" \in DOMAIN scn THEN scn["symtab"]
  ELSE IF "dynsym" \in DOMAIN scn THEN scn["dynsym"] ELSE <<>>

(* Who owns the names: Go names are stripped into the arena, or left out.   *)
Owner ==
  IF "go_build_id" \in DOMAIN ld.scn /\ proc.go # "keep"
    THEN IF proc.go = "only_buildid" THEN "nobody" ELSE "arena"
    ELSE "heap"

(* Stripped or whole, n names take their room from the arena.               *)
golang_strip_name_to_arena(n) == IF Owner = "arena" /\ n > 0 THEN {"arena"} ELSE {}

(* The names are copied one by one: all of them, or up to one that cannot   *)
(* be read or copied.                                                       *)
LoadNames ==
  /\ ld.pc = "fill"
  /\ LET syms == Symbols(ld.scn)
         bad == {i \in DOMAIN syms : Unreadable(SubSeq(syms, 1, i))}
         kept == Kept(IF bad = {} THEN syms
                      ELSE SubSeq(syms, 1, First(bad) - 1))
     IN \E n \in 0..Len(kept) :
          LET arena == golang_strip_name_to_arena(n) IN
          /\ \/ /\ n = Len(kept) /\ bad = {} /\ n > 0
                /\ ld' = [ld EXCEPT !.pc = "build", !.owner = Owner, !.names = n, !.kept = kept,
                                    !.held = @ \cup arena]
                /\ items' = SymbolItems(kept) /\ pc' = "input"
                /\ UNCHANGED <<array, addr, left, right, result>>
             \/ /\ n < Len(kept) \/ bad # {} \/ n = 0
                /\ ld' = [ld EXCEPT !.pc = "err_free", !.owner = Owner, !.names = n,
                                    !.held = @ \cup arena]
                /\ UNCHANGED vars
          /\ out' = [Alloc(out, arena) EXCEPT !["name"] = IF Owner = "heap" THEN @ + n ELSE @]
  /\ UNCHANGED <<walkVars, proc, pid, cache, vdso, mem, sample>>

Build ==
  /\ ld.pc = "build"
  /\ gu_interval_array_init
  /\ UNCHANGED <<walkVars, loadVars>>

(* sym_search_size: the items and, when there are any, the names.           *)
Size(e) == Len(e.kept) + (IF e.owner = "nobody" THEN 0 ELSE e.names)

(* The table is ready, or there was no memory for it.                       *)
LoadBuilt ==
  /\ ld.pc = "build" /\ pc \in {"ready", "failed"}
  /\ IF pc = "ready"
       THEN /\ ld' = [ld EXCEPT !.pc = "publish", !.held = @ \cup {"symbols"},
                                !.items = items, !.array = array]
            /\ out' = Alloc(out, {"symbols"})
            /\ mem' = [mem EXCEPT !.symbols = @ + Size(ld)]
       ELSE /\ ld' = [ld EXCEPT !.pc = "err_free", !.kept = <<>>]
            /\ UNCHANGED <<out, mem>>
  /\ NoTable
  /\ UNCHANGED <<walkVars, proc, pid, cache, vdso, sample>>

(* Mutant: the tag of a name in the arena is not looked at.                 *)
HeapNamesUntagged(e) == e.names

(* The names that free() gets: those without the no_free tag.               *)
HeapNames(e) == IF e.owner = "heap" THEN e.names ELSE 0

(* err_free: no table; what is in the arena stays there.                    *)
LoadErrFree ==
  /\ ld.pc = "err_free"
  /\ ld' = [ld EXCEPT !.pc = "publish", !.names = 0]
  /\ out' = [out EXCEPT !["name"] = @ - HeapNames(ld)]
  /\ UNCHANGED <<walkVars, vars, proc, pid, cache, vdso, mem, sample>>

-----------------------------------------------------------------------------
(* clear_elf_ctx(): everything the entry holds.                             *)
Cleared(o, e) ==
  [r \in Resource |->
     IF r = "name" THEN (IF "symbols" \in e.held THEN o[r] - HeapNames(e) ELSE o[r])
     ELSE IF r \in e.held THEN o[r] - 1 ELSE o[r]]

ClearedMem(m, e) ==
  [symbols |-> IF "symbols" \in e.held THEN m.symbols - Size(e) ELSE m.symbols,
   cfi |-> IF "gu_cfi" \in e.held THEN m.cfi - 1 ELSE m.cfi]

(* The entry is published under its key, without its handles; or there is   *)
(* no memory for it.                                                        *)
LoadPublish ==
  /\ ld.pc = "publish"
  /\ \/ /\ LET e == [file |-> ld.file, debug |-> ld.debug, refcnt |-> 1, owner |-> ld.owner,
                   held |-> ld.held \ {"elf", "debug_elf"}, names |-> ld.names, kept |-> ld.kept,
                   ranges |-> ld.ranges, first |-> ld.first, items |-> ld.items, array |-> ld.array]
           IN cache' = [k \in DOMAIN cache \cup {ld.key} |-> IF k = ld.key THEN e ELSE cache[k]]
        /\ ld' = [NoTmp EXCEPT !.pc = "loaded", !.key = ld.key]
        /\ out' = [r \in Resource |-> IF r \in ld.held \cap {"elf", "debug_elf"}
                                        THEN out[r] - 1 ELSE out[r]]
        /\ fds' = fds - ld.fds
     \/ /\ ld' = [ld EXCEPT !.pc = "exit"]
        /\ UNCHANGED <<cache, out, fds>>
  /\ UNCHANGED <<tree, renames, visible, availability, walk, vars, proc, pid, vdso, mem, sample>>

(* clear_elf_ctx(&ctx->tmp_ctx): the load failed, or the entry was there.   *)
LoadExit ==
  /\ ld.pc \in {"exit", "hit"}
  /\ ld' = [NoTmp EXCEPT !.pc = "loaded", !.key = IF ld.pc = "hit" THEN ld.key ELSE NoNode]
  /\ out' = Cleared(out, ld)
  /\ mem' = ClearedMem(mem, ld)
  /\ fds' = fds - ld.fds
  /\ UNCHANGED <<tree, renames, visible, availability, walk, vars, proc, pid, cache, vdso, sample>>

-----------------------------------------------------------------------------
(* gu_put_elf_ctx() for every item; an entry nobody refers to is retired    *)
(* and stays in the cache until the sweep.                                  *)
Put(c, mapped) ==
  [k \in DOMAIN c |->
     [c[k] EXCEPT !.refcnt = @ - Cardinality({i \in DOMAIN mapped : mapped[i].key = k})]]

(* gu_cleanup_elf_map_items(), and no context.                              *)
CleanupItems(mapped) ==
  /\ cache' = Put(cache, mapped)
  /\ out' = [out EXCEPT !["map_ctx"] = @ - Cardinality({i \in DOMAIN pid.items :
                                                          pid.items[i].key # NoNode})]
  /\ pid' = NoPid

(* The mapping's item, with or without an ELF.                              *)
AddItem ==
  /\ ld.pc = "loaded"
  /\ LET e == cache[ld.key]
         Item_(exec) == [start |-> Map.start, end |-> Map.end, key |-> ld.key, exec |-> exec]
     IN \/ /\ ld.key = NoNode
           /\ pid' = [pid EXCEPT !.items = Append(@, Item_(0))]
           /\ UNCHANGED <<cache, out>>
        \/ /\ ld.key # NoNode
           /\ pid' = [pid EXCEPT !.items = Append(@, Item_(MapExecVirtAddr(e.ranges, e.first, Map)))]
           /\ out' = Alloc(out, {"map_ctx"})
           /\ UNCHANGED cache
        \/ /\ ld.key # NoNode
           /\ CleanupItems(Append(pid.items, Item_(0)))
  /\ ld' = NoTmp
  /\ UNCHANGED <<walkVars, vars, proc, vdso, mem, sample>>

(* The context is ready; or its table could not be built, or there was no   *)
(* executable mapping.                                                      *)
PidLoaded ==
  /\ pid.pc = "loading" /\ ~Loading
  /\ \/ /\ pid.items # <<>>
        /\ pid' = [pid EXCEPT !.pc = "loaded"]
        /\ UNCHANGED <<cache, out>>
     \/ CleanupItems(pid.items)
  /\ UNCHANGED <<walkVars, vars, proc, ld, vdso, mem, sample>>

(* The process exits, or its maps are to be read again.                     *)
PidDropped ==
  /\ pid.pc = "loaded" /\ sample.pc = "none"
  /\ CleanupItems(pid.items)
  /\ UNCHANGED <<walkVars, vars, proc, ld, vdso, mem, sample>>

(* The sweep frees a retired entry (GuCache has when).                      *)
Sweep ==
  /\ ld.pc = "idle" /\ sample.pc = "none"
  /\ \E k \in DOMAIN cache :
       /\ cache[k].refcnt = 0
       /\ cache' = [j \in DOMAIN cache \ {k} |-> cache[j]]
       /\ out' = Cleared(out, cache[k])
       /\ mem' = ClearedMem(mem, cache[k])
  /\ UNCHANGED <<walkVars, vars, proc, pid, ld, vdso, sample>>

-----------------------------------------------------------------------------
(* A sampled address: its mapping, the address in the file, its symbol.     *)
Sample(x) ==
  /\ pid.pc = "loaded" /\ sample.pc = "none"
  /\ \E i \in DOMAIN pid.items :
       LET item == pid.items[i]
           e == cache[item.key]
       IN /\ item.key # NoNode /\ item.start <= x /\ x < item.end
          /\ sample' = [pc |-> "search", x |-> x, key |-> item.key, sym |-> NoNode,
                        relative |-> x - (item.start - item.exec)]
          /\ items' = e.items /\ array' = e.array
          /\ pc' = IF "symbols" \in e.held THEN "ready" ELSE "failed"
  /\ UNCHANGED <<walkVars, addr, left, right, result, proc, pid, ld, cache, out, vdso, mem>>

Search ==
  /\ sample.pc = "search"
  /\ (pc \in {"ready", "failed"} /\ gu_interval_array_search(sample.relative)) \/ SearchStep
  /\ UNCHANGED <<walkVars, loadVars>>

(* gu_lookup_elf_symbol(): an item without a name is no symbol.             *)
Found ==
  /\ sample.pc = "search" /\ pc = "done"
  /\ LET e == cache[sample.key]
     IN sample' = [sample EXCEPT !.pc = "found",
                                 !.sym = IF result = 0 \/ e.owner = "nobody" THEN NoNode
                                         ELSE e.kept[array.items[result].private]]
  /\ UNCHANGED <<walkVars, vars, proc, pid, ld, cache, out, vdso, mem>>

Answered ==
  /\ sample.pc = "found"
  /\ sample' = NoSample
  /\ NoTable
  /\ UNCHANGED <<walkVars, proc, pid, ld, cache, out, vdso, mem>>

-----------------------------------------------------------------------------
(* The steps of the thread that samples and loads.                          *)
LoadStep ==
  \/ DumpVdso \/ LoadBegin \/ Walk \/ LoadOpened \/ LoadScan \/ LoadDebugPath \/ LoadDebugFile
  \/ LoadCfi \/ LoadNames \/ Build \/ LoadBuilt \/ LoadErrFree \/ LoadPublish \/ LoadExit
  \/ AddItem \/ PidLoaded

LoadNext ==
  \/ ReadMaps \/ LoadStep \/ PidDropped \/ Sweep
  \/ \E i \in DOMAIN pid.maps : \E x \in pid.maps[i].start..(pid.maps[i].end - 1) : Sample(x)
  \/ Search \/ Found \/ Answered
  \/ Rename /\ UNCHANGED <<vars, loadVars>>

LoadSpec == LoadInit /\ [][LoadNext]_allVars /\ WF_allVars(LoadStep)

-----------------------------------------------------------------------------
(* Whatever failed on the way, nothing is left: no load leaves a descriptor *)
(* open, and once the process is dropped and the retired entries are swept, *)
(* every allocation was freed once, whoever owned it, and the memory        *)
(* statistics are back at 0.                                                *)
NothingLeaks ==
  (ld.pc = "idle" /\ walk.pc = "idle") =>
    /\ fds = 0
    /\ (pid.pc = "none" /\ DOMAIN cache = {}) =>
          /\ \A r \in Resource : out[r] = 0
          /\ mem.symbols = 0 /\ mem.cfi = 0

(* The line of the process that holds the sampled address.                  *)
SampledLine ==
  proc.lines[CHOOSE j \in DOMAIN proc.lines :
               proc.lines[j].start <= sample.x /\ sample.x < proc.lines[j].end]

(* A sampled address becomes the address that the file's symbols and CFI    *)
(* use, whichever executable segment it is in, however the mapping was      *)
(* split or merged in the maps, and whoever loaded the entry first.         *)
BiasExact ==
  (sample.pc # "none" /\ "exec_ranges" \in cache[sample.key].held) =>
    LET file == SampledLine.file IN
    (Identity(Content[file].scn, file) = sample.key /\ Regular(Content[file].segs, proc.page))
      => sample.relative = sample.x - SampledLine.bias

(* The table that should have been searched: a full one before a dynamic    *)
(* one, the file's own before that of its debug file.                       *)
BestTable(e) ==
  LET own == Content[e.file].scn
      other == IF e.debug = NoNode THEN <<>> ELSE Content[e.debug].scn
  IN CASE "symtab" \in DOMAIN own -> own["symtab"]
       [] "symtab" \notin DOMAIN own /\ "symtab" \in DOMAIN other -> other["symtab"]
       [] OTHER -> IF "dynsym" \in DOMAIN own THEN own["dynsym"] ELSE other["dynsym"]

(* A function, or a label in code that is no mapping symbol.                *)
CodeSymbol(s) ==
  /\ s.value # 0 /\ s.name # ""
  /\ s.type = "func" \/ (s.type = "notype" /\ s.exec /\ s.name \notin {"$a", "$d", "$t", "$x"})

(* The addresses of a code symbol: its size, or up to the next one.         *)
Extent(s, code) ==
  LET next == {t.value : t \in code} \cap (s.value + 1)..U32Max
      end == IF next = {} THEN U32Max - 1 ELSE CHOOSE v \in next : \A w \in next : v <= w
  IN IF s.type = "func" /\ s.size = 0 THEN s.value..(end - 1) ELSE s.value..(s.value + s.size - 1)

(* A function that no other code symbol touches is found at each of its     *)
(* addresses, whatever markers, objects and overlapping symbols the table   *)
(* has around it; and a symbol that is found holds the address.             *)
SymbolExact ==
  (sample.pc = "found" /\ "symbols" \in cache[sample.key].held
     /\ cache[sample.key].owner # "nobody") =>
    LET syms == BestTable(cache[sample.key])
        code == {s \in {syms[i] : i \in DOMAIN syms} : CodeSymbol(s)}
        Alone(s) == \A t \in code \ {s} : /\ t.value \notin Extent(s, code)
                                          /\ Extent(t, code) \cap Extent(s, code) = {}
    IN /\ \A s \in code : (Alone(s) /\ sample.relative \in Extent(s, code)) => sample.sym = s
       /\ sample.sym # NoNode => sample.relative \in Extent(sample.sym, code)

(* The mapping's own bytes are read: an address in a deleted mapping is     *)
(* looked up in the file the process has mapped, not in the one that took   *)
(* its name, if the first executable mapping is the executable's.           *)
ReadsMappedFile ==
  (sample.pc # "none" /\ SampledLine.deleted /\ ~proc.debug
     /\ proc.lines[Line(pid.maps[1])].file = proc.exe) =>
    sample.key = Identity(Content[SampledLine.file].scn, SampledLine.file)

(* "Read the live mapping: /proc/<pid>/exe for the main executable,         *)
(* map_files for everything else" (src/gu_stacktrace.c:1566): an address in *)
(* a deleted mapping is looked up in the file that is mapped there.         *)
LiveMappingRead ==
  (sample.pc # "none" /\ SampledLine.deleted /\ ~proc.debug) =>
    sample.key = Identity(Content[SampledLine.file].scn, SampledLine.file)

(* A load returns, through any links and whatever is renamed meanwhile.     *)
LoadReturns == (pid.pc = "loading") ~> (pid.pc # "loading")
=============================================================================
