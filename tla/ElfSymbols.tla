----------------------------- MODULE ElfSymbols -----------------------------
(***************************************************************************)
(* From a symbol table to a searchable one, and from a maps line to the     *)
(* addresses it is searched with: fill_symbols_debug_info() of              *)
(* src/gu_stacktrace.c, the executable ranges of src/gu_elf.c and the       *)
(* reading of /proc/<pid>/maps in src/gu_comm.c.                            *)
(***************************************************************************)
EXTENDS IntervalArray

CONSTANT BeforeSpace    \* of the names with a space in them: the part before it

-----------------------------------------------------------------------------
(* Symbols.  A name is a string, or "invalid": an offset outside the string *)
(* table.  exec: the section of the symbol holds instructions.              *)

(* is_arm_elf_mapping_symbol_name(): $a, $d, $t and $x mark code and data.  *)
is_arm_elf_mapping_symbol_name(name) == name \in {"$a", "$d", "$t", "$x"}

(* A symbol reaches the name test: a function, or an untyped symbol of an   *)
(* executable section (is_exec_scn_cached()).                               *)
Candidate(s) == s.value # 0 /\ (s.type = "func" \/ (s.type = "notype" /\ s.exec))

(* Mutant: mapping symbols stay in the table.                               *)
SearchableMarks(s) == Candidate(s) /\ s.name # ""

(* The symbols that enter the table.                                        *)
Searchable(s) ==
  /\ Candidate(s) /\ s.name # ""
  /\ ~(s.type = "notype" /\ is_arm_elf_mapping_symbol_name(s.name))

(* One name that cannot be read drops the whole table.                      *)
Unreadable(syms) == \E i \in DOMAIN syms : Candidate(syms[i]) /\ syms[i].name = "invalid"

Kept(syms) == SelectSeq(syms, Searchable)

(* Functions without a size are left open, to end at the next symbol.       *)
SymbolItems(kept) ==
  [i \in DOMAIN kept |->
     [start |-> kept[i].value,
      end |-> IF kept[i].type = "func" /\ kept[i].size = 0 THEN 0
              ELSE kept[i].value + kept[i].size,
      private |-> i]]

-----------------------------------------------------------------------------
(* Executable ranges of a file: its executable PT_LOAD segments, aligned.   *)

align_down(value, align) == IF align = 0 THEN value ELSE value - (value % align)

align_up(value, align) ==
  IF align = 0 \/ value % align = 0 THEN value ELSE value + (align - (value % align))

(* gu_elf_exec_ranges_load_from_elf(): the ranges in the order of their     *)
(* segments, each under the number of its segment.                          *)
ExecRanges(segs) ==
  [i \in {i \in DOMAIN segs : segs[i].exec /\ segs[i].memsz # 0} |->
     [start |-> align_down(segs[i].vaddr, segs[i].align),
      end |-> align_up(segs[i].vaddr + segs[i].memsz, segs[i].align),
      offset |-> align_down(segs[i].offset, segs[i].align)]]

(* The first of some numbers.                                               *)
First(found) == CHOOSE i \in found : \A j \in found : i <= j

(* gu_elf_exec_ranges_first_start()                                         *)
FirstStart(ranges) == IF ranges = <<>> THEN 0 ELSE ranges[First(DOMAIN ranges)].start

(* gu_elf_exec_ranges_find_by_offset(): the first range whose part of the   *)
(* file holds the mapping; 0 when there is none.                            *)
FindByOffset(ranges, offset, size) ==
  LET Holds(r) == offset >= r.offset /\ offset + size <= r.offset + (r.end - r.start)
      found == {i \in DOMAIN ranges : Holds(ranges[i])}
      r == ranges[First(found)]
  IN IF found = {} THEN 0 ELSE r.start + (offset - r.offset)

(* get_elf_exec_virt_addr(): used when the ranges cannot be read.           *)
ExecVirtAddr(segs) ==
  LET exec == {i \in DOMAIN segs : segs[i].exec}
      p == segs[First(exec)]
  IN IF exec = {} THEN 0 ELSE align_down(p.vaddr, p.align)

(* Mutant: every mapping of a file gets the start of its first range.       *)
MapExecVirtAddrFirst(ranges, first, map) == first

(* gu_resolve_map_exec_virt_addr(), then gu_alloc_elf_map_ctx(): 0 stands   *)
(* for not found, and is replaced by the first executable address.          *)
MapExecVirtAddr(ranges, first, map) ==
  LET found == FindByOffset(ranges, map.offset, map.end - map.start)
  IN IF found # 0 THEN found ELSE first

-----------------------------------------------------------------------------
(* gu_get_maps_info(): the executable lines of /proc/<pid>/maps.            *)

(* The line's path as sscanf() reads it: up to the first space.             *)
Scanned(path) ==
  LET spaced == {i \in DOMAIN path : path[i] \in DOMAIN BeforeSpace}
      i == First(spaced)
  IN IF spaced = {} THEN path ELSE Append(SubSeq(path, 1, i - 1), BeforeSpace[path[i]])

(* perm[0] | perm[1] | perm[2] of an executable line tells apart only       *)
(* whether 'r' or 'w' is among the characters.                              *)
permission(perm) == perm \cap {"r", "w"} # {}

(* The line continues the mapping before it.                                *)
Continues(m, line) ==
  /\ m.end = line.start
  /\ m.offset + (m.end - m.start) = line.offset
  /\ m.permission = permission(line.perm)
  /\ m.path = Scanned(line.path)

gu_get_maps_info(lines) ==
  LET Read(m, line) ==
        IF "x" \notin line.perm THEN m
        ELSE IF m # <<>> /\ Continues(m[Len(m)], line)
          THEN [m EXCEPT ![Len(m)].end = line.end]
          ELSE Append(m, [start |-> line.start, end |-> line.end, offset |-> line.offset,
                          permission |-> permission(line.perm),
                          path |-> Scanned(line.path), deleted |-> line.deleted])
      maps[n \in 0..Len(lines)] == IF n = 0 THEN <<>> ELSE Read(maps[n - 1], lines[n])
  IN maps[Len(lines)]
=============================================================================
