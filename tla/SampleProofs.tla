----------------------------- MODULE SampleProofs -----------------------------
(***************************************************************************)
(* Proofs about the addresses that ElfLoad looks up, for any processes,    *)
(* files, segments and options: an address in a deleted mapping is looked  *)
(* up in the file that is mapped there, and every address at the place the *)
(* file has it, in an entry that no sweep freed meanwhile.                 *)
(***************************************************************************)
EXTENDS ElfLoad, FiniteSetTheorems, TLAPS

(* Obligations over whole states get more time than the default.            *)
USE SMTT(30), ZenonT(30)

(* A mapping with an address in it is not empty.                            *)
LEMMA HasWidth ==
  ASSUME NEW a \in Nat, NEW b \in Nat, NEW x \in Int, a <= x, x < b
  PROVE  a < b
  OBVIOUS

(* The page an offset is in has the displacement of its segment.            *)
Displaced(x, start, from, vaddr, offset) ==
  start - from = vaddr - offset => start + (x - from) = vaddr + (x - offset)

(* An offset has the same place by the page it is in and by the segment.    *)
LEMMA SamePlace ==
  ASSUME NEW x \in Nat, NEW start \in Nat, NEW from \in Nat, NEW vaddr \in Nat, NEW offset \in Nat
  PROVE  Displaced(x, start, from, vaddr, offset)
  BY DEF Displaced

(* An address less the mapping's displacement is the address less the bias. *)
LEMMA SameBias ==
  ASSUME NEW x \in Int, NEW a \in Nat, NEW b \in Int
  PROVE  x - (a - (a - b)) = x - b
  OBVIOUS

KeyOf(file) == Identity(Content[file].scn, file)

(* What load_elf() opens for a deleted mapping.                             *)
LiveFile(map, i) == IF i = 1 THEN proc.exe ELSE MapFile(map.start, map.end)

ReadFrom(key, map, i) == LiveFile(map, i) # NoNode /\ key = KeyOf(LiveFile(map, i))

(* The steps of a load after the identity of the file is known, and those   *)
(* of them that build an entry.                                             *)
Building == {"debug", "opendebug", "cfi", "fill", "build", "err_free", "publish"}
Identified == Building \cup {"hit"}

(* The fields of tmp_ctx, of an entry and of the context of the process.    *)
TmpShape ==
  ld = [pc |-> ld.pc, file |-> ld.file, debug |-> ld.debug, scn |-> ld.scn, key |-> ld.key,
        held |-> ld.held, fds |-> ld.fds, kept |-> ld.kept, names |-> ld.names,
        owner |-> ld.owner, ranges |-> ld.ranges, first |-> ld.first, items |-> ld.items,
        array |-> ld.array]

EntryShape(e) ==
  e = [file |-> e.file, debug |-> e.debug, refcnt |-> e.refcnt, owner |-> e.owner,
       held |-> e.held, names |-> e.names, kept |-> e.kept, ranges |-> e.ranges,
       first |-> e.first, items |-> e.items, array |-> e.array]

PidShape ==
  /\ pid = [pc |-> pid.pc, maps |-> pid.maps, items |-> pid.items]
  /\ pid.items \in Seq({pid.items[i] : i \in DOMAIN pid.items})
  /\ pid.pc = "none" => pid.items = <<>>
  /\ proc \in Process

(* A load is of a mapping of the process.                                   *)
Busy == ld.pc # "idle" => Loading

ShapeInv == TmpShape /\ PidShape /\ Busy

(* The mappings, by the items made of them: an item has the bounds of its   *)
(* mapping; of a deleted one, the entry of the live file.                   *)
MapsRead == pid.pc # "none" => pid.maps = gu_get_maps_info(proc.lines)

ItemsMapped ==
  \A i \in DOMAIN pid.items :
    /\ i \in 1..Len(pid.maps)
    /\ pid.items[i].start = pid.maps[i].start /\ pid.items[i].end = pid.maps[i].end
    /\ (LiveMapping(pid.maps[i]) /\ pid.items[i].key # NoNode) =>
         ReadFrom(pid.items[i].key, pid.maps[i], i)

TmpMapped ==
  /\ ld.pc = "idle" => ld.key = NoNode
  /\ (ld.pc # "idle" /\ LiveMapping(Map)) =>
       /\ ld.pc # "open"
       /\ ld.pc \in Identified \cup {"scan"} =>
            ld.file = LiveFile(Map, Next_i) /\ ld.file # NoNode
       /\ ld.pc \in Identified => ReadFrom(ld.key, Map, Next_i)
       /\ ld.pc = "loaded" => ld.key = NoNode \/ ReadFrom(ld.key, Map, Next_i)

SampleMapped ==
  sample.pc # "none" =>
    /\ pid.pc = "loaded" /\ sample.x \in Int
    /\ \E i \in DOMAIN pid.items :
         /\ sample.key = pid.items[i].key /\ sample.key # NoNode
         /\ pid.items[i].start <= sample.x /\ sample.x < pid.items[i].end
         /\ sample.relative = sample.x - (pid.items[i].start - pid.items[i].exec)

MappedInv == MapsRead /\ ItemsMapped /\ TmpMapped /\ SampleMapped

(* The entries: what they keep of their file is what the file has, and an   *)
(* entry counts the items that use it and the load that found it.           *)
RangesRead(e) ==
  "exec_ranges" \in e.held =>
    /\ e.ranges = ExecRanges(Content[e.file].segs) /\ e.ranges # <<>>
    /\ e.first = FirstStart(e.ranges)

EntriesRead ==
  \A k \in DOMAIN cache :
    EntryShape(cache[k]) /\ cache[k].file \in File /\ k = KeyOf(cache[k].file) /\ RangesRead(cache[k])

TmpRead ==
  /\ ld.pc \in {"idle", "open", "scan", "debug"} => "exec_ranges" \notin ld.held
  /\ ld.pc \in Building =>
       ld.file \in File /\ ld.key = KeyOf(ld.file) /\ RangesRead(ld) /\ ld.key \notin DOMAIN cache
  /\ ld.pc \in {"hit", "loaded"} /\ ld.key # NoNode => ld.key \in DOMAIN cache

UsedBy(s, k) == {i \in DOMAIN s : s[i].key = k}
Users(k) == UsedBy(pid.items, k)
Pending(k) == IF ld.pc \in {"hit", "loaded"} /\ ld.key = k THEN 1 ELSE 0

Counted == \A k \in DOMAIN cache \ {NoNode} : cache[k].refcnt = Cardinality(Users(k)) + Pending(k)

ItemsPlaced ==
  \A i \in DOMAIN pid.items :
    LET key == pid.items[i].key IN
    key # NoNode =>
      /\ key \in DOMAIN cache
      /\ pid.items[i].exec = MapExecVirtAddr(cache[key].ranges, cache[key].first, pid.maps[i])

CacheInv == EntriesRead /\ TmpRead /\ Counted /\ ItemsPlaced

-----------------------------------------------------------------------------
(* Where a mapping is in its file.                                          *)

(* A set of numbers has a first one.                                        *)
LEMMA FirstIsLeast ==
  ASSUME NEW T, T \subseteq Nat, T # {}
  PROVE  First(T) \in T /\ \A y \in T : First(T) <= y
  <1> DEFINE R == OpToRel(<, Nat)
  <1>1. IsWellFoundedOn(R, Nat)
    BY NatLessThanWellFounded
  <1>2. \A x, y \in Nat : x < y => <<x, y>> \in R
    BY DEF OpToRel
  <1> HIDE DEF R
  <1>3. PICK x \in T : \A y \in T : ~(<<y, x>> \in R)
    BY Zenon, <1>1, WFMin
  <1>4. \A y \in T : x <= y
    <2> SUFFICES ASSUME NEW y \in T PROVE x <= y
      OBVIOUS
    <2>1. ~(y < x)
      BY Zenon, <1>2, <1>3
    <2> QED BY <2>1
  <1> QED BY Zenon, <1>4 DEF First

(* A number and its remainder.                                              *)
LEMMA Remainder ==
  ASSUME NEW x \in Int, NEW a \in Nat \ {0}
  PROVE  \E q \in Int : x = a * q + (x % a) /\ x % a \in 0..(a - 1)
  <1>1. x \div a \in Int /\ x = a * (x \div a) + (x % a) /\ x % a \in 0..(a - 1)
    OBVIOUS
  <1> QED BY Zenon, <1>1

(* There is only one.                                                       *)
LEMMA RemainderUnique ==
  ASSUME NEW x \in Int, NEW a \in Nat \ {0}, NEW q \in Int, NEW r \in 0..(a - 1), x = a * q + r
  PROVE  x % a = r
  <1>1. PICK p \in Int : x = a * p + (x % a) /\ x % a \in 0..(a - 1)
    BY Zenon, Remainder
  <1>2. a * (p - q) = r - (x % a)
    BY <1>1
  <1>3. p - q = 0
    <2> DEFINE k == p - q
    <2>1. k \in Int /\ a * k < a /\ a * k > -a
      BY <1>1, <1>2
    <2> HIDE DEF k
    <2>2. ~(k >= 1)
      BY <2>1
    <2>3. ~(k <= -1)
      BY <2>1
    <2> QED BY <2>1, <2>2, <2>3 DEF k
  <1> QED BY <1>1, <1>3

(* Multiples add up.                                                        *)
LEMMA MultiplesAdd ==
  ASSUME NEW a \in Int, NEW d \in Int, NEW q \in Int, NEW r \in Int
  PROVE  a * d + (a * q + r) = a * (d + q) + r /\ d + q \in Int
  OBVIOUS

(* Numbers that differ by a multiple have the same remainder.               *)
LEMMA SameRemainder ==
  ASSUME NEW x \in Int, NEW y \in Int, NEW a \in Nat \ {0}, (x - y) % a = 0
  PROVE  x % a = y % a
  <1> DEFINE z == x - y
  <1>1. z \in Int /\ z % a = 0 /\ x = z + y
    OBVIOUS
  <1> HIDE DEF z
  <1>2. PICK d \in Int : z = a * d
    <2>1. PICK d \in Int : z = a * d + (z % a)
      BY Zenon, <1>1, Remainder
    <2> QED BY <1>1, <2>1
  <1>3. PICK q \in Int : y = a * q + (y % a) /\ y % a \in 0..(a - 1)
    BY Zenon, Remainder
  <1> DEFINE r == y % a
  <1>4. r \in 0..(a - 1) /\ r \in Int /\ a \in Int /\ y = a * q + r
    BY <1>3
  <1> HIDE DEF r
  <1>5. a * d + (a * q + r) = a * (d + q) + r /\ d + q \in Int
    BY <1>4, MultiplesAdd
  <1>6. x = a * (d + q) + r
    BY Zenon, <1>1, <1>2, <1>4, <1>5
  <1>7. x % a = r
    BY Zenon, <1>4, <1>5, <1>6, RemainderUnique
  <1> QED BY <1>7 DEF r

(* Multiples are a whole step apart.                                        *)
LEMMA MultiplesApart ==
  ASSUME NEW n \in Nat \ {0}, NEW k \in Int, NEW p \in Int, n * k < n * p + n
  PROVE  n * k <= n * p
  <1>1. CASE k <= p
    BY <1>1
  <1>2. CASE k >= p + 1
    <2> DEFINE d == k - (p + 1)
    <2>1. d \in Nat /\ k = (p + 1) + d
      BY <1>2
    <2> HIDE DEF d
    <2>2. n * k = (n * p + n) + n * d /\ n * d >= 0
      BY <2>1
    <2> QED BY <2>2
  <1> QED BY <1>1, <1>2

(* align_down(): the last multiple that is not above.                       *)
LEMMA AlignDown ==
  ASSUME NEW v \in Nat, NEW a \in Nat \ {0}
  PROVE  /\ align_down(v, a) = v - (v % a) /\ align_down(v, a) \in Nat
         /\ \E q \in Int : align_down(v, a) = a * q /\ a * q <= v /\ v < a * q + a
  <1>1. align_down(v, a) = v - (v % a)
    BY DEF align_down
  <1>2. PICK q \in Int : v = a * q + (v % a) /\ v % a \in 0..(a - 1)
    <2>1. v \in Int
      OBVIOUS
    <2> QED BY Zenon, <2>1, Remainder
  <1> DEFINE r == v % a
             w == a * q
  <1>3. /\ v = w + r /\ r \in Int /\ w \in Int /\ r >= 0 /\ r < a
        /\ align_down(v, a) = v - r
    BY <1>1, <1>2
  <1>4. ~(q <= -1) \/ w <= -a
    OBVIOUS
  <1>5. q >= 0 => w >= 0
    OBVIOUS
  <1> HIDE DEF r, w
  <1>6. r <= v
    BY <1>3, <1>4, <1>5
  <1>7. v - r = w /\ w <= v /\ v < w + a
    BY <1>3
  <1> QED BY <1>3, <1>6, <1>7 DEF w

(* align_up(): the first multiple that is not below.                        *)
LEMMA AlignUp ==
  ASSUME NEW v \in Nat, NEW a \in Nat \ {0}
  PROVE  /\ align_up(v, a) = IF v % a = 0 THEN v ELSE v + (a - (v % a))
         /\ align_up(v, a) \in Nat
         /\ \E q \in Int : align_up(v, a) = a * q /\ v <= a * q /\ a * q < v + a
  <1>1. align_up(v, a) = IF v % a = 0 THEN v ELSE v + (a - (v % a))
    BY DEF align_up
  <1>2. PICK q \in Int : v = a * q + (v % a) /\ v % a \in 0..(a - 1)
    <2>1. v \in Int
      OBVIOUS
    <2> QED BY Zenon, <2>1, Remainder
  <1> DEFINE r == v % a
             w == a * q
             u == align_up(v, a)
  <1>3. /\ v = w + r /\ r \in Int /\ w \in Int /\ r >= 0 /\ r < a
        /\ u = IF r = 0 THEN v ELSE v + (a - r)
    BY <1>1, <1>2
  <1>4. a * (q + 1) = w + a /\ q + 1 \in Int
    OBVIOUS
  <1> HIDE DEF r, w, u
  <1>5. u \in Nat /\ v <= u /\ u < v + a /\ (u = w \/ u = w + a)
    BY <1>3
  <1>6. \E p \in Int : u = a * p
    <2>1. CASE u = w
      BY <2>1 DEF w
    <2>2. CASE u = w + a
      BY Zenon, <2>2, <1>4
    <2> QED BY <1>5, <2>1, <2>2
  <1>7. PICK p \in Int : u = a * p
    BY <1>6
  <1>8. \E p_1 \in Int : u = a * p_1 /\ v <= a * p_1 /\ a * p_1 < v + a
    BY Zenon, <1>5, <1>7
  <1> QED BY Zenon, <1>1, <1>5, <1>8 DEF u

Congruent(v, o, a) == (v - o) % a = 0

SameWidth(v, o, m, a) ==
  /\ align_down(v, a) - align_down(o, a) = v - o
  /\ align_up(v + m, a) - align_down(v, a) = align_up(o + m, a) - align_down(o, a)

(* A range has as many bytes of the file as of the memory, at the same      *)
(* distance.                                                                *)
LEMMA RangeInFile ==
  ASSUME NEW v \in Nat, NEW o \in Nat, NEW m \in Nat, NEW a \in Nat \ {0}, Congruent(v, o, a)
  PROVE  SameWidth(v, o, m, a)
  <1>1. v % a = o % a
    <2>1. v \in Int /\ o \in Int
      OBVIOUS
    <2> QED BY Zenon, <2>1, SameRemainder DEF Congruent
  <1> DEFINE x == v + m
             y == o + m
  <1>2. x % a = y % a
    <2>1. x \in Int /\ y \in Int /\ x - y = v - o
      OBVIOUS
    <2>2. (x - y) % a = 0
      BY Zenon, <2>1 DEF Congruent
    <2> HIDE DEF x, y
    <2> QED BY Zenon, <2>1, <2>2, SameRemainder
  <1> DEFINE r == v % a
             t == x % a
  <1>3. /\ align_down(v, a) = v - r /\ align_down(o, a) = o - r
        /\ align_down(v, a) \in Nat /\ align_down(o, a) \in Nat
    BY Zenon, <1>1, AlignDown
  <1>4. /\ align_up(x, a) = IF t = 0 THEN x ELSE x + (a - t)
        /\ align_up(y, a) = IF t = 0 THEN y ELSE y + (a - t)
    <2>1. x \in Nat /\ y \in Nat
      OBVIOUS
    <2> HIDE DEF x, y
    <2>2. align_up(x, a) = IF x % a = 0 THEN x ELSE x + (a - (x % a))
      BY Zenon, <2>1, AlignUp
    <2>3. align_up(y, a) = IF y % a = 0 THEN y ELSE y + (a - (y % a))
      BY Zenon, <2>1, AlignUp
    <2> QED BY Zenon, <1>2, <2>2, <2>3
  <1>5. r \in Int /\ t \in Int /\ x = v + m /\ y = o + m
    OBVIOUS
  <1> SUFFICES /\ align_down(v, a) - align_down(o, a) = v - o
               /\ align_up(x, a) - align_down(v, a) = align_up(y, a) - align_down(o, a)
    BY DEF SameWidth
  <1> HIDE DEF r, t, x, y
  <1> QED BY <1>3, <1>4, <1>5

(* What is aligned to whole pages is wider than its pages.                  *)
LEMMA WholePages ==
  ASSUME NEW page \in Nat \ {0}, NEW a \in Nat \ {0}, a % page = 0, NEW v \in Nat
  PROVE  /\ align_down(v, a) <= align_down(v, page)
         /\ align_up(v, page) <= align_up(v, a)
         /\ page <= a
  <1>1. PICK c \in Int : a = page * c
    <2>1. a \in Int
      OBVIOUS
    <2>2. PICK c \in Int : a = page * c + (a % page)
      BY Zenon, <2>1, Remainder
    <2> QED BY <2>2
  <1>2. ASSUME NEW q \in Int PROVE page * (c * q) = a * q /\ c * q \in Int
    BY <1>1
  <1>3. align_down(v, a) <= align_down(v, page)
    <2>1. PICK q \in Int : align_down(v, a) = a * q /\ a * q <= v
      BY Zenon, AlignDown
    <2>2. PICK p \in Int : align_down(v, page) = page * p /\ v < page * p + page
      BY Zenon, AlignDown
    <2> DEFINE k == c * q
    <2>3. k \in Int /\ align_down(v, a) = page * k /\ page * k <= v
      BY Zenon, <1>2, <2>1
    <2> HIDE DEF k
    <2>4. page * k < page * p + page
      BY <2>2, <2>3
    <2> QED BY Zenon, <2>2, <2>3, <2>4, MultiplesApart
  <1>4. align_up(v, page) <= align_up(v, a)
    <2>1. PICK q \in Int : align_up(v, a) = a * q /\ v <= a * q
      BY Zenon, AlignUp
    <2>2. PICK p \in Int : align_up(v, page) = page * p /\ page * p < v + page
      BY Zenon, AlignUp
    <2> DEFINE k == c * q
    <2>3. k \in Int /\ align_up(v, a) = page * k /\ v <= page * k
      BY Zenon, <1>2, <2>1
    <2> HIDE DEF k
    <2>4. page * p < page * k + page
      BY <2>2, <2>3
    <2> QED BY Zenon, <2>2, <2>3, <2>4, MultiplesApart
  <1>5. page <= a
    <2>1. c >= 1
      BY <1>1
    <2> QED BY <1>1, <2>1
  <1> QED BY <1>3, <1>4, <1>5

SegmentTypes(segs) ==
  /\ DOMAIN segs \subseteq Nat
  /\ \A i \in DOMAIN segs :
       segs[i].vaddr \in Nat /\ segs[i].offset \in Nat /\ segs[i].memsz \in Nat /\ segs[i].align \in Nat

(* The range of a segment in memory and in the file.                        *)
LEMMA RangeOfSegment ==
  ASSUME NEW segs, NEW page \in Nat \ {0}, SegmentTypes(segs), Regular(segs, page),
         NEW i \in DOMAIN ExecRanges(segs)
  PROVE  LET p == segs[i]
             r == ExecRanges(segs)[i]
         IN /\ i \in DOMAIN segs /\ i \in Nat /\ p.exec /\ p.align \in Nat \ {0} /\ p.align % page = 0
            /\ p.vaddr \in Nat /\ p.offset \in Nat /\ p.offset + p.memsz \in Nat
            /\ r.start = align_down(p.vaddr, p.align) /\ r.offset = align_down(p.offset, p.align)
            /\ r.start \in Nat /\ r.offset \in Nat /\ r.start - r.offset = p.vaddr - p.offset
            /\ r.offset + (r.end - r.start) = align_up(p.offset + p.memsz, p.align)
            /\ align_up(p.offset + p.memsz, p.align) \in Nat
  <1> DEFINE p == segs[i]
             r == ExecRanges(segs)[i]
  <1>1. /\ i \in DOMAIN segs /\ p.exec
        /\ r.start = align_down(p.vaddr, p.align) /\ r.offset = align_down(p.offset, p.align)
        /\ r.end = align_up(p.vaddr + p.memsz, p.align)
    BY DEF ExecRanges
  <1>2. /\ i \in Nat /\ p.vaddr \in Nat /\ p.offset \in Nat /\ p.memsz \in Nat /\ p.align \in Nat
        /\ p.align > 0 /\ p.align % page = 0 /\ (p.vaddr - p.offset) % p.align = 0
    BY <1>1 DEF SegmentTypes, Regular
  <1> HIDE DEF p, r
  <1>3. p.align \in Nat \ {0} /\ p.offset + p.memsz \in Nat /\ p.vaddr + p.memsz \in Nat
    BY <1>2
  <1>4. r.start \in Nat /\ r.offset \in Nat
    <2>1. align_down(p.vaddr, p.align) \in Nat
      BY Zenon, <1>2, <1>3, AlignDown
    <2>2. align_down(p.offset, p.align) \in Nat
      BY Zenon, <1>2, <1>3, AlignDown
    <2> QED BY Zenon, <1>1, <2>1, <2>2
  <1>5. r.end \in Nat /\ align_up(p.offset + p.memsz, p.align) \in Nat
    BY Zenon, <1>1, <1>3, AlignUp
  <1>6. /\ r.start - r.offset = p.vaddr - p.offset
        /\ r.end - r.start = align_up(p.offset + p.memsz, p.align) - r.offset
    <2>1. /\ align_down(p.vaddr, p.align) - align_down(p.offset, p.align) = p.vaddr - p.offset
          /\ align_up(p.vaddr + p.memsz, p.align) - align_down(p.vaddr, p.align)
               = align_up(p.offset + p.memsz, p.align) - align_down(p.offset, p.align)
      <3>1. SameWidth(p.vaddr, p.offset, p.memsz, p.align)
        BY Zenon, <1>2, <1>3, RangeInFile DEF Congruent
      <3> QED BY Zenon, <3>1 DEF SameWidth
    <2> QED BY Zenon, <1>1, <2>1
  <1>7. r.offset + (r.end - r.start) = align_up(p.offset + p.memsz, p.align)
    BY <1>4, <1>5, <1>6
  <1> QED BY ZenonT(30), <1>1, <1>2, <1>3, <1>4, <1>5, <1>6, <1>7 DEF p, r

(* gu_elf_exec_ranges_find_by_offset() finds the segment of a mapping, and  *)
(* its 0 for "not found" is no harm: it is right for the first segment.     *)
LEMMA PlaceInSegment ==
  ASSUME NEW segs, NEW page \in Nat \ {0}, SegmentTypes(segs), Regular(segs, page),
         ExecRanges(segs) # <<>>, NEW n \in DOMAIN ExecRanges(segs),
         NEW map, map.offset \in Nat, map.start \in Nat, map.end \in Nat, map.start < map.end,
         align_down(segs[n].offset, page) <= map.offset,
         map.offset + (map.end - map.start) <= align_up(segs[n].offset + segs[n].memsz, page)
  PROVE  MapExecVirtAddr(ExecRanges(segs), FirstStart(ExecRanges(segs)), map)
           = segs[n].vaddr + (map.offset - segs[n].offset)
  <1> DEFINE ranges == ExecRanges(segs)
             size == map.end - map.start
             FileEnd(i) == align_up(segs[i].offset + segs[i].memsz, segs[i].align)
             found == {i \in DOMAIN ranges : /\ map.offset >= ranges[i].offset
                                             /\ map.offset + size
                                                  <= ranges[i].offset + (ranges[i].end - ranges[i].start)}
             place == segs[n].vaddr + (map.offset - segs[n].offset)
  <1>1. ASSUME NEW i \in DOMAIN ranges
        PROVE  /\ i \in DOMAIN segs /\ i \in Nat /\ segs[i].exec
               /\ segs[i].align \in Nat \ {0} /\ segs[i].align % page = 0
               /\ segs[i].vaddr \in Nat /\ segs[i].offset \in Nat
               /\ segs[i].offset + segs[i].memsz \in Nat
               /\ ranges[i].start = align_down(segs[i].vaddr, segs[i].align)
               /\ ranges[i].offset = align_down(segs[i].offset, segs[i].align)
               /\ ranges[i].start \in Nat /\ ranges[i].offset \in Nat
               /\ ranges[i].start - ranges[i].offset = segs[i].vaddr - segs[i].offset
               /\ ranges[i].offset + (ranges[i].end - ranges[i].start) = FileEnd(i)
               /\ FileEnd(i) \in Nat
    BY Zenon, <1>1, RangeOfSegment
  <1>2. size \in Nat \ {0} /\ n \in DOMAIN ranges
    OBVIOUS
  <1>3. /\ ranges[n].offset <= map.offset
        /\ map.offset + size <= FileEnd(n)
    <2> DEFINE a == segs[n].align
               top == segs[n].offset + segs[n].memsz
    <2>1. a \in Nat \ {0} /\ a % page = 0 /\ segs[n].offset \in Nat /\ top \in Nat
      BY Zenon, <1>1, <1>2
    <2>2. align_down(segs[n].offset, a) <= align_down(segs[n].offset, page)
      BY Zenon, <2>1, WholePages
    <2>3. align_up(top, page) <= align_up(top, a)
      <3> HIDE DEF a, top
      <3> QED BY Zenon, <2>1, WholePages
    <2>4. /\ align_down(segs[n].offset, a) \in Nat /\ align_down(segs[n].offset, page) \in Nat
          /\ align_up(top, page) \in Nat /\ align_up(top, a) \in Nat
      <3> HIDE DEF a, top
      <3> QED BY Zenon, <2>1, AlignDown, AlignUp
    <2>5. ranges[n].offset = align_down(segs[n].offset, a) /\ FileEnd(n) = align_up(top, a)
      BY Zenon, <1>1, <1>2
    <2>6. align_down(segs[n].offset, page) <= map.offset /\ map.offset + size <= align_up(top, page)
      OBVIOUS
    <2> HIDE DEF a, top, ranges, FileEnd, size
    <2> QED BY <1>2, <2>2, <2>3, <2>4, <2>5, <2>6
  <1>4. ASSUME NEW i \in DOMAIN ranges, NEW j \in DOMAIN ranges, i < j
        PROVE  FileEnd(i) <= ranges[j].offset /\ segs[i].vaddr <= segs[j].vaddr
    BY Zenon, <1>1, <1>4 DEF Regular
  <1> HIDE DEF ranges, FileEnd, size
  <1>5. \A i \in DOMAIN ranges : i \in found <=> i = n
    <2> SUFFICES ASSUME NEW i \in DOMAIN ranges PROVE i \in found <=> i = n
      OBVIOUS
    <2>1. i \in found <=> map.offset >= ranges[i].offset /\ map.offset + size <= FileEnd(i)
      BY <1>1
    <2>2. i \in Nat /\ n \in Nat /\ ranges[i].offset \in Nat /\ FileEnd(i) \in Nat /\ FileEnd(n) \in Nat
          /\ ranges[n].offset \in Nat
      BY Zenon, <1>1, <1>2
    <2>3. CASE i < n
      BY <1>2, <1>3, <1>4, <2>1, <2>2, <2>3
    <2>4. CASE n < i
      BY <1>2, <1>3, <1>4, <2>1, <2>2, <2>4
    <2>5. CASE i = n
      BY <1>3, <2>1, <2>2, <2>5
    <2> QED BY <2>2, <2>3, <2>4, <2>5
  <1>6. First(found) = n /\ found # {}
    <2>1. found = {n} /\ n \in Nat
      BY Zenon, <1>1, <1>2, <1>5
    <2>2. First({n}) \in {n}
      BY Zenon, <2>1, FirstIsLeast
    <2> QED BY Zenon, <2>1, <2>2
  <1>7. FindByOffset(ranges, map.offset, size) = place
    <2>1. FindByOffset(ranges, map.offset, size)
            = ranges[First(found)].start + (map.offset - ranges[First(found)].offset)
      BY Zenon, <1>6 DEF FindByOffset
    <2>2. ranges[n].start + (map.offset - ranges[n].offset) = place
      <3>1. /\ segs[n].vaddr \in Nat /\ segs[n].offset \in Nat
            /\ ranges[n].start \in Nat /\ ranges[n].offset \in Nat
            /\ ranges[n].start - ranges[n].offset = segs[n].vaddr - segs[n].offset
        BY Zenon, <1>1, <1>2
      <3>2. Displaced(map.offset, ranges[n].start, ranges[n].offset, segs[n].vaddr, segs[n].offset)
        BY Zenon, <3>1, SamePlace
      <3> QED BY Zenon, <3>1, <3>2 DEF Displaced
    <2> QED BY Zenon, <1>6, <2>1, <2>2
  <1>8. CASE place # 0
    BY Zenon, <1>7, <1>8 DEF MapExecVirtAddr, ranges, size
  <1>9. CASE place = 0
    <2> DEFINE m == First(DOMAIN ranges)
    <2>1. m \in DOMAIN ranges /\ m <= n /\ n \in Nat /\ m \in Nat
      <3>1. DOMAIN ranges \subseteq Nat /\ DOMAIN ranges # {}
        BY Zenon, <1>1, <1>2
      <3>2. m \in DOMAIN ranges /\ \A y \in DOMAIN ranges : m <= y
        BY Zenon, <3>1, FirstIsLeast
      <3> QED BY Zenon, <1>2, <3>1, <3>2
    <2>2. FirstStart(ranges) = ranges[m].start
      BY Zenon DEF FirstStart, ranges
    <2> HIDE DEF m
    <2>3. /\ segs[m].vaddr \in Nat /\ segs[m].align \in Nat \ {0} /\ segs[m].align % page = 0
          /\ segs[n].vaddr \in Nat /\ segs[n].offset \in Nat
          /\ ranges[m].start = align_down(segs[m].vaddr, segs[m].align)
      BY Zenon, <1>1, <1>2, <2>1
    <2>4. segs[m].vaddr <= segs[n].vaddr
      <3>1. CASE m = n
        BY <2>3, <3>1
      <3>2. CASE m < n
        BY Zenon, <1>2, <1>4, <2>1, <3>2
      <3> QED BY <2>1, <3>1, <3>2
    <2>5. segs[n].vaddr < page
      <3> DEFINE o == segs[n].offset
                 low == align_down(o, page)
      <3>1. \E q \in Int : low = page * q /\ page * q <= o /\ o < page * q + page
        BY Zenon, <2>3, AlignDown
      <3>2. o < low + page /\ low \in Nat /\ o \in Nat
        BY Zenon, <2>3, <3>1, AlignDown
      <3>3. low <= map.offset /\ segs[n].vaddr + (map.offset - o) = 0
        BY <1>9
      <3> HIDE DEF o, low
      <3> QED BY <2>3, <3>2, <3>3
    <2>6. page <= segs[m].align
      BY Zenon, <2>3, WholePages
    <2>7. align_down(segs[m].vaddr, segs[m].align) = 0
      <3> DEFINE v == segs[m].vaddr
                 a == segs[m].align
      <3>1. v \in Nat /\ a \in Nat \ {0} /\ v < a
        BY <2>3, <2>4, <2>5, <2>6
      <3> HIDE DEF v, a
      <3>2. v = a * 0 + v /\ v \in 0..(a - 1) /\ 0 \in Int /\ v \in Int
        BY <3>1
      <3>3. v % a = v
        BY Zenon, <3>1, <3>2, RemainderUnique
      <3>4. align_down(v, a) = v - (v % a)
        BY Zenon, <3>1, AlignDown
      <3>5. align_down(v, a) = 0
        BY <3>1, <3>3, <3>4
      <3> QED BY <3>5 DEF v, a
    <2>8. FirstStart(ranges) = 0
      BY Zenon, <2>2, <2>3, <2>7
    <2> QED BY Zenon, <1>7, <1>9, <2>8 DEF MapExecVirtAddr, ranges, size
  <1> QED BY <1>8, <1>9

-----------------------------------------------------------------------------
(* The records keep their fields.                                           *)

(* One more item.                                                           *)
LEMMA AppendShape ==
  ASSUME NEW s, s \in Seq({s[i] : i \in DOMAIN s}), NEW x
  PROVE  /\ Append(s, x) \in Seq({Append(s, x)[i] : i \in DOMAIN Append(s, x)})
         /\ DOMAIN Append(s, x) = DOMAIN s \cup {Len(s) + 1}
         /\ Append(s, x)[Len(s) + 1] = x
         /\ \A i \in DOMAIN s : i # Len(s) + 1 /\ Append(s, x)[i] = s[i]
  <1> DEFINE t == Append(s, x)
             n == Len(s)
             S == {s[i] : i \in DOMAIN s}
             T == {t[i] : i \in DOMAIN t}
  <1>1. s \in Seq(S) /\ \A i \in 1..n : s[i] \in S
    OBVIOUS
  <1>2. s \in Seq(S \cup {x})
    <2> HIDE DEF S
    <2> QED BY <1>1
  <1>3. t \in Seq(S \cup {x})
    <2> HIDE DEF S
    <2> QED BY <1>2
  <1>4. /\ DOMAIN t = DOMAIN s \cup {n + 1} /\ t[n + 1] = x
        /\ \A i \in DOMAIN s : i # n + 1 /\ t[i] = s[i]
    <2> HIDE DEF S
    <2> QED BY <1>2
  <1>5. \A i \in 1..Len(t) : t[i] \in T
    <2> HIDE DEF S
    <2> QED BY <1>2
  <1>6. t \in Seq(T)
    <2> HIDE DEF S, t, T
    <2> QED BY <1>3, <1>5
  <1> QED BY <1>4, <1>6

(* A step of load_elf() that only changes fields of tmp_ctx: the identity   *)
(* of the file and what was read of its segments stay.                      *)
GoesOn ==
  /\ UNCHANGED <<proc, pid, sample, cache>> /\ TmpShape'
  /\ ld.pc \in Building /\ ld'.pc \in (Building \ {"debug"}) \cup {"exit"}
  /\ ld'.file = ld.file /\ ld'.key = ld.key

SameRanges ==
  /\ ld'.ranges = ld.ranges /\ ld'.first = ld.first
  /\ "exec_ranges" \in ld'.held <=> "exec_ranges" \in ld.held

(* The steps between the executable ranges and the entry.                   *)
LEMMA StepsGoOn ==
  ASSUME TmpShape, \/ LoadDebugFile \/ LoadCfi \/ LoadNames \/ LoadBuilt \/ LoadErrFree
                   \/ ld.pc = "publish" /\ ld' = [ld EXCEPT !.pc = "exit"]
                        /\ UNCHANGED <<proc, pid, sample, cache>>
  PROVE  GoesOn /\ SameRanges
  <1>1. CASE LoadDebugFile
    <2>1. ld.pc = "opendebug" /\ UNCHANGED <<proc, pid, sample, cache>>
      BY <1>1 DEF LoadDebugFile
    <2>2. \/ ld' = [ld EXCEPT !.pc = "exit"]
          \/ ld' = [ld EXCEPT !.pc = "cfi", !.held = @ \cup {"debug_elf"}, !.fds = @ + 1,
                             !.scn = scan_all_elf_scn(@, ld.debug)]
          \/ ld' = [ld EXCEPT !.pc = "exit", !.held = @ \cup {"debug_elf"}, !.fds = @ + 1]
      BY Zenon, <1>1 DEF LoadDebugFile
    <2>3. /\ TmpShape' /\ ld'.file = ld.file /\ ld'.key = ld.key
          /\ ld'.ranges = ld.ranges /\ ld'.first = ld.first /\ ld'.pc \in {"cfi", "exit"}
          /\ ld'.held \in {ld.held, ld.held \cup {"debug_elf"}}
      BY Zenon, <2>2 DEF TmpShape
    <2> QED BY <2>1, <2>3 DEF Building, GoesOn, SameRanges
  <1>2. CASE LoadCfi
    <2>1. /\ ld.pc = "cfi" /\ UNCHANGED <<proc, pid, sample, cache>>
          /\ \/ ld' = [ld EXCEPT !.pc = "fill", !.held = @ \cup {"gu_cfi"}]
             \/ ld' = [ld EXCEPT !.pc = "fill"]
      BY Zenon, <1>2 DEF LoadCfi
    <2>2. /\ TmpShape' /\ ld'.file = ld.file /\ ld'.key = ld.key
          /\ ld'.ranges = ld.ranges /\ ld'.first = ld.first /\ ld'.pc = "fill"
          /\ ld'.held \in {ld.held, ld.held \cup {"gu_cfi"}}
      BY Zenon, <2>1 DEF TmpShape
    <2> QED BY <2>1, <2>2 DEF Building, GoesOn, SameRanges
  <1>3. CASE LoadNames
    <2>1. /\ ld.pc = "fill" /\ UNCHANGED <<proc, pid, cache, sample>>
          /\ \E n, kept, o :
               LET arena == golang_strip_name_to_arena(n) IN
               \/ ld' = [ld EXCEPT !.pc = "build", !.owner = o, !.names = n, !.kept = kept,
                                   !.held = @ \cup arena]
               \/ ld' = [ld EXCEPT !.pc = "err_free", !.owner = o, !.names = n,
                                   !.held = @ \cup arena]
      BY Zenon, <1>3 DEF LoadNames
    <2>2. \A n : "exec_ranges" \notin golang_strip_name_to_arena(n)
      BY DEF golang_strip_name_to_arena
    <2> QED BY ZenonT(30), <2>1, <2>2 DEF TmpShape, Building, GoesOn, SameRanges
  <1>4. CASE LoadBuilt
    <2>1. /\ ld.pc = "build" /\ UNCHANGED <<proc, pid, sample, cache>>
          /\ \/ ld' = [ld EXCEPT !.pc = "publish", !.held = @ \cup {"symbols"},
                                 !.items = items, !.array = array]
             \/ ld' = [ld EXCEPT !.pc = "err_free", !.kept = <<>>]
      BY Zenon, <1>4 DEF LoadBuilt
    <2>2. /\ TmpShape' /\ ld'.file = ld.file /\ ld'.key = ld.key
          /\ ld'.ranges = ld.ranges /\ ld'.first = ld.first /\ ld'.pc \in {"publish", "err_free"}
          /\ ld'.held \in {ld.held, ld.held \cup {"symbols"}}
      BY ZenonT(30), <2>1 DEF TmpShape
    <2> QED BY <2>1, <2>2 DEF Building, GoesOn, SameRanges
  <1>5. CASE LoadErrFree
    BY Zenon, <1>5 DEF LoadErrFree, TmpShape, Building, GoesOn, SameRanges
  <1>6. CASE ld.pc = "publish" /\ ld' = [ld EXCEPT !.pc = "exit"] /\ UNCHANGED <<proc, pid, sample, cache>>
    BY <1>6 DEF TmpShape, Building, GoesOn, SameRanges
  <1> QED BY <1>1, <1>2, <1>3, <1>4, <1>5, <1>6

(* The ranges are read.                                                     *)
LEMMA RangesGoOn ==
  ASSUME TmpShape, LoadDebugPath
  PROVE  GoesOn /\ ld.pc = "debug" /\ ("exec_ranges" \notin ld.held => RangesRead(ld'))
  <1>1. PICK ranges \in {ExecRanges(Content[ld.file].segs), <<>>} :
          LET new == {"debug_file_path"} \cup (IF ranges = <<>> THEN {} ELSE {"exec_ranges"})
          IN ld' = [ld EXCEPT !.pc = IF DebugFile = NoNode THEN "cfi" ELSE "opendebug",
                              !.debug = DebugFile, !.ranges = ranges, !.held = @ \cup new,
                              !.first = IF ranges # <<>> THEN FirstStart(ranges)
                                        ELSE ExecVirtAddr(Content[ld.file].segs)]
    BY Zenon DEF LoadDebugPath
  <1>2. ld.pc = "debug" /\ UNCHANGED <<proc, pid, sample, cache>>
    BY DEF LoadDebugPath
  <1>3. /\ TmpShape' /\ ld'.pc \in {"cfi", "opendebug"} /\ ld'.file = ld.file /\ ld'.key = ld.key
        /\ ld'.ranges = ranges /\ (ranges # <<>> => ld'.first = FirstStart(ranges))
        /\ "exec_ranges" \in ld'.held => "exec_ranges" \in ld.held \/ ranges # <<>>
    BY Zenon, <1>1 DEF TmpShape
  <1>4. GoesOn
    BY <1>2, <1>3 DEF GoesOn, Building
  <1>5. "exec_ranges" \notin ld.held => RangesRead(ld')
    BY <1>1, <1>3 DEF RangesRead
  <1> QED BY <1>2, <1>4, <1>5

(* The steps before the identity of the file is known.                      *)
Begins ==
  /\ UNCHANGED <<proc, pid, sample, cache>> /\ TmpShape'
  /\ ld.pc # "idle" \/ Loading
  /\ ld.pc \in {"idle", "open", "scan"} /\ ld'.pc \in {"idle", "open", "scan", "exit", "loaded"}
  /\ "exec_ranges" \in ld'.held => "exec_ranges" \in ld.held
  /\ ld'.pc = "loaded" => ld.pc = "idle" /\ ld'.key = ld.key

LEMMA StepsBegin ==
  ASSUME TmpShape, \/ DumpVdso \/ LoadBegin \/ LoadOpened
                   \/ LoadScan /\ (ld.file \notin File \/ ~Content[ld.file].elf)
  PROVE  Begins
  <1>1. CASE DumpVdso
    BY <1>1 DEF DumpVdso, TmpShape, Begins
  <1>2. CASE LoadBegin
    <2>1. /\ ld.pc = "idle" /\ Loading /\ UNCHANGED <<proc, pid, sample, cache>>
          /\ \E held \in {{"base_name"}, {"base_name", "elf_file_path"}} : \E file :
               \/ ld' = [[NoTmp EXCEPT !.held = held] EXCEPT !.pc = "exit"]
               \/ ld' = [[NoTmp EXCEPT !.held = held] EXCEPT !.pc = "scan", !.file = file, !.fds = 1]
               \/ ld' = [[NoTmp EXCEPT !.held = held] EXCEPT !.pc = "open"]
      BY Zenon, <1>2 DEF LoadBegin
    <2>a. PICK held \in {{"base_name"}, {"base_name", "elf_file_path"}} : \E file :
               \/ ld' = [[NoTmp EXCEPT !.held = held] EXCEPT !.pc = "exit"]
               \/ ld' = [[NoTmp EXCEPT !.held = held] EXCEPT !.pc = "scan", !.file = file, !.fds = 1]
               \/ ld' = [[NoTmp EXCEPT !.held = held] EXCEPT !.pc = "open"]
      BY Zenon, <2>1
    <2>2. PICK file :
               \/ ld' = [[NoTmp EXCEPT !.held = held] EXCEPT !.pc = "exit"]
               \/ ld' = [[NoTmp EXCEPT !.held = held] EXCEPT !.pc = "scan", !.file = file, !.fds = 1]
               \/ ld' = [[NoTmp EXCEPT !.held = held] EXCEPT !.pc = "open"]
      BY Zenon, <2>a
    <2>3. "exec_ranges" \notin held
      OBVIOUS
    <2>4. /\ TmpShape' /\ ld'.pc \in {"exit", "scan", "open"} /\ ld'.held = held /\ ld'.key = NoNode
      BY Zenon, <2>2 DEF NoTmp, TmpShape
    <2> QED BY <2>1, <2>3, <2>4 DEF Begins
  <1>3. CASE LoadOpened
    BY Zenon, <1>3 DEF LoadOpened, TmpShape, Begins
  <1>4. CASE LoadScan /\ (ld.file \notin File \/ ~Content[ld.file].elf)
    <2>1. /\ ld.pc = "scan" /\ UNCHANGED <<proc, pid, sample, cache>>
          /\ \/ ld' = [ld EXCEPT !.pc = "exit"]
             \/ ld' = [ld EXCEPT !.pc = "exit", !.held = @ \cup {"elf"}]
      BY Zenon, <1>4 DEF LoadScan
    <2>2. /\ TmpShape' /\ ld'.key = ld.key /\ ld'.pc = "exit"
          /\ ld'.held \in {ld.held, ld.held \cup {"elf"}}
      BY Zenon, <2>1 DEF TmpShape
    <2> QED BY <2>1, <2>2 DEF Begins
  <1> QED BY <1>1, <1>2, <1>3, <1>4

(* The identity is known: an entry with it is shared.                       *)
Identifies ==
  /\ UNCHANGED <<proc, pid, sample>> /\ TmpShape' /\ ld.pc = "scan" /\ ld.file \in File
  /\ ld'.file = ld.file /\ ld'.key = KeyOf(ld.file) /\ ld'.ranges = ld.ranges
  /\ "exec_ranges" \in ld'.held => "exec_ranges" \in ld.held
  /\ \/ /\ ld'.pc = "hit" /\ ld'.key \in DOMAIN cache
        /\ cache' = [cache EXCEPT ![ld'.key].refcnt = @ + 1]
     \/ ld'.pc = "debug" /\ ld'.key \notin DOMAIN cache /\ UNCHANGED cache

LEMMA ScanIdentifies ==
  ASSUME TmpShape, LoadScan, ld.file \in File, Content[ld.file].elf
  PROVE  Identifies
  <1> DEFINE key == KeyOf(ld.file)
             hit == key \in DOMAIN cache
  <1>1. /\ ld' = [ld EXCEPT !.pc = IF hit THEN "hit" ELSE "debug", !.key = key,
                            !.scn = scan_all_elf_scn(@, ld.file),
                            !.held = @ \cup {"elf", "build_id"}]
        /\ cache' = IF hit THEN [cache EXCEPT ![key].refcnt = @ + 1] ELSE cache
        /\ ld.pc = "scan" /\ UNCHANGED <<proc, pid, sample>>
    BY Zenon DEF LoadScan, KeyOf
  <1> HIDE DEF key
  <1>2. /\ TmpShape' /\ ld'.file = ld.file /\ ld'.key = key /\ ld'.ranges = ld.ranges
        /\ ld'.pc = (IF hit THEN "hit" ELSE "debug")
        /\ "exec_ranges" \in ld'.held => "exec_ranges" \in ld.held
    BY Zenon, <1>1 DEF TmpShape
  <1> QED BY Zenon, <1>1, <1>2 DEF Identifies, key

(* The load ends: with the entry it published or found, or without one.     *)
Published ==
  /\ ld.pc = "publish"
  /\ LET e == [file |-> ld.file, debug |-> ld.debug, refcnt |-> 1, owner |-> ld.owner,
               held |-> ld.held \ {"elf", "debug_elf"}, names |-> ld.names, kept |-> ld.kept,
               ranges |-> ld.ranges, first |-> ld.first, items |-> ld.items, array |-> ld.array]
     IN cache' = [k \in DOMAIN cache \cup {ld.key} |-> IF k = ld.key THEN e ELSE cache[k]]

Ends ==
  /\ UNCHANGED <<proc, pid, sample>> /\ TmpShape' /\ ld.pc # "idle"
  /\ ld'.pc = "loaded"
  /\ \/ Published /\ ld'.key = ld.key
     \/ ld.pc = "hit" /\ ld'.key = ld.key /\ UNCHANGED cache
     \/ ld.pc = "exit" /\ ld'.key = NoNode /\ UNCHANGED cache

LEMMA StepsEnd ==
  ASSUME TmpShape, LoadPublish \/ LoadExit
  PROVE  Ends \/ (GoesOn /\ SameRanges)
  <1>1. CASE LoadExit
    BY Zenon, <1>1 DEF LoadExit, NoTmp, TmpShape, Ends
  <1>2. CASE LoadPublish
    <2>1. /\ ld.pc = "publish" /\ UNCHANGED <<proc, pid, sample>>
          /\ \/ Published /\ ld' = [NoTmp EXCEPT !.pc = "loaded", !.key = ld.key]
             \/ ld' = [ld EXCEPT !.pc = "exit"] /\ UNCHANGED cache
      BY Zenon, <1>2 DEF LoadPublish, Published
    <2>2. CASE Published /\ ld' = [NoTmp EXCEPT !.pc = "loaded", !.key = ld.key]
      <3>1. TmpShape' /\ ld'.pc = "loaded" /\ ld'.key = ld.key
        BY Zenon, <2>2 DEF NoTmp, TmpShape
      <3> QED BY <2>1, <2>2, <3>1 DEF Ends
    <2>3. CASE ld' = [ld EXCEPT !.pc = "exit"] /\ UNCHANGED cache
      BY <2>1, <2>3, StepsGoOn
    <2> QED BY <2>1, <2>2, <2>3
  <1> QED BY <1>1, <1>2

(* An item is added, with or without an ELF.                                *)
AddsItem ==
  /\ UNCHANGED <<proc, sample, cache>> /\ ld.pc = "loaded" /\ ld' = NoTmp
  /\ \E exec :
       /\ pid' = [pid EXCEPT !.items = Append(@, [start |-> Map.start, end |-> Map.end,
                                                  key |-> ld.key, exec |-> exec])]
       /\ ld.key # NoNode =>
            exec = MapExecVirtAddr(cache[ld.key].ranges, cache[ld.key].first, Map)

(* All items are put back, with the one that could not be added.            *)
Drops ==
  /\ UNCHANGED <<proc, sample>> /\ pid' = NoPid /\ (pid.pc = "loading" \/ sample.pc = "none")
  /\ \/ ld.pc = "idle" /\ UNCHANGED ld /\ cache' = Put(cache, pid.items)
     \/ /\ ld.pc = "loaded" /\ ld' = NoTmp
        /\ \E x : x.key = ld.key /\ cache' = Put(cache, Append(pid.items, x))

(* The maps are read, or the context is ready.                              *)
Readies ==
  /\ UNCHANGED <<proc, sample, ld, cache>> /\ ld.pc = "idle"
  /\ \/ /\ pid.pc = "none"
        /\ pid' = [pc |-> "loading", maps |-> gu_get_maps_info(proc.lines), items |-> <<>>]
     \/ pid.pc = "loading" /\ pid' = [pid EXCEPT !.pc = "loaded"]

(* The steps of gu_load_pid() and of the end of a context.                  *)
LEMMA PidSteps ==
  ASSUME ShapeInv, ReadMaps \/ AddItem \/ PidLoaded \/ PidDropped
  PROVE  AddsItem \/ Drops \/ Readies
  <1>1. CASE ReadMaps
    BY <1>1 DEF ReadMaps, Readies, ShapeInv, Busy, Loading
  <1>2. CASE AddItem
    <2>1. /\ UNCHANGED <<proc, sample>> /\ ld.pc = "loaded" /\ ld' = NoTmp
          /\ \/ AddsItem
             \/ CleanupItems(Append(pid.items, [start |-> Map.start, end |-> Map.end, key |-> ld.key,
                                                exec |-> 0]))
      BY Zenon, <1>2 DEF AddItem, AddsItem
    <2>2. CASE CleanupItems(Append(pid.items, [start |-> Map.start, end |-> Map.end, key |-> ld.key,
                                               exec |-> 0]))
      <3> DEFINE x == [start |-> Map.start, end |-> Map.end, key |-> ld.key, exec |-> 0]
      <3>1. x.key = ld.key
        OBVIOUS
      <3> HIDE DEF x
      <3>2. pid' = NoPid /\ cache' = Put(cache, Append(pid.items, x))
        BY Zenon, <2>2 DEF CleanupItems, x
      <3>3. pid.pc = "loading"
        BY <2>1 DEF ShapeInv, Busy, Loading
      <3> QED BY Zenon, <2>1, <3>1, <3>2, <3>3 DEF Drops
    <2> QED BY Zenon, <2>1, <2>2
  <1>3. CASE PidLoaded \/ PidDropped
    <2>1. /\ UNCHANGED <<proc, ld, sample>> /\ ld.pc = "idle"
          /\ pid.pc = "loading" \/ sample.pc = "none"
      BY <1>3 DEF PidLoaded, PidDropped, ShapeInv, Busy, Loading
    <2>2. \/ CleanupItems(pid.items)
          \/ pid.pc = "loading" /\ pid' = [pid EXCEPT !.pc = "loaded"] /\ UNCHANGED cache
      BY Zenon, <1>3 DEF PidLoaded, PidDropped
    <2> QED BY Zenon, <2>1, <2>2 DEF Drops, Readies, CleanupItems
  <1> QED BY <1>1, <1>2, <1>3

(* The item that is added is the one of the mapping that was loaded.        *)
LEMMA ItemAdded ==
  ASSUME PidShape, NEW x, pid' = [pid EXCEPT !.items = Append(@, x)]
  PROVE  /\ pid'.pc = pid.pc /\ pid'.maps = pid.maps /\ pid'.items = Append(pid.items, x)
         /\ pid' = [pc |-> pid'.pc, maps |-> pid'.maps, items |-> pid'.items]
         /\ pid'.items \in Seq({pid'.items[i] : i \in DOMAIN pid'.items})
         /\ DOMAIN pid'.items = DOMAIN pid.items \cup {Next_i} /\ pid'.items[Next_i] = x
         /\ \A i \in DOMAIN pid.items : i # Next_i /\ pid'.items[i] = pid.items[i]
  <1>1. /\ pid'.pc = pid.pc /\ pid'.maps = pid.maps /\ pid'.items = Append(pid.items, x)
        /\ pid' = [pc |-> pid'.pc, maps |-> pid'.maps, items |-> pid'.items]
    BY Zenon DEF PidShape
  <1>2. pid.items \in Seq({pid.items[i] : i \in DOMAIN pid.items})
    BY Zenon DEF PidShape
  <1> DEFINE s == pid.items
             t == pid'.items
  <1>3. s \in Seq({s[i] : i \in DOMAIN s}) /\ t = Append(s, x) /\ Next_i = Len(s) + 1
    BY Zenon, <1>1, <1>2 DEF Next_i
  <1> HIDE DEF s, t
  <1>4. /\ t \in Seq({t[i] : i \in DOMAIN t})
        /\ DOMAIN t = DOMAIN s \cup {Next_i} /\ t[Next_i] = x
        /\ \A i \in DOMAIN s : i # Next_i /\ t[i] = s[i]
    <2>1. /\ Append(s, x) \in Seq({Append(s, x)[i] : i \in DOMAIN Append(s, x)})
          /\ DOMAIN Append(s, x) = DOMAIN s \cup {Len(s) + 1} /\ Append(s, x)[Len(s) + 1] = x
          /\ \A i \in DOMAIN s : i # Len(s) + 1 /\ Append(s, x)[i] = s[i]
      BY <1>3, AppendShape
    <2> QED BY Zenon, <1>3, <2>1
  <1> QED BY Zenon, <1>1, <1>4 DEF s, t

(* Nothing is mapped.                                                       *)
LEMMA EmptyShape ==
  ASSUME proc' \in Process, pid'.items = <<>>,
         pid' = [pc |-> pid'.pc, maps |-> pid'.maps, items |-> pid'.items]
  PROVE  PidShape'
  <1>1. <<>> \in Seq({pid'.items[i] : i \in DOMAIN pid'.items})
    OBVIOUS
  <1> QED BY Zenon, <1>1 DEF PidShape

(* The shapes in the steps of the context.                                  *)
LEMMA PidStepsShape ==
  ASSUME ShapeInv, AddsItem \/ Drops \/ Readies
  PROVE  ShapeInv'
  <1>0. TmpShape /\ PidShape /\ Busy /\ proc \in Process /\ proc' = proc
    BY Zenon DEF ShapeInv, PidShape, AddsItem, Drops, Readies
  <1>1. ld'.pc = "idle" /\ TmpShape' /\ Busy'
    <2>1. ld' = NoTmp \/ (ld' = ld /\ ld.pc = "idle")
      BY Zenon DEF AddsItem, Drops, Readies
    <2>2. CASE ld' = NoTmp
      BY <2>2 DEF NoTmp, TmpShape, Busy
    <2>3. CASE ld' = ld /\ ld.pc = "idle"
      BY Zenon, <1>0, <2>3 DEF TmpShape, Busy
    <2> QED BY <2>1, <2>2, <2>3
  <1>2. CASE AddsItem
    <2>1. PICK x : pid' = [pid EXCEPT !.items = Append(@, x)]
      BY Zenon, <1>2 DEF AddsItem
    <2>2. pid.pc # "none"
      BY <1>0, <1>2 DEF AddsItem, Busy, Loading
    <2>3. PidShape'
      BY Zenon, <1>0, <2>1, <2>2, ItemAdded DEF PidShape
    <2> QED BY <1>1, <2>3 DEF ShapeInv
  <1>3. CASE Drops
    <2>1. pid'.items = <<>> /\ pid' = [pc |-> pid'.pc, maps |-> pid'.maps, items |-> pid'.items]
      BY <1>3 DEF Drops, NoPid
    <2> QED BY <1>0, <1>1, <2>1, EmptyShape DEF ShapeInv
  <1>4. CASE pid' = [pc |-> "loading", maps |-> gu_get_maps_info(proc.lines), items |-> <<>>]
    <2>1. pid'.items = <<>> /\ pid' = [pc |-> pid'.pc, maps |-> pid'.maps, items |-> pid'.items]
      BY <1>4
    <2> QED BY <1>0, <1>1, <2>1, EmptyShape DEF ShapeInv
  <1>5. CASE pid.pc = "loading" /\ pid' = [pid EXCEPT !.pc = "loaded"]
    <2>1. /\ pid'.items = pid.items /\ pid'.pc = "loaded"
          /\ pid' = [pc |-> pid'.pc, maps |-> pid'.maps, items |-> pid'.items]
      BY Zenon, <1>0, <1>5 DEF PidShape
    <2>2. PidShape'
      BY Zenon, <1>0, <2>1 DEF PidShape
    <2> QED BY <1>1, <2>2 DEF ShapeInv
  <1> QED BY Zenon, <1>2, <1>3, <1>4, <1>5 DEF Readies

(* The shapes in the steps of a load.                                       *)
LEMMA TmpStepsShape ==
  ASSUME ShapeInv, UNCHANGED <<proc, pid>>, TmpShape', ld.pc # "idle" \/ Loading \/ ld'.pc = "idle"
  PROVE  ShapeInv'
  <1>1. PidShape'
    BY Zenon DEF ShapeInv, PidShape
  <1>2. Busy'
    BY DEF ShapeInv, Busy, Loading, Next_i
  <1> QED BY <1>1, <1>2 DEF ShapeInv

(* The steps that leave load and context alone.                             *)
Quiet == UNCHANGED <<proc, pid, ld, cache>>

Sweeps ==
  /\ UNCHANGED <<proc, pid, ld, sample>> /\ ld.pc = "idle"
  /\ \E k \in DOMAIN cache : cache[k].refcnt = 0 /\ cache' = [j \in DOMAIN cache \ {k} |-> cache[j]]

(* Every step is one of these.                                              *)
LEMMA Steps ==
  ASSUME ShapeInv, [LoadNext]_allVars
  PROVE  \/ AddsItem \/ Drops \/ Readies \/ Begins \/ Identifies \/ LoadDebugPath
         \/ (GoesOn /\ SameRanges) \/ Ends \/ Quiet \/ Sweeps
  <1>0. TmpShape
    BY DEF ShapeInv
  <1>1. CASE ReadMaps \/ AddItem \/ PidLoaded \/ PidDropped
    BY Zenon, <1>1, PidSteps
  <1>2. CASE \/ DumpVdso \/ LoadBegin \/ LoadOpened \/ LoadScan
    BY Zenon, <1>0, <1>2, StepsBegin, ScanIdentifies
  <1>3. CASE LoadDebugFile \/ LoadCfi \/ LoadNames \/ LoadBuilt \/ LoadErrFree
    BY Zenon, <1>0, <1>3, StepsGoOn
  <1>4. CASE LoadPublish \/ LoadExit
    BY Zenon, <1>0, <1>4, StepsEnd
  <1>5. CASE Sweep
    BY Zenon, <1>5 DEF Sweep, Sweeps
  <1>6. CASE \/ Walk \/ Build \/ Search \/ Found \/ Answered
             \/ Rename /\ UNCHANGED <<vars, loadVars>>
             \/ UNCHANGED allVars
    BY <1>6 DEF Walk, Build, Search, Found, Answered, allVars, loadVars, Quiet
  <1>7. CASE \E i \in DOMAIN pid.maps : \E x \in pid.maps[i].start..(pid.maps[i].end - 1) : Sample(x)
    BY Zenon, <1>7 DEF Sample, Quiet
  <1>8. CASE LoadStep
    BY <1>1, <1>2, <1>3, <1>4, <1>6, <1>8 DEF LoadStep
  <1> QED BY Zenon, <1>1, <1>5, <1>6, <1>7, <1>8 DEF LoadNext

(* Every step keeps the shapes.                                             *)
LEMMA ShapeNext ==
  ASSUME ShapeInv, [LoadNext]_allVars
  PROVE  ShapeInv'
  <1>0. TmpShape
    BY DEF ShapeInv
  <1>1. CASE AddsItem \/ Drops \/ Readies
    BY Zenon, <1>1, PidStepsShape
  <1>2. CASE Begins \/ Identifies \/ GoesOn \/ Ends
    BY <1>2, TmpStepsShape DEF Begins, Identifies, GoesOn, Ends, Building
  <1>3. CASE LoadDebugPath
    <2>1. ld.pc = "debug" /\ UNCHANGED <<proc, pid>>
      BY <1>3 DEF LoadDebugPath
    <2>2. TmpShape'
      BY Zenon, <1>0, <1>3 DEF LoadDebugPath, TmpShape
    <2> QED BY <2>1, <2>2, TmpStepsShape
  <1>4. CASE Quiet \/ Sweeps
    <2>1. UNCHANGED <<proc, pid, ld>>
      BY <1>4 DEF Quiet, Sweeps
    <2> QED BY Zenon, <2>1 DEF ShapeInv, TmpShape, PidShape, Busy, Loading, Next_i
  <1> QED BY Zenon, <1>1, <1>2, <1>3, <1>4, Steps

(* Nothing is loaded yet.                                                   *)
LEMMA ShapeInit ==
  ASSUME LoadInit
  PROVE  ShapeInv
  <1>1. proc \in Process /\ pid = NoPid /\ ld = NoTmp
    BY Zenon DEF LoadInit
  <1>2. TmpShape /\ Busy
    BY <1>1 DEF NoTmp, TmpShape, Busy
  <1>3. pid.items = <<>> /\ pid = [pc |-> pid.pc, maps |-> pid.maps, items |-> pid.items]
    BY <1>1 DEF NoPid
  <1>4. <<>> \in Seq({pid.items[i] : i \in DOMAIN pid.items})
    OBVIOUS
  <1>5. PidShape
    BY Zenon, <1>1, <1>3, <1>4 DEF PidShape
  <1> QED BY <1>2, <1>5 DEF ShapeInv

(* The shapes hold always.                                                  *)
LEMMA ShapeAlways == LoadSpec => []ShapeInv
  <1>1. LoadInit => ShapeInv
    BY ShapeInit
  <1>2. ShapeInv /\ [LoadNext]_allVars => ShapeInv'
    BY ShapeNext
  <1> QED BY <1>1, <1>2, PTL DEF LoadSpec

-----------------------------------------------------------------------------
(* Deleted mappings.                                                        *)

(* The live file of a deleted mapping is the one load_elf() opens.          *)
LEMMA HostFileIsLive ==
  ASSUME NEW map, NEW i \in Nat \ {0}, LiveMapping(map)
  PROVE  HostFile(map, i) = LiveFile(map, i)
  <1>1. CASE i = 1
    BY <1>1 DEF HostFile, LiveFile
  <1>2. CASE i > 1
    BY <1>2 DEF HostFile, LiveFile
  <1> QED BY <1>1, <1>2

(* What is mapped where is up to the process.                               *)
LEMMA MappingsStay ==
  ASSUME UNCHANGED proc
  PROVE  \A map, i, key : /\ LiveMapping(map)' <=> LiveMapping(map)
                          /\ LiveFile(map, i)' = LiveFile(map, i)
                          /\ ReadFrom(key, map, i)' <=> ReadFrom(key, map, i)
  BY DEF LiveMapping, ReadFrom, LiveFile, MapFile

(* Steps that leave the maps, the items and the sample alone.               *)
LEMMA MappedByTmp ==
  ASSUME MappedInv, UNCHANGED <<proc, pid, sample>>,
         ld'.pc = "idle" => ld'.key = NoNode,
         (ld'.pc # "idle" /\ LiveMapping(Map)) =>
           /\ ld'.pc # "open"
           /\ ld'.pc \in Identified \cup {"scan"} =>
                ld'.file = LiveFile(Map, Next_i) /\ ld'.file # NoNode
           /\ ld'.pc \in Identified => ReadFrom(ld'.key, Map, Next_i)
           /\ ld'.pc = "loaded" => ld'.key = NoNode \/ ReadFrom(ld'.key, Map, Next_i)
  PROVE  MappedInv'
  <1>1. Map' = Map /\ Next_i' = Next_i
    BY DEF Map, Next_i
  <1>2. \A map, i, key : /\ LiveMapping(map)' <=> LiveMapping(map)
                         /\ LiveFile(map, i)' = LiveFile(map, i)
                         /\ ReadFrom(key, map, i)' <=> ReadFrom(key, map, i)
    BY Zenon, MappingsStay
  <1>3. MapsRead' /\ SampleMapped'
    BY Zenon DEF MappedInv, MapsRead, SampleMapped
  <1>4. ItemsMapped'
    BY <1>2 DEF MappedInv, ItemsMapped
  <1>5. TmpMapped'
    <2>1. LiveMapping(Map)' <=> LiveMapping(Map)
      BY Zenon, <1>1, <1>2
    <2>2. LiveFile(Map, Next_i)' = LiveFile(Map, Next_i)
      BY Zenon, <1>1, <1>2
    <2>3. ReadFrom(ld.key, Map, Next_i)' <=> ReadFrom(ld'.key, Map, Next_i)
      BY Zenon, <2>2 DEF ReadFrom
    <2> QED BY Zenon, <2>1, <2>2, <2>3 DEF TmpMapped
  <1> QED BY ZenonT(30), <1>3, <1>4, <1>5 DEF MappedInv

(* The file of a deleted mapping is opened, or the load gives up.           *)
LEMMA LoadBeginMapped ==
  ASSUME ShapeInv, MappedInv, LoadBegin
  PROVE  MappedInv'
  <1>1. UNCHANGED <<proc, pid, sample>>
    BY DEF LoadBegin
  <1>2. Next_i \in Nat \ {0}
    <2>1. pid.items \in Seq({pid.items[i] : i \in DOMAIN pid.items})
      BY DEF ShapeInv, PidShape
    <2> QED BY <2>1 DEF Next_i
  <1>3. PICK held \in {{"base_name"}, {"base_name", "elf_file_path"}} :
          LET tmp == [NoTmp EXCEPT !.held = held]
              file == HostFile(Map, Next_i)
          IN \/ ld' = [tmp EXCEPT !.pc = "exit"]
             \/ file # NoNode /\ ld' = [tmp EXCEPT !.pc = "scan", !.file = file, !.fds = 1]
             \/ ~LiveMapping(Map) /\ ld' = [tmp EXCEPT !.pc = "open"]
    BY Zenon DEF LoadBegin
  <1>4. \/ ld'.pc = "exit"
        \/ /\ ld'.pc = "scan" /\ ld'.file = HostFile(Map, Next_i)
           /\ HostFile(Map, Next_i) # NoNode
        \/ ld'.pc = "open" /\ ~LiveMapping(Map)
    BY Zenon, <1>3 DEF NoTmp
  <1>5. LiveMapping(Map) => HostFile(Map, Next_i) = LiveFile(Map, Next_i)
    BY <1>2, HostFileIsLive
  <1> QED BY <1>1, <1>4, <1>5, MappedByTmp DEF Identified, Building

(* The vDSO, the walk to a file that is still there, and a file that is no  *)
(* ELF.                                                                     *)
LEMMA LoadOpensMapped ==
  ASSUME ShapeInv, MappedInv,
         \/ DumpVdso \/ LoadOpened
         \/ LoadScan /\ (ld.file \notin File \/ ~Content[ld.file].elf)
  PROVE  MappedInv'
  <1>1. UNCHANGED <<proc, pid, sample>>
    BY DEF DumpVdso, LoadOpened, LoadScan
  <1>2. TmpShape
    BY DEF ShapeInv
  <1>3. \/ ld' = ld
        \/ ld.pc = "idle" /\ ld'.pc = "loaded" /\ ld'.key = ld.key
        \/ ld.pc = "open" /\ ld'.pc # "idle"
        \/ ld'.pc = "exit"
    <2>1. CASE DumpVdso
      BY <1>2, <2>1 DEF DumpVdso, TmpShape
    <2>2. CASE LoadOpened
      BY <1>2, <2>2 DEF LoadOpened, TmpShape
    <2>3. CASE LoadScan /\ (ld.file \notin File \/ ~Content[ld.file].elf)
      <3>1. \/ ld' = [ld EXCEPT !.pc = "exit"]
            \/ ld' = [ld EXCEPT !.pc = "exit", !.held = @ \cup {"elf"}]
        BY Zenon, <2>3 DEF LoadScan
      <3> QED BY Zenon, <1>2, <3>1 DEF TmpShape
    <2> QED BY <2>1, <2>2, <2>3
  <1>4. TmpMapped
    BY DEF MappedInv
  <1>5. (ld.pc # "idle" /\ LiveMapping(Map)) => ld.pc # "open"
    BY <1>4 DEF TmpMapped
  <1>6. CASE ld' = ld
    BY Zenon, <1>1, <1>4, <1>6, MappedByTmp DEF TmpMapped
  <1>7. CASE ld.pc = "idle" /\ ld'.pc = "loaded" /\ ld'.key = ld.key
    <2>1. ld'.key = NoNode
      BY Zenon, <1>4, <1>7 DEF TmpMapped
    <2> QED BY Zenon, <1>1, <1>7, <2>1, MappedByTmp DEF Identified, Building
  <1>8. CASE ld.pc = "open" /\ ld'.pc # "idle"
    BY Zenon, <1>1, <1>5, <1>8, MappedByTmp
  <1>9. CASE ld'.pc = "exit"
    BY ZenonT(30), <1>1, <1>9, MappedByTmp DEF Identified, Building
  <1> QED BY <1>3, <1>6, <1>7, <1>8, <1>9

(* The identity of the file that was opened.                                *)
LEMMA IdentifiesMapped ==
  ASSUME MappedInv, Identifies
  PROVE  MappedInv'
  <1>1. /\ UNCHANGED <<proc, pid, sample>> /\ ld.pc = "scan" /\ ld'.pc \in {"hit", "debug"}
        /\ ld'.file = ld.file /\ ld'.key = KeyOf(ld.file)
    BY DEF Identifies
  <1>2. LiveMapping(Map) => ld.file = LiveFile(Map, Next_i) /\ ld.file # NoNode
    BY <1>1 DEF MappedInv, TmpMapped
  <1>3. LiveMapping(Map) => ReadFrom(ld'.key, Map, Next_i)
    BY Zenon, <1>1, <1>2 DEF ReadFrom
  <1> QED BY <1>1, <1>2, <1>3, MappedByTmp

(* The later steps of a load.                                               *)
LEMMA GoesOnMapped ==
  ASSUME MappedInv, GoesOn
  PROVE  MappedInv'
  <1>1. /\ UNCHANGED <<proc, pid, sample>> /\ ld.pc \in Identified /\ ld.pc # "idle"
        /\ ld'.pc \in Identified \cup {"exit"} /\ ld'.file = ld.file /\ ld'.key = ld.key
    BY DEF GoesOn, Identified, Building
  <1>2. LiveMapping(Map) => /\ ld.file = LiveFile(Map, Next_i) /\ ld.file # NoNode
                            /\ ReadFrom(ld.key, Map, Next_i)
    BY <1>1 DEF MappedInv, TmpMapped
  <1>3. ld'.pc \notin {"idle", "open", "loaded"}
    BY Zenon, <1>1 DEF Identified, Building
  <1> QED BY ZenonT(30), <1>1, <1>2, <1>3, MappedByTmp

(* The load ends, with the key of its entry or without one.                 *)
LEMMA EndsMapped ==
  ASSUME MappedInv, Ends
  PROVE  MappedInv'
  <1>1. /\ UNCHANGED <<proc, pid, sample>> /\ ld'.pc = "loaded" /\ ld.pc # "idle"
        /\ ld'.key = NoNode \/ (ld.pc \in {"publish", "hit"} /\ ld'.key = ld.key)
    BY Zenon DEF Ends, Published
  <1>2. (ld.pc \in {"publish", "hit"} /\ LiveMapping(Map)) => ReadFrom(ld.key, Map, Next_i)
    BY <1>1 DEF MappedInv, TmpMapped, Identified, Building
  <1> QED BY Zenon, <1>1, <1>2, MappedByTmp DEF Identified, Building

(* No context: no item, and no sample.                                      *)
LEMMA NoContextMapped ==
  ASSUME MappedInv, UNCHANGED <<proc, sample>>, sample.pc = "none", ld'.pc = "idle",
         ld'.key = NoNode, pid'.items = <<>>, MapsRead'
  PROVE  MappedInv'
  <1>1. DOMAIN pid'.items = {}
    OBVIOUS
  <1>2. ItemsMapped'
    BY <1>1 DEF ItemsMapped
  <1>3. TmpMapped' /\ SampleMapped'
    BY DEF TmpMapped, SampleMapped
  <1> QED BY <1>2, <1>3 DEF MappedInv

(* The item of a mapping has its bounds, and the key that was loaded.       *)
LEMMA AddsItemMapped ==
  ASSUME ShapeInv, MappedInv, AddsItem
  PROVE  MappedInv'
  <1>1. UNCHANGED <<proc, sample>> /\ ld.pc = "loaded" /\ ld' = NoTmp
    BY DEF AddsItem
  <1>2. ld'.pc = "idle" /\ ld'.key = NoNode
    BY <1>1 DEF NoTmp
  <1>3. pid.pc = "loading" /\ Next_i <= Len(pid.maps) /\ sample.pc = "none" /\ PidShape
    BY <1>1 DEF ShapeInv, Busy, Loading, MappedInv, SampleMapped
  <1>4. PICK exec : pid' = [pid EXCEPT !.items =
                              Append(@, [start |-> Map.start, end |-> Map.end, key |-> ld.key,
                                         exec |-> exec])]
    BY Zenon DEF AddsItem
  <1> DEFINE x == [start |-> Map.start, end |-> Map.end, key |-> ld.key, exec |-> exec]
  <1>5. /\ x.start = Map.start /\ x.end = Map.end /\ x.key = ld.key
        /\ pid' = [pid EXCEPT !.items = Append(@, x)]
    BY <1>4
  <1> HIDE DEF x
  <1>6. /\ pid'.pc = pid.pc /\ pid'.maps = pid.maps
        /\ DOMAIN pid'.items = DOMAIN pid.items \cup {Next_i} /\ pid'.items[Next_i] = x
        /\ \A i \in DOMAIN pid.items : i # Next_i /\ pid'.items[i] = pid.items[i]
    BY Zenon, <1>3, <1>5, ItemAdded
  <1>7. Next_i \in 1..Len(pid.maps) /\ Map = pid.maps[Next_i]
    <2>1. pid.items \in Seq({pid.items[i] : i \in DOMAIN pid.items})
      BY <1>3 DEF PidShape
    <2> QED BY <1>3, <2>1 DEF Map, Next_i
  <1>8. (LiveMapping(Map) /\ x.key # NoNode) => ReadFrom(x.key, Map, Next_i)
    BY ZenonT(30), <1>1, <1>5 DEF MappedInv, TmpMapped
  <1>9. ASSUME NEW i \in DOMAIN pid'.items
        PROVE  /\ i \in 1..Len(pid.maps)
               /\ pid'.items[i].start = pid.maps[i].start /\ pid'.items[i].end = pid.maps[i].end
               /\ (LiveMapping(pid.maps[i]) /\ pid'.items[i].key # NoNode) =>
                    ReadFrom(pid'.items[i].key, pid.maps[i], i)
    <2>1. CASE i = Next_i
      BY Zenon, <1>5, <1>6, <1>7, <1>8, <2>1
    <2>2. CASE i \in DOMAIN pid.items
      BY Zenon, <1>6, <2>2 DEF MappedInv, ItemsMapped
    <2> QED BY <1>6, <2>1, <2>2
  <1>10. ItemsMapped'
    BY ZenonT(30), <1>1, <1>6, <1>9, MappingsStay DEF ItemsMapped
  <1>11. MapsRead' /\ TmpMapped' /\ SampleMapped'
    BY Zenon, <1>1, <1>2, <1>3, <1>6 DEF MappedInv, MapsRead, TmpMapped, SampleMapped
  <1> QED BY <1>10, <1>11 DEF MappedInv

(* The maps are read; the context is ready or dropped.                      *)
LEMMA PidStepsMapped ==
  ASSUME ShapeInv, MappedInv, Drops \/ Readies
  PROVE  MappedInv'
  <1>1. UNCHANGED <<proc, sample>> /\ sample.pc = "none"
    BY DEF Drops, Readies, MappedInv, SampleMapped
  <1>2. ld'.pc = "idle" /\ ld'.key = NoNode
    <2>1. ld' = NoTmp \/ (ld' = ld /\ ld.pc = "idle")
      BY Zenon DEF Drops, Readies
    <2> QED BY <2>1 DEF NoTmp, MappedInv, TmpMapped
  <1>3. CASE \/ pid' = NoPid
             \/ pid' = [pc |-> "loading", maps |-> gu_get_maps_info(proc.lines), items |-> <<>>]
    <2>1. pid'.items = <<>> /\ MapsRead'
      BY <1>1, <1>3 DEF NoPid, MapsRead
    <2> QED BY <1>1, <1>2, <2>1, NoContextMapped
  <1>4. CASE pid.pc = "loading" /\ pid' = [pid EXCEPT !.pc = "loaded"]
    <2>1. pid'.items = pid.items /\ pid'.maps = pid.maps
      BY <1>4 DEF ShapeInv, PidShape
    <2>2. ItemsMapped'
      BY Zenon, <1>1, <2>1, MappingsStay DEF MappedInv, ItemsMapped
    <2>3. MapsRead' /\ TmpMapped' /\ SampleMapped'
      BY <1>1, <1>2, <1>4, <2>1 DEF MappedInv, MapsRead, TmpMapped, SampleMapped
    <2> QED BY <2>2, <2>3 DEF MappedInv
  <1> QED BY Zenon, <1>3, <1>4 DEF Drops, Readies

(* The sample stays with its item.                                          *)
LEMMA SampleKept ==
  ASSUME MappedInv, UNCHANGED <<proc, pid, ld>>, SampleMapped'
  PROVE  MappedInv'
  <1>1. \A map, i, key : /\ LiveMapping(map)' <=> LiveMapping(map)
                         /\ LiveFile(map, i)' = LiveFile(map, i)
                         /\ ReadFrom(key, map, i)' <=> ReadFrom(key, map, i)
    BY ZenonT(30), MappingsStay
  <1>2. ItemsMapped' /\ MapsRead'
    BY Zenon, <1>1 DEF MappedInv, MapsRead, ItemsMapped
  <1>3. TmpMapped'
    BY Zenon, <1>1 DEF MappedInv, TmpMapped, Map, Next_i
  <1> QED BY <1>2, <1>3 DEF MappedInv

(* A sampled address is in the mapping of an item.                          *)
LEMMA SampleStepsMapped ==
  ASSUME MappedInv,
         \/ \E i \in DOMAIN pid.maps : \E x \in pid.maps[i].start..(pid.maps[i].end - 1) : Sample(x)
         \/ Found \/ Answered
  PROVE  MappedInv'
  <1>1. UNCHANGED <<proc, pid, ld>>
    BY Zenon DEF Sample, Found, Answered
  <1>2. SampleMapped'
    <2>1. CASE \E x \in Int : Sample(x)
      <3>1. PICK x \in Int : Sample(x)
        BY <2>1
      <3>2. PICK i \in DOMAIN pid.items :
              /\ pid.items[i].key # NoNode /\ pid.items[i].start <= x /\ x < pid.items[i].end
              /\ sample' = [pc |-> "search", x |-> x, key |-> pid.items[i].key, sym |-> NoNode,
                            relative |-> x - (pid.items[i].start - pid.items[i].exec)]
        BY ZenonT(30), <3>1 DEF Sample
      <3>3. /\ sample'.x = x /\ sample'.key = pid.items[i].key /\ pid.pc = "loaded"
            /\ sample'.relative = x - (pid.items[i].start - pid.items[i].exec)
        BY ZenonT(30), <3>1, <3>2 DEF Sample
      <3> QED BY <1>1, <3>2, <3>3 DEF SampleMapped
    <2>2. CASE Found
      <3>1. \E sym : sample' = [sample EXCEPT !.pc = "found", !.sym = sym]
        BY Zenon, <2>2 DEF Found
      <3>2. /\ sample.pc # "none" /\ sample'.x = sample.x /\ sample'.key = sample.key
            /\ sample'.relative = sample.relative
        BY <2>2, <3>1 DEF Found
      <3> QED BY Zenon, <1>1, <3>2 DEF MappedInv, SampleMapped
    <2>3. CASE Answered
      BY Zenon, <2>3 DEF Answered, NoSample, SampleMapped
    <2>4. \A i : \A x \in pid.maps[i].start..(pid.maps[i].end - 1) : x \in Int
      OBVIOUS
    <2> QED BY ZenonT(30), <2>1, <2>2, <2>3, <2>4
  <1> QED BY Zenon, <1>1, <1>2, SampleKept

(* Every step keeps items, load and sample with the mapped files.           *)
LEMMA MappedNext ==
  ASSUME ShapeInv, MappedInv, [LoadNext]_allVars
  PROVE  MappedInv'
  <1>0. TmpShape
    BY DEF ShapeInv
  <1>1. CASE ReadMaps \/ AddItem \/ PidLoaded \/ PidDropped
    BY Zenon, <1>1, PidSteps, AddsItemMapped, PidStepsMapped
  <1>2. CASE DumpVdso \/ LoadBegin \/ LoadOpened \/ LoadScan
    BY Zenon, <1>0, <1>2, LoadBeginMapped, LoadOpensMapped, ScanIdentifies, IdentifiesMapped
  <1>3. CASE LoadDebugPath \/ LoadDebugFile \/ LoadCfi \/ LoadNames \/ LoadBuilt \/ LoadErrFree
    BY Zenon, <1>0, <1>3, StepsGoOn, RangesGoOn, GoesOnMapped
  <1>4. CASE LoadPublish \/ LoadExit
    BY Zenon, <1>0, <1>4, StepsEnd, GoesOnMapped, EndsMapped
  <1>5. CASE \/ \E i \in DOMAIN pid.maps : \E x \in pid.maps[i].start..(pid.maps[i].end - 1) : Sample(x)
             \/ Found \/ Answered
    BY Zenon, <1>5, SampleStepsMapped
  <1>6. CASE \/ Walk \/ Build \/ Sweep \/ Search
             \/ Rename /\ UNCHANGED <<vars, loadVars>>
             \/ UNCHANGED allVars
    <2>1. UNCHANGED <<proc, pid, ld, sample>>
      BY Zenon, <1>6 DEF Walk, Build, Sweep, Search, allVars, loadVars
    <2>2. SampleMapped'
      BY Zenon, <2>1 DEF MappedInv, SampleMapped
    <2> QED BY Zenon, <2>1, <2>2, SampleKept
  <1>7. CASE LoadStep
    BY <1>1, <1>2, <1>3, <1>4, <1>6, <1>7 DEF LoadStep
  <1> QED BY Zenon, <1>1, <1>5, <1>6, <1>7 DEF LoadNext

(* Nothing is mapped yet.                                                   *)
LEMMA MappedInit ==
  ASSUME LoadInit
  PROVE  MappedInv
  <1>1. pid.pc = "none" /\ pid.items = <<>> /\ ld.pc = "idle" /\ ld.key = NoNode /\ sample.pc = "none"
    BY Zenon DEF LoadInit, NoPid, NoTmp, NoSample
  <1>2. DOMAIN pid.items = {}
    BY <1>1
  <1> QED BY Zenon, <1>1, <1>2 DEF MappedInv, MapsRead, ItemsMapped, TmpMapped, SampleMapped

(* Items, load and sample are always those of the mappings.                 *)
LEMMA MappedAlways == LoadSpec => []MappedInv
  <1>1. LoadInit => MappedInv
    BY MappedInit
  <1>2. ShapeInv /\ MappedInv /\ [LoadNext]_allVars => MappedInv'
    BY MappedNext
  <1> QED BY <1>1, <1>2, ShapeAlways, PTL DEF LoadSpec

(* An address in a mapping is in one line, of the mapping's file.           *)
LEMMA LineOfMapping ==
  ASSUME proc \in Process, NEW map, NEW i \in 1..Len(gu_get_maps_info(proc.lines)),
         map = gu_get_maps_info(proc.lines)[i],
         sample.x \in Int, map.start <= sample.x, sample.x < map.end
  PROVE  /\ SampledLine.deleted = map.deleted
         /\ SampledLine.file = proc.lines[Line(map)].file
         /\ MapFile(map.start, map.end) \in {NoNode, SampledLine.file}
         /\ proc.page \in Nat \ {0} /\ map.start \in Nat /\ map.end \in Nat
         /\ OfSegment(map, SampledLine, proc.page)
  <1> DEFINE lines == proc.lines
             holding == {j \in DOMAIN lines : lines[j].start <= sample.x /\ sample.x < lines[j].end}
  <1>1. /\ map.start \in Nat /\ map.end \in Nat /\ proc.page \in Nat \ {0}
        /\ \E first \in DOMAIN lines :
             /\ {j \in DOMAIN lines : lines[j].start = map.start} = {first}
             /\ \A x \in map.start..(map.end - 1) :
                  \E j \in DOMAIN lines :
                    /\ {k \in DOMAIN lines : lines[k].start <= x /\ x < lines[k].end} = {j}
                    /\ OfSegment(map, lines[j], proc.page)
                    /\ lines[j].deleted = map.deleted /\ lines[j].file = lines[first].file
    <2>1. proc.page \in Nat \ {0} /\ OfOneFile(map, lines, proc.page)
      BY ZenonT(30), OneFileMappings
    <2> QED BY Zenon, <2>1 DEF OfOneFile
  <1>2. sample.x \in map.start..(map.end - 1)
    BY <1>1
  <1>3. PICK first \in DOMAIN lines, j \in DOMAIN lines :
          /\ {k \in DOMAIN lines : lines[k].start = map.start} = {first}
          /\ holding = {j} /\ OfSegment(map, lines[j], proc.page)
          /\ lines[j].deleted = map.deleted /\ lines[j].file = lines[first].file
    BY Zenon, <1>1, <1>2
  <1>4. SampledLine = lines[j]
    <2>1. \A k \in DOMAIN lines : (lines[k].start <= sample.x /\ sample.x < lines[k].end) <=> k = j
      BY <1>3
    <2>2. (CHOOSE k \in DOMAIN lines : lines[k].start <= sample.x /\ sample.x < lines[k].end) = j
      BY ZenonT(30), <2>1
    <2> QED BY ZenonT(30), <2>2 DEF SampledLine
  <1>5. \A k \in DOMAIN lines : lines[k].start = map.start <=> k = first
    BY <1>3
  <1>6. Line(map) = first
    BY ZenonT(30), <1>5 DEF Line
  <1>7. MapFile(map.start, map.end) \in {NoNode, lines[first].file}
    <2> DEFINE found == {k \in DOMAIN lines : lines[k].start = map.start /\ lines[k].end = map.end}
    <2>1. MapFile(map.start, map.end) = IF found = {} THEN NoNode ELSE lines[CHOOSE k \in found : TRUE].file
      BY DEF MapFile
    <2>2. found # {} => (CHOOSE k \in found : TRUE) = first
      <3>1. \A k \in found : k = first
        BY <1>5
      <3> HIDE DEF found
      <3> QED BY Zenon, <3>1
    <2> QED BY Zenon, <2>1, <2>2
  <1> QED BY Zenon, <1>1, <1>3, <1>4, <1>6, <1>7

(* The mapping of the sampled address.                                      *)
LEMMA SampledMapping ==
  ASSUME ShapeInv, MappedInv, sample.pc # "none"
  PROVE  \E i \in DOMAIN pid.items :
           LET map == pid.maps[i] IN
           /\ sample.key = pid.items[i].key /\ sample.key # NoNode
           /\ LiveMapping(map) => ReadFrom(sample.key, map, i)
           /\ sample.x \in Int /\ map.start <= sample.x /\ sample.x < map.end
           /\ sample.relative = sample.x - (map.start - pid.items[i].exec)
           /\ SampledLine.deleted = map.deleted /\ SampledLine.file = proc.lines[Line(map)].file
           /\ MapFile(map.start, map.end) \in {NoNode, SampledLine.file}
           /\ proc.page \in Nat \ {0} /\ map.start \in Nat /\ map.end \in Nat
           /\ OfSegment(map, SampledLine, proc.page)
  <1>1. PICK i \in DOMAIN pid.items :
          /\ sample.key = pid.items[i].key /\ sample.key # NoNode
          /\ pid.items[i].start <= sample.x /\ sample.x < pid.items[i].end
          /\ sample.relative = sample.x - (pid.items[i].start - pid.items[i].exec)
    BY DEF MappedInv, SampleMapped
  <1> DEFINE map == pid.maps[i]
  <1>2. /\ i \in 1..Len(pid.maps)
        /\ pid.items[i].start = map.start /\ pid.items[i].end = map.end
        /\ LiveMapping(map) => ReadFrom(sample.key, map, i)
    BY Zenon, <1>1 DEF MappedInv, ItemsMapped
  <1>3. pid.maps = gu_get_maps_info(proc.lines) /\ proc \in Process /\ sample.x \in Int
    <2>1. pid.pc = "loaded" /\ sample.x \in Int
      BY Zenon DEF MappedInv, SampleMapped
    <2> QED BY Zenon, <2>1 DEF MappedInv, MapsRead, ShapeInv, PidShape
  <1> HIDE DEF map
  <1>4. i \in 1..Len(gu_get_maps_info(proc.lines)) /\ map = gu_get_maps_info(proc.lines)[i]
    BY Zenon, <1>2, <1>3 DEF map
  <1>5. map.start <= sample.x /\ sample.x < map.end
    BY Zenon, <1>1, <1>2
  <1>6. /\ SampledLine.deleted = map.deleted /\ SampledLine.file = proc.lines[Line(map)].file
        /\ MapFile(map.start, map.end) \in {NoNode, SampledLine.file}
        /\ proc.page \in Nat \ {0} /\ map.start \in Nat /\ map.end \in Nat
        /\ OfSegment(map, SampledLine, proc.page)
    BY Zenon, <1>3, <1>4, <1>5, LineOfMapping
  <1>7. sample.relative = sample.x - (map.start - pid.items[i].exec)
    BY Zenon, <1>1, <1>2
  <1> QED BY Zenon, <1>1, <1>2, <1>3, <1>5, <1>6, <1>7 DEF map

(* gu_load_pid(), load_elf(): an address in a deleted mapping is looked up  *)
(* in the file that the process has mapped there, through /proc/<pid>/exe   *)
(* or map_files, whatever took its name, as long as the first executable    *)
(* mapping is the executable's.                                             *)
THEOREM DeletedMappingsAreRead == LoadSpec => []ReadsMappedFile
  <1>1. ShapeInv /\ MappedInv => ReadsMappedFile
    <2> SUFFICES ASSUME ShapeInv, MappedInv, sample.pc # "none", SampledLine.deleted, ~proc.debug,
                        proc.lines[Line(pid.maps[1])].file = proc.exe
                 PROVE  sample.key = KeyOf(SampledLine.file)
      BY DEF ReadsMappedFile, KeyOf
    <2>1. PICK i \in DOMAIN pid.items :
            LET map == pid.maps[i] IN
            /\ LiveMapping(map) => ReadFrom(sample.key, map, i)
            /\ SampledLine.deleted = map.deleted /\ SampledLine.file = proc.lines[Line(map)].file
            /\ MapFile(map.start, map.end) \in {NoNode, SampledLine.file}
      BY ZenonT(30), SampledMapping
    <2> DEFINE map == pid.maps[i]
    <2>2. LiveMapping(map)
      BY <2>1 DEF LiveMapping
    <2>3. LiveFile(map, i) # NoNode /\ sample.key = KeyOf(LiveFile(map, i))
      BY ZenonT(30), <2>1, <2>2 DEF ReadFrom
    <2>4. LiveFile(map, i) = SampledLine.file
      BY Zenon, <2>1, <2>3 DEF LiveFile
    <2> QED BY ZenonT(30), <2>3, <2>4
  <1> QED BY <1>1, ShapeAlways, MappedAlways, PTL

-----------------------------------------------------------------------------
(* The entries.                                                             *)

(* The items that use an entry, and one more item.                          *)
LEMMA UsersAppend ==
  ASSUME NEW s, s \in Seq({s[i] : i \in DOMAIN s}), NEW k, NEW x
  PROVE  /\ IsFiniteSet(UsedBy(s, k)) /\ Cardinality(UsedBy(s, k)) \in Nat
         /\ Cardinality(UsedBy(Append(s, x), k))
              = Cardinality(UsedBy(s, k)) + (IF x.key = k THEN 1 ELSE 0)
  <1> DEFINE t == Append(s, x)
             n == Len(s)
             used == UsedBy(s, k)
  <1>1. n \in Nat /\ DOMAIN s = 1..n
    OBVIOUS
  <1>2. /\ DOMAIN t = DOMAIN s \cup {n + 1} /\ t[n + 1] = x
        /\ \A i \in DOMAIN s : i # n + 1 /\ t[i] = s[i]
    BY AppendShape
  <1>3. used \subseteq 1..n
    BY <1>1 DEF UsedBy
  <1>4. UsedBy(t, k) = IF x.key = k THEN used \cup {n + 1} ELSE used
    <2> HIDE DEF t, n
    <2> QED BY <1>2 DEF UsedBy
  <1> HIDE DEF t, n, used
  <1>5. IsFiniteSet(1..n)
    <2>1. 1 \in Int /\ n \in Int
      BY <1>1
    <2> QED BY <2>1, FS_Interval
  <1>6. IsFiniteSet(used) /\ Cardinality(used) \in Nat
    BY Zenon, <1>3, <1>5, FS_Subset, FS_CardinalityType
  <1>7. n + 1 \notin used
    BY <1>1, <1>3
  <1>8. Cardinality(used \cup {n + 1}) = Cardinality(used) + 1
    BY Zenon, <1>6, <1>7, FS_AddElement
  <1> QED BY <1>4, <1>6, <1>8 DEF used, t

(* The users are finitely many.                                             *)
LEMMA UsersFinite ==
  ASSUME PidShape, NEW k
  PROVE  IsFiniteSet(Users(k)) /\ Cardinality(Users(k)) \in Nat /\ Pending(k) \in Nat
  <1>1. pid.items \in Seq({pid.items[i] : i \in DOMAIN pid.items})
    BY Zenon DEF PidShape
  <1> DEFINE s == pid.items
  <1>2. s \in Seq({s[i] : i \in DOMAIN s})
    BY Zenon, <1>1
  <1> HIDE DEF s
  <1>3. IsFiniteSet(UsedBy(s, k)) /\ Cardinality(UsedBy(s, k)) \in Nat
    BY <1>2, UsersAppend
  <1> QED BY <1>3 DEF s, Users, Pending

(* What counts the users of an entry changes nothing else in it.            *)
LEMMA Recounted ==
  ASSUME EntriesRead, NEW n, DOMAIN cache' = DOMAIN cache,
         \A k \in DOMAIN cache : cache'[k] = [cache[k] EXCEPT !.refcnt = n[k]]
  PROVE  /\ EntriesRead'
         /\ \A k \in DOMAIN cache : /\ cache'[k].ranges = cache[k].ranges
                                    /\ cache'[k].first = cache[k].first
                                    /\ cache'[k].refcnt = n[k]
  <1>1. ASSUME NEW e, EntryShape(e), NEW m, NEW d, d = [e EXCEPT !.refcnt = m]
        PROVE  /\ EntryShape(d) /\ d.file = e.file /\ d.held = e.held /\ d.ranges = e.ranges
               /\ d.first = e.first /\ d.refcnt = m
    BY <1>1 DEF EntryShape
  <1>2. ASSUME NEW k \in DOMAIN cache
        PROVE  /\ EntryShape(cache'[k]) /\ cache'[k].file = cache[k].file /\ cache'[k].held = cache[k].held
               /\ cache'[k].ranges = cache[k].ranges /\ cache'[k].first = cache[k].first
               /\ cache'[k].refcnt = n[k]
    <2>1. EntryShape(cache[k])
      BY Zenon DEF EntriesRead
    <2>2. cache'[k] = [cache[k] EXCEPT !.refcnt = n[k]]
      OBVIOUS
    <2> QED BY <1>1, <2>1, <2>2
  <1>3. EntriesRead'
    BY ZenonT(30), <1>2 DEF EntriesRead, RangesRead, KeyOf
  <1> QED BY Zenon, <1>2, <1>3

(* The items stay where they were placed.                                   *)
LEMMA PlacesStay ==
  ASSUME ItemsPlaced, UNCHANGED pid,
         \A k \in DOMAIN cache \ {NoNode} :
           Users(k) # {} => /\ k \in DOMAIN cache' /\ cache'[k].ranges = cache[k].ranges
                            /\ cache'[k].first = cache[k].first
  PROVE  ItemsPlaced'
  <1> SUFFICES ASSUME NEW i \in DOMAIN pid.items, pid.items[i].key # NoNode
               PROVE  LET key == pid.items[i].key IN
                      /\ key \in DOMAIN cache'
                      /\ pid.items[i].exec = MapExecVirtAddr(cache'[key].ranges, cache'[key].first, pid.maps[i])
    BY Zenon DEF ItemsPlaced
  <1> DEFINE key == pid.items[i].key
  <1>1. key \in DOMAIN cache /\ key # NoNode /\ i \in Users(key)
        /\ pid.items[i].exec = MapExecVirtAddr(cache[key].ranges, cache[key].first, pid.maps[i])
    BY DEF ItemsPlaced, Users, UsedBy
  <1>2. Users(key) # {}
    BY Zenon, <1>1
  <1> QED BY Zenon, <1>1, <1>2

(* The steps before the identity is known.                                  *)
LEMMA BeginsCached ==
  ASSUME TmpMapped, CacheInv, Begins
  PROVE  CacheInv'
  <1>1. /\ UNCHANGED <<pid, cache>> /\ ld.pc \in {"idle", "open", "scan"}
        /\ ld'.pc \in {"idle", "open", "scan", "exit", "loaded"}
        /\ "exec_ranges" \in ld'.held => "exec_ranges" \in ld.held
        /\ ld'.pc = "loaded" => ld.pc = "idle" /\ ld'.key = ld.key
    BY Zenon DEF Begins
  <1>2. ld.pc = "idle" => ld.key = NoNode
    BY DEF TmpMapped
  <1>3. EntriesRead'
    BY ZenonT(30), <1>1 DEF CacheInv, EntriesRead
  <1>4. TmpRead'
    BY Zenon, <1>1, <1>2 DEF CacheInv, TmpRead, Building
  <1>5. ASSUME NEW k, k # NoNode PROVE Pending(k)' = 0 /\ Pending(k) = 0 /\ Users(k)' = Users(k)
    BY ZenonT(30), <1>1, <1>2, <1>5 DEF Pending, Users
  <1>6. Counted'
    BY <1>1, <1>5 DEF CacheInv, Counted
  <1>7. ItemsPlaced'
    BY Zenon, <1>1 DEF CacheInv, ItemsPlaced
  <1> QED BY Zenon, <1>3, <1>4, <1>6, <1>7 DEF CacheInv

(* The steps that build the entry.                                          *)
LEMMA GoesOnCached ==
  ASSUME CacheInv, GoesOn, RangesRead(ld')
  PROVE  CacheInv'
  <1>1. /\ UNCHANGED <<pid, cache>> /\ ld.pc \in Building
        /\ ld'.pc \in (Building \ {"debug"}) \cup {"exit"}
        /\ ld'.file = ld.file /\ ld'.key = ld.key
    BY DEF GoesOn
  <1>2. EntriesRead'
    BY Zenon, <1>1 DEF CacheInv, EntriesRead
  <1>3. TmpRead'
    <2>1. ld.file \in File /\ ld.key = KeyOf(ld.file) /\ ld.key \notin DOMAIN cache
      BY Zenon, <1>1 DEF CacheInv, TmpRead
    <2>2. ld'.pc \notin {"idle", "open", "scan", "debug", "hit", "loaded"}
      BY <1>1 DEF Building
    <2> QED BY Zenon, <1>1, <2>1, <2>2 DEF TmpRead
  <1>4. ASSUME NEW k PROVE Pending(k)' = 0 /\ Pending(k) = 0 /\ Users(k)' = Users(k)
    BY <1>1 DEF Pending, Users, Building
  <1>5. Counted'
    BY <1>1, <1>4 DEF CacheInv, Counted
  <1>6. ItemsPlaced'
    BY Zenon, <1>1 DEF CacheInv, ItemsPlaced
  <1> QED BY ZenonT(30), <1>2, <1>3, <1>5, <1>6 DEF CacheInv

(* The entry is shared: one more reference.                                 *)
LEMMA IdentifiesCached ==
  ASSUME PidShape, CacheInv, Identifies
  PROVE  CacheInv'
  <1>1. /\ UNCHANGED pid /\ ld.pc = "scan" /\ ld.file \in File /\ ld'.file = ld.file
        /\ ld'.key = KeyOf(ld.file)
        /\ "exec_ranges" \notin ld'.held
    BY DEF Identifies, CacheInv, TmpRead
  <1> DEFINE key == KeyOf(ld.file)
  <1>2. ASSUME NEW k PROVE Pending(k) = 0 /\ Users(k)' = Users(k) /\ Cardinality(Users(k)) \in Nat
    BY <1>1, UsersFinite DEF Pending, Users
  <1>3. CASE ld'.pc = "hit" /\ key \in DOMAIN cache /\ cache' = [cache EXCEPT ![key].refcnt = @ + 1]
    <2> DEFINE n == [k \in DOMAIN cache |-> IF k = key THEN cache[k].refcnt + 1 ELSE cache[k].refcnt]
    <2>1. DOMAIN cache' = DOMAIN cache
      BY Zenon, <1>3
    <2>2. ASSUME NEW k \in DOMAIN cache PROVE cache'[k] = [cache[k] EXCEPT !.refcnt = n[k]]
      <3>1. CASE k = key
        BY <1>3, <3>1
      <3>2. CASE k # key
        <4>1. cache'[k] = cache[k] /\ n[k] = cache[k].refcnt
          BY <1>3, <3>2
        <4>2. EntryShape(cache[k])
          BY Zenon DEF CacheInv, EntriesRead
        <4>3. cache[k] = [cache[k] EXCEPT !.refcnt = cache[k].refcnt]
          BY Zenon, <4>2 DEF EntryShape
        <4> QED BY Zenon, <4>1, <4>3
      <3> QED BY <3>1, <3>2
    <2> HIDE DEF n
    <2>3. /\ EntriesRead'
          /\ \A k \in DOMAIN cache : /\ cache'[k].ranges = cache[k].ranges
                                     /\ cache'[k].first = cache[k].first
                                     /\ cache'[k].refcnt = n[k]
      BY Zenon, <2>1, <2>2, Recounted DEF CacheInv
    <2>4. TmpRead'
      BY Zenon, <1>1, <1>3, <2>1 DEF TmpRead, Building
    <2>5. Counted'
      <3> SUFFICES ASSUME NEW k \in DOMAIN cache \ {NoNode}
                   PROVE  cache'[k].refcnt = Cardinality(Users(k)) + Pending(k)'
        BY <1>2, <2>1 DEF Counted
      <3>1. cache[k].refcnt = Cardinality(Users(k)) + Pending(k)
        BY Zenon DEF CacheInv, Counted
      <3>2. Pending(k)' = IF k = key THEN 1 ELSE 0
        BY <1>1, <1>3 DEF Pending
      <3>3. cache'[k].refcnt = IF k = key THEN cache[k].refcnt + 1 ELSE cache[k].refcnt
        BY <2>3 DEF n
      <3> QED BY <1>2, <3>1, <3>2, <3>3
    <2>6. ItemsPlaced'
      BY Zenon, <1>1, <2>1, <2>3, PlacesStay DEF CacheInv
    <2> QED BY <2>3, <2>4, <2>5, <2>6 DEF CacheInv
  <1>4. CASE ld'.pc = "debug" /\ key \notin DOMAIN cache /\ UNCHANGED cache
    <2>1. EntriesRead'
      BY Zenon, <1>4 DEF CacheInv, EntriesRead
    <2>2. TmpRead'
      BY <1>1, <1>4 DEF TmpRead, RangesRead
    <2>3. \A k : Pending(k)' = 0
      BY Zenon, <1>4 DEF Pending
    <2>4. Counted'
      BY <1>2, <1>4, <2>3 DEF CacheInv, Counted
    <2>5. ItemsPlaced'
      BY Zenon, <1>1, <1>4 DEF CacheInv, ItemsPlaced
    <2> QED BY <2>1, <2>2, <2>4, <2>5 DEF CacheInv
  <1> QED BY Zenon, <1>1, <1>3, <1>4 DEF Identifies

(* The entry is published with one reference, or no entry was made.         *)
LEMMA EndsCached ==
  ASSUME PidShape, CacheInv, Ends
  PROVE  CacheInv'
  <1>1. UNCHANGED pid /\ ld'.pc = "loaded"
    BY DEF Ends
  <1>2. ASSUME NEW k PROVE Users(k)' = Users(k) /\ Cardinality(Users(k)) \in Nat
    BY <1>1, UsersFinite DEF Users
  <1>3. CASE Published /\ ld'.key = ld.key
    <2> DEFINE key == ld.key
               e == [file |-> ld.file, debug |-> ld.debug, refcnt |-> 1, owner |-> ld.owner,
                     held |-> ld.held \ {"elf", "debug_elf"}, names |-> ld.names, kept |-> ld.kept,
                     ranges |-> ld.ranges, first |-> ld.first, items |-> ld.items, array |-> ld.array]
    <2>1. ld.pc = "publish" /\ cache' = [k \in DOMAIN cache \cup {key} |-> IF k = key THEN e ELSE cache[k]]
      BY ZenonT(30), <1>3 DEF Published
    <2>2. ld.file \in File /\ key = KeyOf(ld.file) /\ RangesRead(ld) /\ key \notin DOMAIN cache
      BY <2>1 DEF CacheInv, TmpRead, Building
    <2>3. /\ EntryShape(e) /\ e.file = ld.file /\ e.refcnt = 1 /\ e.ranges = ld.ranges
          /\ e.first = ld.first /\ e.held = ld.held \ {"elf", "debug_elf"}
      BY Zenon DEF EntryShape
    <2> HIDE DEF e
    <2>4. /\ DOMAIN cache' = DOMAIN cache \cup {key} /\ cache'[key] = e
          /\ \A k \in DOMAIN cache : k # key /\ cache'[k] = cache[k]
      BY <2>1, <2>2
    <2>5. RangesRead(e)
      BY <2>2, <2>3 DEF RangesRead
    <2>6. EntriesRead'
      <3> SUFFICES ASSUME NEW k \in DOMAIN cache'
                   PROVE  /\ EntryShape(cache'[k]) /\ cache'[k].file \in File
                          /\ k = KeyOf(cache'[k].file) /\ RangesRead(cache'[k])
        BY Zenon DEF EntriesRead, RangesRead, EntryShape, KeyOf
      <3>1. CASE k = key
        BY Zenon, <2>2, <2>3, <2>4, <2>5, <3>1
      <3>2. CASE k # key
        <4>1. k \in DOMAIN cache /\ cache'[k] = cache[k]
          BY ZenonT(30), <2>4, <3>2
        <4> QED BY Zenon, <4>1 DEF CacheInv, EntriesRead
      <3> QED BY Zenon, <3>1, <3>2
    <2>7. TmpRead'
      BY ZenonT(30), <1>1, <1>3, <2>4 DEF TmpRead, Building
    <2>8. key # NoNode => Users(key) = {}
      BY <2>2 DEF CacheInv, ItemsPlaced, Users, UsedBy
    <2>9. Counted'
      <3> SUFFICES ASSUME NEW k \in DOMAIN cache' \ {NoNode}
                   PROVE  cache'[k].refcnt = Cardinality(Users(k)) + Pending(k)'
        BY <1>2 DEF Counted
      <3>1. Pending(k)' = IF k = key THEN 1 ELSE 0
        BY Zenon, <1>1, <1>3 DEF Pending
      <3>2. CASE k = key
        <4>1. Cardinality(Users(k)) = 0
          BY Zenon, <2>8, <3>2, FS_EmptySet
        <4> QED BY <2>3, <2>4, <3>1, <3>2, <4>1
      <3>3. CASE k # key
        <4>1. k \in DOMAIN cache /\ cache'[k] = cache[k] /\ Pending(k) = 0
          BY <2>1, <2>4, <3>3 DEF Pending
        <4>2. cache[k].refcnt = Cardinality(Users(k)) + Pending(k)
          BY Zenon, <4>1 DEF CacheInv, Counted
        <4> QED BY Zenon, <3>1, <3>3, <4>1, <4>2
      <3> QED BY Zenon, <3>2, <3>3
    <2>10. ItemsPlaced'
      BY Zenon, <1>1, <2>4, PlacesStay DEF CacheInv
    <2> QED BY <2>6, <2>7, <2>9, <2>10 DEF CacheInv
  <1>4. CASE \/ ld.pc = "hit" /\ ld'.key = ld.key /\ UNCHANGED cache
             \/ ld.pc = "exit" /\ ld'.key = NoNode /\ UNCHANGED cache
    <2>1. EntriesRead'
      BY ZenonT(30), <1>4 DEF CacheInv, EntriesRead
    <2>2. TmpRead'
      BY <1>1, <1>4 DEF CacheInv, TmpRead, Building
    <2>3. ASSUME NEW k, k # NoNode PROVE Pending(k)' = Pending(k)
      BY Zenon, <1>1, <1>4, <2>3 DEF Pending
    <2>4. Counted'
      BY Zenon, <1>2, <1>4, <2>3 DEF CacheInv, Counted
    <2>5. ItemsPlaced'
      BY Zenon, <1>1, <1>4 DEF CacheInv, ItemsPlaced
    <2> QED BY <2>1, <2>2, <2>4, <2>5 DEF CacheInv
  <1> QED BY ZenonT(30), <1>3, <1>4 DEF Ends

(* The reference of the load becomes that of the item.                      *)
LEMMA AddsItemCached ==
  ASSUME PidShape, CacheInv, AddsItem
  PROVE  CacheInv'
  <1>1. /\ UNCHANGED cache /\ ld.pc = "loaded" /\ ld' = NoTmp
        /\ ld'.pc = "idle" /\ "exec_ranges" \notin ld'.held
    BY DEF AddsItem, NoTmp
  <1>2. PICK exec :
          /\ pid' = [pid EXCEPT !.items = Append(@, [start |-> Map.start, end |-> Map.end,
                                                     key |-> ld.key, exec |-> exec])]
          /\ ld.key # NoNode => exec = MapExecVirtAddr(cache[ld.key].ranges, cache[ld.key].first, Map)
    BY Zenon DEF AddsItem
  <1> DEFINE x == [start |-> Map.start, end |-> Map.end, key |-> ld.key, exec |-> exec]
  <1>3. x.key = ld.key /\ x.exec = exec
    OBVIOUS
  <1> HIDE DEF x
  <1>4. /\ pid'.maps = pid.maps /\ pid'.items = Append(pid.items, x)
        /\ DOMAIN pid'.items = DOMAIN pid.items \cup {Next_i} /\ pid'.items[Next_i] = x
        /\ \A i \in DOMAIN pid.items : i # Next_i /\ pid'.items[i] = pid.items[i]
    BY Zenon, <1>2, ItemAdded DEF x
  <1>5. EntriesRead'
    BY Zenon, <1>1 DEF CacheInv, EntriesRead
  <1>6. TmpRead'
    BY <1>1 DEF TmpRead, Building
  <1>7. Counted'
    <2> SUFFICES ASSUME NEW k \in DOMAIN cache \ {NoNode}
                 PROVE  cache[k].refcnt = Cardinality(UsedBy(pid'.items, k)) + Pending(k)'
      BY <1>1 DEF Counted, Users
    <2> DEFINE s == pid.items
    <2>1. s \in Seq({s[i] : i \in DOMAIN s})
      BY Zenon DEF PidShape
    <2>2. cache[k].refcnt = Cardinality(UsedBy(s, k)) + Pending(k)
      BY Zenon DEF CacheInv, Counted, Users
    <2> HIDE DEF s
    <2>3. /\ Cardinality(UsedBy(s, k)) \in Nat
          /\ Cardinality(UsedBy(Append(s, x), k)) = Cardinality(UsedBy(s, k)) + (IF x.key = k THEN 1 ELSE 0)
      BY Zenon, <2>1, UsersAppend
    <2>4. Pending(k)' = 0 /\ Pending(k) = (IF x.key = k THEN 1 ELSE 0)
      BY <1>1, <1>3 DEF Pending
    <2>5. pid'.items = Append(s, x)
      BY Zenon, <1>4 DEF s
    <2> QED BY <2>2, <2>3, <2>4, <2>5
  <1>8. ItemsPlaced'
    <2> SUFFICES ASSUME NEW i \in DOMAIN pid'.items, pid'.items[i].key # NoNode
                 PROVE  LET key == pid'.items[i].key IN
                        /\ key \in DOMAIN cache
                        /\ pid'.items[i].exec = MapExecVirtAddr(cache[key].ranges, cache[key].first, pid.maps[i])
      BY Zenon, <1>1, <1>4 DEF ItemsPlaced
    <2>1. CASE i = Next_i
      <3>1. ld.key # NoNode /\ ld.key \in DOMAIN cache
        BY <1>1, <1>3, <1>4, <2>1 DEF CacheInv, TmpRead
      <3> QED BY Zenon, <1>2, <1>3, <1>4, <2>1, <3>1 DEF Map
    <2>2. CASE i \in DOMAIN pid.items
      BY Zenon, <1>4, <2>2 DEF CacheInv, ItemsPlaced
    <2> QED BY Zenon, <1>4, <2>1, <2>2
  <1> QED BY <1>5, <1>6, <1>7, <1>8 DEF CacheInv

(* All references are given back.                                           *)
LEMMA DropsCached ==
  ASSUME PidShape, CacheInv, Drops
  PROVE  CacheInv'
  <1>1. pid' = NoPid /\ pid'.items = <<>>
    BY Zenon DEF Drops, NoPid
  <1>2. ld'.pc = "idle" /\ "exec_ranges" \notin ld'.held
    BY DEF Drops, NoTmp, CacheInv, TmpRead
  <1>3. PICK mapped : /\ cache' = Put(cache, mapped)
                      /\ \A k : Cardinality(UsedBy(mapped, k)) = Cardinality(Users(k)) + Pending(k)
    <2> DEFINE s == pid.items
    <2>1. s \in Seq({s[i] : i \in DOMAIN s})
      BY Zenon DEF PidShape
    <2>2. CASE ld.pc = "idle" /\ cache' = Put(cache, s)
      <3>1. \A k : Pending(k) = 0
        BY <2>2 DEF Pending
      <3>2. \A k : Cardinality(UsedBy(s, k)) = Cardinality(Users(k)) + Pending(k)
        BY <3>1, UsersFinite DEF Users
      <3> QED BY Zenon, <2>2, <3>2
    <2>3. CASE ld.pc = "loaded" /\ \E x : x.key = ld.key /\ cache' = Put(cache, Append(s, x))
      <3>1. PICK x : x.key = ld.key /\ cache' = Put(cache, Append(s, x))
        BY Zenon, <2>3
      <3>2. ASSUME NEW k PROVE Cardinality(UsedBy(Append(s, x), k)) = Cardinality(Users(k)) + Pending(k)
        <4>1. Pending(k) = (IF x.key = k THEN 1 ELSE 0)
          BY <2>3, <3>1 DEF Pending
        <4>2. Users(k) = UsedBy(s, k)
          BY ZenonT(30) DEF Users
        <4> HIDE DEF s
        <4>3. Cardinality(UsedBy(Append(s, x), k)) = Cardinality(UsedBy(s, k)) + (IF x.key = k THEN 1 ELSE 0)
          BY <2>1, UsersAppend
        <4> QED BY ZenonT(30), <4>1, <4>2, <4>3
      <3> QED BY Zenon, <3>1, <3>2
    <2> QED BY Zenon, <2>2, <2>3 DEF Drops
  <1> DEFINE n == [k \in DOMAIN cache |-> cache[k].refcnt - Cardinality(UsedBy(mapped, k))]
  <1>4. DOMAIN cache' = DOMAIN cache
    BY Zenon, <1>3 DEF Put
  <1>5. ASSUME NEW k \in DOMAIN cache PROVE cache'[k] = [cache[k] EXCEPT !.refcnt = n[k]]
    BY Zenon, <1>3 DEF Put, UsedBy
  <1> HIDE DEF n
  <1>6. EntriesRead' /\ \A k \in DOMAIN cache : cache'[k].refcnt = n[k]
    BY ZenonT(30), <1>4, <1>5, Recounted DEF CacheInv
  <1>7. TmpRead'
    BY Zenon, <1>2 DEF TmpRead, Building
  <1>8. Counted'
    <2> SUFFICES ASSUME NEW k \in DOMAIN cache \ {NoNode}
                 PROVE  cache'[k].refcnt = Cardinality(Users(k)') + Pending(k)'
      BY Zenon, <1>4 DEF Counted
    <2>1. cache[k].refcnt = Cardinality(Users(k)) + Pending(k)
      BY Zenon DEF CacheInv, Counted
    <2>2. cache'[k].refcnt = 0
      <3>1. n[k] = cache[k].refcnt - Cardinality(UsedBy(mapped, k))
        BY DEF n
      <3>2. Cardinality(Users(k)) \in Nat /\ Pending(k) \in Nat
        BY Zenon, UsersFinite
      <3>3. cache'[k].refcnt = n[k] /\ Cardinality(UsedBy(mapped, k)) = Cardinality(Users(k)) + Pending(k)
        BY Zenon, <1>3, <1>6
      <3> QED BY <2>1, <3>1, <3>2, <3>3
    <2>3. Users(k)' = {} /\ Pending(k)' = 0
      BY <1>1, <1>2 DEF Users, UsedBy, Pending
    <2> QED BY <2>2, <2>3, FS_EmptySet
  <1>9. ItemsPlaced'
    BY <1>1 DEF ItemsPlaced
  <1> QED BY Zenon, <1>6, <1>7, <1>8, <1>9 DEF CacheInv

(* A context begins with no item, and is ready with those it has.           *)
LEMMA ReadiesCached ==
  ASSUME PidShape, CacheInv, Readies
  PROVE  CacheInv'
  <1>1. UNCHANGED <<ld, cache>> /\ pid'.items = pid.items
        /\ (pid.items = <<>> \/ pid'.maps = pid.maps)
    BY DEF Readies, PidShape
  <1>2. EntriesRead' /\ TmpRead'
    BY Zenon, <1>1 DEF CacheInv, EntriesRead, TmpRead, RangesRead
  <1>3. Counted'
    BY ZenonT(30), <1>1 DEF CacheInv, Counted, Users, Pending
  <1>4. ItemsPlaced'
    BY <1>1 DEF CacheInv, ItemsPlaced
  <1> QED BY <1>2, <1>3, <1>4 DEF CacheInv

(* A sweep frees an entry that nobody uses.                                 *)
LEMMA SweepsCached ==
  ASSUME PidShape, CacheInv, Sweeps
  PROVE  CacheInv'
  <1>1. UNCHANGED <<pid, ld>> /\ ld.pc = "idle"
    BY DEF Sweeps
  <1>2. PICK k \in DOMAIN cache : cache[k].refcnt = 0 /\ cache' = [j \in DOMAIN cache \ {k} |-> cache[j]]
    BY Zenon DEF Sweeps
  <1>3. DOMAIN cache' = DOMAIN cache \ {k} /\ \A j \in DOMAIN cache' : cache'[j] = cache[j]
    BY <1>2
  <1>4. k # NoNode => Users(k) = {}
    <2> SUFFICES ASSUME k # NoNode PROVE Users(k) = {}
      OBVIOUS
    <2>1. cache[k].refcnt = Cardinality(Users(k)) + Pending(k)
      BY Zenon DEF CacheInv, Counted
    <2>2. IsFiniteSet(Users(k)) /\ Cardinality(Users(k)) \in Nat /\ Pending(k) \in Nat
      BY ZenonT(30), UsersFinite
    <2>3. Cardinality(Users(k)) = 0
      BY <1>2, <2>1, <2>2
    <2> QED BY Zenon, <2>2, <2>3, FS_EmptySet
  <1>5. EntriesRead'
    BY Zenon, <1>3 DEF CacheInv, EntriesRead, EntryShape, RangesRead, KeyOf
  <1>6. TmpRead'
    BY Zenon, <1>1 DEF CacheInv, TmpRead, Building
  <1>7. Counted'
    BY <1>1, <1>3 DEF CacheInv, Counted, Users, Pending
  <1>8. ItemsPlaced'
    <2>1. \A j \in DOMAIN cache \ {NoNode} :
            Users(j) # {} => j \in DOMAIN cache' /\ cache'[j].ranges = cache[j].ranges
                             /\ cache'[j].first = cache[j].first
      BY <1>3, <1>4
    <2> QED BY ZenonT(30), <1>1, <2>1, PlacesStay DEF CacheInv
  <1> QED BY Zenon, <1>5, <1>6, <1>7, <1>8 DEF CacheInv

(* Every step keeps the entries.                                            *)
LEMMA CacheNext ==
  ASSUME ShapeInv, MappedInv, CacheInv, [LoadNext]_allVars
  PROVE  CacheInv'
  <1>1. TmpShape /\ PidShape /\ TmpMapped
    BY DEF ShapeInv, MappedInv
  <1>2. CASE LoadDebugPath
    <2>1. GoesOn /\ ld.pc = "debug" /\ ("exec_ranges" \notin ld.held => RangesRead(ld'))
      BY ZenonT(30), <1>1, <1>2, RangesGoOn
    <2>2. "exec_ranges" \notin ld.held
      BY <2>1 DEF CacheInv, TmpRead
    <2> QED BY Zenon, <2>1, <2>2, GoesOnCached
  <1>3. CASE GoesOn /\ SameRanges
    <2>1. RangesRead(ld)
      BY Zenon, <1>3 DEF GoesOn, CacheInv, TmpRead
    <2>2. RangesRead(ld')
      BY Zenon, <1>3, <2>1 DEF GoesOn, SameRanges, RangesRead
    <2> QED BY Zenon, <1>3, <2>2, GoesOnCached
  <1>4. CASE Quiet
    BY ZenonT(30), <1>4 DEF Quiet, CacheInv, EntriesRead, TmpRead, RangesRead, Counted, Users, Pending, ItemsPlaced
  <1> QED BY Zenon, <1>1, <1>2, <1>3, <1>4, Steps, AddsItemCached, DropsCached, ReadiesCached,
             BeginsCached, IdentifiesCached, EndsCached, SweepsCached

(* There are no entries yet.                                                *)
LEMMA CacheInit ==
  ASSUME LoadInit
  PROVE  CacheInv
  <1>1. pid.items = <<>> /\ ld.pc = "idle" /\ ld.held = {} /\ cache = <<>>
    BY Zenon DEF LoadInit, NoPid, NoTmp
  <1>2. DOMAIN pid.items = {} /\ DOMAIN cache = {}
    BY <1>1
  <1> QED BY ZenonT(30), <1>1, <1>2 DEF CacheInv, EntriesRead, TmpRead, Building, Counted, ItemsPlaced

(* Entries are always those of their files, and count their users.          *)
LEMMA CacheAlways == LoadSpec => []CacheInv
  <1>1. LoadInit => CacheInv
    BY CacheInit
  <1>2. ShapeInv /\ MappedInv /\ CacheInv /\ [LoadNext]_allVars => CacheInv'
    BY CacheNext
  <1> QED BY <1>1, <1>2, ShapeAlways, MappedAlways, PTL DEF LoadSpec

(* A sampled address becomes the one that the symbols and the CFI of its    *)
(* file use (find_by_offset(), get_map_exec_virt_addr()): in any segment of *)
(* any file, for a mapping split or merged in the maps, and with an entry   *)
(* that another process loaded, under another path.                         *)
THEOREM SampledAddressesAreExact == LoadSpec => []BiasExact
  <1>1. ShapeInv /\ MappedInv /\ CacheInv => BiasExact
    <2> DEFINE f == SampledLine.file
               segs == Content[f].segs
               key == sample.key
               page == proc.page
    <2> SUFFICES ASSUME ShapeInv, MappedInv, CacheInv, sample.pc # "none",
                        "exec_ranges" \in cache[key].held,
                        KeyOf(f) = key, Regular(segs, page)
                 PROVE  sample.relative = sample.x - SampledLine.bias
      BY Zenon DEF BiasExact, KeyOf
    <2>1. PICK i \in DOMAIN pid.items :
            LET map == pid.maps[i] IN
            /\ key = pid.items[i].key /\ key # NoNode
            /\ sample.x \in Int /\ map.start <= sample.x /\ sample.x < map.end
            /\ sample.relative = sample.x - (map.start - pid.items[i].exec)
            /\ page \in Nat \ {0} /\ map.start \in Nat /\ map.end \in Nat
            /\ OfSegment(map, SampledLine, page)
      BY Zenon, SampledMapping
    <2> DEFINE map == pid.maps[i]
    <2>2. /\ key \in DOMAIN cache
          /\ pid.items[i].exec = MapExecVirtAddr(cache[key].ranges, cache[key].first, map)
      BY Zenon, <2>1 DEF CacheInv, ItemsPlaced
    <2>3. cache[key].file \in File /\ key = KeyOf(cache[key].file) /\ RangesRead(cache[key])
      BY Zenon, <2>2 DEF CacheInv, EntriesRead
    <2>4. f \in File /\ SampledLine.bias \in Int /\ map.offset \in Nat
      BY Zenon, <2>1 DEF OfSegment
    <2>5. Content[cache[key].file].segs = segs
      BY Zenon, <2>3, <2>4, BuildSegments DEF KeyOf
    <2>6. /\ cache[key].ranges = ExecRanges(segs) /\ ExecRanges(segs) # <<>>
          /\ cache[key].first = FirstStart(ExecRanges(segs))
      BY Zenon, <2>3, <2>5 DEF RangesRead
    <2>7. SegmentTypes(segs)
      BY Zenon, <2>4, BuildSegments DEF SegmentTypes
    <2>8. PICK n \in DOMAIN ExecRanges(segs) :
            /\ align_down(segs[n].offset, page) <= map.offset
            /\ map.offset + (map.end - map.start) <= align_up(segs[n].offset + segs[n].memsz, page)
            /\ map.start - SampledLine.bias = segs[n].vaddr + (map.offset - segs[n].offset)
      BY ZenonT(30), <2>1, <2>6 DEF OfSegment
    <2>9. map.start < map.end
      <3>1. /\ map.start \in Nat /\ map.end \in Nat /\ sample.x \in Int
            /\ map.start <= sample.x /\ sample.x < map.end
        BY Zenon, <2>1
      <3> QED BY Zenon, <3>1, HasWidth
    <2>10. MapExecVirtAddr(ExecRanges(segs), FirstStart(ExecRanges(segs)), map)
             = segs[n].vaddr + (map.offset - segs[n].offset)
      <3> HIDE DEF f, segs, page, map
      <3> QED BY Zenon, <2>1, <2>4, <2>6, <2>7, <2>8, <2>9, PlaceInSegment DEF map
    <2>11. pid.items[i].exec = map.start - SampledLine.bias
      BY Zenon, <2>2, <2>6, <2>8, <2>10
    <2> HIDE DEF map
    <2>12. sample.x \in Int /\ map.start \in Nat /\ sample.relative = sample.x - (map.start - pid.items[i].exec)
      BY Zenon, <2>1 DEF map
    <2> QED BY ZenonT(30), <2>4, <2>11, <2>12, SameBias
  <1> QED BY <1>1, ShapeAlways, MappedAlways, CacheAlways, PTL
=============================================================================
