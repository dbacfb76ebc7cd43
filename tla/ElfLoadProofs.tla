---------------------------- MODULE ElfLoadProofs ----------------------------
(***************************************************************************)
(* Proofs about ElfLoad, for any processes, files, symbols and options:    *)
(* the walk of every load stays in the root of its process and finds what  *)
(* openat2() would, and every descriptor and allocation is given back.     *)
(***************************************************************************)
EXTENDS ElfLoad, PathWalkProofs, FiniteSetTheorems

(* Obligations over whole states get more time than the default.            *)
USE SMTT(30), ZenonT(30)

-----------------------------------------------------------------------------
(* The sum of a function, as the number of its units.                       *)
Units(f) == UNION {{k} \X (1..f[k]) : k \in DOMAIN f}
Total(f) == Cardinality(Units(f))

(* What an entry, or tmp_ctx, has of a resource, and of symbols_mem_size.   *)
Holds(e, r) == IF r = "name" THEN HeapNames(e) ELSE IF r \in e.held THEN 1 ELSE 0
SymbolsSize(e) == IF "symbols" \in e.held THEN Size(e) ELSE 0

HeldBy(c, r) == [k \in DOMAIN c |-> Holds(c[k], r)]
SizesOf(c) == [k \in DOMAIN c |-> SymbolsSize(c[k])]

HeldOK(e) ==
  /\ e.held \subseteq Resource \ {"name", "map_ctx"} /\ e.names \in Nat
  /\ "symbols" \in e.held => Len(e.kept) \in Nat

EntryOK(e) ==
  /\ e = [file |-> e.file, debug |-> e.debug, refcnt |-> e.refcnt, owner |-> e.owner,
          held |-> e.held, names |-> e.names, kept |-> e.kept, ranges |-> e.ranges,
          first |-> e.first, items |-> e.items, array |-> e.array]
  /\ HeldOK(e)
  /\ "symbols" \notin e.held => e.names = 0

(* The fields of tmp_ctx.                                                   *)
TmpShape ==
  ld = [pc |-> ld.pc, file |-> ld.file, debug |-> ld.debug, scn |-> ld.scn, key |-> ld.key,
        held |-> ld.held, fds |-> ld.fds, kept |-> ld.kept, names |-> ld.names,
        owner |-> ld.owner, ranges |-> ld.ranges, first |-> ld.first, items |-> ld.items,
        array |-> ld.array]

(* What tmp_ctx has not got yet, step by step.                              *)
Late == {"debug_elf", "gu_cfi", "symbols", "arena"}

TmpSteps ==
  /\ ld.pc \in {"idle", "open", "scan", "debug", "opendebug", "cfi", "fill", "build", "err_free",
                "publish", "exit", "hit", "loaded"}
  /\ HeldOK(ld) /\ ld.fds \in Int
  /\ ld.pc \in {"idle", "loaded"} => ld.held = {} /\ ld.fds = 0
  /\ ld.pc = "open" => ld.fds = 0
  /\ walk.pc # "idle" => ld.pc = "open"
  /\ ld.pc \notin {"build", "err_free"} /\ "symbols" \notin ld.held => ld.names = 0
  /\ ld.pc = "build" => Len(ld.kept) \in Nat
  /\ ld.pc \in {"build", "err_free"} => "symbols" \notin ld.held
  /\ ld.pc \in {"open", "scan"} =>
       ld.held \cap ({"elf", "build_id", "exec_ranges", "debug_file_path"} \cup Late) = {}
  /\ ld.pc = "debug" => ld.held \cap ({"exec_ranges", "debug_file_path"} \cup Late) = {}
  /\ ld.pc = "opendebug" => ld.held \cap Late = {}
  /\ ld.pc = "cfi" => ld.held \cap {"gu_cfi", "symbols", "arena"} = {}
  /\ ld.pc = "fill" => ld.held \cap {"symbols", "arena"} = {}
  /\ ld.pc \in {"debug", "opendebug", "cfi", "fill", "build", "err_free", "publish"}
       => ld.key \notin DOMAIN cache

TmpOK == TmpShape /\ TmpSteps

CacheOK ==
  /\ IsFiniteSet(DOMAIN cache) /\ cache = [k \in DOMAIN cache |-> cache[k]]
  /\ \A k \in DOMAIN cache : EntryOK(cache[k])

Keyed(s) == {i \in DOMAIN s : s[i].key # NoNode}

PidOK ==
  /\ pid = [pc |-> pid.pc, maps |-> pid.maps, items |-> pid.items]
  /\ pid.items \in Seq({pid.items[i] : i \in DOMAIN pid.items})
  /\ pid.pc = "none" => pid.items = <<>>
  /\ pid.maps \in {<<>>, gu_get_maps_info(proc.lines)} /\ proc \in Process

(* A load is of a mapping of the process.                                   *)
Busy == ld.pc # "idle" => Loading

(* Everything that was opened or allocated is in the hands of tmp_ctx, of   *)
(* an entry, of an item or of the walk.                                     *)
OutOK ==
  /\ out \in [Resource -> Int]
  /\ \A r \in Resource \ {"map_ctx"} : out[r] = Holds(ld, r) + Total(HeldBy(cache, r))

ItemsOK == out["map_ctx"] = Cardinality(Keyed(pid.items))

MemOK ==
  /\ mem = [symbols |-> mem.symbols, cfi |-> mem.cfi]
  /\ mem.symbols = SymbolsSize(ld) + Total(SizesOf(cache))
  /\ mem.cfi = out["gu_cfi"]

FdsOK == fds = ld.fds + WalkFds

LoadInv == WalkInv /\ TmpOK /\ CacheOK /\ PidOK /\ Busy /\ OutOK /\ ItemsOK /\ MemOK /\ FdsOK

-----------------------------------------------------------------------------
(* Sums over the entries of the cache.                                      *)

(* The units of one entry.                                                  *)
LEMMA ColumnSize ==
  ASSUME NEW k, NEW n \in Nat
  PROVE  IsFiniteSet({k} \X (1..n)) /\ Cardinality({k} \X (1..n)) = n
  <1>1. IsFiniteSet({k}) /\ Cardinality({k}) = 1
    BY FS_Singleton
  <1>2. IsFiniteSet(1..n) /\ Cardinality(1..n) = n
    BY FS_Interval
  <1> DEFINE N == 1..n
             K == {k}
  <1>3. IsFiniteSet(N) /\ Cardinality(N) = n /\ IsFiniteSet(K) /\ Cardinality(K) = 1
    BY <1>1, <1>2
  <1> SUFFICES IsFiniteSet(K \X N) /\ Cardinality(K \X N) = n
    OBVIOUS
  <1> HIDE DEF N, K
  <1>4. IsFiniteSet(K \X N) /\ Cardinality(K \X N) = Cardinality(K) * Cardinality(N)
    BY <1>3, FS_Product
  <1> QED BY <1>3, <1>4

(* The units of a sum are finitely many.                                    *)
LEMMA UnitsFinite ==
  ASSUME NEW f, IsFiniteSet(DOMAIN f), \A k \in DOMAIN f : f[k] \in Nat
  PROVE  IsFiniteSet(Units(f)) /\ Total(f) \in Nat
  <1>1. ASSUME NEW k \in DOMAIN f PROVE IsFiniteSet({k} \X (1..f[k]))
    BY Zenon, ColumnSize
  <1>2. IsFiniteSet({{k} \X (1..f[k]) : k \in DOMAIN f})
    <2> DEFINE T == {{k} \X (1..f[k]) : k \in DOMAIN f}
               h == [k \in DOMAIN f |-> {k} \X (1..f[k])]
    <2>1. h \in [DOMAIN f -> T] /\ \A t \in T : \E k \in DOMAIN f : h[k] = t
      OBVIOUS
    <2>2. h \in Surjection(DOMAIN f, T)
      BY Zenon, <2>1 DEF Surjection
    <2> HIDE DEF h
    <2> QED BY <2>2, FS_Surjection
  <1>3. IsFiniteSet(Units(f))
    BY Zenon, <1>1, <1>2, FS_UNION DEF Units
  <1> QED BY <1>3, FS_CardinalityType DEF Total

(* A sum over no entry is 0.                                                *)
LEMMA TotalEmpty ==
  ASSUME NEW f, DOMAIN f = {}
  PROVE  Total(f) = 0
  <1>1. Units(f) = {}
    BY DEF Units
  <1> QED BY <1>1, FS_EmptySet DEF Total

(* One more entry adds its number to the sum.                               *)
LEMMA TotalAdd ==
  ASSUME NEW f, NEW g, NEW k, IsFiniteSet(DOMAIN f), \A j \in DOMAIN f : f[j] \in Nat,
         k \notin DOMAIN f, DOMAIN g = DOMAIN f \cup {k}, g[k] \in Nat,
         \A j \in DOMAIN f : g[j] = f[j]
  PROVE  Total(g) = Total(f) + g[k]
  <1> DEFINE new == {k} \X (1..g[k])
  <1>1. Units(g) = Units(f) \cup new
    <2>1. {{j} \X (1..g[j]) : j \in DOMAIN g} = {{j} \X (1..f[j]) : j \in DOMAIN f} \cup {new}
      OBVIOUS
    <2> QED BY <2>1 DEF Units
  <1>2. Units(f) \cap new = {}
    BY DEF Units
  <1>3. IsFiniteSet(new) /\ Cardinality(new) = g[k]
    BY Zenon, ColumnSize
  <1> HIDE DEF new
  <1>4. IsFiniteSet(Units(f)) /\ Cardinality(Units(f)) \in Nat
    BY UnitsFinite DEF Total
  <1>5. Cardinality(Units(f) \cap new) = 0
    BY <1>2, FS_EmptySet
  <1>6. Cardinality(Units(f) \cup new)
          = Cardinality(Units(f)) + Cardinality(new) - Cardinality(Units(f) \cap new)
    BY <1>3, <1>4, FS_Union
  <1> QED BY <1>1, <1>3, <1>4, <1>5, <1>6 DEF Total

-----------------------------------------------------------------------------
(* What is held.                                                            *)

(* An entry has a number of each resource.                                  *)
LEMMA HoldsNat ==
  ASSUME NEW e, HeldOK(e), NEW r
  PROVE  Holds(e, r) \in Nat /\ SymbolsSize(e) \in Nat
  BY DEF Holds, HeapNames, SymbolsSize, Size, HeldOK

(* The entries of the cache have a number of it together.                   *)
LEMMA TotalsNat ==
  ASSUME CacheOK, NEW r
  PROVE  Total(HeldBy(cache, r)) \in Nat /\ Total(SizesOf(cache)) \in Nat
  <1>1. \A k \in DOMAIN cache : HeldOK(cache[k])
    BY DEF CacheOK, EntryOK
  <1>2. IsFiniteSet(DOMAIN cache)
    BY DEF CacheOK
  <1>3. DOMAIN HeldBy(cache, r) = DOMAIN cache /\ DOMAIN SizesOf(cache) = DOMAIN cache
    BY DEF HeldBy, SizesOf
  <1>4. \A k \in DOMAIN cache : HeldBy(cache, r)[k] \in Nat /\ SizesOf(cache)[k] \in Nat
    BY <1>1, HoldsNat DEF HeldBy, SizesOf
  <1>5. Total(HeldBy(cache, r)) \in Nat
    BY <1>2, <1>3, <1>4, UnitsFinite
  <1>6. Total(SizesOf(cache)) \in Nat
    BY <1>2, <1>3, <1>4, UnitsFinite
  <1> QED BY <1>5, <1>6

(* What tmp_ctx gets or gives up changes the balance by as much.            *)
LEMMA OutStep ==
  ASSUME CacheOK, OutOK, HeldOK(ld), HeldOK(ld)', \A r \in Resource : HeldBy(cache', r) = HeldBy(cache, r),
         out' \in [Resource -> Int],
         \A r \in Resource \ {"map_ctx"} : out'[r] = out[r] + Holds(ld', r) - Holds(ld, r)
  PROVE  OutOK'
  <1> SUFFICES ASSUME NEW r \in Resource \ {"map_ctx"}
               PROVE  out'[r] = Holds(ld', r) + Total(HeldBy(cache', r))
    BY DEF OutOK
  <1>1. Holds(ld, r) \in Nat
    BY HoldsNat
  <1>2. Holds(ld', r) \in Nat
    BY HoldsNat
  <1>3. Total(HeldBy(cache, r)) \in Nat
    BY TotalsNat
  <1>4. out[r] = Holds(ld, r) + Total(HeldBy(cache, r)) /\ out'[r] = out[r] + Holds(ld', r) - Holds(ld, r)
    BY DEF OutOK
  <1>5. HeldBy(cache', r) = HeldBy(cache, r)
    OBVIOUS
  <1> QED BY <1>1, <1>2, <1>3, <1>4, <1>5

(* What tmp_ctx allocates, it holds.                                        *)
LEMMA AllocStep ==
  ASSUME CacheOK, OutOK, ItemsOK, HeldOK(ld), HeldOK(ld)',
         \A r \in Resource : HeldBy(cache', r) = HeldBy(cache, r), pid'.items = pid.items,
         NEW new \in SUBSET (Resource \ {"name", "map_ctx"}), ld.held \cap new = {},
         ld'.held = ld.held \cup new, HeapNames(ld') = HeapNames(ld),
         out' = Alloc(out, new)
  PROVE  OutOK' /\ ItemsOK'
  <1>1. out \in [Resource -> Int]
    BY DEF OutOK
  <1>2. out' \in [Resource -> Int] /\ out'["map_ctx"] = out["map_ctx"]
    BY <1>1 DEF Alloc, Resource
  <1>3. ItemsOK'
    BY <1>2 DEF ItemsOK, Keyed
  <1>4. ASSUME NEW r \in Resource \ {"map_ctx"}
        PROVE  out'[r] = out[r] + Holds(ld', r) - Holds(ld, r)
    <2>1. out[r] \in Int /\ out'[r] = IF r \in new THEN out[r] + 1 ELSE out[r]
      BY <1>1 DEF Alloc
    <2>2. CASE r = "name"
      <3>1. HeapNames(ld) \in Nat
        BY DEF HeldOK, HeapNames
      <3> QED BY <2>1, <2>2, <3>1 DEF Holds
    <2>3. CASE r # "name"
      BY <2>1, <2>3 DEF Holds
    <2> QED BY <2>2, <2>3
  <1> QED BY <1>2, <1>3, <1>4, OutStep

(* What is done to the reference counts changes no holding.                 *)
LEMMA CacheSame ==
  ASSUME CacheOK, DOMAIN cache' = DOMAIN cache, cache' = [k \in DOMAIN cache |-> cache'[k]],
         \A k \in DOMAIN cache : \E n : cache'[k] = [cache[k] EXCEPT !.refcnt = n]
  PROVE  /\ CacheOK' /\ SizesOf(cache') = SizesOf(cache)
         /\ \A r \in Resource : HeldBy(cache', r) = HeldBy(cache, r)
  <1>1. ASSUME NEW k \in DOMAIN cache
        PROVE  /\ EntryOK(cache'[k]) /\ cache'[k].held = cache[k].held
               /\ cache'[k].names = cache[k].names /\ cache'[k].owner = cache[k].owner
               /\ cache'[k].kept = cache[k].kept
    <2>1. PICK n : cache'[k] = [cache[k] EXCEPT !.refcnt = n]
      OBVIOUS
    <2>2. EntryOK(cache[k])
      BY DEF CacheOK
    <2> DEFINE e == cache[k]
               d == cache'[k]
    <2>3. EntryOK(e) /\ d = [e EXCEPT !.refcnt = n]
      BY <2>1, <2>2
    <2> HIDE DEF e, d
    <2>4. EntryOK(d) /\ d.held = e.held /\ d.names = e.names /\ d.owner = e.owner /\ d.kept = e.kept
      BY <2>3 DEF EntryOK, HeldOK
    <2> QED BY <2>4 DEF e, d
  <1>2. CacheOK'
    BY <1>1 DEF CacheOK
  <1>3. \A k \in DOMAIN cache : SymbolsSize(cache'[k]) = SymbolsSize(cache[k])
    BY <1>1 DEF SymbolsSize, Size
  <1>4. ASSUME NEW r \in Resource PROVE HeldBy(cache', r) = HeldBy(cache, r)
    <2>1. \A k \in DOMAIN cache : Holds(cache'[k], r) = Holds(cache[k], r)
      BY <1>1 DEF Holds, HeapNames
    <2> QED BY <2>1 DEF HeldBy
  <1> QED BY <1>2, <1>3, <1>4 DEF SizesOf

-----------------------------------------------------------------------------
(* The steps.                                                               *)

(* Outside of an open, the walk has no descriptor.                          *)
LEMMA NoWalkFds ==
  ASSUME LoadInv
  PROVE  /\ ld.pc # "open" => walk.pc = "idle" /\ WalkFds = 0
         /\ WalkFds \in Int
  <1>1. walk.dirs \in Seq(Dir)
    BY DEF LoadInv, WalkInv, WalkTypes
  <1> QED BY <1>1 DEF LoadInv, TmpOK, TmpSteps, WalkFds, Opened

(* The steps that leave the context alone: sampling, building a table.      *)
LEMMA QuietInv ==
  ASSUME LoadInv, UNCHANGED <<tree, renames, visible, walk, fds, ld, cache, out, mem, pid, proc>>
  PROVE  LoadInv'
  <1>1. WalkInv' /\ WalkFds' = WalkFds
    BY ZenonT(30), WalkAlone DEF LoadInv
  <1>2. TmpOK' /\ CacheOK' /\ PidOK' /\ Busy' /\ OutOK' /\ ItemsOK' /\ MemOK'
    BY DEF LoadInv, TmpOK, TmpShape, TmpSteps, CacheOK, PidOK, Busy, Loading, Next_i, OutOK,
           ItemsOK, MemOK
  <1>3. FdsOK'
    BY <1>1 DEF LoadInv, FdsOK
  <1> QED BY <1>1, <1>2, <1>3 DEF LoadInv

(* A rename.                                                                *)
LEMMA RenameLoadInv ==
  ASSUME LoadInv, Rename, UNCHANGED loadVars
  PROVE  LoadInv'
  <1>1. WalkInv' /\ WalkFds' = WalkFds
    BY RenameInv DEF LoadInv
  <1>2. UNCHANGED <<walk, fds, ld, cache, out, mem, pid, proc>>
    BY DEF Rename, loadVars
  <1>3. TmpOK' /\ CacheOK' /\ PidOK' /\ Busy' /\ OutOK' /\ ItemsOK' /\ MemOK'
    BY <1>2 DEF LoadInv, TmpOK, TmpShape, TmpSteps, CacheOK, PidOK, Busy, Loading, Next_i, OutOK,
           ItemsOK, MemOK
  <1>4. FdsOK'
    BY <1>1, <1>2 DEF LoadInv, FdsOK
  <1> QED BY <1>1, <1>3, <1>4 DEF LoadInv

(* A step of the walk.                                                      *)
LEMMA WalkLoadInv ==
  ASSUME LoadInv, Walk
  PROVE  LoadInv'
  <1>1. ld.pc = "open" /\ UNCHANGED <<ld, cache, out, mem, pid, proc>>
    BY DEF Walk, loadVars
  <1>2. ld.fds \in Int /\ fds = ld.fds + WalkFds /\ WalkInv /\ proc \in Process
    BY DEF LoadInv, TmpOK, TmpSteps, FdsOK, PidOK
  <1>3. proc.openat2 \in BOOLEAN
    BY <1>2, LoadConstants
  <1>4. WalkInv' /\ fds' = ld.fds + WalkFds'
    BY ZenonT(30), <1>2, <1>3, Openat2Inv, CompatInv DEF Walk
  <1>5. TmpOK' /\ CacheOK' /\ PidOK' /\ Busy' /\ OutOK' /\ ItemsOK' /\ MemOK'
    BY <1>1 DEF LoadInv, TmpOK, TmpShape, TmpSteps, CacheOK, PidOK, Busy, Loading, Next_i, OutOK,
           ItemsOK, MemOK
  <1> QED BY <1>1, <1>4, <1>5 DEF LoadInv, FdsOK

(* The vDSO is dumped.                                                      *)
LEMMA DumpVdsoInv ==
  ASSUME LoadInv, DumpVdso
  PROVE  LoadInv'
  <1>1. /\ ld.pc = "idle" /\ Loading /\ UNCHANGED <<walkVars, cache, out, mem, pid, proc>>
        /\ ld' = ld \/ ld' = [ld EXCEPT !.pc = "loaded"]
    BY DEF DumpVdso
  <1>2. UNCHANGED <<tree, renames, visible, walk, fds>>
    BY <1>1 DEF walkVars
  <1>3. CASE ld' = ld
    BY <1>1, <1>2, <1>3, QuietInv
  <1>4. CASE ld' = [ld EXCEPT !.pc = "loaded"]
    <2>1. WalkInv' /\ WalkFds' = WalkFds
      BY <1>2, WalkAlone DEF LoadInv
    <2>2. TmpOK
      BY DEF LoadInv
    <2>3. /\ ld'.held = ld.held /\ ld'.names = ld.names /\ ld'.owner = ld.owner /\ ld'.fds = ld.fds
          /\ ld'.kept = ld.kept
      BY <1>4, <2>2 DEF TmpOK, TmpShape
    <2>4. TmpOK'
      <3>1. TmpShape' /\ ld'.pc = "loaded" /\ ld'.key = ld.key
        BY <1>4, <2>2 DEF TmpOK, TmpShape
      <3> QED BY <1>1, <1>2, <2>2, <2>3, <3>1 DEF TmpOK, TmpSteps, HeldOK
    <2>5. CacheOK' /\ PidOK' /\ ItemsOK' /\ Busy'
      BY <1>1 DEF LoadInv, CacheOK, PidOK, ItemsOK, Busy, Loading, Next_i
    <2>6. OutOK'
      BY <1>1, <2>3 DEF LoadInv, OutOK, Holds, HeapNames
    <2>7. MemOK' /\ FdsOK'
      BY <1>1, <1>2, <2>1, <2>3 DEF LoadInv, MemOK, FdsOK, SymbolsSize, Size
    <2> QED BY Zenon, <2>1, <2>4, <2>5, <2>6, <2>7 DEF LoadInv
  <1> QED BY <1>1, <1>3, <1>4

(* The result of the walk is taken.                                         *)
LEMMA LoadOpenedInv ==
  ASSUME LoadInv, LoadOpened
  PROVE  LoadInv'
  <1>1. /\ ld.pc = "open" /\ walk.pc = "returned" /\ walk' = NoWalk
        /\ UNCHANGED <<tree, renames, visible, fds, cache, out, mem, pid, proc>>
        /\ ld' = IF walk.result \in Node
                   THEN [ld EXCEPT !.pc = "scan", !.file = walk.result, !.fds = 1]
                   ELSE [ld EXCEPT !.pc = "exit"]
    BY DEF LoadOpened
  <1>2. WalkInv' /\ WalkFds' = 0
    BY <1>1, WalkTaken DEF LoadInv
  <1>3. TmpOK /\ walk'.pc = "idle"
    BY <1>1 DEF LoadInv, NoWalk
  <1>4. /\ ld'.held = ld.held /\ ld'.names = ld.names /\ ld'.owner = ld.owner
        /\ ld'.kept = ld.kept
        /\ ld'.fds = Opened(walk.result) /\ ld'.pc \in {"scan", "exit"}
    BY <1>1, <1>3 DEF TmpOK, TmpShape, TmpSteps, Opened
  <1>5. TmpOK'
    <2>1. TmpShape'
      BY Zenon, <1>1, <1>3 DEF TmpOK, TmpShape
    <2>2. ld'.fds \in Int
      BY <1>4 DEF Opened
    <2> QED BY <1>1, <1>3, <1>4, <2>1, <2>2 DEF TmpOK, TmpSteps, HeldOK
  <1>6. CacheOK' /\ PidOK' /\ ItemsOK' /\ Busy'
    BY <1>1 DEF LoadInv, CacheOK, PidOK, ItemsOK, Busy, Loading, Next_i
  <1>7. OutOK'
    BY <1>1, <1>4 DEF LoadInv, OutOK, Holds, HeapNames
  <1>8. MemOK'
    BY <1>1, <1>4 DEF LoadInv, MemOK, SymbolsSize, Size
  <1>9. FdsOK'
    <2>1. fds = WalkFds /\ WalkFds = Opened(walk.result)
      BY <1>1, <1>3, NoWalkFds DEF LoadInv, FdsOK, WalkFds, TmpOK, TmpSteps
    <2> QED BY <1>1, <1>2, <1>4, <2>1 DEF FdsOK, Opened
  <1> QED BY <1>2, <1>5, <1>6, <1>7, <1>8, <1>9 DEF LoadInv

(* A step of tmp_ctx: what is left to show.                                 *)
LEMMA TmpInv ==
  ASSUME LoadInv, UNCHANGED <<tree, renames, visible, walk, pid, proc>>,
         TmpOK', CacheOK', OutOK', ItemsOK', MemOK', fds' = fds + ld'.fds - ld.fds,
         ld.pc # "idle" \/ Loading \/ UNCHANGED ld
  PROVE  LoadInv'
  <1>1. WalkInv' /\ WalkFds' = WalkFds
    BY WalkAlone DEF LoadInv
  <1>2. PidOK' /\ Busy'
    BY DEF LoadInv, PidOK, Busy, Loading, Next_i
  <1>3. FdsOK'
    <2>1. WalkFds \in Int /\ ld.fds \in Int /\ ld'.fds \in Int
      BY NoWalkFds DEF LoadInv, TmpOK, TmpSteps
    <2> QED BY <1>1, <2>1 DEF LoadInv, FdsOK
  <1> QED BY <1>1, <1>2, <1>3 DEF LoadInv

(* A load gives up, with what it holds.                                     *)
LEMMA GiveUpInv ==
  ASSUME LoadInv, UNCHANGED <<tree, renames, visible, walk, fds, cache, out, mem, pid, proc>>,
         ld.pc \in {"scan", "opendebug", "cfi", "publish"},
         NEW new \in {"exit", "fill"}, ld' = [ld EXCEPT !.pc = new],
         new = "fill" => ld.pc = "cfi"
  PROVE  LoadInv'
  <1>1. TmpOK
    BY DEF LoadInv
  <1>2. /\ TmpShape' /\ ld'.pc = new /\ ld'.key = ld.key /\ ld'.held = ld.held
        /\ ld'.names = ld.names /\ ld'.owner = ld.owner /\ ld'.kept = ld.kept /\ ld'.fds = ld.fds
    BY <1>1 DEF TmpOK, TmpShape
  <1>3. TmpOK'
    BY <1>1, <1>2 DEF TmpOK, TmpSteps, HeldOK
  <1>4. CacheOK' /\ ItemsOK'
    BY DEF LoadInv, CacheOK, ItemsOK
  <1>5. OutOK'
    BY <1>2 DEF LoadInv, OutOK, Holds, HeapNames
  <1>6. MemOK'
    BY <1>2 DEF LoadInv, MemOK, SymbolsSize, Size
  <1>7. fds' = fds + ld'.fds - ld.fds
    BY <1>1, <1>2, NoWalkFds DEF LoadInv, FdsOK, TmpOK, TmpSteps
  <1> QED BY <1>3, <1>4, <1>5, <1>6, <1>7, TmpInv

(* tmp_ctx allocates something that is not the table.                       *)
LEMMA TakeInv ==
  ASSUME LoadInv, UNCHANGED <<tree, renames, visible, walk, pid, proc>>, ld.pc # "idle",
         NEW new \in SUBSET (Resource \ {"name", "map_ctx", "symbols"}), ld.held \cap new = {},
         out' = Alloc(out, new), ld'.held = ld.held \cup new, TmpOK', CacheOK',
         HeapNames(ld') = HeapNames(ld), SymbolsSize(ld') = SymbolsSize(ld),
         SizesOf(cache') = SizesOf(cache), \A r \in Resource : HeldBy(cache', r) = HeldBy(cache, r),
         mem' = IF "gu_cfi" \in new THEN [mem EXCEPT !.cfi = @ + 1] ELSE mem,
         fds' = fds + ld'.fds - ld.fds
  PROVE  LoadInv'
  <1>1. OutOK' /\ ItemsOK'
    <2>1. CacheOK /\ OutOK /\ ItemsOK /\ HeldOK(ld) /\ HeldOK(ld)'
      BY DEF LoadInv, TmpOK, TmpSteps
    <2> QED BY <2>1, AllocStep
  <1>2. MemOK'
    <2>1. /\ mem = [symbols |-> mem.symbols, cfi |-> mem.cfi]
          /\ mem.symbols = SymbolsSize(ld) + Total(SizesOf(cache)) /\ mem.cfi = out["gu_cfi"]
      BY DEF LoadInv, MemOK
    <2>2. out'["gu_cfi"] = IF "gu_cfi" \in new THEN out["gu_cfi"] + 1 ELSE out["gu_cfi"]
      BY DEF Alloc, Resource
    <2> QED BY <2>1, <2>2 DEF MemOK
  <1> QED BY <1>1, <1>2, TmpInv

(* The file is scanned.                                                     *)
LEMMA LoadScanInv ==
  ASSUME LoadInv, LoadScan
  PROVE  LoadInv'
  <1>1. /\ ld.pc = "scan" /\ UNCHANGED <<tree, renames, visible, walk, fds, pid, proc, mem>>
    BY DEF LoadScan, walkVars
  <1>2. TmpOK /\ CacheOK
    BY DEF LoadInv
  <1>3. CASE ld' = [ld EXCEPT !.pc = "exit"] /\ UNCHANGED <<out, cache>>
    BY <1>1, <1>3, GiveUpInv
  <1>4. CASE /\ ld' = [ld EXCEPT !.pc = "exit", !.held = @ \cup {"elf"}]
             /\ out' = Alloc(out, {"elf"}) /\ UNCHANGED cache
    <2>1. /\ TmpShape' /\ ld'.pc = "exit" /\ ld'.held = ld.held \cup {"elf"}
          /\ ld'.names = ld.names /\ ld'.owner = ld.owner /\ ld'.kept = ld.kept /\ ld'.fds = ld.fds
      BY ZenonT(30), <1>2, <1>4 DEF TmpOK, TmpShape
    <2>2. TmpOK'
      BY Zenon, <1>1, <1>2, <2>1 DEF TmpOK, TmpSteps, HeldOK, Resource
    <2>3. "elf" \notin ld.held /\ ld.fds \in Int
      BY <1>1, <1>2 DEF TmpOK, TmpSteps
    <2>4. CacheOK' /\ SizesOf(cache') = SizesOf(cache) /\ \A r \in Resource : HeldBy(cache', r) = HeldBy(cache, r)
      BY <1>2, <1>4 DEF CacheOK
    <2>5. HeapNames(ld') = HeapNames(ld) /\ SymbolsSize(ld') = SymbolsSize(ld)
      BY <2>1 DEF HeapNames, SymbolsSize, Size
    <2>6. fds' = fds + ld'.fds - ld.fds
      BY <1>1, <2>1, <2>3, NoWalkFds DEF LoadInv, FdsOK
    <2>7. {"elf"} \in SUBSET (Resource \ {"name", "map_ctx", "symbols"}) /\ ld.held \cap {"elf"} = {}
      BY <2>3 DEF Resource
    <2>8. mem' = IF "gu_cfi" \in {"elf"} THEN [mem EXCEPT !.cfi = @ + 1] ELSE mem
      BY <1>1
    <2> QED BY <1>1, <1>4, <2>1, <2>2, <2>4, <2>5, <2>6, <2>7, <2>8, TakeInv
  <1> DEFINE key == Identity(Content[ld.file].scn, ld.file)
             hit == key \in DOMAIN cache
             new == {"elf", "build_id"}
  <1>5. CASE /\ ld' = [ld EXCEPT !.pc = IF hit THEN "hit" ELSE "debug", !.key = key,
                                 !.scn = scan_all_elf_scn(@, ld.file), !.held = @ \cup new]
             /\ out' = Alloc(out, new)
             /\ cache' = IF hit THEN [cache EXCEPT ![key].refcnt = @ + 1] ELSE cache
    <2> HIDE DEF key
    <2>1. /\ TmpShape' /\ ld'.pc = (IF hit THEN "hit" ELSE "debug") /\ ld'.held = ld.held \cup new
          /\ ld'.key = key
          /\ ld'.names = ld.names /\ ld'.owner = ld.owner /\ ld'.kept = ld.kept /\ ld'.fds = ld.fds
      BY Zenon, <1>2, <1>5 DEF TmpOK, TmpShape
    <2>2. DOMAIN cache' = DOMAIN cache
      BY Zenon, <1>2, <1>5 DEF CacheOK
    <2>3. TmpOK'
      BY Zenon, <1>1, <1>2, <2>1, <2>2 DEF TmpOK, TmpSteps, HeldOK, Resource, Late
    <2>4. ld.held \cap new = {} /\ ld.fds \in Int
      BY <1>1, <1>2 DEF TmpOK, TmpSteps
    <2>5. CacheOK' /\ SizesOf(cache') = SizesOf(cache) /\ \A r \in Resource : HeldBy(cache', r) = HeldBy(cache, r)
      <3>1. CASE ~hit
        BY <1>2, <1>5, <3>1 DEF CacheOK
      <3>2. CASE hit
        <4>1. cache' = [k \in DOMAIN cache |->
                          IF k = key THEN [cache[k] EXCEPT !.refcnt = @ + 1] ELSE cache[k]]
          BY Zenon, <1>2, <1>5, <3>2 DEF CacheOK
        <4>2. ASSUME NEW k \in DOMAIN cache
              PROVE  \E n : cache'[k] = [cache[k] EXCEPT !.refcnt = n]
          <5>1. CASE k = key
            BY Zenon, <4>1, <5>1
          <5>2. CASE k # key
            <6>1. cache'[k] = cache[k] /\ EntryOK(cache[k])
              BY <1>2, <4>1, <5>2 DEF CacheOK
            <6>2. cache[k] = [cache[k] EXCEPT !.refcnt = cache[k].refcnt]
              BY <6>1 DEF EntryOK
            <6> QED BY <6>1, <6>2
          <5> QED BY Zenon, <5>1, <5>2
        <4>3. cache' = [k \in DOMAIN cache |-> cache'[k]]
          BY <4>1
        <4> QED BY Zenon, <1>2, <2>2, <4>2, <4>3, CacheSame
      <3> QED BY <3>1, <3>2
    <2>6. HeapNames(ld') = HeapNames(ld) /\ SymbolsSize(ld') = SymbolsSize(ld)
      BY <2>1 DEF HeapNames, SymbolsSize, Size
    <2>7. fds' = fds + ld'.fds - ld.fds
      BY <1>1, <2>1, <2>4, NoWalkFds DEF LoadInv, FdsOK
    <2>8. new \in SUBSET (Resource \ {"name", "map_ctx", "symbols"})
      BY DEF Resource
    <2>9. mem' = IF "gu_cfi" \in new THEN [mem EXCEPT !.cfi = @ + 1] ELSE mem
      BY <1>1
    <2> QED BY Zenon, <1>1, <1>5, <2>1, <2>3, <2>4, <2>5, <2>6, <2>7, <2>8, <2>9, TakeInv
  <1> QED BY <1>3, <1>4, <1>5 DEF LoadScan

(* A cache that stays has what it had.                                      *)
LEMMA CacheStays ==
  ASSUME CacheOK, UNCHANGED cache
  PROVE  /\ CacheOK' /\ SizesOf(cache') = SizesOf(cache)
         /\ \A r \in Resource : HeldBy(cache', r) = HeldBy(cache, r)
  BY DEF CacheOK

(* The debug file is found, and the executable ranges.                      *)
LEMMA LoadDebugPathInv ==
  ASSUME LoadInv, LoadDebugPath
  PROVE  LoadInv'
  <1>1. /\ ld.pc = "debug" /\ UNCHANGED <<tree, renames, visible, walk, fds, pid, proc, mem, cache>>
    BY DEF LoadDebugPath, walkVars
  <1>2. TmpOK /\ CacheOK
    BY DEF LoadInv
  <1>3. PICK ranges \in {ExecRanges(Content[ld.file].segs), <<>>} :
          LET new == {"debug_file_path"} \cup (IF ranges = <<>> THEN {} ELSE {"exec_ranges"})
          IN /\ ld' = [ld EXCEPT !.pc = IF DebugFile = NoNode THEN "cfi" ELSE "opendebug",
                              !.debug = DebugFile, !.ranges = ranges, !.held = @ \cup new,
                              !.first = IF ranges # <<>> THEN FirstStart(ranges)
                                        ELSE ExecVirtAddr(Content[ld.file].segs)]
             /\ out' = Alloc(out, new)
    BY Zenon DEF LoadDebugPath
  <1> DEFINE new == {"debug_file_path"} \cup (IF ranges = <<>> THEN {} ELSE {"exec_ranges"})
  <1>4. /\ new \subseteq {"debug_file_path", "exec_ranges"} /\ out' = Alloc(out, new)
        /\ ld' = [ld EXCEPT !.pc = IF DebugFile = NoNode THEN "cfi" ELSE "opendebug",
                              !.debug = DebugFile, !.ranges = ranges, !.held = @ \cup new,
                              !.first = IF ranges # <<>> THEN FirstStart(ranges)
                                        ELSE ExecVirtAddr(Content[ld.file].segs)]
    BY <1>3
  <1> HIDE DEF new
  <1>5. /\ TmpShape' /\ ld'.pc \in {"cfi", "opendebug"} /\ ld'.held = ld.held \cup new
        /\ ld'.key = ld.key
        /\ ld'.names = ld.names /\ ld'.owner = ld.owner /\ ld'.kept = ld.kept /\ ld'.fds = ld.fds
    BY Zenon, <1>2, <1>4 DEF TmpOK, TmpShape
  <1>6. TmpOK'
    BY <1>1, <1>2, <1>4, <1>5 DEF TmpOK, TmpSteps, HeldOK, Resource, Late
  <1>7. ld.held \cap new = {} /\ ld.fds \in Int
    BY <1>1, <1>2, <1>4 DEF TmpOK, TmpSteps
  <1>8. HeapNames(ld') = HeapNames(ld) /\ SymbolsSize(ld') = SymbolsSize(ld)
    <2>1. "symbols" \notin new
      BY <1>4
    <2> QED BY <1>5, <2>1 DEF HeapNames, SymbolsSize, Size
  <1>9. fds' = fds + ld'.fds - ld.fds
    BY <1>1, <1>5, <1>7, NoWalkFds DEF LoadInv, FdsOK
  <1>10. new \in SUBSET (Resource \ {"name", "map_ctx", "symbols"}) /\ "gu_cfi" \notin new
    BY <1>4 DEF Resource
  <1>11. mem' = IF "gu_cfi" \in new THEN [mem EXCEPT !.cfi = @ + 1] ELSE mem
    BY <1>1, <1>10
  <1>12. /\ CacheOK' /\ SizesOf(cache') = SizesOf(cache)
         /\ \A r \in Resource : HeldBy(cache', r) = HeldBy(cache, r)
    BY <1>1, <1>2, CacheStays
  <1> QED BY <1>1, <1>4, <1>5, <1>6, <1>7, <1>8, <1>9, <1>10, <1>11, <1>12, TakeInv

(* The debug file is opened.                                                *)
LEMMA LoadDebugFileInv ==
  ASSUME LoadInv, LoadDebugFile
  PROVE  LoadInv'
  <1>1. /\ ld.pc = "opendebug" /\ UNCHANGED <<tree, renames, visible, walk, pid, proc, mem, cache>>
    BY DEF LoadDebugFile
  <1>2. TmpOK /\ CacheOK
    BY DEF LoadInv
  <1>3. CASE ld' = [ld EXCEPT !.pc = "exit"] /\ UNCHANGED <<out, fds>>
    BY <1>1, <1>3, GiveUpInv
  <1> DEFINE new == {"debug_elf"}
  <1>4. CASE /\ ld' = IF Content[ld.debug].elf
                        THEN [ld EXCEPT !.pc = "cfi", !.held = @ \cup new, !.fds = @ + 1,
                                        !.scn = scan_all_elf_scn(@, ld.debug)]
                        ELSE [ld EXCEPT !.pc = "exit", !.held = @ \cup new, !.fds = @ + 1]
             /\ out' = Alloc(out, new) /\ fds' = fds + 1
    <2> HIDE DEF new
    <2>1. /\ TmpShape' /\ ld'.pc \in {"cfi", "exit"} /\ ld'.held = ld.held \cup new
          /\ ld'.key = ld.key /\ ld'.fds = ld.fds + 1
          /\ ld'.names = ld.names /\ ld'.owner = ld.owner /\ ld'.kept = ld.kept
      BY ZenonT(30), <1>2, <1>4 DEF TmpOK, TmpShape
    <2>2. TmpOK'
      BY <1>1, <1>2, <2>1 DEF TmpOK, TmpSteps, HeldOK, Resource, Late, new
    <2>3. ld.held \cap new = {} /\ ld.fds \in Int
      BY <1>1, <1>2 DEF TmpOK, TmpSteps, Late, new
    <2>4. HeapNames(ld') = HeapNames(ld) /\ SymbolsSize(ld') = SymbolsSize(ld)
      BY <2>1 DEF HeapNames, SymbolsSize, Size, new
    <2>5. fds' = fds + ld'.fds - ld.fds
      BY <1>1, <1>4, <2>1, <2>3, NoWalkFds DEF LoadInv, FdsOK
    <2>6. new \in SUBSET (Resource \ {"name", "map_ctx", "symbols"}) /\ "gu_cfi" \notin new
      BY DEF Resource, new
    <2>7. mem' = IF "gu_cfi" \in new THEN [mem EXCEPT !.cfi = @ + 1] ELSE mem
      BY <1>1, <2>6
    <2>8. /\ CacheOK' /\ SizesOf(cache') = SizesOf(cache)
          /\ \A r \in Resource : HeldBy(cache', r) = HeldBy(cache, r)
      BY <1>1, <1>2, CacheStays
    <2> QED BY <1>1, <1>4, <2>1, <2>2, <2>3, <2>4, <2>5, <2>6, <2>7, <2>8, TakeInv
  <1> QED BY <1>3, <1>4 DEF LoadDebugFile

(* The CFI is read, or there is none.                                       *)
LEMMA LoadCfiInv ==
  ASSUME LoadInv, LoadCfi
  PROVE  LoadInv'
  <1>1. /\ ld.pc = "cfi" /\ UNCHANGED <<tree, renames, visible, walk, fds, pid, proc, cache>>
    BY DEF LoadCfi, walkVars
  <1>2. TmpOK /\ CacheOK
    BY DEF LoadInv
  <1>3. CASE ld' = [ld EXCEPT !.pc = "fill"] /\ UNCHANGED <<out, mem>>
    BY <1>1, <1>3, GiveUpInv
  <1> DEFINE new == {"gu_cfi"}
  <1>4. CASE /\ ld' = [ld EXCEPT !.pc = "fill", !.held = @ \cup new]
             /\ out' = Alloc(out, new) /\ mem' = [mem EXCEPT !.cfi = @ + 1]
    <2> HIDE DEF new
    <2>1. /\ TmpShape' /\ ld'.pc = "fill" /\ ld'.held = ld.held \cup new
          /\ ld'.key = ld.key /\ ld'.fds = ld.fds
          /\ ld'.names = ld.names /\ ld'.owner = ld.owner /\ ld'.kept = ld.kept
      BY ZenonT(30), <1>2, <1>4 DEF TmpOK, TmpShape
    <2>2. TmpOK'
      BY Zenon, <1>1, <1>2, <2>1 DEF TmpOK, TmpSteps, HeldOK, Resource, new
    <2>3. ld.held \cap new = {} /\ ld.fds \in Int
      BY Zenon, <1>1, <1>2 DEF TmpOK, TmpSteps, new
    <2>4. HeapNames(ld') = HeapNames(ld) /\ SymbolsSize(ld') = SymbolsSize(ld)
      BY <2>1 DEF HeapNames, SymbolsSize, Size, new
    <2>5. fds' = fds + ld'.fds - ld.fds
      BY <1>1, <2>1, <2>3, NoWalkFds DEF LoadInv, FdsOK
    <2>6. new \in SUBSET (Resource \ {"name", "map_ctx", "symbols"}) /\ "gu_cfi" \in new
      BY DEF Resource, new
    <2>7. mem' = IF "gu_cfi" \in new THEN [mem EXCEPT !.cfi = @ + 1] ELSE mem
      BY <1>4, <2>6
    <2>8. /\ CacheOK' /\ SizesOf(cache') = SizesOf(cache)
          /\ \A r \in Resource : HeldBy(cache', r) = HeldBy(cache, r)
      BY <1>1, <1>2, CacheStays
    <2> QED BY <1>1, <1>4, <2>1, <2>2, <2>3, <2>4, <2>5, <2>6, <2>7, <2>8, TakeInv
  <1> QED BY <1>3, <1>4 DEF LoadCfi

(* load_elf() begins.                                                       *)
LEMMA LoadBeginInv ==
  ASSUME LoadInv, LoadBegin
  PROVE  LoadInv'
  <1>1. /\ ld.pc = "idle" /\ Loading /\ UNCHANGED <<proc, pid, cache, mem>>
    BY DEF LoadBegin
  <1>2. TmpOK /\ CacheOK /\ PidOK /\ OutOK /\ ItemsOK /\ MemOK /\ WalkInv /\ WalkFds = 0 /\ walk.pc = "idle"
    BY ZenonT(30), <1>1, NoWalkFds DEF LoadInv
  <1>3. ld.held = {} /\ ld.names = 0 /\ ld.fds = 0 /\ fds = 0
    BY <1>1, <1>2 DEF TmpOK, TmpSteps, LoadInv, FdsOK
  <1>4. PICK held \in {{"base_name"}, {"base_name", "elf_file_path"}} :
          /\ out' = Alloc(out, held)
          /\ \/ ld' = [[NoTmp EXCEPT !.held = held] EXCEPT !.pc = "exit"] /\ UNCHANGED walkVars
             \/ /\ UNCHANGED <<tree, renames, visible, availability, walk>> /\ fds' = fds + 1
                /\ \E file : ld' = [[NoTmp EXCEPT !.held = held] EXCEPT !.pc = "scan", !.file = file, !.fds = 1]
             \/ /\ ld' = [[NoTmp EXCEPT !.held = held] EXCEPT !.pc = "open"]
                /\ gu_open_pid_root_path(Map.path) /\ ~IsVdso(Map)
    <2>1. fds + 0 = fds
      BY <1>3
    <2> QED BY Zenon, <2>1 DEF LoadBegin, walkVars
  <1>5. /\ held \in SUBSET (Resource \ {"name", "map_ctx", "symbols", "gu_cfi"}) /\ held \cap Late = {}
        /\ held \cap {"elf", "build_id", "exec_ranges", "debug_file_path"} = {}
    BY Zenon, <1>4 DEF Resource, Late
  <1>6. /\ TmpShape' /\ ld'.held = held /\ ld'.names = 0 /\ ld'.kept = <<>>
        /\ \/ ld'.pc = "exit" /\ ld'.fds = 0 /\ UNCHANGED walkVars
           \/ ld'.pc = "scan" /\ ld'.fds = 1 /\ fds' = fds + 1 /\ UNCHANGED <<tree, renames, visible, walk>>
           \/ ld'.pc = "open" /\ ld'.fds = 0 /\ gu_open_pid_root_path(Map.path) /\ ~IsVdso(Map)
    BY ZenonT(30), <1>4 DEF NoTmp, TmpShape
  <1>7. TmpOK'
    <2>1. walk'.pc # "idle" => ld'.pc = "open"
      BY ZenonT(30), <1>2, <1>6 DEF walkVars
    <2>2. HeldOK(ld')
      BY <1>5, <1>6 DEF HeldOK
    <2>3. ld'.pc \in {"exit", "scan", "open"} /\ ld'.fds \in Int /\ (ld'.pc = "open" => ld'.fds = 0)
      BY <1>6
    <2> QED BY <1>5, <1>6, <2>1, <2>2, <2>3 DEF TmpOK, TmpSteps
  <1>8. /\ CacheOK' /\ SizesOf(cache') = SizesOf(cache)
        /\ \A r \in Resource : HeldBy(cache', r) = HeldBy(cache, r)
    BY Zenon, <1>1, <1>2, CacheStays
  <1>9. HeapNames(ld') = HeapNames(ld) /\ SymbolsSize(ld') = SymbolsSize(ld)
    BY <1>3, <1>5, <1>6 DEF HeapNames, SymbolsSize
  <1>10. OutOK' /\ ItemsOK'
    <2>1. HeldOK(ld) /\ HeldOK(ld)'
      BY Zenon, <1>2, <1>7 DEF TmpOK, TmpSteps
    <2>2. held \in SUBSET (Resource \ {"name", "map_ctx"}) /\ ld.held \cap held = {} /\ ld'.held = ld.held \cup held
      BY Zenon, <1>3, <1>5, <1>6
    <2> QED BY Zenon, <1>1, <1>2, <1>4, <1>8, <1>9, <2>1, <2>2, AllocStep
  <1>11. MemOK'
    <2>1. out'["gu_cfi"] = out["gu_cfi"]
      BY ZenonT(30), <1>4, <1>5 DEF Alloc, Resource
    <2> QED BY <1>1, <1>2, <1>8, <1>9, <2>1 DEF MemOK
  <1>12. CASE ld'.pc # "open"
    <2>1. UNCHANGED <<tree, renames, visible, walk>> /\ fds' = fds + ld'.fds - ld.fds
      BY <1>3, <1>6, <1>12 DEF walkVars
    <2> QED BY <1>1, <1>7, <1>8, <1>10, <1>11, <2>1, TmpInv
  <1>13. CASE ld'.pc = "open"
    <2>1. gu_open_pid_root_path(Map.path) /\ ~IsVdso(Map) /\ ld'.fds = 0
      BY Zenon, <1>6, <1>13
    <2>2. Map.path \in Seq(Component)
      <3>1. Next_i \in 1..Len(pid.maps)
        <4>1. Len(pid.items) \in Nat
          BY <1>2 DEF PidOK
        <4> QED BY <1>1, <1>2, <4>1 DEF Loading, Next_i, PidOK
      <3>2. pid.maps = gu_get_maps_info(proc.lines) /\ proc \in Process
        BY <1>2, <3>1 DEF PidOK
      <3> QED BY <2>1, <3>1, <3>2, LoadConstants DEF Map, IsVdso
    <2>3. WalkInv' /\ fds' = 0 + WalkFds'
      <3>1. fds = 0 + WalkFds
        BY <1>2, <1>3
      <3> QED BY <1>2, <2>1, <2>2, <3>1, OpenInv
    <2>4. PidOK' /\ Busy'
      BY ZenonT(30), <1>1, <1>2 DEF PidOK, Busy, Loading, Next_i
    <2> QED BY <1>7, <1>8, <1>10, <1>11, <2>1, <2>3, <2>4 DEF LoadInv, FdsOK
  <1> QED BY <1>12, <1>13

(* The names are copied.                                                    *)
LEMMA LoadNamesInv ==
  ASSUME LoadInv, LoadNames
  PROVE  LoadInv'
  <1>1. /\ ld.pc = "fill" /\ UNCHANGED <<tree, renames, visible, walk, fds, proc, pid, cache, mem>>
    BY DEF LoadNames, walkVars
  <1>2. TmpOK /\ CacheOK /\ OutOK /\ ItemsOK /\ MemOK
    BY Zenon DEF LoadInv
  <1>3. /\ ld.held \cap {"symbols", "arena"} = {} /\ ld.names = 0 /\ ld.fds \in Int
        /\ HeldOK(ld) /\ ld.key \notin DOMAIN cache /\ walk.pc = "idle"
    BY <1>1, <1>2 DEF TmpOK, TmpSteps
  <1>4. PICK n, kept :
          /\ n \in 0..Len(kept)
          /\ \/ /\ n = Len(kept)
                /\ ld' = [ld EXCEPT !.pc = "build", !.owner = Owner, !.names = n, !.kept = kept,
                                    !.held = @ \cup golang_strip_name_to_arena(n)]
             \/ ld' = [ld EXCEPT !.pc = "err_free", !.owner = Owner, !.names = n,
                                 !.held = @ \cup golang_strip_name_to_arena(n)]
          /\ out' = [Alloc(out, golang_strip_name_to_arena(n))
                       EXCEPT !["name"] = IF Owner = "heap" THEN @ + n ELSE @]
    BY Zenon DEF LoadNames
  <1> DEFINE new == golang_strip_name_to_arena(n)
             by == Owner
  <1>5. n \in Nat /\ new \in SUBSET {"arena"}
    BY <1>4 DEF golang_strip_name_to_arena
  <1>6. /\ TmpShape' /\ ld'.held = ld.held \cup new /\ ld'.names = n /\ ld'.owner = by
        /\ ld'.fds = ld.fds /\ ld'.key = ld.key
        /\ ld'.pc \in {"build", "err_free"} /\ (ld'.pc = "build" => Len(ld'.kept) \in Nat)
    <2> HIDE DEF new, by
    <2>1. \/ n = Len(kept) /\ ld' = [ld EXCEPT !.pc = "build", !.owner = by, !.names = n, !.kept = kept, !.held = @ \cup new]
          \/ ld' = [ld EXCEPT !.pc = "err_free", !.owner = by, !.names = n, !.held = @ \cup new]
      BY <1>4 DEF new, by
    <2> QED BY ZenonT(30), <1>2, <1>5, <2>1 DEF TmpOK, TmpShape
  <1>7. out' = [Alloc(out, new) EXCEPT !["name"] = IF by = "heap" THEN @ + n ELSE @]
    BY <1>4
  <1> HIDE DEF new, by
  <1>8. HeldOK(ld')
    BY ZenonT(30), <1>3, <1>5, <1>6 DEF HeldOK, Resource
  <1>9. TmpOK'
    BY <1>1, <1>3, <1>5, <1>6, <1>8 DEF TmpOK, TmpSteps
  <1>10. out \in [Resource -> Int]
    BY <1>2 DEF OutOK
  <1>11. /\ out' \in [Resource -> Int]
         /\ out'["name"] = out["name"] + (IF by = "heap" THEN n ELSE 0)
         /\ \A r \in Resource \ {"name"} : out'[r] = IF r \in new THEN out[r] + 1 ELSE out[r]
    <2>1. Alloc(out, new) \in [Resource -> Int]
      BY <1>10 DEF Alloc
    <2>2. \A r \in Resource : Alloc(out, new)[r] = IF r \in new THEN out[r] + 1 ELSE out[r]
      BY DEF Alloc
    <2>3. "name" \in Resource /\ "name" \notin new
      BY <1>5 DEF Resource
    <2> QED BY <1>5, <1>7, <1>10, <2>1, <2>2, <2>3
  <1>12. /\ CacheOK' /\ SizesOf(cache') = SizesOf(cache)
         /\ \A r \in Resource : HeldBy(cache', r) = HeldBy(cache, r)
    BY ZenonT(30), <1>1, <1>2, CacheStays
  <1>13. OutOK'
    <2>1. ASSUME NEW r \in Resource \ {"map_ctx"}
          PROVE  out'[r] = out[r] + Holds(ld', r) - Holds(ld, r)
      <3>1. CASE r = "name"
        BY <1>3, <1>5, <1>6, <1>10, <1>11, <3>1 DEF Holds, HeapNames, Resource
      <3>2. CASE r # "name"
        <4>1. out[r] \in Int /\ out'[r] = IF r \in new THEN out[r] + 1 ELSE out[r]
          BY Zenon, <1>10, <1>11, <3>2
        <4>2. /\ Holds(ld, r) = IF r \in ld.held THEN 1 ELSE 0
              /\ Holds(ld', r) = IF r \in ld.held \cup new THEN 1 ELSE 0
          BY <1>6, <3>2 DEF Holds
        <4>3. ld.held \cap new = {}
          BY Zenon, <1>3, <1>5
        <4> QED BY <4>1, <4>2, <4>3
      <3> QED BY ZenonT(30), <3>1, <3>2
    <2>2. HeldOK(ld)'
      BY <1>8
    <2> QED BY <1>2, <1>3, <1>11, <1>12, <2>1, <2>2, OutStep
  <1>14. ItemsOK'
    BY <1>1, <1>2, <1>5, <1>11 DEF ItemsOK, Resource
  <1>15. MemOK'
    <2>1. SymbolsSize(ld') = 0 /\ SymbolsSize(ld) = 0
      BY Zenon, <1>3, <1>5, <1>6 DEF SymbolsSize
    <2>2. out'["gu_cfi"] = out["gu_cfi"]
      BY ZenonT(30), <1>5, <1>11 DEF Resource
    <2> QED BY <1>1, <1>2, <1>12, <2>1, <2>2 DEF MemOK
  <1>16. fds' = fds + ld'.fds - ld.fds
    BY <1>1, <1>3, <1>6, NoWalkFds DEF LoadInv, FdsOK
  <1> QED BY <1>1, <1>9, <1>12, <1>13, <1>14, <1>15, <1>16, TmpInv

(* The table is built, or not.                                              *)
LEMMA LoadBuiltInv ==
  ASSUME LoadInv, LoadBuilt
  PROVE  LoadInv'
  <1>1. /\ ld.pc = "build" /\ UNCHANGED <<tree, renames, visible, walk, fds, proc, pid, cache>>
    BY DEF LoadBuilt, walkVars
  <1>2. TmpOK /\ CacheOK /\ OutOK /\ ItemsOK /\ MemOK
    BY DEF LoadInv
  <1>3. /\ "symbols" \notin ld.held /\ ld.names \in Nat /\ ld.fds \in Int /\ Len(ld.kept) \in Nat
        /\ HeldOK(ld) /\ ld.key \notin DOMAIN cache /\ walk.pc = "idle"
    BY <1>1, <1>2 DEF TmpOK, TmpSteps, HeldOK
  <1>4. /\ CacheOK' /\ SizesOf(cache') = SizesOf(cache)
        /\ \A r \in Resource : HeldBy(cache', r) = HeldBy(cache, r)
    BY Zenon, <1>1, <1>2, CacheStays
  <1>5. CASE ld' = [ld EXCEPT !.pc = "err_free", !.kept = <<>>] /\ UNCHANGED <<out, mem>>
    <2>1. /\ TmpShape' /\ ld'.held = ld.held /\ ld'.names = ld.names /\ ld'.owner = ld.owner
          /\ ld'.fds = ld.fds /\ ld'.key = ld.key /\ ld'.pc = "err_free"
      BY ZenonT(30), <1>2, <1>5 DEF TmpOK, TmpShape
    <2>2. TmpOK'
      BY <1>1, <1>3, <2>1 DEF TmpOK, TmpSteps, HeldOK
    <2>3. OutOK' /\ ItemsOK'
      BY Zenon, <1>1, <1>2, <1>5, <2>1 DEF OutOK, ItemsOK, Holds, HeapNames
    <2>4. SymbolsSize(ld') = SymbolsSize(ld)
      BY <1>3, <2>1 DEF SymbolsSize
    <2>5. MemOK'
      BY Zenon, <1>1, <1>2, <1>5, <2>4 DEF MemOK
    <2>6. fds' = fds + ld'.fds - ld.fds
      BY <1>1, <1>3, <2>1, NoWalkFds DEF LoadInv, FdsOK
    <2> QED BY <1>1, <1>4, <2>2, <2>3, <2>5, <2>6, TmpInv
  <1> DEFINE new == {"symbols"}
  <1>6. CASE /\ ld' = [ld EXCEPT !.pc = "publish", !.held = @ \cup new, !.items = items, !.array = array]
             /\ out' = Alloc(out, new) /\ mem' = [mem EXCEPT !.symbols = @ + Size(ld)]
    <2> HIDE DEF new
    <2>1. /\ TmpShape' /\ ld'.held = ld.held \cup new /\ ld'.names = ld.names /\ ld'.owner = ld.owner
          /\ ld'.fds = ld.fds /\ ld'.key = ld.key /\ ld'.pc = "publish" /\ ld'.kept = ld.kept
      BY ZenonT(30), <1>2, <1>6 DEF TmpOK, TmpShape
    <2>2. TmpOK'
      BY <1>1, <1>3, <2>1 DEF TmpOK, TmpSteps, HeldOK, Resource, new
    <2>3. OutOK' /\ ItemsOK'
      <3>1. HeldOK(ld)' /\ HeapNames(ld') = HeapNames(ld)
        BY Zenon, <2>1, <2>2 DEF TmpOK, TmpSteps, HeapNames
      <3>2. new \in SUBSET (Resource \ {"name", "map_ctx"}) /\ ld.held \cap new = {} /\ pid'.items = pid.items
        BY Zenon, <1>1, <1>3 DEF new, Resource
      <3> QED BY <1>2, <1>3, <1>4, <1>6, <2>1, <3>1, <3>2, AllocStep
    <2>4. SymbolsSize(ld') = Size(ld) /\ SymbolsSize(ld) = 0 /\ Size(ld) \in Nat
      BY <1>3, <2>1 DEF SymbolsSize, Size, new
    <2>5. MemOK'
      <3>1. out'["gu_cfi"] = out["gu_cfi"]
        BY <1>6 DEF Alloc, Resource, new
      <3>2. Total(SizesOf(cache)) \in Nat
        BY <1>2, TotalsNat
      <3>3. mem'.symbols = mem.symbols + Size(ld) /\ mem'.cfi = mem.cfi
            /\ mem' = [symbols |-> mem'.symbols, cfi |-> mem'.cfi]
        BY ZenonT(30), <1>2, <1>6 DEF MemOK
      <3> QED BY <1>1, <1>2, <1>4, <2>4, <3>1, <3>2, <3>3 DEF MemOK
    <2>6. fds' = fds + ld'.fds - ld.fds
      BY <1>1, <1>3, <2>1, NoWalkFds DEF LoadInv, FdsOK
    <2> QED BY <1>1, <1>4, <2>2, <2>3, <2>5, <2>6, TmpInv
  <1> QED BY <1>5, <1>6 DEF LoadBuilt

(* The names are freed: there is no table.                                  *)
LEMMA LoadErrFreeInv ==
  ASSUME LoadInv, LoadErrFree
  PROVE  LoadInv'
  <1>1. /\ ld.pc = "err_free" /\ UNCHANGED <<tree, renames, visible, walk, fds, proc, pid, cache, mem>>
        /\ ld' = [ld EXCEPT !.pc = "publish", !.names = 0]
        /\ out' = [out EXCEPT !["name"] = @ - HeapNames(ld)]
    BY DEF LoadErrFree, walkVars
  <1>2. TmpOK /\ CacheOK /\ OutOK /\ ItemsOK /\ MemOK
    BY DEF LoadInv
  <1>3. /\ "symbols" \notin ld.held /\ ld.names \in Nat /\ ld.fds \in Int
        /\ HeldOK(ld) /\ ld.key \notin DOMAIN cache /\ walk.pc = "idle"
    BY <1>1, <1>2 DEF TmpOK, TmpSteps, HeldOK
  <1>4. /\ CacheOK' /\ SizesOf(cache') = SizesOf(cache)
        /\ \A r \in Resource : HeldBy(cache', r) = HeldBy(cache, r)
    BY <1>1, <1>2, CacheStays
  <1>5. /\ TmpShape' /\ ld'.held = ld.held /\ ld'.names = 0
        /\ ld'.fds = ld.fds /\ ld'.key = ld.key /\ ld'.pc = "publish"
    BY Zenon, <1>1, <1>2 DEF TmpOK, TmpShape
  <1>6. TmpOK'
    BY <1>1, <1>3, <1>5 DEF TmpOK, TmpSteps, HeldOK
  <1>7. out \in [Resource -> Int] /\ HeapNames(ld) \in Nat /\ HeapNames(ld') = 0
    BY <1>2, <1>3, <1>5 DEF OutOK, HeapNames
  <1>8. /\ out' \in [Resource -> Int] /\ out'["name"] = out["name"] - HeapNames(ld)
        /\ \A r \in Resource \ {"name"} : out'[r] = out[r]
    BY <1>1, <1>7 DEF Resource
  <1>9. OutOK'
    <2>1. ASSUME NEW r \in Resource \ {"map_ctx"}
          PROVE  out'[r] = out[r] + Holds(ld', r) - Holds(ld, r)
      BY <1>5, <1>7, <1>8 DEF Holds
    <2>2. HeldOK(ld)'
      BY <1>6 DEF TmpOK, TmpSteps
    <2> QED BY Zenon, <1>2, <1>3, <1>4, <1>8, <2>1, <2>2, OutStep
  <1>10. ItemsOK'
    BY <1>1, <1>2, <1>8 DEF ItemsOK, Resource
  <1>11. MemOK'
    <2>1. SymbolsSize(ld') = 0 /\ SymbolsSize(ld) = 0
      BY <1>3, <1>5 DEF SymbolsSize
    <2>2. out'["gu_cfi"] = out["gu_cfi"]
      BY <1>8 DEF Resource
    <2> QED BY <1>1, <1>2, <1>4, <2>1, <2>2 DEF MemOK
  <1>12. fds' = fds + ld'.fds - ld.fds
    BY <1>1, <1>3, <1>5, NoWalkFds DEF LoadInv, FdsOK
  <1> QED BY <1>1, <1>4, <1>6, <1>9, <1>10, <1>11, <1>12, TmpInv

(* What is cleared is counted out.                                          *)
LEMMA ClearedIs ==
  ASSUME NEW o \in [Resource -> Int], NEW e, HeldOK(e), "symbols" \notin e.held => e.names = 0
  PROVE  /\ Cleared(o, e) \in [Resource -> Int]
         /\ \A r \in Resource : Cleared(o, e)[r] = o[r] - Holds(e, r)
  <1>1. HeapNames(e) \in Nat /\ ("symbols" \notin e.held => HeapNames(e) = 0)
    BY DEF HeldOK, HeapNames
  <1>2. \A r \in Resource : Cleared(o, e)[r] = o[r] - Holds(e, r) /\ o[r] - Holds(e, r) \in Int
    BY <1>1 DEF Cleared, Holds
  <1>3. Cleared(o, e) = [r \in Resource |-> Cleared(o, e)[r]]
    BY Zenon DEF Cleared
  <1> QED BY <1>2, <1>3

(* So is its memory.                                                        *)
LEMMA ClearedMemIs ==
  ASSUME NEW m, NEW e, HeldOK(e), m.symbols \in Int, m.cfi \in Int
  PROVE  /\ ClearedMem(m, e).symbols = m.symbols - SymbolsSize(e)
         /\ ClearedMem(m, e).cfi = m.cfi - Holds(e, "gu_cfi")
         /\ ClearedMem(m, e) = [symbols |-> ClearedMem(m, e).symbols, cfi |-> ClearedMem(m, e).cfi]
  BY DEF ClearedMem, SymbolsSize, Holds

(* Numbers of the statistics.                                               *)
LEMMA Numbers ==
  ASSUME LoadInv
  PROVE  /\ out \in [Resource -> Int] /\ mem.symbols \in Int /\ mem.cfi \in Int
         /\ HeldOK(ld) /\ ld.fds \in Int
  <1>1. out \in [Resource -> Int] /\ HeldOK(ld) /\ CacheOK /\ ld.fds \in Int
        /\ mem.symbols = SymbolsSize(ld) + Total(SizesOf(cache)) /\ mem.cfi = out["gu_cfi"]
    BY DEF LoadInv, OutOK, TmpOK, TmpSteps, MemOK
  <1>2. SymbolsSize(ld) \in Nat
    BY <1>1, HoldsNat
  <1>3. Total(SizesOf(cache)) \in Nat
    BY <1>1, TotalsNat
  <1> QED BY <1>1, <1>2, <1>3 DEF Resource

(* tmp_ctx is cleared: the load failed, or the entry was there.             *)
LEMMA LoadExitInv ==
  ASSUME LoadInv, LoadExit
  PROVE  LoadInv'
  <1>1. /\ ld.pc \in {"exit", "hit"} /\ UNCHANGED <<tree, renames, visible, walk, proc, pid, cache>>
        /\ ld' = [NoTmp EXCEPT !.pc = "loaded", !.key = IF ld.pc = "hit" THEN ld.key ELSE NoNode]
        /\ out' = Cleared(out, ld) /\ mem' = ClearedMem(mem, ld) /\ fds' = fds - ld.fds
    BY DEF LoadExit
  <1>2. TmpOK /\ CacheOK /\ OutOK /\ ItemsOK /\ MemOK
    BY DEF LoadInv
  <1>3. /\ out \in [Resource -> Int] /\ mem.symbols \in Int /\ mem.cfi \in Int /\ HeldOK(ld) /\ ld.fds \in Int
    BY Numbers
  <1>4. ("symbols" \notin ld.held => ld.names = 0) /\ walk.pc = "idle"
    BY <1>1, <1>2 DEF TmpOK, TmpSteps
  <1>5. /\ CacheOK' /\ SizesOf(cache') = SizesOf(cache)
        /\ \A r \in Resource : HeldBy(cache', r) = HeldBy(cache, r)
    BY <1>1, <1>2, CacheStays
  <1>6. /\ TmpShape' /\ ld'.pc = "loaded" /\ ld'.held = {} /\ ld'.fds = 0 /\ ld'.names = 0
    BY Zenon, <1>1 DEF NoTmp, TmpShape
  <1>7. TmpOK'
    BY <1>1, <1>4, <1>6 DEF TmpOK, TmpSteps, HeldOK
  <1>8. /\ out' \in [Resource -> Int] /\ \A r \in Resource : out'[r] = out[r] - Holds(ld, r)
    BY Zenon, <1>1, <1>3, <1>4, ClearedIs
  <1>9. \A r \in Resource : Holds(ld', r) = 0
    BY <1>6 DEF Holds, HeapNames
  <1>10. OutOK'
    <2>1. ASSUME NEW r \in Resource \ {"map_ctx"}
          PROVE  out'[r] = out[r] + Holds(ld', r) - Holds(ld, r)
      <3>1. Holds(ld, r) \in Nat /\ out[r] \in Int
        BY <1>3, HoldsNat
      <3> QED BY <1>8, <1>9, <3>1
    <2>2. HeldOK(ld)'
      BY <1>7 DEF TmpOK, TmpSteps
    <2> QED BY <1>2, <1>3, <1>5, <1>8, <2>1, <2>2, OutStep
  <1>11. ItemsOK'
    <2>1. Holds(ld, "map_ctx") = 0
      BY <1>3 DEF HeldOK, Holds
    <2>2. out'["map_ctx"] = out["map_ctx"]
      BY <1>3, <1>8, <2>1 DEF Resource
    <2> QED BY <1>1, <1>2, <2>2 DEF ItemsOK
  <1>12. MemOK'
    <2>1. SymbolsSize(ld') = 0 /\ SymbolsSize(ld) \in Nat
      BY <1>3, <1>6, HoldsNat DEF SymbolsSize
    <2>2. /\ mem'.symbols = mem.symbols - SymbolsSize(ld) /\ mem'.cfi = mem.cfi - Holds(ld, "gu_cfi")
          /\ mem' = [symbols |-> mem'.symbols, cfi |-> mem'.cfi]
      BY <1>1, <1>3, ClearedMemIs
    <2>3. out'["gu_cfi"] = out["gu_cfi"] - Holds(ld, "gu_cfi")
      BY <1>8 DEF Resource
    <2>4. Total(SizesOf(cache)) \in Nat
      BY <1>2, TotalsNat
    <2> QED BY <1>2, <1>5, <2>1, <2>2, <2>3, <2>4 DEF MemOK
  <1>13. fds' = fds + ld'.fds - ld.fds
    BY <1>1, <1>3, <1>6, NoWalkFds DEF LoadInv, FdsOK
  <1> QED BY <1>1, <1>5, <1>7, <1>10, <1>11, <1>12, <1>13, TmpInv

(* One entry more in the cache.                                             *)
LEMMA CacheAdd ==
  ASSUME CacheOK, NEW k, k \notin DOMAIN cache, NEW e, EntryOK(e),
         cache' = [j \in DOMAIN cache \cup {k} |-> IF j = k THEN e ELSE cache[j]]
  PROVE  /\ CacheOK' /\ Total(SizesOf(cache')) = Total(SizesOf(cache)) + SymbolsSize(e)
         /\ \A r \in Resource : Total(HeldBy(cache', r)) = Total(HeldBy(cache, r)) + Holds(e, r)
  <1>1. IsFiniteSet(DOMAIN cache) /\ \A j \in DOMAIN cache : EntryOK(cache[j]) /\ HeldOK(cache[j])
    BY DEF CacheOK, EntryOK
  <1>2. DOMAIN cache' = DOMAIN cache \cup {k} /\ cache'[k] = e /\ \A j \in DOMAIN cache : cache'[j] = cache[j]
    OBVIOUS
  <1>3. CacheOK'
    <2>1. IsFiniteSet(DOMAIN cache')
      BY ZenonT(30), <1>1, <1>2, FS_AddElement
    <2> QED BY Zenon, <1>1, <1>2, <2>1 DEF CacheOK
  <1>4. HeldOK(e)
    BY DEF EntryOK
  <1>5. Total(SizesOf(cache')) = Total(SizesOf(cache)) + SymbolsSize(e)
    <2> DEFINE f == SizesOf(cache)
               g == SizesOf(cache')
    <2>1. /\ DOMAIN f = DOMAIN cache /\ DOMAIN g = DOMAIN f \cup {k} /\ g[k] = SymbolsSize(e)
          /\ \A j \in DOMAIN f : g[j] = f[j]
      BY <1>2 DEF SizesOf
    <2>2. \A j \in DOMAIN f : f[j] \in Nat
      BY <1>1, HoldsNat DEF SizesOf
    <2>3. SymbolsSize(e) \in Nat
      BY <1>4, HoldsNat
    <2> HIDE DEF f, g
    <2>4. /\ IsFiniteSet(DOMAIN f) /\ k \notin DOMAIN f /\ g[k] \in Nat
          /\ DOMAIN g = DOMAIN f \cup {k} /\ \A j \in DOMAIN f : g[j] = f[j]
      BY Zenon, <1>1, <2>1, <2>3
    <2>5. Total(g) = Total(f) + g[k]
      BY Zenon, <2>2, <2>4, TotalAdd
    <2> QED BY ZenonT(30), <2>1, <2>5 DEF f, g
  <1>6. ASSUME NEW r \in Resource
        PROVE  Total(HeldBy(cache', r)) = Total(HeldBy(cache, r)) + Holds(e, r)
    <2> DEFINE f == HeldBy(cache, r)
               g == HeldBy(cache', r)
    <2>1. /\ DOMAIN f = DOMAIN cache /\ DOMAIN g = DOMAIN f \cup {k} /\ g[k] = Holds(e, r)
          /\ \A j \in DOMAIN f : g[j] = f[j]
      BY <1>2 DEF HeldBy
    <2>2. \A j \in DOMAIN f : f[j] \in Nat
      BY <1>1, HoldsNat DEF HeldBy
    <2>3. Holds(e, r) \in Nat
      BY <1>4, HoldsNat
    <2> HIDE DEF f, g
    <2>4. /\ IsFiniteSet(DOMAIN f) /\ k \notin DOMAIN f /\ g[k] \in Nat
          /\ DOMAIN g = DOMAIN f \cup {k} /\ \A j \in DOMAIN f : g[j] = f[j]
      BY Zenon, <1>1, <2>1, <2>3
    <2>5. Total(g) = Total(f) + g[k]
      BY Zenon, <2>2, <2>4, TotalAdd
    <2> QED BY ZenonT(30), <2>1, <2>5 DEF f, g
  <1> QED BY Zenon, <1>3, <1>5, <1>6

(* The entry is published.                                                  *)
LEMMA LoadPublishInv ==
  ASSUME LoadInv, LoadPublish
  PROVE  LoadInv'
  <1>1. /\ ld.pc = "publish" /\ UNCHANGED <<tree, renames, visible, walk, proc, pid, mem>>
    BY DEF LoadPublish
  <1>2. TmpOK /\ CacheOK /\ OutOK /\ ItemsOK /\ MemOK
    BY DEF LoadInv
  <1>3. CASE ld' = [ld EXCEPT !.pc = "exit"] /\ UNCHANGED <<cache, out, fds>>
    BY ZenonT(30), <1>1, <1>3, GiveUpInv
  <1> DEFINE e == [file |-> ld.file, debug |-> ld.debug, refcnt |-> 1,
                   owner |-> ld.owner, held |-> ld.held \ {"elf", "debug_elf"},
                   names |-> ld.names, kept |-> ld.kept, ranges |-> ld.ranges,
                   first |-> ld.first, items |-> ld.items, array |-> ld.array]
  <1>4. CASE /\ cache' = [j \in DOMAIN cache \cup {ld.key} |-> IF j = ld.key THEN e ELSE cache[j]]
             /\ ld' = [NoTmp EXCEPT !.pc = "loaded", !.key = ld.key]
             /\ out' = [r \in Resource |-> IF r \in ld.held \cap {"elf", "debug_elf"}
                                             THEN out[r] - 1 ELSE out[r]]
             /\ fds' = fds - ld.fds
    <2>1. /\ out \in [Resource -> Int] /\ HeldOK(ld) /\ ld.fds \in Int
      BY ZenonT(30), Numbers
    <2>2. ("symbols" \notin ld.held => ld.names = 0) /\ walk.pc = "idle" /\ ld.key \notin DOMAIN cache
      BY <1>1, <1>2 DEF TmpOK, TmpSteps
    <2>3. EntryOK(e)
      BY ZenonT(30), <2>1, <2>2 DEF EntryOK, HeldOK
    <2>4. /\ e.held = ld.held \ {"elf", "debug_elf"} /\ e.names = ld.names /\ e.owner = ld.owner
          /\ e.kept = ld.kept
      BY Zenon
    <2>5. cache' = [j \in DOMAIN cache \cup {ld.key} |-> IF j = ld.key THEN e ELSE cache[j]]
      <3> HIDE DEF e
      <3> QED BY <1>4
    <2> HIDE DEF e
    <2>6. /\ CacheOK' /\ Total(SizesOf(cache')) = Total(SizesOf(cache)) + SymbolsSize(e)
          /\ \A r \in Resource : Total(HeldBy(cache', r)) = Total(HeldBy(cache, r)) + Holds(e, r)
      BY Zenon, <1>2, <2>2, <2>3, <2>5, CacheAdd
    <2>7. /\ TmpShape' /\ ld'.pc = "loaded" /\ ld'.held = {} /\ ld'.fds = 0 /\ ld'.names = 0
      BY ZenonT(30), <1>4 DEF NoTmp, TmpShape
    <2>8. TmpOK'
      BY <1>1, <2>2, <2>7 DEF TmpOK, TmpSteps, HeldOK
    <2>9. /\ out' \in [Resource -> Int]
          /\ \A r \in Resource : out'[r] = IF r \in ld.held \cap {"elf", "debug_elf"}
                                             THEN out[r] - 1 ELSE out[r]
      BY <1>4, <2>1
    <2>10. OutOK'
      <3> SUFFICES ASSUME NEW r \in Resource \ {"map_ctx"}
                   PROVE  out'[r] = Holds(ld', r) + Total(HeldBy(cache', r))
        BY ZenonT(30), <2>9 DEF OutOK
      <3>1. Holds(ld', r) = 0
        BY <2>7 DEF Holds, HeapNames
      <3>2. Total(HeldBy(cache', r)) = Total(HeldBy(cache, r)) + Holds(e, r)
        BY <2>6
      <3>3. out[r] = Holds(ld, r) + Total(HeldBy(cache, r)) /\ out[r] \in Int
        BY <1>2, <2>1 DEF OutOK
      <3>4. Holds(ld, r) \in Nat
        BY <2>1, HoldsNat
      <3>5. Total(HeldBy(cache, r)) \in Nat
        BY <1>2, TotalsNat
      <3>6. out'[r] = out[r] + Holds(e, r) - Holds(ld, r) /\ Holds(e, r) \in Nat
        <4>1. CASE r = "name"
          <5>1. HeapNames(e) = HeapNames(ld) /\ HeapNames(ld) \in Nat
            BY Zenon, <2>1, <2>4 DEF HeapNames, HeldOK
          <5> QED BY <2>9, <3>3, <4>1, <5>1 DEF Holds
        <4>2. CASE r # "name"
          <5>1. /\ Holds(ld, r) = IF r \in ld.held THEN 1 ELSE 0
                /\ Holds(e, r) = IF r \in ld.held \ {"elf", "debug_elf"} THEN 1 ELSE 0
            BY <2>4, <4>2 DEF Holds
          <5> QED BY <2>9, <3>3, <5>1
        <4> QED BY Zenon, <4>1, <4>2
      <3> QED BY <3>1, <3>2, <3>3, <3>4, <3>5, <3>6
    <2>11. ItemsOK' /\ out'["gu_cfi"] = out["gu_cfi"]
      BY ZenonT(30), <1>1, <1>2, <2>9 DEF ItemsOK, Resource
    <2>12. MemOK'
      <3>1. SymbolsSize(ld') = 0 /\ SymbolsSize(e) = SymbolsSize(ld)
        BY <2>4, <2>7 DEF SymbolsSize, Size
      <3>2. SymbolsSize(ld) \in Nat
        BY <2>1, HoldsNat
      <3>3. Total(SizesOf(cache)) \in Nat
        BY <1>2, TotalsNat
      <3> QED BY <1>1, <1>2, <2>6, <2>11, <3>1, <3>2, <3>3 DEF MemOK
    <2>13. fds' = fds + ld'.fds - ld.fds
      BY <1>4, <2>1, <2>7, NoWalkFds DEF LoadInv, FdsOK
    <2> QED BY <1>1, <2>6, <2>8, <2>10, <2>11, <2>12, <2>13, TmpInv
  <1> QED BY <1>3, <1>4 DEF LoadPublish

(* One entry less in the cache.                                             *)
LEMMA CacheRemove ==
  ASSUME CacheOK, NEW k \in DOMAIN cache, cache' = [j \in DOMAIN cache \ {k} |-> cache[j]]
  PROVE  /\ CacheOK' /\ Total(SizesOf(cache)) = Total(SizesOf(cache')) + SymbolsSize(cache[k])
         /\ \A r \in Resource : /\ Total(HeldBy(cache, r)) = Total(HeldBy(cache', r)) + Holds(cache[k], r)
                               /\ Total(HeldBy(cache', r)) \in Nat
         /\ Total(SizesOf(cache')) \in Nat
  <1>1. IsFiniteSet(DOMAIN cache) /\ \A j \in DOMAIN cache : EntryOK(cache[j]) /\ HeldOK(cache[j])
    BY DEF CacheOK, EntryOK
  <1>2. DOMAIN cache' = DOMAIN cache \ {k} /\ \A j \in DOMAIN cache' : cache'[j] = cache[j]
    BY Zenon
  <1>3. IsFiniteSet(DOMAIN cache')
    BY Zenon, <1>1, <1>2, FS_RemoveElement
  <1>4. CacheOK'
    BY Zenon, <1>1, <1>2, <1>3 DEF CacheOK
  <1>5. /\ Total(SizesOf(cache)) = Total(SizesOf(cache')) + SymbolsSize(cache[k])
        /\ Total(SizesOf(cache')) \in Nat
    <2> DEFINE f == SizesOf(cache')
               g == SizesOf(cache)
    <2>1. /\ DOMAIN f = DOMAIN cache' /\ DOMAIN g = DOMAIN f \cup {k} /\ g[k] = SymbolsSize(cache[k])
          /\ \A j \in DOMAIN f : g[j] = f[j]
      BY <1>2 DEF SizesOf
    <2>2. \A j \in DOMAIN g : g[j] \in Nat
      BY Zenon, <1>1, HoldsNat DEF SizesOf
    <2>3. k \notin DOMAIN f /\ \A j \in DOMAIN f : f[j] \in Nat
      BY ZenonT(30), <1>2, <2>1, <2>2
    <2> HIDE DEF f, g
    <2>4. Total(g) = Total(f) + g[k]
      BY <1>3, <2>1, <2>2, <2>3, TotalAdd
    <2>5. Total(f) \in Nat
      BY Zenon, <1>3, <2>1, <2>3, UnitsFinite
    <2> QED BY ZenonT(30), <2>1, <2>4, <2>5 DEF f, g
  <1>6. ASSUME NEW r \in Resource
        PROVE  /\ Total(HeldBy(cache, r)) = Total(HeldBy(cache', r)) + Holds(cache[k], r)
               /\ Total(HeldBy(cache', r)) \in Nat
    <2> DEFINE f == HeldBy(cache', r)
               g == HeldBy(cache, r)
    <2>1. /\ DOMAIN f = DOMAIN cache' /\ DOMAIN g = DOMAIN f \cup {k} /\ g[k] = Holds(cache[k], r)
          /\ \A j \in DOMAIN f : g[j] = f[j]
      BY <1>2 DEF HeldBy
    <2>2. \A j \in DOMAIN g : g[j] \in Nat
      BY Zenon, <1>1, HoldsNat DEF HeldBy
    <2>3. k \notin DOMAIN f /\ \A j \in DOMAIN f : f[j] \in Nat
      BY ZenonT(30), <1>2, <2>1, <2>2
    <2> HIDE DEF f, g
    <2>4. Total(g) = Total(f) + g[k]
      BY <1>3, <2>1, <2>2, <2>3, TotalAdd
    <2>5. Total(f) \in Nat
      BY <1>3, <2>1, <2>3, UnitsFinite
    <2> QED BY ZenonT(30), <2>1, <2>4, <2>5 DEF f, g
  <1> QED BY ZenonT(30), <1>4, <1>5, <1>6

(* A retired entry is swept.                                                *)
LEMMA SweepInv ==
  ASSUME LoadInv, Sweep
  PROVE  LoadInv'
  <1>1. /\ ld.pc = "idle" /\ UNCHANGED <<tree, renames, visible, walk, fds, proc, pid, ld>>
    BY Zenon DEF Sweep, walkVars
  <1>2. PICK k \in DOMAIN cache : /\ cache' = [j \in DOMAIN cache \ {k} |-> cache[j]]
                                  /\ out' = Cleared(out, cache[k]) /\ mem' = ClearedMem(mem, cache[k])
    BY DEF Sweep
  <1>3. TmpOK /\ CacheOK /\ OutOK /\ ItemsOK /\ MemOK
    BY DEF LoadInv
  <1>4. /\ out \in [Resource -> Int] /\ mem.symbols \in Int /\ mem.cfi \in Int /\ HeldOK(ld) /\ ld.fds \in Int
    BY ZenonT(30), Numbers
  <1> DEFINE e == cache[k]
  <1>5. HeldOK(e) /\ ("symbols" \notin e.held => e.names = 0)
    BY <1>3 DEF CacheOK, EntryOK
  <1>6. out' = Cleared(out, e) /\ mem' = ClearedMem(mem, e)
    BY <1>2
  <1>7. /\ CacheOK' /\ Total(SizesOf(cache)) = Total(SizesOf(cache')) + SymbolsSize(e)
        /\ \A r \in Resource : /\ Total(HeldBy(cache, r)) = Total(HeldBy(cache', r)) + Holds(e, r)
                              /\ Total(HeldBy(cache', r)) \in Nat
        /\ Total(SizesOf(cache')) \in Nat
    BY ZenonT(30), <1>2, <1>3, CacheRemove
  <1> HIDE DEF e
  <1>8. TmpOK'
    BY ZenonT(30), <1>1, <1>3 DEF TmpOK, TmpShape, TmpSteps
  <1>9. /\ out' \in [Resource -> Int] /\ \A r \in Resource : out'[r] = out[r] - Holds(e, r)
    BY ZenonT(30), <1>4, <1>5, <1>6, ClearedIs
  <1>10. OutOK'
    <2> SUFFICES ASSUME NEW r \in Resource \ {"map_ctx"}
                 PROVE  out'[r] = Holds(ld', r) + Total(HeldBy(cache', r))
      BY Zenon, <1>9 DEF OutOK
    <2>1. Total(HeldBy(cache, r)) = Total(HeldBy(cache', r)) + Holds(e, r) /\ out'[r] = out[r] - Holds(e, r)
      BY ZenonT(30), <1>7, <1>9
    <2>2. out[r] = Holds(ld, r) + Total(HeldBy(cache, r)) /\ Holds(ld', r) = Holds(ld, r)
      BY <1>1, <1>3 DEF OutOK
    <2>3. Holds(ld, r) \in Nat
      BY Zenon, <1>4, HoldsNat
    <2>4. Holds(e, r) \in Nat
      BY Zenon, <1>5, HoldsNat
    <2>5. Total(HeldBy(cache', r)) \in Nat
      BY Zenon, <1>7
    <2> QED BY <2>1, <2>2, <2>3, <2>4, <2>5
  <1>11. ItemsOK'
    <2>1. Holds(e, "map_ctx") = 0
      BY <1>5 DEF HeldOK, Holds
    <2>2. out'["map_ctx"] = out["map_ctx"]
      BY <1>4, <1>9, <2>1 DEF Resource
    <2> QED BY Zenon, <1>1, <1>3, <2>2 DEF ItemsOK
  <1>12. MemOK'
    <2>1. SymbolsSize(ld') = SymbolsSize(ld)
      BY Zenon, <1>1
    <2>2. /\ mem'.symbols = mem.symbols - SymbolsSize(e) /\ mem'.cfi = mem.cfi - Holds(e, "gu_cfi")
          /\ mem' = [symbols |-> mem'.symbols, cfi |-> mem'.cfi]
      BY Zenon, <1>4, <1>5, <1>6, ClearedMemIs
    <2>3. out'["gu_cfi"] = out["gu_cfi"] - Holds(e, "gu_cfi")
      BY Zenon, <1>9 DEF Resource
    <2>4. Total(SizesOf(cache')) \in Nat
      BY <1>7
    <2>5. SymbolsSize(e) \in Nat
      BY <1>5, HoldsNat
    <2>6. SymbolsSize(ld) \in Nat
      BY Zenon, <1>4, HoldsNat
    <2>7. mem.symbols = SymbolsSize(ld) + Total(SizesOf(cache)) /\ mem.cfi = out["gu_cfi"]
      BY <1>3 DEF MemOK
    <2> QED BY <1>7, <2>1, <2>2, <2>3, <2>4, <2>5, <2>6, <2>7 DEF MemOK
  <1>13. fds' = fds + ld'.fds - ld.fds
    BY <1>1, <1>4, NoWalkFds DEF LoadInv, FdsOK
  <1> QED BY <1>1, <1>7, <1>8, <1>10, <1>11, <1>12, <1>13, TmpInv

-----------------------------------------------------------------------------
(* The items of the process.                                                *)

(* tmp_ctx holds what it held, and is where it was in its load or done.     *)
SameTmp ==
  /\ TmpOK' /\ ld'.fds = ld.fds /\ SymbolsSize(ld') = SymbolsSize(ld)
  /\ \A r \in Resource : Holds(ld', r) = Holds(ld, r)

(* The entries hold what they held.                                         *)
SameCache ==
  /\ CacheOK' /\ SizesOf(cache') = SizesOf(cache)
  /\ \A r \in Resource : HeldBy(cache', r) = HeldBy(cache, r)

(* A step of the process' items: what is left to show.                      *)
LEMMA PidInv ==
  ASSUME LoadInv, UNCHANGED <<tree, renames, visible, walk, fds, mem, proc>>, SameTmp, SameCache,
         out' \in [Resource -> Int], \A r \in Resource \ {"map_ctx"} : out'[r] = out[r],
         PidOK', ItemsOK', Busy'
  PROVE  LoadInv'
  <1>1. WalkInv' /\ WalkFds' = WalkFds
    BY WalkAlone DEF LoadInv
  <1>2. FdsOK'
    BY Zenon, <1>1 DEF LoadInv, FdsOK, SameTmp
  <1>3. OutOK'
    BY Zenon DEF LoadInv, OutOK, SameTmp, SameCache
  <1>4. MemOK'
    <2>1. out'["gu_cfi"] = out["gu_cfi"]
      BY DEF Resource
    <2> QED BY <2>1 DEF LoadInv, MemOK, SameTmp, SameCache
  <1> QED BY <1>1, <1>2, <1>3, <1>4 DEF LoadInv, SameTmp, SameCache

(* The load is over, tmp_ctx is ready for the next one.                     *)
LEMMA TmpDone ==
  ASSUME LoadInv, ld.pc = "loaded", ld' = NoTmp, UNCHANGED walk
  PROVE  SameTmp
  <1>1. TmpOK /\ ld.held = {} /\ ld.fds = 0 /\ ld.names = 0 /\ walk.pc = "idle"
    BY ZenonT(30) DEF LoadInv, TmpOK, TmpSteps
  <1>2. /\ TmpShape' /\ ld'.pc = "idle" /\ ld'.held = {} /\ ld'.fds = 0 /\ ld'.names = 0
    BY Zenon DEF NoTmp, TmpShape
  <1>3. TmpOK'
    BY Zenon, <1>1, <1>2 DEF TmpOK, TmpSteps, HeldOK
  <1> QED BY Zenon, <1>1, <1>2, <1>3 DEF SameTmp, SymbolsSize, Holds, HeapNames

(* tmp_ctx is not touched.                                                  *)
LEMMA TmpStays ==
  ASSUME LoadInv, UNCHANGED <<ld, walk>>, DOMAIN cache' = DOMAIN cache
  PROVE  SameTmp
  <1>1. TmpOK'
    BY Zenon DEF LoadInv, TmpOK, TmpShape, TmpSteps
  <1> QED BY Zenon, <1>1 DEF SameTmp

(* The items with an ELF, and one more item.                                *)
LEMMA KeyedAppend ==
  ASSUME NEW s, s \in Seq({s[i] : i \in DOMAIN s}), NEW x
  PROVE  /\ Append(s, x) \in Seq({Append(s, x)[i] : i \in DOMAIN Append(s, x)})
         /\ Cardinality(Keyed(s)) \in Nat
         /\ x.key = NoNode => Cardinality(Keyed(Append(s, x))) = Cardinality(Keyed(s))
         /\ x.key # NoNode => Cardinality(Keyed(Append(s, x))) = Cardinality(Keyed(s)) + 1
  <1> DEFINE t == Append(s, x)
             n == Len(s)
             S == {s[i] : i \in DOMAIN s}
  <1>1. /\ n \in Nat /\ DOMAIN s = 1..n /\ DOMAIN t = 1..(n + 1) /\ Len(t) = n + 1
        /\ t[n + 1] = x /\ \A i \in 1..n : t[i] = s[i]
    OBVIOUS
  <1>2. t \in Seq({t[i] : i \in DOMAIN t})
    <2>1. s \in Seq(S) /\ \A i \in 1..n : s[i] \in S
      OBVIOUS
    <2>2. s \in Seq(S \cup {x})
      <3> HIDE DEF S
      <3> QED BY <2>1
    <2>3. t \in Seq(S \cup {x})
      <3> HIDE DEF S
      <3> QED BY <2>2
    <2>4. \A i \in 1..Len(t) : t[i] \in {t[j] : j \in DOMAIN t}
      BY <1>1
    <2> DEFINE T == {t[j] : j \in DOMAIN t}
    <2> HIDE DEF S, t, T
    <2>5. t \in Seq(T)
      BY <2>3, <2>4 DEF T
    <2> QED BY <2>5 DEF T
  <1>3. IsFiniteSet(Keyed(s)) /\ Cardinality(Keyed(s)) \in Nat
    <2> DEFINE K == Keyed(s)
    <2> HIDE DEF n
    <2>1. IsFiniteSet(1..n)
      <3>1. 1 \in Int /\ n \in Int
        BY <1>1
      <3> QED BY <3>1, FS_Interval
    <2>2. K \in SUBSET (1..n)
      BY <1>1 DEF Keyed
    <2> HIDE DEF K
    <2>3. IsFiniteSet(K) /\ Cardinality(K) \in Nat
      BY Zenon, <2>1, <2>2, FS_Subset, FS_CardinalityType
    <2> QED BY <2>3 DEF K
  <1>4. n + 1 \notin Keyed(s)
    BY <1>1 DEF Keyed
  <1>5. Keyed(t) = IF x.key = NoNode THEN Keyed(s) ELSE Keyed(s) \cup {n + 1}
    <2> HIDE DEF t, n
    <2> QED BY <1>1 DEF Keyed
  <1>6. Cardinality(Keyed(s) \cup {n + 1}) = Cardinality(Keyed(s)) + 1
    BY ZenonT(30), <1>3, <1>4, FS_AddElement
  <1> HIDE DEF n
  <1> QED BY Zenon, <1>2, <1>3, <1>5, <1>6

(* The items are given back, and the context is gone.                       *)
LEMMA CleanupInv ==
  ASSUME LoadInv, NEW mapped, CleanupItems(mapped), DOMAIN cache' = DOMAIN cache => SameTmp,
         UNCHANGED <<tree, renames, visible, walk, fds, mem, proc>>, ld'.pc = "idle"
  PROVE  LoadInv'
  <1>1. /\ cache' = Put(cache, mapped) /\ pid' = NoPid
        /\ out' = [out EXCEPT !["map_ctx"] = @ - Cardinality(Keyed(pid.items))]
    BY DEF CleanupItems, Keyed
  <1>2. CacheOK /\ OutOK /\ ItemsOK /\ PidOK
    BY DEF LoadInv
  <1>3. SameCache /\ DOMAIN cache' = DOMAIN cache
    <2>1. DOMAIN cache' = DOMAIN cache /\ cache' = [k \in DOMAIN cache |-> cache'[k]]
      BY <1>1 DEF Put
    <2>2. \A k \in DOMAIN cache : \E n : cache'[k] = [cache[k] EXCEPT !.refcnt = n]
      BY ZenonT(30), <1>1 DEF Put
    <2> QED BY Zenon, <1>2, <2>1, <2>2, CacheSame DEF SameCache
  <1>4. out \in [Resource -> Int] /\ out["map_ctx"] = Cardinality(Keyed(pid.items))
    BY Zenon, <1>2 DEF OutOK, ItemsOK
  <1>5. /\ out' \in [Resource -> Int] /\ out'["map_ctx"] = 0
        /\ \A r \in Resource \ {"map_ctx"} : out'[r] = out[r]
    <2>1. out["map_ctx"] \in Int /\ "map_ctx" \in Resource
      BY Zenon, <1>4 DEF Resource
    <2> QED BY <1>1, <1>4, <2>1
  <1>6. pid'.items = <<>> /\ pid'.maps = <<>> /\ pid' = [pc |-> pid'.pc, maps |-> pid'.maps, items |-> pid'.items]
    BY Zenon, <1>1 DEF NoPid
  <1>7. PidOK'
    <2>1. <<>> \in Seq({pid'.items[i] : i \in DOMAIN pid'.items})
      OBVIOUS
    <2> QED BY Zenon, <1>2, <1>6, <2>1 DEF PidOK
  <1>8. ItemsOK'
    <2>1. Keyed(<<>>) = {}
      BY DEF Keyed
    <2> QED BY Zenon, <1>5, <1>6, <2>1, FS_EmptySet DEF ItemsOK
  <1>9. Busy'
    BY DEF Busy
  <1> QED BY <1>3, <1>5, <1>7, <1>8, <1>9, PidInv

(* The item of a mapping.                                                   *)
LEMMA AddItemInv ==
  ASSUME LoadInv, AddItem
  PROVE  LoadInv'
  <1>1. /\ ld.pc = "loaded" /\ ld' = NoTmp /\ UNCHANGED <<tree, renames, visible, walk, fds, proc, mem>>
    BY Zenon DEF AddItem, walkVars
  <1>2. SameTmp /\ ld'.pc = "idle" /\ Busy'
    BY ZenonT(30), <1>1, TmpDone DEF NoTmp, Busy
  <1>3. CASE \E mapped : CleanupItems(mapped)
    BY Zenon, <1>1, <1>2, <1>3, CleanupInv
  <1>4. CASE /\ UNCHANGED cache /\ (ld.key = NoNode => UNCHANGED out)
             /\ (ld.key # NoNode => out' = Alloc(out, {"map_ctx"}))
             /\ \E exec : pid' = [pid EXCEPT !.items = Append(@, [start |-> Map.start, end |-> Map.end,
                                                                  key |-> ld.key, exec |-> exec])]
    <2>1. PICK exec : pid' = [pid EXCEPT !.items = Append(@, [start |-> Map.start, end |-> Map.end,
                                                              key |-> ld.key, exec |-> exec])]
      BY Zenon, <1>4
    <2> DEFINE x == [start |-> Map.start, end |-> Map.end, key |-> ld.key, exec |-> exec]
    <2>2. x.key = ld.key /\ pid' = [pid EXCEPT !.items = Append(@, x)]
      BY <2>1
    <2> HIDE DEF x
    <2>3. CacheOK /\ OutOK /\ ItemsOK /\ PidOK
      BY DEF LoadInv
    <2>4. /\ pid'.items = Append(pid.items, x) /\ pid'.pc = pid.pc /\ pid'.maps = pid.maps
          /\ pid' = [pc |-> pid'.pc, maps |-> pid'.maps, items |-> pid'.items]
      BY ZenonT(30), <2>2, <2>3 DEF PidOK
    <2>5. /\ pid'.items \in Seq({pid'.items[i] : i \in DOMAIN pid'.items})
          /\ Cardinality(Keyed(pid.items)) \in Nat
          /\ x.key = NoNode => Cardinality(Keyed(pid'.items)) = Cardinality(Keyed(pid.items))
          /\ x.key # NoNode => Cardinality(Keyed(pid'.items)) = Cardinality(Keyed(pid.items)) + 1
      <3>1. pid.items \in Seq({pid.items[i] : i \in DOMAIN pid.items})
        BY <2>3 DEF PidOK
      <3> DEFINE s == pid.items
      <3>2. s \in Seq({s[i] : i \in DOMAIN s}) /\ pid'.items = Append(s, x)
        BY <2>4, <3>1
      <3> HIDE DEF s
      <3>3. /\ Append(s, x) \in Seq({Append(s, x)[i] : i \in DOMAIN Append(s, x)})
            /\ Cardinality(Keyed(s)) \in Nat
            /\ x.key = NoNode => Cardinality(Keyed(Append(s, x))) = Cardinality(Keyed(s))
            /\ x.key # NoNode => Cardinality(Keyed(Append(s, x))) = Cardinality(Keyed(s)) + 1
        BY Zenon, <3>2, KeyedAppend
      <3> QED BY Zenon, <3>2, <3>3 DEF s
    <2>6. PidOK'
      <3>1. pid.pc # "none"
        BY <1>1 DEF LoadInv, Busy, Loading
      <3> QED BY Zenon, <1>1, <2>3, <2>4, <2>5, <3>1 DEF PidOK
    <2>7. SameCache
      BY <1>4, <2>3, CacheStays DEF SameCache
    <2>8. out \in [Resource -> Int] /\ out["map_ctx"] = Cardinality(Keyed(pid.items))
      BY <2>3 DEF OutOK, ItemsOK
    <2>9. /\ out' \in [Resource -> Int] /\ \A r \in Resource \ {"map_ctx"} : out'[r] = out[r]
          /\ out'["map_ctx"] = IF ld.key = NoNode THEN out["map_ctx"] ELSE out["map_ctx"] + 1
      BY <1>4, <2>8 DEF Alloc, Resource
    <2>10. ItemsOK'
      BY <2>2, <2>5, <2>8, <2>9 DEF ItemsOK
    <2> QED BY <1>1, <1>2, <2>6, <2>7, <2>9, <2>10, PidInv
  <1> QED BY Zenon, <1>3, <1>4 DEF AddItem

(* The maps are read, and the context is ready or dropped.                  *)
LEMMA PidStepsInv ==
  ASSUME LoadInv, ReadMaps \/ PidLoaded \/ PidDropped
  PROVE  LoadInv'
  <1>1. /\ UNCHANGED <<tree, renames, visible, walk, fds, proc, mem, ld>>
    BY DEF ReadMaps, PidLoaded, PidDropped, walkVars
  <1>2. (DOMAIN cache' = DOMAIN cache => SameTmp) /\ ld'.pc = "idle" /\ Busy'
    <2>1. ld.pc = "idle"
      BY ZenonT(30) DEF ReadMaps, PidLoaded, PidDropped, LoadInv, Busy, Loading
    <2> QED BY Zenon, <1>1, <2>1, TmpStays DEF Busy
  <1>3. CASE \E mapped : CleanupItems(mapped)
    BY <1>1, <1>2, <1>3, CleanupInv
  <1>4. CASE /\ UNCHANGED <<cache, out>>
             /\ \/ pid.pc = "none" /\ pid' = [pc |-> "loading", maps |-> gu_get_maps_info(proc.lines), items |-> <<>>]
                \/ pid.pc # "none" /\ pid' = [pid EXCEPT !.pc = "loaded"]
    <2>1. CacheOK /\ OutOK /\ ItemsOK /\ PidOK
      BY DEF LoadInv
    <2>2. /\ pid'.items = pid.items /\ pid'.maps \in {pid.maps, gu_get_maps_info(proc.lines)}
          /\ pid' = [pc |-> pid'.pc, maps |-> pid'.maps, items |-> pid'.items]
          /\ pid'.pc # "none"
      BY <1>4, <2>1 DEF PidOK
    <2>3. PidOK' /\ ItemsOK'
      BY <1>1, <1>4, <2>1, <2>2 DEF PidOK, ItemsOK
    <2>4. SameCache
      BY ZenonT(30), <1>4, <2>1, CacheStays DEF SameCache
    <2> QED BY <1>1, <1>2, <1>4, <2>1, <2>3, <2>4, PidInv DEF OutOK
  <1> QED BY <1>3, <1>4 DEF ReadMaps, PidLoaded, PidDropped

-----------------------------------------------------------------------------
(* The theorems.                                                            *)

(* Nothing is loaded yet.                                                   *)
LEMMA LoadInitInv ==
  ASSUME LoadInit
  PROVE  LoadInv
  <1>1. /\ proc \in Process /\ tree = proc.tree /\ WalkInit /\ pid = NoPid /\ ld = NoTmp
        /\ cache = <<>> /\ out = [r \in Resource |-> 0] /\ mem = [symbols |-> 0, cfi |-> 0]
    BY DEF LoadInit
  <1>2. WalkInv /\ WalkFds = 0 /\ fds = 0
    <2>1. TreeOK(tree)
      BY ZenonT(30), <1>1, LoadConstants
    <2> QED BY Zenon, <1>1, <2>1, WalkInitInv
  <1>3. /\ TmpShape /\ ld.pc = "idle" /\ ld.held = {} /\ ld.fds = 0 /\ ld.names = 0
    BY ZenonT(30), <1>1 DEF NoTmp, TmpShape
  <1>4. walk.pc = "idle"
    BY Zenon, <1>1 DEF WalkInit, NoWalk
  <1>5. TmpOK
    BY <1>3, <1>4 DEF TmpOK, TmpSteps, HeldOK
  <1>6. DOMAIN cache = {} /\ CacheOK
    <2>1. DOMAIN cache = {}
      BY <1>1
    <2>2. cache = [k \in DOMAIN cache |-> cache[k]]
      BY <1>1
    <2> QED BY Zenon, <2>1, <2>2, FS_EmptySet DEF CacheOK
  <1>7. pid.items = <<>> /\ pid.maps = <<>> /\ pid = [pc |-> pid.pc, maps |-> pid.maps, items |-> pid.items]
    BY ZenonT(30), <1>1 DEF NoPid
  <1>8. PidOK
    <2>1. <<>> \in Seq({pid.items[i] : i \in DOMAIN pid.items})
      OBVIOUS
    <2> QED BY <1>1, <1>7, <2>1 DEF PidOK
  <1>9. OutOK
    <2>1. ASSUME NEW r \in Resource PROVE Holds(ld, r) = 0 /\ Total(HeldBy(cache, r)) = 0
      <3>1. DOMAIN HeldBy(cache, r) = {}
        BY Zenon, <1>6 DEF HeldBy
      <3> QED BY Zenon, <1>3, <3>1, TotalEmpty DEF Holds, HeapNames
    <2> QED BY <1>1, <2>1 DEF OutOK
  <1>10. ItemsOK
    <2>1. Keyed(<<>>) = {}
      BY DEF Keyed
    <2>2. out["map_ctx"] = 0
      BY <1>1 DEF Resource
    <2> QED BY <1>7, <2>1, <2>2, FS_EmptySet DEF ItemsOK
  <1>11. MemOK
    <2>1. DOMAIN SizesOf(cache) = {}
      BY <1>6 DEF SizesOf
    <2>2. Total(SizesOf(cache)) = 0 /\ SymbolsSize(ld) = 0
      BY ZenonT(30), <1>3, <2>1, TotalEmpty DEF SymbolsSize
    <2> QED BY <1>1, <2>2 DEF MemOK, Resource
  <1> QED BY <1>2, <1>3, <1>5, <1>6, <1>8, <1>9, <1>10, <1>11 DEF LoadInv, FdsOK, Busy

(* Every step keeps the invariant.                                          *)
LEMMA LoadNextInv ==
  ASSUME LoadInv, [LoadNext]_allVars
  PROVE  LoadInv'
  <1>1. CASE LoadStep
    BY <1>1, DumpVdsoInv, LoadBeginInv, WalkLoadInv, LoadOpenedInv, LoadScanInv, LoadDebugPathInv,
       LoadDebugFileInv, LoadCfiInv, LoadNamesInv, LoadBuiltInv, LoadErrFreeInv, LoadPublishInv,
       LoadExitInv, AddItemInv, PidStepsInv, QuietInv DEF LoadStep, Build, walkVars, loadVars
  <1>2. CASE ReadMaps \/ PidDropped
    BY <1>2, PidStepsInv
  <1>3. CASE Sweep
    BY <1>3, SweepInv
  <1>4. CASE (\E x : Sample(x)) \/ Search \/ Found \/ Answered
    <2>1. UNCHANGED <<tree, renames, visible, walk, fds, ld, cache, out, mem, pid, proc>>
      BY Zenon, <1>4 DEF Sample, Search, Found, Answered, walkVars, loadVars
    <2> QED BY Zenon, <2>1, QuietInv
  <1>5. CASE Rename /\ UNCHANGED <<vars, loadVars>>
    BY ZenonT(30), <1>5, RenameLoadInv
  <1>6. CASE UNCHANGED allVars
    BY <1>6, QuietInv DEF allVars, walkVars, loadVars
  <1> QED BY <1>1, <1>2, <1>3, <1>4, <1>5, <1>6 DEF LoadNext

(* The invariant holds in every state.                                      *)
LEMMA LoadInvAlways == LoadSpec => []LoadInv
  BY LoadInitInv, LoadNextInv, PTL DEF LoadSpec

(* gu_openat2_in_root_compat(): unless something was renamed meanwhile, the *)
(* walk of load_elf() finds what openat2(RESOLVE_IN_ROOT) would.            *)
THEOREM WalksAreExact == LoadSpec => []WalkExact
  <1>1. LoadInv => WalkExact
    BY DEF LoadInv, WalkInv
  <1> QED BY <1>1, LoadInvAlways, PTL

(* Whatever is renamed while it walks, through any links and any "..",      *)
(* load_elf() opens nothing that was not below the root of the process.     *)
THEOREM WalksStayInRoot == LoadSpec => []StaysInRoot
  <1>1. LoadInv => StaysInRoot
    BY DEF LoadInv, WalkInv
  <1> QED BY <1>1, LoadInvAlways, PTL

(* Balanced books: when nothing is held, nothing is out.                    *)
LEMMA BalanceInv ==
  ASSUME LoadInv
  PROVE  NothingLeaks
  <1> SUFFICES ASSUME ld.pc = "idle", walk.pc = "idle" PROVE
        /\ fds = 0
        /\ (pid.pc = "none" /\ DOMAIN cache = {}) =>
              (\A r \in Resource : out[r] = 0) /\ mem.symbols = 0 /\ mem.cfi = 0
    BY Zenon DEF NothingLeaks
  <1>1. ld.held = {} /\ ld.fds = 0 /\ ld.names = 0 /\ WalkFds = 0
    BY Zenon, NoWalkFds DEF LoadInv, TmpOK, TmpSteps
  <1>2. fds = 0
    BY <1>1 DEF LoadInv, FdsOK
  <1>3. ASSUME pid.pc = "none", DOMAIN cache = {}
        PROVE  (\A r \in Resource : out[r] = 0) /\ mem.symbols = 0 /\ mem.cfi = 0
    <2>1. ASSUME NEW r \in Resource PROVE Holds(ld, r) = 0 /\ Total(HeldBy(cache, r)) = 0
      <3>1. DOMAIN HeldBy(cache, r) = {}
        BY <1>3 DEF HeldBy
      <3> QED BY Zenon, <1>1, <3>1, TotalEmpty DEF Holds, HeapNames
    <2>2. \A r \in Resource \ {"map_ctx"} : out[r] = 0
      BY <2>1 DEF LoadInv, OutOK
    <2>3. out["map_ctx"] = 0
      <3>1. pid.items = <<>>
        BY <1>3 DEF LoadInv, PidOK
      <3>2. Keyed(<<>>) = {}
        BY DEF Keyed
      <3> QED BY Zenon, <3>1, <3>2, FS_EmptySet DEF LoadInv, ItemsOK
    <2>4. SymbolsSize(ld) = 0 /\ Total(SizesOf(cache)) = 0
      <3>1. DOMAIN SizesOf(cache) = {}
        BY <1>3 DEF SizesOf
      <3> QED BY Zenon, <1>1, <3>1, TotalEmpty DEF SymbolsSize
    <2> QED BY <2>2, <2>3, <2>4 DEF LoadInv, MemOK, Resource
  <1> QED BY <1>2, <1>3

(* load_elf(), clear_elf_ctx(): whichever step of a load fails, no          *)
(* descriptor and no allocation is left behind or freed twice, and the      *)
(* memory statistics return to 0.                                           *)
THEOREM LoadsLeakNothing == LoadSpec => []NothingLeaks
  BY BalanceInv, LoadInvAlways, PTL
=============================================================================
