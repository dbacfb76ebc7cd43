-------------------------- MODULE KernelSymbolsProofs --------------------------
(***************************************************************************)
(* Proofs about KernelSymbols, for any number of searching threads, loads  *)
(* and functions, any contents of /proc/kallsyms and any garbage.  The     *)
(* facts about one table and a search in it are those of                   *)
(* SymbolTableProofs.                                                      *)
(***************************************************************************)
EXTENDS SymbolTableProofs

(* Obligations over whole states get more time than the default.            *)
USE SMTT(30), ZenonT(30)

KernelTypes ==
  /\ kallsyms.file \in Kallsyms
  /\ ctx \in Tables
  /\ table \in [1..MaxLoads -> Table]
  /\ freed \in [array : SUBSET (0..MaxLoads), hash : SUBSET (0..MaxLoads)]
  /\ mutex \in Searcher \cup {"free", "loader"}
  /\ loader = [pc |-> loader.pc, load |-> loader.load, cap |-> loader.cap, old |-> loader.old]
  /\ loader.pc \in {"idle", "read", "build", "lock", "swap", "unlock", "free_array", "free_hash",
                    "freed"}
  /\ loader.load \in 0..MaxLoads /\ loader.old \in Tables
  /\ search \in [Searcher -> Search]

(* Who holds the mutex.                                                     *)
MutexHeld ==
  /\ mutex = "loader" <=> loader.pc \in {"swap", "unlock"}
  /\ \A s \in Searcher : mutex = s <=> search[s].pc \in {"sym", "search", "name"}
  /\ loader.pc = "freed" => \A s \in Searcher : search[s].pc = "idle"

(* The two pointers are from the same load, except between the swaps, and   *)
(* what was freed is older than both.                                       *)
Pointers ==
  LET syms == ctx.kernel_symbols
      hash == ctx.kernel_symbol_hash
  IN /\ hash <= syms /\ syms <= loader.load
     /\ loader.pc # "unlock" => hash = syms
     /\ loader.pc \in {"read", "build"} => syms < loader.load
     /\ loader.pc \in {"lock", "swap"} => loader.old = ctx /\ syms < loader.load
     /\ loader.pc = "unlock" => /\ syms = loader.load /\ loader.old.kernel_symbol_hash = hash
                                /\ loader.old.kernel_symbols = hash /\ hash < loader.load
     /\ loader.pc \in {"free_array", "free_hash"} =>
          /\ syms = loader.load
          /\ loader.old.kernel_symbols < hash /\ loader.old.kernel_symbol_hash < hash
     /\ loader.pc # "freed" => \A x \in freed.array \cup freed.hash : x = 0 \/ x < hash

TablesBuilt ==
  /\ loader.pc = "build" => ReadTable(table[loader.load])
  /\ loader.pc \in {"read", "build", "lock", "swap", "unlock"} => loader.load # 0
  /\ loader.pc \in {"lock", "swap", "unlock"} => BuiltTable(table[loader.load])
  /\ ctx.kernel_symbols # 0 => BuiltTable(table[ctx.kernel_symbols])

(* A search works on the table in the context.                              *)
Searching ==
  /\ \A s \in Searcher : search[s].pc = "search" =>
       /\ search[s].from = ctx.kernel_symbols /\ search[s].from # 0
       /\ items = table[search[s].from].items /\ array = table[search[s].from].array
       /\ pc \in {"ready", "loop", "done"} /\ (pc # "ready" => addr = search[s].for.start)
       /\ Inv
       /\ ~table[search[s].from].enlarged => RuledOut
  /\ (\A s \in Searcher : search[s].pc # "search") =>
       addr = 0 /\ left = 1 /\ right = 0 /\ result = 0

(* What a searcher looks for and what it has found so far.                  *)
Found ==
  \A s \in Searcher :
    LET x == search[s] IN
    /\ x.from <= ctx.kernel_symbols
    /\ x.pc \in {"sym", "search"} => x.for.name = "none"
    /\ x.pc \in {"name", "entry"} => x.for.name # "none"
    /\ x.pc = "idle" => x.for = NoSym
    /\ x.pc = "entry" =>
         /\ x.from # 0
         /\ x.answer \in {y \in {Named(z) : z \in Range(table[x.from].syms)} : y.name = x.for.name}

KernelInv ==
  /\ KernelTypes /\ MutexHeld /\ Pointers /\ TablesBuilt /\ Searching /\ Found /\ LookupExact

-----------------------------------------------------------------------------
(* The invariant holds before anything is loaded.                           *)
LEMMA KernelInitInv ==
  ASSUME KernelInit
  PROVE  KernelInv
  <1>1. /\ \A s \in Searcher : search[s] = NoSearch /\ search[s].pc = "idle"
        /\ loader.pc = "idle" /\ loader.load = 0 /\ mutex = "free"
        /\ ctx.kernel_symbols = 0 /\ ctx.kernel_symbol_hash = 0
        /\ freed.array = {} /\ freed.hash = {}
    BY DEF KernelInit, NoSearch, NoTables
  <1>2. KernelTypes
    <2>1. kallsyms.file \in Kallsyms /\ ctx \in Tables /\ table \in [1..MaxLoads -> Table]
      BY NothingTyped DEF KernelInit
    <2>2. freed \in [array : SUBSET (0..MaxLoads), hash : SUBSET (0..MaxLoads)]
      BY DEF KernelInit
    <2>3. search \in [Searcher -> Search] /\ mutex \in Searcher \cup {"free", "loader"}
      BY NothingTyped DEF KernelInit
    <2>4. /\ loader = [pc |-> loader.pc, load |-> loader.load, cap |-> loader.cap, old |-> loader.old]
          /\ loader.old \in Tables /\ loader.load \in 0..MaxLoads
      BY NothingTyped, KernelConstants DEF KernelInit
    <2> QED BY <1>1, <2>1, <2>2, <2>3, <2>4 DEF KernelTypes
  <1>3. MutexHeld
    BY <1>1, KernelConstants DEF MutexHeld
  <1>4. Pointers /\ TablesBuilt
    BY <1>1 DEF Pointers, TablesBuilt
  <1>5. Searching
    BY <1>1 DEF Searching, KernelInit
  <1>6. Found
    BY <1>1 DEF Found, NoSearch
  <1>7. LookupExact
    BY <1>1 DEF LookupExact
  <1> QED BY <1>2, <1>3, <1>4, <1>5, <1>6, <1>7 DEF KernelInv

(* What a step of the loading thread keeps for the searchers: the tables    *)
(* they use stay as they are, and the pointers do while they hold the       *)
(* mutex.                                                                   *)
LEMMA SearchersUndisturbed ==
  ASSUME KernelInv, UNCHANGED <<vars, search>>, freed.hash \subseteq freed'.hash,
         \A load \in 1..ctx.kernel_symbols : table'[load] = table[load],
         ctx' \in Tables, ctx.kernel_symbols <= ctx'.kernel_symbols,
         ctx' = ctx \/ \A s \in Searcher : search[s].pc # "search"
  PROVE  Searching' /\ Found' /\ LookupExact'
  <1>0. KernelTypes /\ Searching /\ Found /\ LookupExact
    BY DEF KernelInv
  <1>1. UNCHANGED <<items, array, pc, addr, left, right, result>>
    BY DEF vars
  <1>2. Inv' = Inv /\ RuledOut' = RuledOut
    BY <1>1 DEF Inv, TypeOK, SearchExact, SearchSound, RuledOut
  <1>3. ASSUME NEW s \in Searcher
        PROVE  /\ search[s].from \in 0..ctx.kernel_symbols
               /\ search[s].from # 0 => table'[search[s].from] = table[search[s].from]
               /\ TableOf(search[s].from)' = TableOf(search[s].from)
    <2>1. search[s].from \in Nat /\ search[s].from <= ctx.kernel_symbols /\ ctx.kernel_symbols \in Nat
      <3>1. search[s] \in Search
        BY <1>0 DEF KernelTypes
      <3> QED BY <1>0, <3>1, KernelConstants DEF KernelTypes, Tables, Search, Found
    <2> QED BY <2>1 DEF TableOf
  <1>4. Searching'
    BY <1>0, <1>1, <1>2, <1>3 DEF Searching
  <1>5. Found'
    <2> SUFFICES ASSUME NEW s \in Searcher PROVE
          /\ search[s].from <= ctx'.kernel_symbols
          /\ search[s].pc \in {"sym", "search"} => search[s].for.name = "none"
          /\ search[s].pc \in {"name", "entry"} => search[s].for.name # "none"
          /\ search[s].pc = "idle" => search[s].for = NoSym
          /\ search[s].pc = "entry" =>
               /\ search[s].from # 0
               /\ search[s].answer \in {y \in {Named(z) : z \in Range(table'[search[s].from].syms)} :
                                          y.name = search[s].for.name}
      BY DEF Found
    <2>1. search[s].from <= ctx'.kernel_symbols
      BY <1>0, <1>3, KernelConstants DEF KernelTypes, Tables
    <2> QED BY <1>0, <1>3, <2>1 DEF Found
  <1>6. LookupExact'
    <2> SUFFICES ASSUME NEW s \in Searcher, search[s].pc = "answered"
                 PROVE  \/ AnswerExact(search[s], TableOf(search[s].from))
                        \/ search[s].for.name # "none" /\ search[s].from \in freed'.hash
      BY <1>3 DEF LookupExact
    <2> QED BY <1>0 DEF LookupExact
  <1> QED BY <1>4, <1>5, <1>6

(* The parts of the invariant that only the loading thread can disturb.     *)
LEMMA KernelParts ==
  ASSUME KernelInv
  PROVE  /\ KernelTypes /\ MutexHeld /\ Pointers /\ TablesBuilt /\ Searching /\ Found /\ LookupExact
         /\ ctx.kernel_symbols \in 0..MaxLoads /\ ctx.kernel_symbol_hash \in 0..MaxLoads
         /\ loader.old.kernel_symbols \in 0..MaxLoads /\ loader.old.kernel_symbol_hash \in 0..MaxLoads
         /\ loader.load \in 0..MaxLoads /\ MaxLoads \in Nat
         /\ freed.array \subseteq 0..MaxLoads /\ freed.hash \subseteq 0..MaxLoads
         /\ \A s \in Searcher : search[s] \in Search
  BY Zenon, KernelConstants DEF KernelInv, KernelTypes, Tables

(* The file changes under everyone's feet.                                  *)
LEMMA KallsymsChangesInv ==
  ASSUME KernelInv, KallsymsChanges
  PROVE  KernelInv'
  <1>0. /\ UNCHANGED <<vars, g_ksym_items_count, table, ctx, freed, mutex, loader, search>>
        /\ kallsyms'.file \in Kallsyms
    BY DEF KallsymsChanges
  <1>1. KernelTypes'
    BY <1>0, KernelParts DEF KernelTypes
  <1>2. MutexHeld' /\ Pointers' /\ TablesBuilt'
    BY <1>0, KernelParts DEF MutexHeld, Pointers, TablesBuilt
  <1>3. Searching' /\ Found' /\ LookupExact'
    <2>1. ctx' \in Tables /\ ctx.kernel_symbols <= ctx'.kernel_symbols
      BY <1>0, KernelParts DEF KernelTypes
    <2> QED BY <1>0, <2>1, SearchersUndisturbed
  <1> QED BY <1>1, <1>2, <1>3 DEF KernelInv

(* A load begins.                                                           *)
LEMMA LoadBeginInv ==
  ASSUME KernelInv, LoadBegin
  PROVE  KernelInv'
  <1>0. UNCHANGED <<vars, kallsyms, table, ctx, freed, mutex, search>> /\ loader.pc = "idle"
    BY DEF LoadBegin, tableVars
  <1>1. /\ loader' = [pc |-> "read", load |-> loader.load + 1, cap |-> loader'.cap, old |-> loader.old]
        /\ loader.load < MaxLoads
    BY Zenon, KernelParts DEF LoadBegin, KernelTypes
  <1>2. /\ loader'.pc = "read" /\ loader'.load = loader.load + 1 /\ loader'.old = loader.old
        /\ loader' = [pc |-> loader'.pc, load |-> loader'.load, cap |-> loader'.cap, old |-> loader'.old]
    BY <1>1
  <1>3. KernelTypes'
    BY <1>0, <1>1, <1>2, KernelParts DEF KernelTypes
  <1>4. MutexHeld' /\ Pointers' /\ TablesBuilt'
    BY <1>0, <1>2, KernelParts DEF MutexHeld, Pointers, TablesBuilt
  <1>5. Searching' /\ Found' /\ LookupExact'
    <2>1. ctx' \in Tables /\ ctx.kernel_symbols <= ctx'.kernel_symbols
      BY <1>0, KernelParts DEF KernelTypes
    <2> QED BY <1>0, <2>1, SearchersUndisturbed
  <1> QED BY <1>3, <1>4, <1>5 DEF KernelInv

(* The functions are read into the table of the load, or memory runs out.   *)
LEMMA LoadReadInv ==
  ASSUME KernelInv, LoadRead
  PROVE  KernelInv'
  <1>0. UNCHANGED <<vars, kallsyms, ctx, freed, mutex, search>> /\ loader.pc = "read"
    BY DEF LoadRead
  <1>1. loader.load \in 1..MaxLoads /\ ctx.kernel_symbols < loader.load
    BY <1>0, KernelParts DEF Pointers, TablesBuilt
  <1>2. ctx' \in Tables /\ ctx.kernel_symbols <= ctx'.kernel_symbols
    BY <1>0, KernelParts DEF KernelTypes
  <1>3. ASSUME loader'.pc \in {"idle", "build"},
               loader' = [loader EXCEPT !.pc = loader'.pc],
               table' \in [1..MaxLoads -> Table],
               \A load \in 1..MaxLoads : load # loader.load => table'[load] = table[load],
               loader'.pc = "build" => ReadTable(table'[loader.load])
        PROVE  KernelInv'
    <2>1. /\ loader'.load = loader.load /\ loader'.old = loader.old
          /\ loader' = [pc |-> loader'.pc, load |-> loader'.load, cap |-> loader'.cap, old |-> loader'.old]
      BY <1>3, KernelParts DEF KernelTypes
    <2>2. KernelTypes'
      BY <1>0, <1>3, <2>1, KernelParts DEF KernelTypes
    <2>3. MutexHeld' /\ Pointers'
      BY <1>0, <1>3, <2>1, KernelParts DEF MutexHeld, Pointers
    <2>4. \A load \in 1..ctx.kernel_symbols : table'[load] = table[load]
      BY <1>1, <1>3, KernelParts
    <2>5. TablesBuilt'
      BY <1>0, <1>1, <1>3, <2>1, <2>4, KernelParts DEF TablesBuilt
    <2>6. Searching' /\ Found' /\ LookupExact'
      BY <1>0, <1>2, <2>4, SearchersUndisturbed
    <2> QED BY <2>2, <2>3, <2>5, <2>6 DEF KernelInv
  <1>4. CASE loader' = [loader EXCEPT !.pc = "idle"] /\ UNCHANGED table
    <2>1. loader'.pc = "idle"
      BY <1>4, KernelParts DEF KernelTypes
    <2> QED BY <1>3, <1>4, <2>1, KernelParts DEF KernelTypes
  <1>5. CASE \E open \in OpenItems(FunctionsOf(kallsyms.file), loader.cap) :
               /\ table' = [table EXCEPT ![loader.load] =
                    [syms |-> FunctionsOf(kallsyms.file), items |-> open, array |-> NoArray,
                     enlarged |-> \E i \in 1..Len(FunctionsOf(kallsyms.file)) : ~(i <= loader.cap)]]
               /\ loader' = [loader EXCEPT !.pc = "build"]
    <2> DEFINE syms == FunctionsOf(kallsyms.file)
               T(open) == [syms |-> syms, items |-> open, array |-> NoArray,
                           enlarged |-> \E i \in 1..Len(syms) : ~(i <= loader.cap)]
    <2>1. PICK open \in OpenItems(syms, loader.cap) :
            table' = [table EXCEPT ![loader.load] = T(open)] /\ loader' = [loader EXCEPT !.pc = "build"]
      BY Zenon, <1>5
    <2>2. T(open) \in Table /\ ReadTable(T(open))
      <3>1. kallsyms.file \in Kallsyms
        BY KernelParts DEF KernelTypes
      <3> QED BY <2>1, <3>1, OpenItemsRead
    <2> HIDE DEF T
    <2>3. loader'.pc = "build"
      BY <2>1, KernelParts DEF KernelTypes
    <2>4. table \in [1..MaxLoads -> Table]
      BY KernelParts DEF KernelTypes
    <2>5. /\ table' \in [1..MaxLoads -> Table] /\ table'[loader.load] = T(open)
          /\ \A load \in 1..MaxLoads : load # loader.load => table'[load] = table[load]
      BY <1>1, <2>1, <2>2, <2>4
    <2> QED BY <1>3, <2>1, <2>2, <2>3, <2>5
  <1> QED BY Zenon, <1>4, <1>5 DEF LoadRead

(* The table is built, and the old tables noted; or there is none.          *)
LEMMA LoadBuildInv ==
  ASSUME KernelInv, LoadBuild
  PROVE  KernelInv'
  <1> DEFINE t == table[loader.load]
             n == Len(t.items)
  <1>0. UNCHANGED <<vars, kallsyms, ctx, freed, mutex, search>> /\ loader.pc = "build"
    BY Zenon DEF LoadBuild
  <1>1. loader.load \in 1..MaxLoads /\ ctx.kernel_symbols < loader.load /\ ReadTable(t)
    BY <1>0, KernelParts DEF Pointers, TablesBuilt
  <1>2. ctx' \in Tables /\ ctx.kernel_symbols <= ctx'.kernel_symbols
    BY <1>0, KernelParts DEF KernelTypes
  <1>3. table \in [1..MaxLoads -> Table] /\ t \in Table
    BY <1>1, KernelParts DEF KernelTypes
  <1>4. ASSUME NEW u \in Table, table' = [table EXCEPT ![loader.load] = u],
               \/ loader' = [loader EXCEPT !.pc = "idle"]
               \/ loader' = [loader EXCEPT !.pc = "lock", !.old = ctx] /\ BuiltTable(u)
        PROVE  KernelInv'
    <2>1. /\ \/ loader'.pc = "idle" /\ loader'.old = loader.old
             \/ loader'.pc = "lock" /\ loader'.old = ctx /\ BuiltTable(u)
          /\ loader'.load = loader.load
          /\ loader' = [pc |-> loader'.pc, load |-> loader'.load, cap |-> loader'.cap, old |-> loader'.old]
      BY Zenon, <1>4, KernelParts DEF KernelTypes
    <2>2. table' \in [1..MaxLoads -> Table] /\ table'[loader.load] = u
      BY <1>1, <1>3, <1>4
    <2>3. KernelTypes'
      BY Zenon, <1>0, <1>2, <2>1, <2>2, KernelParts DEF KernelTypes
    <2>4. MutexHeld' /\ Pointers'
      BY <1>0, <1>1, <2>1, KernelParts DEF MutexHeld, Pointers
    <2>5. \A load \in 1..ctx.kernel_symbols : table'[load] = table[load]
      BY <1>1, <1>3, <1>4, KernelParts
    <2>6. TablesBuilt'
      BY <1>0, <1>1, <2>1, <2>2, <2>5, KernelParts DEF TablesBuilt
    <2>7. Searching' /\ Found' /\ LookupExact'
      BY <1>0, <1>2, <2>5, SearchersUndisturbed
    <2> QED BY <2>3, <2>4, <2>6, <2>7 DEF KernelInv
  <1>5. CASE table' = [table EXCEPT ![loader.load] = NoTable] /\ loader' = [loader EXCEPT !.pc = "idle"]
    BY Zenon, <1>4, <1>5, NothingTyped
  <1>6. CASE /\ n > 0
             /\ \E f \in [1..n -> 1..n] :
                  LET sorted == [i \in 1..n |-> t.items[f[i]]]
                      stored == Stored(Closed(sorted))
                  IN /\ IsOrder(f, n) /\ Sorted(sorted)
                     /\ table' = [table EXCEPT ![loader.load] =
                          [syms |-> t.syms, items |-> Closed(sorted), enlarged |-> t.enlarged,
                           array |-> [items |-> stored, min |-> stored[1].start,
                                      max |-> stored[n].end]]]
             /\ loader' = [loader EXCEPT !.pc = "lock", !.old = ctx]
    <2>1. PICK f \in [1..n -> 1..n] :
                /\ IsOrder(f, n) /\ Sorted(InOrder(t, f))
                /\ table' = [table EXCEPT ![loader.load] = Build(t, InOrder(t, f))]
      BY Zenon, <1>6 DEF InOrder, Build
    <2> DEFINE u == Build(t, InOrder(t, f))
    <2>2. u \in Table /\ BuiltTable(u)
      BY Zenon, <1>1, <1>3, <1>6, <2>1, ReadBuilds
    <2> HIDE DEF u
    <2> QED BY Zenon, <1>4, <1>6, <2>1, <2>2 DEF u
  <1> QED BY Zenon, <1>5, <1>6 DEF LoadBuild

(* The pointers are swapped while no searcher holds the mutex.              *)
LEMMA LoadSwapInv ==
  ASSUME KernelInv, LoadSwap
  PROVE  KernelInv'
  <1>0. UNCHANGED <<vars, kallsyms, table, freed, search>>
    BY DEF LoadSwap, tableVars
  <1>1. loader.pc \in {"lock", "swap", "unlock"}
    BY DEF LoadSwap
  <1>2. loader.load \in 1..MaxLoads /\ BuiltTable(table[loader.load])
    BY <1>1, KernelParts DEF TablesBuilt
  <1>3. \A s \in Searcher : search[s].pc \notin {"sym", "search", "name"}
    <2>1. mutex \in {"free", "loader"}
      BY <1>1, KernelParts DEF LoadSwap, MutexHeld
    <2>2. \A s \in Searcher : mutex # s
      BY <2>1, KernelConstants
    <2> QED BY <2>2, KernelParts DEF MutexHeld
  <1>4. /\ loader'.load = loader.load /\ loader'.old = loader.old
        /\ loader' = [pc |-> loader'.pc, load |-> loader'.load, cap |-> loader'.cap, old |-> loader'.old]
        /\ \/ /\ loader.pc = "lock" /\ loader'.pc = "swap" /\ mutex = "free" /\ mutex' = "loader"
              /\ ctx' = ctx
           \/ /\ loader.pc = "swap" /\ loader'.pc = "unlock" /\ mutex' = mutex
              /\ ctx' \in Tables
              /\ ctx'.kernel_symbols = loader.load
              /\ ctx'.kernel_symbol_hash = ctx.kernel_symbol_hash
           \/ /\ loader.pc = "unlock" /\ loader'.pc = "free_array" /\ mutex' = "free"
              /\ ctx' \in Tables
              /\ ctx'.kernel_symbols = ctx.kernel_symbols
              /\ ctx'.kernel_symbol_hash = loader.load
    <2>1. ctx \in Tables /\ loader.load \in 0..MaxLoads
          /\ loader = [pc |-> loader.pc, load |-> loader.load, cap |-> loader.cap, old |-> loader.old]
      BY KernelParts DEF KernelTypes
    <2>2. CASE loader.pc = "lock"
      BY <2>1, <2>2 DEF LoadSwap
    <2>3. CASE loader.pc = "swap"
      BY <2>1, <2>3 DEF LoadSwap, Tables
    <2>4. CASE loader.pc = "unlock"
      BY <2>1, <2>4 DEF LoadSwap, Tables
    <2> QED BY <1>1, <2>2, <2>3, <2>4
  <1>5. ctx' \in Tables /\ ctx.kernel_symbols <= ctx'.kernel_symbols
    BY <1>2, <1>4, KernelParts DEF KernelTypes, Pointers
  <1>6. KernelTypes'
    BY <1>0, <1>4, <1>5, KernelParts DEF KernelTypes
  <1>7. MutexHeld'
    <2>1. mutex' \in {"free", "loader"} /\ (mutex' = "loader" <=> loader'.pc \in {"swap", "unlock"})
      BY <1>4, KernelParts DEF MutexHeld
    <2>2. \A s \in Searcher : mutex' # s
      BY <2>1, KernelConstants
    <2> QED BY <1>0, <1>3, <1>4, <2>1, <2>2 DEF MutexHeld
  <1>8. Pointers'
    <2>1. CASE loader.pc = "lock"
      BY <1>0, <1>4, <2>1, KernelParts DEF Pointers
    <2>2. CASE loader.pc = "swap"
      BY <1>0, <1>2, <1>4, <2>2, KernelParts DEF Pointers
    <2>3. CASE loader.pc = "unlock"
      BY <1>0, <1>2, <1>4, <2>3, KernelParts DEF Pointers
    <2> QED BY <1>1, <2>1, <2>2, <2>3
  <1>9. TablesBuilt'
    BY <1>0, <1>2, <1>4, KernelParts DEF TablesBuilt
  <1>10. Searching' /\ Found' /\ LookupExact'
    BY <1>0, <1>3, <1>5, SearchersUndisturbed
  <1> QED BY <1>6, <1>7, <1>8, <1>9, <1>10 DEF KernelInv

(* The old tables are freed: both are older than those in the context.      *)
LEMMA LoadFreeInv ==
  ASSUME KernelInv, LoadFree
  PROVE  KernelInv'
  <1>0. UNCHANGED <<vars, kallsyms, table, ctx, mutex, search>>
    BY DEF LoadFree, tableVars
  <1>1. /\ loader'.load = loader.load
        /\ loader' = [pc |-> loader'.pc, load |-> loader'.load, cap |-> loader'.cap, old |-> loader'.old]
        /\ \/ /\ loader.pc = "free_array" /\ loader'.pc = "free_hash" /\ loader'.old = loader.old
              /\ freed'.array = freed.array \cup {loader.old.kernel_symbols}
              /\ freed'.hash = freed.hash
           \/ /\ loader.pc = "free_hash" /\ loader'.pc = "idle" /\ loader'.old = NoTables
              /\ freed'.array = freed.array
              /\ freed'.hash = freed.hash \cup {loader.old.kernel_symbol_hash}
    BY Zenon, KernelParts DEF LoadFree, KernelTypes
  <1>2. freed' \in [array : SUBSET (0..MaxLoads), hash : SUBSET (0..MaxLoads)]
    <2>1. /\ freed \in [array : SUBSET (0..MaxLoads), hash : SUBSET (0..MaxLoads)]
          /\ freed.array \cup {loader.old.kernel_symbols} \in SUBSET (0..MaxLoads)
          /\ freed.hash \cup {loader.old.kernel_symbol_hash} \in SUBSET (0..MaxLoads)
      BY KernelParts DEF KernelTypes
    <2> QED BY <2>1 DEF LoadFree
  <1>3. KernelTypes'
    BY <1>0, <1>1, <1>2, NothingTyped, KernelParts DEF KernelTypes
  <1>4. MutexHeld' /\ TablesBuilt'
    BY <1>0, <1>1, KernelParts DEF MutexHeld, TablesBuilt
  <1>5. Pointers'
    BY <1>0, <1>1, KernelParts DEF Pointers
  <1>6. Searching' /\ Found' /\ LookupExact'
    <2>1. ctx' \in Tables /\ ctx.kernel_symbols <= ctx'.kernel_symbols
      BY <1>0, KernelParts DEF KernelTypes
    <2>2. freed.hash \subseteq freed'.hash
      BY <1>1
    <2> QED BY <1>0, <2>1, <2>2, SearchersUndisturbed
  <1> QED BY <1>3, <1>4, <1>5, <1>6 DEF KernelInv

(* The tables are freed when nobody searches any more.                      *)
LEMMA KernelCleanupInv ==
  ASSUME KernelInv, Cleanup
  PROVE  KernelInv'
  <1>0. /\ UNCHANGED <<vars, kallsyms, table, ctx, mutex, search>> /\ loader.pc = "idle"
        /\ \A s \in Searcher : search[s].pc = "idle"
    BY DEF Cleanup, tableVars
  <1>1. /\ loader'.load = loader.load /\ loader'.old = loader.old /\ loader'.pc = "freed"
        /\ loader' = [pc |-> loader'.pc, load |-> loader'.load, cap |-> loader'.cap, old |-> loader'.old]
        /\ freed'.hash = freed.hash \cup {ctx.kernel_symbol_hash}
    BY Zenon, KernelParts DEF Cleanup, KernelTypes
  <1>2. freed' \in [array : SUBSET (0..MaxLoads), hash : SUBSET (0..MaxLoads)]
    <2>1. /\ freed.array \cup {ctx.kernel_symbols} \in SUBSET (0..MaxLoads)
          /\ freed.hash \cup {ctx.kernel_symbol_hash} \in SUBSET (0..MaxLoads)
      BY KernelParts
    <2> QED BY <2>1 DEF Cleanup
  <1>3. KernelTypes'
    BY <1>0, <1>1, <1>2, KernelParts DEF KernelTypes
  <1>4. MutexHeld' /\ TablesBuilt' /\ Pointers'
    BY <1>0, <1>1, KernelParts DEF MutexHeld, TablesBuilt, Pointers
  <1>5. Searching' /\ Found' /\ LookupExact'
    <2>1. ctx' \in Tables /\ ctx.kernel_symbols <= ctx'.kernel_symbols
      BY <1>0, KernelParts DEF KernelTypes
    <2>2. freed.hash \subseteq freed'.hash
      BY <1>1
    <2> QED BY <1>0, <2>1, <2>2, SearchersUndisturbed
  <1> QED BY <1>3, <1>4, <1>5 DEF KernelInv

-----------------------------------------------------------------------------
(* What a step of one searcher has to show.                                 *)
Holding == {"sym", "search", "name"}

SearcherStep(s) ==
  /\ UNCHANGED <<tableVars, ctx, freed, loader>> /\ loader.pc # "freed"
  /\ search' \in [Searcher -> Search]
  /\ \A r \in Searcher \ {s} : search'[r] = search[r]
  /\ \/ mutex \in {s, "free"} /\ mutex' = s /\ search'[s].pc \in Holding
     \/ mutex = s /\ mutex' = "free" /\ search'[s].pc \notin Holding
     \/ mutex' = mutex /\ search[s].pc \notin Holding /\ search'[s].pc \notin Holding

SearcherFound(x) ==
  /\ x.from <= ctx.kernel_symbols
  /\ x.pc \in {"sym", "search"} => x.for.name = "none"
  /\ x.pc \in {"name", "entry"} => x.for.name # "none"
  /\ x.pc = "idle" => x.for = NoSym
  /\ x.pc = "entry" =>
       /\ x.from # 0
       /\ x.answer \in {y \in {Named(z) : z \in Range(table[x.from].syms)} : y.name = x.for.name}
  /\ x.pc = "answered" => \/ AnswerExact(x, TableOf(x.from))
                          \/ x.for.name # "none" /\ x.from \in freed.hash

(* A step of a searcher that shows it, and keeps Searching, keeps the rest. *)
LEMMA SearcherKeeps ==
  ASSUME KernelInv, NEW s \in Searcher, SearcherStep(s), SearcherFound(search'[s]), Searching'
  PROVE  KernelInv'
  <1>0. /\ UNCHANGED <<kallsyms, table, ctx, freed, loader>> /\ loader.pc # "freed"
        /\ search' \in [Searcher -> Search]
        /\ \A r \in Searcher \ {s} : search'[r] = search[r]
    BY DEF SearcherStep, tableVars
  <1>1. s \notin {"free", "loader"}
    BY KernelConstants
  <1>2. KernelTypes'
    <2>1. mutex' \in Searcher \cup {"free", "loader"}
      BY KernelParts DEF SearcherStep, KernelTypes
    <2> QED BY <1>0, <2>1, KernelParts DEF KernelTypes
  <1>3. MutexHeld'
    <2>1. mutex' = "loader" <=> mutex = "loader"
      BY <1>1 DEF SearcherStep
    <2>2. mutex' = s <=> search'[s].pc \in Holding
      BY <1>1, KernelParts DEF SearcherStep, MutexHeld, Holding
    <2>3. ASSUME NEW r \in Searcher, r # s PROVE mutex' = r <=> search'[r].pc \in Holding
      <3>1. r # "free" /\ search'[r] = search[r]
        BY <1>0, <2>3, KernelConstants
      <3>2. mutex' = r <=> mutex = r
        BY <2>3, <3>1 DEF SearcherStep
      <3> QED BY <3>1, <3>2, KernelParts DEF MutexHeld, Holding
    <2> QED BY <1>0, <2>1, <2>2, <2>3, KernelParts DEF MutexHeld, Holding
  <1>4. Pointers' /\ TablesBuilt'
    BY <1>0, KernelParts DEF Pointers, TablesBuilt
  <1>5. ASSUME NEW r \in Searcher PROVE SearcherFound(search'[r])
    <2>1. CASE r = s
      BY Zenon, <2>1
    <2>2. CASE r # s
      BY ZenonT(30), <1>0, <2>2, KernelParts DEF Found, LookupExact, SearcherFound
    <2> QED BY <2>1, <2>2
  <1>6. Found'
    BY Zenon, <1>0, <1>5 DEF Found, SearcherFound
  <1>7. LookupExact'
    <2>1. \A load : TableOf(load)' = TableOf(load)
      BY Zenon, <1>0 DEF TableOf
    <2> QED BY <1>0, <1>5, <2>1 DEF LookupExact, SearcherFound
  <1> QED BY <1>2, <1>3, <1>4, <1>6, <1>7 DEF KernelInv

(* So does a step outside the binary search, which leaves it alone.         *)
LEMMA OutsideSearch ==
  ASSUME KernelInv, NEW s \in Searcher, SearcherStep(s), UNCHANGED vars,
         search[s].pc # "search", search'[s].pc # "search"
  PROVE  Searching'
  <1>1. UNCHANGED <<items, array, pc, addr, left, right, result, table, ctx>>
    BY Zenon DEF vars, SearcherStep, tableVars
  <1>2. Inv' = Inv /\ RuledOut' = RuledOut
    BY <1>1 DEF Inv, TypeOK, SearchExact, SearchSound, RuledOut
  <1>3. \A r \in Searcher : /\ search'[r].pc = "search" <=> search[r].pc = "search"
                            /\ search'[r].pc = "search" => search'[r] = search[r]
    BY DEF SearcherStep
  <1> QED BY <1>1, <1>2, <1>3, KernelParts DEF Searching

(* The mutex is taken.                                                      *)
LEMMA SearchLockInv ==
  ASSUME KernelInv, NEW s \in Searcher, SearchLock(s)
  PROVE  KernelInv'
  <1>0. /\ UNCHANGED <<vars, tableVars, ctx, freed, loader>> /\ loader.pc # "freed"
        /\ search[s].pc = "idle" /\ mutex = "free" /\ mutex' = s
    BY DEF SearchLock
  <1>1. search \in [Searcher -> Search] /\ search[s] \in Search /\ search[s].for = NoSym
    BY <1>0, KernelParts DEF KernelTypes, Found
  <1>2. /\ search[s].from \in 0..MaxLoads /\ search[s].answer \in Symbol /\ search[s].for \in Symbol
        /\ search[s].for.name = "none" /\ search[s].from <= ctx.kernel_symbols
    BY <1>1, KernelParts DEF Search, NoSym, Found
  <1>3. ASSUME NEW for \in Symbol, NEW k \in {"sym", "name"},
               search' = [search EXCEPT ![s] = [search[s] EXCEPT !.pc = k, !.for = for]],
               k = "sym" <=> for.name = "none"
        PROVE  KernelInv'
    <2>1. [search[s] EXCEPT !.pc = k, !.for = for] \in Search
      BY Zenon, <1>1, <1>2, <1>3 DEF Search
    <2>2. search'[s].pc = k /\ search'[s].for = for /\ search'[s].from = search[s].from
      BY <1>1, <1>3 DEF Search
    <2>3. SearcherStep(s)
      BY <1>0, <1>1, <1>3, <2>1, <2>2 DEF SearcherStep, Holding
    <2>4. SearcherFound(search'[s])
      BY <1>2, <1>3, <2>2 DEF SearcherFound
    <2>5. Searching'
      BY <1>0, <2>2, <2>3, OutsideSearch
    <2> QED BY <2>3, <2>4, <2>5, SearcherKeeps
  <1>4. CASE \E a \in Addr : search' = [search EXCEPT ![s].pc = "sym", ![s].for.start = a]
    <2>1. PICK a \in Addr : search' = [search EXCEPT ![s].pc = "sym", ![s].for.start = a]
      BY Zenon, <1>4
    <2> DEFINE for == [search[s].for EXCEPT !.start = a]
    <2>2. for \in Symbol /\ for.name = "none"
      BY <1>2 DEF Symbol
    <2>3. search' = [search EXCEPT ![s] = [search[s] EXCEPT !.pc = "sym", !.for = for]]
      BY Zenon, <1>1, <2>1 DEF Search
    <2> HIDE DEF for
    <2> QED BY Zenon, <1>3, <2>2, <2>3
  <1>5. CASE \E file \in Kallsyms : \E sym \in Range(file) :
               search' = [search EXCEPT ![s].pc = "name", ![s].for.name = sym.name]
    <2>0. PICK file \in Kallsyms : \E sym \in Range(file) :
               search' = [search EXCEPT ![s].pc = "name", ![s].for.name = sym.name]
      BY Zenon, <1>5
    <2>1. PICK sym \in Range(file) :
               search' = [search EXCEPT ![s].pc = "name", ![s].for.name = sym.name]
      BY Zenon, <2>0
    <2>2. sym.name \in STRING \ {"none"}
      BY KernelConstants
    <2> DEFINE for == [search[s].for EXCEPT !.name = sym.name]
    <2>3. for \in Symbol /\ for.name # "none"
      BY <1>2, <2>2 DEF Symbol
    <2>4. search' = [search EXCEPT ![s] = [search[s] EXCEPT !.pc = "name", !.for = for]]
      BY Zenon, <1>1, <2>1 DEF Search
    <2> HIDE DEF for
    <2> QED BY Zenon, <1>3, <2>3, <2>4
  <1> QED BY <1>4, <1>5 DEF SearchLock

(* The answer is taken away.                                                *)
LEMMA SearchReturnInv ==
  ASSUME KernelInv, NEW s \in Searcher, SearchReturn(s)
  PROVE  KernelInv'
  <1>0. /\ UNCHANGED <<vars, tableVars, ctx, freed, mutex, loader>>
        /\ search[s].pc = "answered" /\ search' = [search EXCEPT ![s] = NoSearch]
    BY DEF SearchReturn
  <1>1. search \in [Searcher -> Search] /\ loader.pc # "freed"
    BY <1>0, KernelParts DEF KernelTypes, MutexHeld
  <1>2. search'[s] = NoSearch
    BY <1>0, <1>1
  <1>3. SearcherStep(s)
    BY <1>0, <1>1, <1>2, NothingTyped DEF SearcherStep, Holding, NoSearch
  <1>4. SearcherFound(search'[s])
    BY <1>2, KernelParts DEF SearcherFound, NoSearch
  <1>5. Searching'
    BY <1>0, <1>2, <1>3, OutsideSearch DEF NoSearch
  <1> QED BY <1>3, <1>4, <1>5, SearcherKeeps

(* A name is looked up in the hash, and its entry read without the mutex.   *)
LEMMA SearchAddressInv ==
  ASSUME KernelInv, NEW s \in Searcher, gu_search_kernel_address(s)
  PROVE  KernelInv'
  <1> DEFINE hash == ctx.kernel_symbol_hash
             named == IF hash = 0 THEN {}
                      ELSE {sym \in Range(table[hash].syms) : sym.name = search[s].for.name}
  <1>0. /\ UNCHANGED <<vars, tableVars, ctx, freed, loader>> /\ search[s].pc \in {"name", "entry"}
    BY DEF gu_search_kernel_address
  <1>1. /\ search \in [Searcher -> Search] /\ loader.pc # "freed"
        /\ search[s].from \in 0..MaxLoads /\ search[s].answer \in Symbol /\ search[s].for \in Symbol
        /\ search[s].for.name # "none" /\ hash \in 0..MaxLoads /\ hash <= ctx.kernel_symbols
        /\ search[s].from <= ctx.kernel_symbols
    BY <1>0, KernelParts DEF KernelTypes, Search, MutexHeld, Found, Pointers
  <1>2. \A load \in 1..MaxLoads : \A sym \in Range(table[load].syms) : Named(sym) \in Symbol
    <2> SUFFICES ASSUME NEW load \in 1..MaxLoads, NEW sym \in Range(table[load].syms)
                 PROVE  Named(sym) \in Symbol
      OBVIOUS
    <2>1. table[load].syms \in Seq(KernelFunction)
      BY KernelParts DEF KernelTypes, Table
    <2>2. sym \in KernelFunction
      BY <2>1 DEF Range
    <2> QED BY <2>2 DEF KernelFunction, Symbol, Named
  <1>3. CASE search[s].pc = "name"
    <2>1. mutex = s /\ mutex' = "free"
      BY <1>3, KernelParts DEF gu_search_kernel_address, MutexHeld
    <2>2. CASE \E sym \in named :
                 search' = [search EXCEPT ![s].pc = "entry", ![s].from = hash, ![s].answer = Named(sym)]
      <3>1. PICK sym \in named :
                 search' = [search EXCEPT ![s].pc = "entry", ![s].from = hash, ![s].answer = Named(sym)]
        BY Zenon, <2>2
      <3>2. hash # 0 /\ sym \in Range(table[hash].syms) /\ sym.name = search[s].for.name
        BY <3>1
      <3>3. Named(sym) \in Symbol /\ Named(sym).name = sym.name
        BY <1>1, <1>2, <3>2, KernelConstants DEF Named
      <3>4. /\ search'[s].pc = "entry" /\ search'[s].from = hash /\ search'[s].answer = Named(sym)
            /\ search'[s].for = search[s].for /\ search' \in [Searcher -> Search]
            /\ \A r \in Searcher \ {s} : search'[r] = search[r]
        BY ZenonT(30), <1>1, <3>1, <3>3 DEF Search
      <3>5. SearcherStep(s)
        BY Zenon, <1>0, <1>1, <2>1, <3>4 DEF SearcherStep, Holding
      <3>6. SearcherFound(search'[s])
        BY <1>1, <3>2, <3>3, <3>4 DEF SearcherFound
      <3>7. Searching'
        BY <1>0, <1>3, <3>4, <3>5, OutsideSearch
      <3> QED BY <3>5, <3>6, <3>7, SearcherKeeps
    <2>3. CASE named = {} /\ search' = [Answer(s, NoSym) EXCEPT ![s].from = hash]
      <3>1. /\ search'[s].pc = "answered" /\ search'[s].from = hash /\ search'[s].answer = NoSym
            /\ search'[s].for = search[s].for /\ search' \in [Searcher -> Search]
            /\ \A r \in Searcher \ {s} : search'[r] = search[r]
        BY Zenon, <1>1, <2>3, NothingTyped DEF Search, Answer
      <3>2. {y \in {Named(z) : z \in Range(TableOf(hash).syms)} : y.name = search[s].for.name} = {}
        <4>1. CASE hash = 0
          BY <4>1 DEF TableOf, NoTable, Range
        <4>2. CASE hash # 0
          BY <2>3, <4>2 DEF TableOf, Named
        <4> QED BY <4>1, <4>2
      <3>3. AnswerExact(search'[s], TableOf(hash))
        BY <1>1, <3>1, <3>2 DEF AnswerExact
      <3>4. SearcherStep(s)
        BY Zenon, <1>0, <1>1, <2>1, <3>1 DEF SearcherStep, Holding
      <3>5. SearcherFound(search'[s])
        BY <1>1, <3>1, <3>3 DEF SearcherFound
      <3>6. Searching'
        BY <1>0, <1>3, <3>1, <3>4, OutsideSearch
      <3> QED BY <3>4, <3>5, <3>6, SearcherKeeps
    <2> QED BY <1>3, <2>2, <2>3 DEF gu_search_kernel_address
  <1>4. CASE search[s].pc = "entry"
    <2>1. PICK a \in IF search[s].from \in freed.hash THEN Garbage ELSE {search[s].answer.start} :
            search' = Answer(s, [search[s].answer EXCEPT !.start = a])
      BY Zenon, <1>4 DEF gu_search_kernel_address
    <2>2. mutex' = mutex
      BY <1>4 DEF gu_search_kernel_address
    <2> DEFINE answer == [search[s].answer EXCEPT !.start = a]
    <2>3. a \in Addr
      BY <1>1, <2>1, KernelConstants DEF Symbol
    <2>4. answer \in Symbol
      BY <1>1, <2>3 DEF Symbol
    <2>5. search[s].from \notin freed.hash => answer = search[s].answer
      BY <1>1, <2>1 DEF Symbol
    <2> HIDE DEF answer
    <2>6. /\ search'[s].pc = "answered" /\ search'[s].from = search[s].from
          /\ search'[s].answer = answer
          /\ search'[s].for = search[s].for /\ search' \in [Searcher -> Search]
          /\ \A r \in Searcher \ {s} : search'[r] = search[r]
      BY ZenonT(30), <1>1, <2>1, <2>4 DEF Search, Answer, answer
    <2>7. ASSUME search[s].from \notin freed.hash
          PROVE  AnswerExact(search'[s], TableOf(search[s].from))
      <3>1. /\ search[s].from # 0
            /\ search[s].answer \in {y \in {Named(z) : z \in Range(table[search[s].from].syms)} :
                                       y.name = search[s].for.name}
        BY Zenon, <1>4, KernelParts DEF Found
      <3>2. TableOf(search[s].from) = table[search[s].from]
        BY <3>1 DEF TableOf
      <3> QED BY <1>1, <2>5, <2>6, <2>7, <3>1, <3>2 DEF AnswerExact
    <2>8. SearcherStep(s)
      BY Zenon, <1>0, <1>1, <1>4, <2>2, <2>6 DEF SearcherStep, Holding
    <2>9. SearcherFound(search'[s])
      BY <1>1, <2>6, <2>7 DEF SearcherFound
    <2>10. Searching'
      BY <1>0, <1>4, <2>6, <2>8, OutsideSearch
    <2> QED BY <2>8, <2>9, <2>10, SearcherKeeps
  <1> QED BY <1>0, <1>3, <1>4

-----------------------------------------------------------------------------
(* An address is looked up under the mutex.                                 *)
LEMMA SearchSymbolInv ==
  ASSUME KernelInv, NEW s \in Searcher, gu_search_kernel_symbol(s)
  PROVE  KernelInv'
  <1> DEFINE t == table[ctx.kernel_symbols]
  <1>0. /\ UNCHANGED <<tableVars, ctx, freed, loader>> /\ UNCHANGED <<table, ctx>>
        /\ search[s].pc \in {"sym", "search"}
    BY DEF gu_search_kernel_symbol, tableVars
  <1>1. /\ search \in [Searcher -> Search] /\ search[s] \in Search /\ loader.pc # "freed"
        /\ search[s].from \in 0..MaxLoads /\ search[s].for \in Symbol
        /\ search[s].for.name = "none" /\ search[s].for.start \in Addr
        /\ ctx.kernel_symbols \in 0..MaxLoads /\ search[s].from <= ctx.kernel_symbols
        /\ mutex = s
    BY <1>0, KernelParts DEF KernelTypes, Search, Symbol, MutexHeld, Found, Tables
  <1>2. \A r \in Searcher \ {s} : search[r].pc \notin Holding
    BY <1>1, KernelParts DEF MutexHeld, Holding
  <1>3. ctx.kernel_symbols # 0 => t \in Table /\ BuiltTable(t)
    BY <1>1, KernelParts DEF KernelTypes, TablesBuilt
  <1> HIDE DEF t
  <1>4. CASE search[s].pc = "sym" /\ ctx.kernel_symbols = 0
    <2>1. search' = Answer(s, NoSym) /\ mutex' = "free" /\ UNCHANGED vars
      BY <1>4 DEF gu_search_kernel_symbol
    <2>2. /\ search'[s].pc = "answered" /\ search'[s].from = 0 /\ search'[s].answer = NoSym
          /\ search'[s].for = search[s].for /\ search' \in [Searcher -> Search]
          /\ \A r \in Searcher \ {s} : search'[r] = search[r]
      <3>1. search[s].from = 0
        BY <1>1, <1>4
      <3> QED BY Zenon, <1>1, <2>1, <3>1, NothingTyped DEF Search, Answer
    <2>4. AnswerExact(search'[s], TableOf(0))
      BY <2>2, NoTableAnswers
    <2>5. SearcherStep(s)
      BY Zenon, <1>0, <1>1, <2>1, <2>2 DEF SearcherStep, Holding
    <2>6. SearcherFound(search'[s])
      BY <1>1, <2>2, <2>4 DEF SearcherFound
    <2>7. Searching'
      BY <1>4, <2>1, <2>2, <2>5, OutsideSearch
    <2> QED BY <2>5, <2>6, <2>7, SearcherKeeps
  <1>5. CASE search[s].pc = "sym" /\ ctx.kernel_symbols # 0
    <2>1. /\ items' = t.items /\ array' = t.array /\ pc' = "ready" /\ UNCHANGED <<addr, left, right, result>>
          /\ search' = [search EXCEPT ![s].pc = "search", ![s].from = ctx.kernel_symbols]
          /\ mutex' = mutex
      BY <1>5 DEF gu_search_kernel_symbol, t
    <2>2. /\ search'[s].pc = "search" /\ search'[s].from = ctx.kernel_symbols
          /\ search'[s].for = search[s].for /\ search' \in [Searcher -> Search]
          /\ \A r \in Searcher \ {s} : search'[r] = search[r]
      BY Zenon, <1>1, <2>1 DEF Search
    <2>3. SearcherStep(s)
      BY Zenon, <1>0, <1>1, <2>1, <2>2 DEF SearcherStep, Holding
    <2>4. SearcherFound(search'[s])
      BY <1>1, <2>2 DEF SearcherFound
    <2>5. addr' = 0 /\ left' = 1 /\ right' = 0 /\ result' = 0
      <3>1. \A r \in Searcher : search[r].pc # "search"
        BY <1>2, <1>5 DEF Holding
      <3> QED BY <2>1, <3>1, KernelParts DEF Searching
    <2>6. Inv'
      <3>1. /\ items' \in Seq(Item) /\ array' \in [items : Seq(Item), min : Addr, max : Addr]
            /\ Len(array'.items) \in Nat /\ Len(array'.items) > 0 /\ Len(items') = Len(array'.items)
        BY <1>3, <1>5, <2>1 DEF Table, Array, BuiltTable
      <3>2. TypeOK'
        BY <2>1, <2>5, <3>1, Widths DEF TypeOK, Addr
      <3>3. array' # NoArray
        BY <3>1 DEF NoArray
      <3>4. Disjoint(items') => /\ array'.items = items' /\ array'.min = items'[1].start
                                /\ array'.max = items'[Len(items')].end
        BY <1>3, <1>5, <2>1 DEF BuiltTable, Kept
      <3> QED BY <2>1, <2>5, <3>1, <3>2, <3>3, <3>4 DEF Inv, SearchExact, SearchSound
    <2>7. RuledOut'
      BY <2>1 DEF RuledOut
    <2>8. Searching'
      <3>1. \A r \in Searcher : search'[r].pc = "search" => r = s
        BY <1>2, <2>2 DEF Holding
      <3> QED BY <1>0, <1>5, <2>1, <2>2, <2>6, <2>7, <3>1 DEF Searching, t
    <2> QED BY <2>3, <2>4, <2>8, SearcherKeeps
  <1>6. CASE search[s].pc = "search"
    <2>0. /\ search[s].from = ctx.kernel_symbols /\ search[s].from # 0
          /\ items = t.items /\ array = t.array
          /\ pc \in {"ready", "loop", "done"} /\ (pc # "ready" => addr = search[s].for.start)
          /\ Inv /\ (~t.enlarged => RuledOut) /\ t \in Table /\ BuiltTable(t)
      BY <1>3, <1>6, KernelParts DEF Searching, t
    <2>1. CASE /\ (pc = "ready" /\ gu_interval_array_search(search[s].for.start)) \/ SearchStep
               /\ UNCHANGED <<search, mutex>>
      <3>1. UNCHANGED <<items, array>> /\ pc' \in {"loop", "done"} /\ addr' = search[s].for.start
        BY Zenon, <2>0, <2>1 DEF gu_interval_array_search, SearchStep
      <3>2. Inv'
        BY Zenon, <1>1, <2>0, <2>1, SearchInv, StepInv
      <3>3. ASSUME ~t.enlarged PROVE RuledOut'
        <4>1. /\ Chain(items) /\ Kept([items |-> items, array |-> array]) /\ array.items = items
              /\ RuledOut /\ array # NoArray
          <5>1. Chain(items) /\ Kept(t) /\ RuledOut /\ Len(t.items) > 0
            BY Zenon, <2>0, <3>3 DEF BuiltTable
          <5>2. Kept([items |-> items, array |-> array]) /\ array.items = items
            BY <2>0, <5>1 DEF Kept
          <5>3. array # NoArray
            BY <2>0, <5>1, <5>2 DEF NoArray
          <5> QED BY Zenon, <5>1, <5>2, <5>3
        <4> QED BY ZenonT(30), <1>1, <2>0, <2>1, <4>1, StartRulesOut, StepRulesOut
      <3>4. Searching'
        <4>1. \A r \in Searcher : search'[r].pc = "search" => r = s
          BY ZenonT(30), <1>2, <2>1 DEF Holding
        <4> QED BY Zenon, <1>0, <1>6, <2>0, <2>1, <3>1, <3>2, <3>3, <4>1 DEF Searching, t
      <3>5. SearcherStep(s)
        BY <1>0, <1>1, <1>6, <2>1 DEF SearcherStep, Holding
      <3>6. SearcherFound(search'[s])
        BY Zenon, <1>1, <1>6, <2>1 DEF SearcherFound
      <3> QED BY Zenon, <3>4, <3>5, <3>6, SearcherKeeps
    <2>2. CASE pc = "done" /\ mutex' = "free"
      <3> DEFINE answer == FoundIn(t)
      <3>1. CASE UNCHANGED <<search, mutex>>
        BY Zenon, <1>1, <2>2, <3>1, KernelConstants
      <3>2. CASE /\ search' = Answer(s, answer)
                 /\ items' = <<>> /\ array' = NoArray /\ pc' = "ready"
                 /\ addr' = 0 /\ left' = 1 /\ right' = 0 /\ result' = 0
        <4>1. answer \in Symbol
          BY <2>0, <2>2, FoundIsTyped DEF Finished
        <4> HIDE DEF answer
        <4>2. /\ search'[s].pc = "answered" /\ search'[s].from = ctx.kernel_symbols
              /\ search'[s].answer = answer /\ search'[s].for = search[s].for
              /\ search' \in [Searcher -> Search] /\ search'[s] \in Search
              /\ \A r \in Searcher \ {s} : search'[r] = search[r]
          BY Zenon, <1>1, <2>0, <3>2, <4>1 DEF Search, Answer
        <4>3. AnswerExact(search'[s], t)
          <5>1. Finished(t) /\ t \in Table /\ BuiltTable(t)
            BY Zenon, <2>0, <2>2 DEF Finished
          <5>2. /\ search'[s] \in Search /\ search'[s].for.name = "none"
                /\ search'[s].for.start = addr /\ search'[s].answer = FoundIn(t)
            BY <1>1, <2>0, <2>2, <4>2 DEF answer
          <5> QED BY <5>1, <5>2, FoundIsExact
        <4>4. AnswerExact(search'[s], TableOf(ctx.kernel_symbols))
          BY <2>0, <4>3 DEF TableOf, t
        <4>5. SearcherStep(s)
          BY Zenon, <1>0, <1>1, <2>2, <4>2 DEF SearcherStep, Holding
        <4>6. SearcherFound(search'[s])
          <5>1. search'[s].from <= ctx.kernel_symbols
            BY Zenon, <1>1, <2>0, <4>2
          <5> QED BY Zenon, <4>2, <4>4, <5>1 DEF SearcherFound
        <4>7. Searching'
          <5>1. \A r \in Searcher : search'[r].pc # "search"
            BY <1>2, <4>2 DEF Holding
          <5> QED BY Zenon, <3>2, <5>1 DEF Searching
        <4> QED BY <4>5, <4>6, <4>7, SearcherKeeps
      <3> QED BY Zenon, <1>6, <2>2, <3>1, <3>2 DEF gu_search_kernel_symbol, t, FoundIn
    <2> QED BY Zenon, <1>6, <2>1, <2>2 DEF gu_search_kernel_symbol
  <1> QED BY <1>0, <1>4, <1>5, <1>6

-----------------------------------------------------------------------------
(* KernelInv is inductive.                                                  *)
LEMMA KernelInvAlways == KernelSpec => []KernelInv
  <1>1. KernelInit => KernelInv
    BY KernelInitInv
  <1>2. KernelInv /\ [KernelNext]_allVars => KernelInv'
    <2> SUFFICES ASSUME KernelInv, [KernelNext]_allVars PROVE KernelInv'
      OBVIOUS
    <2>1. CASE UNCHANGED allVars
      <3>1. UNCHANGED <<items, array, pc, addr, left, right, result, kallsyms, table, ctx, freed,
                        mutex, loader, search>>
        BY Zenon, <2>1 DEF allVars, vars, kernelVars, tableVars
      <3>2. Inv' = Inv /\ RuledOut' = RuledOut
        BY Zenon, <3>1 DEF Inv, TypeOK, SearchExact, SearchSound, RuledOut
      <3>3. \A load : TableOf(load)' = TableOf(load)
        BY <3>1 DEF TableOf
      <3>4. KernelTypes' /\ MutexHeld' /\ Pointers' /\ TablesBuilt' /\ Found'
        BY ZenonT(30), <3>1, KernelParts DEF KernelTypes, MutexHeld, Pointers, TablesBuilt, Found
      <3>5. Searching'
        BY Zenon, <3>1, <3>2, KernelParts DEF Searching
      <3>6. LookupExact'
        BY Zenon, <3>1, <3>3, KernelParts DEF LookupExact
      <3> QED BY <3>4, <3>5, <3>6 DEF KernelInv
    <2>2. CASE KernelNext
      BY <2>2, KallsymsChangesInv, LoadBeginInv, LoadReadInv, LoadBuildInv, LoadSwapInv, LoadFreeInv,
         KernelCleanupInv, SearchLockInv, SearchSymbolInv, SearchAddressInv, SearchReturnInv
         DEF KernelNext
    <2> QED BY <2>1, <2>2
  <1> QED BY <1>1, <1>2, PTL DEF KernelSpec

(* No lookup meets a freed table under the mutex, however loads and lookups *)
(* interleave.                                                              *)
THEOREM LookupsMeetLiveTables == KernelSpec => []SearchesLiveTables
  <1>1. KernelInv => SearchesLiveTables
    <2> SUFFICES ASSUME KernelInv, NEW s \in Searcher, search[s].pc \in {"sym", "search", "name"}
                 PROVE  /\ ctx.kernel_symbols \notin freed.array \ {0}
                        /\ ctx.kernel_symbol_hash \notin (freed.hash \cup freed.array) \ {0}
      BY DEF SearchesLiveTables
    <2>1. loader.pc # "freed"
      BY KernelParts DEF MutexHeld
    <2>2. /\ ctx.kernel_symbols \in Int /\ ctx.kernel_symbol_hash \in Int
          /\ ctx.kernel_symbol_hash <= ctx.kernel_symbols
          /\ \A x \in freed.array \cup freed.hash : x = 0 \/ x < ctx.kernel_symbol_hash
      BY <2>1, KernelParts DEF Pointers, KernelTypes, Tables
    <2>3. \A x \in freed.array \cup freed.hash : x \in Int
      BY KernelParts DEF KernelTypes
    <2> QED BY <2>2, <2>3
  <1> QED BY <1>1, KernelInvAlways, PTL

(* A lookup answers for the table it searched as LookupExact says, for any  *)
(* number of threads, reloads and functions, and any order of the file: by  *)
(* address exactly, unless the table was enlarged while reading, and by     *)
(* name unless a reload has freed the entry.                                *)
THEOREM LookupsAreExact == KernelSpec => []LookupExact
  BY KernelInvAlways, PTL DEF KernelInv

(* A load frees the tables it takes out of the context, and no other.       *)
THEOREM LoadsFreeWhatTheyReplace == KernelSpec => FreesWhatItReplaces
  <1>1. KernelInv /\ [KernelNext]_allVars =>
          [/\ ctx'.kernel_symbols # ctx.kernel_symbols
                => loader.old.kernel_symbols = ctx.kernel_symbols
           /\ ctx'.kernel_symbol_hash # ctx.kernel_symbol_hash
                => loader.old.kernel_symbol_hash = ctx.kernel_symbol_hash]_allVars
    <2> SUFFICES ASSUME KernelInv, KernelNext
                 PROVE  /\ ctx'.kernel_symbols # ctx.kernel_symbols
                             => loader.old.kernel_symbols = ctx.kernel_symbols
                        /\ ctx'.kernel_symbol_hash # ctx.kernel_symbol_hash
                             => loader.old.kernel_symbol_hash = ctx.kernel_symbol_hash
      OBVIOUS
    <2>1. CASE LoadSwap
      BY <2>1, KernelParts DEF LoadSwap, Pointers, KernelTypes, Tables
    <2>2. CASE ~LoadSwap
      <3>1. ctx' = ctx
        BY Zenon, <2>2 DEF KernelNext, KallsymsChanges, LoadBegin, LoadRead, LoadBuild, LoadFree, Cleanup,
                    SearchLock, gu_search_kernel_symbol, gu_search_kernel_address, SearchReturn
      <3> QED BY <3>1
    <2> QED BY <2>1, <2>2
  <1> QED BY <1>1, KernelInvAlways, PTL DEF KernelSpec, FreesWhatItReplaces
=============================================================================
