---------------------------- MODULE KernelSymbols ----------------------------
(***************************************************************************)
(* Kernel symbols (src/gu_stacktrace.c): the owner of the context loads    *)
(* and reloads /proc/kallsyms into an interval array and a hash table by   *)
(* name, while other threads look symbols up; kernel_symbols_mutex guards  *)
(* the two pointers.  Tables are numbered by the load that built them, 0   *)
(* is NULL.  The array owns the name strings, the hash of the same load    *)
(* refers to them.                                                         *)
(*                                                                         *)
(* A lookup by address runs the binary search of IntervalArray, whose      *)
(* variables belong to the thread that holds the mutex.                    *)
(***************************************************************************)
EXTENDS IntervalArray, Functions

CONSTANTS
  Searcher,     \* threads that look kernel symbols up
  Kallsyms,     \* what /proc/kallsyms may hold, as modules come and go
  EmptyCap,     \* the room made for a file without functions, 1024
  Garbage,      \* ends that memory from realloc() may hold
  MaxLoads,     \* bound of the model: loads
  MaxChanges    \* bound of the model: changes of /proc/kallsyms

(* The functions listed in a file.                                          *)
FunctionsOf(file) == SelectSeq(file, LAMBDA s : s.type \in {"t", "T"})
KernelFunction == [type : {"t", "T"}, start : Addr, name : STRING \ {"none"}]

ASSUME KernelConstants ==
  /\ MaxLoads \in Nat /\ MaxChanges \in Nat /\ EmptyCap \in Nat \ {0} /\ Garbage \subseteq Addr
  /\ {"free", "loader"} \cap Searcher = {}
  /\ \A file \in Kallsyms :
       /\ FunctionsOf(file) \in Seq(KernelFunction) /\ Len(FunctionsOf(file)) <= MaxItems
       /\ \A sym \in Range(file) : sym.name \in STRING \ {"none"}

VARIABLES
  kallsyms,             \* the file, and how often it has changed
  g_ksym_items_count,   \* room that was enough for the last load of the process
  ctx,                  \* the context: kernel_symbols, kernel_symbol_hash
  table,                \* per load: functions read, items, array, was it enlarged
  freed,                \* the arrays and the hashes that were freed
  mutex,                \* the thread holding kernel_symbols_mutex, or "free"
  loader,               \* the loading thread: step, load, room, old tables
  search                \* per searcher: step, what it looks for and in which table, answer

tableVars == <<kallsyms, g_ksym_items_count, table>>
kernelVars == <<tableVars, ctx, freed, mutex, loader, search>>
allVars == <<vars, kernelVars>>

NoTables == [kernel_symbols |-> 0, kernel_symbol_hash |-> 0]
NoTable == [syms |-> <<>>, items |-> <<>>, array |-> NoArray, enlarged |-> FALSE]
NoSym == [name |-> "none", start |-> 0]
NoSearch == [pc |-> "idle", for |-> NoSym, from |-> 0, answer |-> NoSym]

Named(sym) == [name |-> sym.name, start |-> sym.start]

(* items_cap: doubled from 1 for the first load, doubled again when it is   *)
(* too small.                                                               *)
Doubled(cap, n) == CHOOSE c \in {cap * 2^k : k \in 0..n} : c >= n /\ (c = cap \/ c \div 2 < n)

KernelInit ==
  /\ kallsyms \in [file : Kallsyms, changes : {0}]
  /\ g_ksym_items_count = 0
  /\ ctx = NoTables
  /\ table = [n \in 1..MaxLoads |-> NoTable]
  /\ freed = [array |-> {}, hash |-> {}]
  /\ mutex = "free"
  /\ loader = [pc |-> "idle", load |-> 0, cap |-> 0, old |-> NoTables]
  /\ search = [s \in Searcher |-> NoSearch]
  /\ items = <<>> /\ array = NoArray /\ pc = "ready"
  /\ addr = 0 /\ left = 1 /\ right = 0 /\ result = 0

(* A module is loaded or unloaded, or addresses are hidden.                 *)
KallsymsChanges ==
  /\ kallsyms.changes < MaxChanges
  /\ \E file \in Kallsyms \ {kallsyms.file} :
       kallsyms' = [file |-> file, changes |-> kallsyms.changes + 1]
  /\ UNCHANGED <<vars, g_ksym_items_count, table, ctx, freed, mutex, loader, search>>

-----------------------------------------------------------------------------
(* Mutant: the tables are dropped before the new ones are read.             *)
LoadDropsTables ==
  /\ loader.pc = "idle" /\ loader.load < MaxLoads
  /\ loader' = [loader EXCEPT !.pc = "read", !.load = @ + 1, !.cap = EmptyCap]
  /\ ctx' = NoTables
  /\ UNCHANGED <<vars, tableVars, freed, mutex, search>>

(* gu_load_kernel_symbols() counts the functions the first time, and makes  *)
(* room for as many as the last time otherwise.                             *)
LoadBegin ==
  LET n == Len(FunctionsOf(kallsyms.file)) IN
  /\ loader.pc = "idle" /\ loader.load < MaxLoads
  /\ loader' = [loader EXCEPT !.pc = "read", !.load = @ + 1,
                              !.cap = CASE g_ksym_items_count # 0 -> g_ksym_items_count
                                        [] g_ksym_items_count = 0 /\ n = 0 -> EmptyCap
                                        [] OTHER -> Doubled(1, n)]
  /\ UNCHANGED <<vars, tableVars, ctx, freed, mutex, search>>

(* Mutant: the room is not cleared.                                         *)
OpenItemsDirty(syms, cap) ==
  {[i \in 1..Len(syms) |-> [start |-> syms[i].start, end |-> ends[i], private |-> i]] :
     ends \in [1..Len(syms) -> Garbage]}

(* The open items of the functions.  Room that was added while reading has  *)
(* whatever end the memory had.                                             *)
OpenItems(syms, cap) ==
  {[i \in 1..Len(syms) |-> [start |-> syms[i].start, end |-> ends[i], private |-> i]] :
     ends \in {e \in [1..Len(syms) -> Garbage \cup {0}] : \A i \in 1..Len(syms) : i <= cap => e[i] = 0}}

(* The file is read again, whatever was counted; it may be out of memory    *)
(* when there is too little room.                                           *)
LoadRead ==
  LET syms == FunctionsOf(kallsyms.file)
      cap == Doubled(loader.cap, Len(syms))
  IN
  /\ loader.pc = "read"
  /\ \/ \E open \in OpenItems(syms, loader.cap) :
          /\ table' = [table EXCEPT ![loader.load] =
                         [syms |-> syms, items |-> open, array |-> NoArray,
                          enlarged |-> \E i \in 1..Len(syms) : ~(i <= loader.cap)]]
          /\ g_ksym_items_count' = cap
          /\ loader' = [loader EXCEPT !.pc = "build"]
     \/ /\ Len(syms) > loader.cap
        /\ loader' = [loader EXCEPT !.pc = "idle"]
        /\ UNCHANGED <<table, g_ksym_items_count>>
  /\ UNCHANGED <<vars, kallsyms, ctx, freed, mutex, search>>

(* gu_interval_array_init(): none without functions or memory.  The old     *)
(* tables are read before the mutex is taken.                               *)
LoadBuild ==
  LET open == table[loader.load].items
      n == Len(open)
  IN
  /\ loader.pc = "build"
  /\ \/ /\ n > 0
        /\ \E f \in [1..n -> 1..n] :
             LET sorted == [i \in 1..n |-> open[f[i]]]
                 stored == Stored(Closed(sorted))
             IN /\ IsOrder(f, n) /\ Sorted(sorted)
                /\ table' = [table EXCEPT ![loader.load] =
                     [syms |-> @.syms, items |-> Closed(sorted), enlarged |-> @.enlarged,
                      array |-> [items |-> stored, min |-> stored[1].start, max |-> stored[n].end]]]
        /\ loader' = [loader EXCEPT !.pc = "lock", !.old = ctx]
     \/ /\ table' = [table EXCEPT ![loader.load] = NoTable]
        /\ loader' = [loader EXCEPT !.pc = "idle"]
  /\ UNCHANGED <<vars, kallsyms, g_ksym_items_count, ctx, freed, mutex, search>>

(* The two pointers are swapped under the mutex...                          *)
LoadSwap ==
  /\ \/ /\ loader.pc = "lock" /\ mutex = "free"
        /\ mutex' = "loader"
        /\ loader' = [loader EXCEPT !.pc = "swap"]
        /\ UNCHANGED ctx
     \/ /\ loader.pc = "swap"
        /\ ctx' = [ctx EXCEPT !.kernel_symbols = loader.load]
        /\ loader' = [loader EXCEPT !.pc = "unlock"]
        /\ UNCHANGED mutex
     \/ /\ loader.pc = "unlock"
        /\ ctx' = [ctx EXCEPT !.kernel_symbol_hash = loader.load]
        /\ mutex' = "free"
        /\ loader' = [loader EXCEPT !.pc = "free_array"]
  /\ UNCHANGED <<vars, tableVars, freed, search>>

(* Mutant: the old tables are freed before they are replaced.               *)
LoadFreesFirst ==
  /\ \/ loader.pc = "lock" /\ UNCHANGED loader
     \/ loader.pc \in {"free_array", "free_hash"}
          /\ loader' = [loader EXCEPT !.pc = "idle", !.old = NoTables]
  /\ freed' = [array |-> freed.array \cup {loader.old.kernel_symbols},
               hash |-> freed.hash \cup {loader.old.kernel_symbol_hash}]
  /\ UNCHANGED <<vars, tableVars, ctx, mutex, search>>

(* ...and the old tables freed after it was released.                       *)
LoadFree ==
  /\ \/ /\ loader.pc = "free_array"
        /\ freed' = [freed EXCEPT !.array = @ \cup {loader.old.kernel_symbols}]
        /\ loader' = [loader EXCEPT !.pc = "free_hash"]
     \/ /\ loader.pc = "free_hash"
        /\ freed' = [freed EXCEPT !.hash = @ \cup {loader.old.kernel_symbol_hash}]
        /\ loader' = [loader EXCEPT !.pc = "idle", !.old = NoTables]
  /\ UNCHANGED <<vars, tableVars, ctx, mutex, search>>

-----------------------------------------------------------------------------
(* Both lookups take the mutex.                                             *)
SearchLock(s) ==
  /\ loader.pc # "freed"
  /\ search[s].pc = "idle" /\ mutex = "free"
  /\ mutex' = s
  /\ \/ \E a \in Addr : search' = [search EXCEPT ![s].pc = "sym", ![s].for.start = a]
     \/ \E file \in Kallsyms : \E sym \in Range(file) :
          search' = [search EXCEPT ![s].pc = "name", ![s].for.name = sym.name]
  /\ UNCHANGED <<vars, tableVars, ctx, freed, loader>>

Answer(s, sym) == [search EXCEPT ![s].pc = "answered", ![s].answer = sym]

(* gu_search_kernel_symbol() does all its work under the mutex.             *)
gu_search_kernel_symbol(s) ==
  LET t == table[ctx.kernel_symbols] IN
  /\ \/ /\ search[s].pc = "sym" /\ ctx.kernel_symbols = 0
        /\ search' = Answer(s, NoSym)
        /\ mutex' = "free"
        /\ UNCHANGED vars
     \/ /\ search[s].pc = "sym" /\ ctx.kernel_symbols # 0
        /\ items' = t.items /\ array' = t.array /\ pc' = "ready"
        /\ search' = [search EXCEPT ![s].pc = "search", ![s].from = ctx.kernel_symbols]
        /\ UNCHANGED <<addr, left, right, result, mutex>>
     \/ /\ search[s].pc = "search"
        /\ (pc = "ready" /\ gu_interval_array_search(search[s].for.start)) \/ SearchStep
        /\ UNCHANGED <<search, mutex>>
     \/ /\ search[s].pc = "search" /\ pc = "done"
        /\ search' = Answer(s, IF result = 0 THEN NoSym
                               ELSE Named(t.syms[array.items[result].private]))
        /\ mutex' = "free"
        /\ items' = <<>> /\ array' = NoArray /\ pc' = "ready"
        /\ addr' = 0 /\ left' = 1 /\ right' = 0 /\ result' = 0
  /\ UNCHANGED <<tableVars, ctx, freed, loader>>

(* gu_search_kernel_address() finds an entry of the name under the mutex,   *)
(* and reads entry->addr after it has released it.                          *)
gu_search_kernel_address(s) ==
  LET hash == ctx.kernel_symbol_hash
      named == IF hash = 0 THEN {}
               ELSE {sym \in Range(table[hash].syms) : sym.name = search[s].for.name}
  IN
  /\ \/ /\ search[s].pc = "name"
        /\ \/ \E sym \in named :
                search' = [search EXCEPT ![s].pc = "entry", ![s].from = hash, ![s].answer = Named(sym)]
           \/ named = {} /\ search' = [Answer(s, NoSym) EXCEPT ![s].from = hash]
        /\ mutex' = "free"
     \/ /\ search[s].pc = "entry"
        /\ \E a \in IF search[s].from \in freed.hash THEN Garbage ELSE {search[s].answer.start} :
             search' = Answer(s, [search[s].answer EXCEPT !.start = a])
        /\ UNCHANGED mutex
  /\ UNCHANGED <<vars, tableVars, ctx, freed, loader>>

SearchReturn(s) ==
  /\ search[s].pc = "answered"
  /\ search' = [search EXCEPT ![s] = NoSearch]
  /\ UNCHANGED <<vars, tableVars, ctx, freed, mutex, loader>>

(* gu_cleanup() frees the tables; the context is not used from then on.     *)
Cleanup ==
  /\ loader.pc = "idle" /\ \A s \in Searcher : search[s].pc = "idle"
  /\ loader' = [loader EXCEPT !.pc = "freed"]
  /\ freed' = [array |-> freed.array \cup {ctx.kernel_symbols},
               hash |-> freed.hash \cup {ctx.kernel_symbol_hash}]
  /\ UNCHANGED <<vars, tableVars, ctx, mutex, search>>

KernelNext ==
  \/ KallsymsChanges \/ LoadBegin \/ LoadRead \/ LoadBuild \/ LoadSwap \/ LoadFree \/ Cleanup
  \/ \E s \in Searcher :
       SearchLock(s) \/ gu_search_kernel_symbol(s) \/ gu_search_kernel_address(s) \/ SearchReturn(s)

KernelSpec == KernelInit /\ [][KernelNext]_allVars

-----------------------------------------------------------------------------
(* A thread that holds the mutex to search never meets a freed table: not   *)
(* the array, not the hash, and not the names the hash takes from its array.*)
SearchesLiveTables ==
  \A s \in Searcher :
    search[s].pc \in {"sym", "search", "name"} =>
      /\ ctx.kernel_symbols \notin freed.array \ {0}
      /\ ctx.kernel_symbol_hash \notin (freed.hash \cup freed.array) \ {0}

TableOf(load) == IF load = 0 THEN NoTable ELSE table[load]

(* The answer to a lookup x that the functions in the table t call for.     *)
AnswerExact(x, t) ==
  LET syms == {Named(y) : y \in Range(t.syms)}
      below == {y \in syms : 0 < y.start /\ y.start <= x.for.start}
      named == {y \in syms : y.name = x.for.name}
      reach == IF \E y \in syms : y.start >= U32Max THEN U64Max - 1 ELSE U32Max - 1
  IN IF x.for.name # "none" THEN x.answer \in IF named = {} THEN {NoSym} ELSE named
     ELSE /\ x.answer.start # 0 => x.answer \in IF t.enlarged THEN syms ELSE below
          /\ ~t.enlarged /\ x.for.start < reach => \A y \in below : y.start <= x.answer.start

(* A lookup by address finds the last function that starts at or below the  *)
(* address, in the file as one load has read it, however the file is        *)
(* ordered, whatever aliases it has, and whatever replaces the table; only  *)
(* from where the last item ends on, it finds none.  In a table that was    *)
(* enlarged while reading it may find any function, or none.  A lookup by   *)
(* name finds the address of a function with that name, unless its entry    *)
(* was freed before it was read; or there is none.                          *)
LookupExact ==
  \A s \in Searcher : search[s].pc = "answered" =>
    \/ AnswerExact(search[s], TableOf(search[s].from))
    \/ search[s].for.name # "none" /\ search[s].from \in freed.hash

(* No table is lost or freed while in use: the tables a load takes out of   *)
(* the context are those it read before it took the mutex, which it frees,  *)
(* and a load that fails takes out none.                                    *)
FreesWhatItReplaces ==
  [][/\ ctx'.kernel_symbols # ctx.kernel_symbols
          => loader.old.kernel_symbols = ctx.kernel_symbols
     /\ ctx'.kernel_symbol_hash # ctx.kernel_symbol_hash
          => loader.old.kernel_symbol_hash = ctx.kernel_symbol_hash]_allVars
=============================================================================
