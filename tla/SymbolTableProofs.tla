-------------------------- MODULE SymbolTableProofs --------------------------
(***************************************************************************)
(* Proofs about the sorted tables.  First IntervalArray, for tables of     *)
(* every size and every width.  Then the tables that KernelSymbols makes   *)
(* of any file, with any garbage, and what a search finds in one of them.  *)
(***************************************************************************)
EXTENDS KernelSymbols, WellFoundedInduction, TLAPS

(* Obligations over whole states get more time than the default.            *)
USE SMTT(30), ZenonT(30)

(* What the loop keeps: on disjoint items the stored table is the caller's, *)
(* and an interval that holds the address is never discarded.               *)
Inv ==
  /\ TypeOK
  /\ pc \in {"input", "failed"} => array = NoArray
  /\ pc = "ready" => array # NoArray
  /\ pc = "loop" => array # NoArray /\ result = 0 /\ left <= right + 1
  /\ array # NoArray =>
       /\ Len(items) > 0
       /\ Len(array.items) = Len(items)
       /\ Disjoint(items) =>
            /\ array.items = items
            /\ array.min = items[1].start
            /\ array.max = items[Len(items)].end
  /\ (pc = "loop" /\ Disjoint(items)) =>
       \A i \in 1..Len(items) : Contains(items[i], addr) => left <= i /\ i <= right
  /\ SearchExact
  /\ SearchSound

(* A function on 1..n is a sequence of length n.                            *)
LEMMA FunctionSeq ==
  ASSUME NEW n \in Nat, NEW S, NEW s \in [1..n -> S]
  PROVE  s \in Seq(S) /\ Len(s) = n
  OBVIOUS

(* The bounds of an item are numbers.                                       *)
LEMMA ItemBounds ==
  ASSUME NEW s \in Seq(Item), NEW i \in 1..Len(s)
  PROVE  s[i].start \in Int /\ s[i].end \in Int
  <1>1. s[i] \in Item
    OBVIOUS
  <1> QED BY <1>1, Widths DEF Item, Addr

(* Closing the open items keeps the length, the starts and the type.        *)
LEMMA ClosedType ==
  ASSUME NEW s \in Seq(Item)
  PROVE  /\ Closed(s) \in Seq(Item)
         /\ Len(Closed(s)) = Len(s)
         /\ \A i \in 1..Len(s) : Closed(s)[i].start = s[i].start
  <1> DEFINE e(i) == IF s[i].end # 0 THEN s[i].end
                     ELSE IF i < Len(s) THEN s[i + 1].start
                     ELSE IF s[i].start < U32Max THEN U32Max - 1 ELSE U64Max - 1
  <1>1. Closed(s) = [i \in 1..Len(s) |-> [s[i] EXCEPT !.end = e(i)]]
    BY DEF Closed
  <1>2. ASSUME NEW i \in 1..Len(s) PROVE s[i] \in Item /\ e(i) \in Addr
    <2>1. s[i] \in Item
      OBVIOUS
    <2>2. i < Len(s) => s[i + 1] \in Item
      OBVIOUS
    <2>3. s[i].end \in Addr /\ s[i].start \in Addr /\ (i < Len(s) => s[i + 1].start \in Addr)
      BY <2>1, <2>2 DEF Item
    <2>4. U32Max - 1 \in Addr /\ U64Max - 1 \in Addr
      BY Widths DEF Addr
    <2> QED BY <2>1, <2>3, <2>4
  <1> HIDE DEF e
  <1>3. \A i \in 1..Len(s) : /\ [s[i] EXCEPT !.end = e(i)] \in Item
                             /\ [s[i] EXCEPT !.end = e(i)].start = s[i].start
    BY <1>2 DEF Item
  <1>4. Closed(s) \in [1..Len(s) -> Item]
    BY Zenon, <1>1, <1>3
  <1>5. Len(s) \in Nat
    OBVIOUS
  <1>6. Closed(s) \in Seq(Item) /\ Len(Closed(s)) = Len(s)
    BY <1>4, <1>5, FunctionSeq
  <1> QED BY Zenon, <1>1, <1>3, <1>6

(* Storing keeps the length and the type, and changes nothing when every    *)
(* start and end is below the limit of 32 bits.                             *)
LEMMA StoredType ==
  ASSUME NEW s \in Seq(Item), Len(s) > 0
  PROVE  /\ Stored(s) \in Seq(Item)
         /\ Len(Stored(s)) = Len(s)
         /\ Disjoint(s) => Stored(s) = s
  <1> DEFINE M == U32Max + 1
             t(i) == [s[i] EXCEPT !.start = s[i].start % M, !.end = s[i].end % M]
  <1>0. \A i \in 1..Len(s) : s[i] \in Item
    OBVIOUS
  <1>1. CASE s[Len(s)].end < U32Max
    <2>1. Stored(s) = [i \in 1..Len(s) |-> t(i)]
      BY <1>1 DEF Stored
    <2>2. ASSUME NEW n \in Addr PROVE n % M \in Addr /\ (n < M => n % M = n)
      BY Widths DEF Addr
    <2>3. \A i \in 1..Len(s) : s[i].start % M \in Addr /\ s[i].end % M \in Addr
      BY <2>2, <1>0 DEF Item
    <2>4. \A i \in 1..Len(s) : t(i) \in Item
      BY Zenon, <2>3, <1>0 DEF Item
    <2>5. Stored(s) \in [1..Len(s) -> Item]
      BY <2>1, <2>4
    <2>6. ASSUME Disjoint(s) PROVE Stored(s) = s
      <3>1. ASSUME NEW i \in 1..Len(s) PROVE s[i].start < M /\ s[i].end < M
        <4>1. s[i] \in Item /\ s[Len(s)] \in Item
          BY <1>0
        <4>2. s[i].start <= s[i].end /\ s[Len(s)].start <= s[Len(s)].end
          BY <2>6 DEF Disjoint
        <4>3. i = Len(s) \/ s[i].end <= s[Len(s)].start
          BY <2>6 DEF Disjoint
        <4>4. /\ s[i].start \in Int /\ s[i].end \in Int
              /\ s[Len(s)].start \in Int /\ s[Len(s)].end \in Int
          BY <4>1, Widths DEF Item, Addr
        <4>5. s[i].end < M
          BY <4>2, <4>3, <4>4, <1>1, Widths
        <4> QED BY <4>2, <4>4, <4>5, Widths
      <3>2. ASSUME NEW i \in 1..Len(s) PROVE t(i) = s[i]
        <4>1. s[i].start % M = s[i].start /\ s[i].end % M = s[i].end
          BY <3>1, <2>2, <1>0 DEF Item
        <4> QED BY Zenon, <4>1, <1>0 DEF Item
      <3>3. \A i \in 1..Len(s) : Stored(s)[i] = s[i]
        BY <3>2, <2>1
      <3> QED BY <3>3, <2>5, FunctionSeq
    <2> QED BY <2>5, <2>6, FunctionSeq
  <1>2. CASE ~(s[Len(s)].end < U32Max)
    BY <1>2 DEF Stored
  <1> QED BY <1>1, <1>2

(* The table before it is built.                                            *)
LEMMA InitInv ==
  ASSUME Init
  PROVE  Inv
  <1>1. PICK n \in 0..MaxItems : items \in [1..n -> Item]
    BY DEF Init
  <1>2. items \in Seq(Item)
    BY <1>1, Widths, FunctionSeq
  <1>3. NoArray \in [items : Seq(Item), min : Addr, max : Addr] /\ Len(NoArray.items) = 0
    BY Widths DEF NoArray, Addr
  <1> QED BY <1>2, <1>3, Widths DEF Init, Inv, TypeOK, SearchExact, SearchSound, Addr

(* gu_interval_array_init() establishes the relation between the caller's   *)
(* items and the table.                                                     *)
LEMMA BuildInv ==
  ASSUME Inv, gu_interval_array_init
  PROVE  Inv'
  <1>0. TypeOK /\ array = NoArray
    BY DEF Inv, gu_interval_array_init
  <1>1. CASE pc' = "failed" /\ UNCHANGED <<items, array>>
    BY <1>0, <1>1 DEF Inv, gu_interval_array_init, TypeOK, SearchExact, SearchSound
  <1>2. CASE Len(items) > 0 /\ pc' = "ready"
    <2>1. PICK f \in [1..Len(items) -> 1..Len(items)] :
            LET sorted == [i \in 1..Len(items) |-> items[f[i]]]
                stored == Stored(Closed(sorted))
            IN /\ items' = Closed(sorted)
               /\ array' = [items |-> stored, min |-> stored[1].start,
                            max |-> stored[Len(stored)].end]
      BY Zenon, <1>2 DEF gu_interval_array_init
    <2> DEFINE sorted == [i \in 1..Len(items) |-> items[f[i]]]
               stored == Stored(Closed(sorted))
    <2>2. sorted \in [1..Len(items) -> Item] /\ Len(items) \in Nat
      BY <1>0 DEF TypeOK
    <2>3. sorted \in Seq(Item) /\ Len(sorted) = Len(items)
      BY <2>2, FunctionSeq
    <2>4. items' \in Seq(Item) /\ Len(items') = Len(items)
      BY Zenon, <2>1, <2>3, ClosedType
    <2>5. /\ stored \in Seq(Item) /\ Len(stored) = Len(items)
          /\ Disjoint(items') => stored = items'
      BY Zenon, <2>1, <2>3, <2>4, <1>2, ClosedType, StoredType
    <2>6. array' = [items |-> stored, min |-> stored[1].start, max |-> stored[Len(stored)].end]
      BY <2>1
    <2> HIDE DEF stored, sorted
    <2>7. stored[1] \in Item /\ stored[Len(stored)] \in Item
      BY <2>5, <1>2
    <2>8. array' \in [items : Seq(Item), min : Addr, max : Addr]
      BY <2>5, <2>6, <2>7 DEF Item
    <2>9. array'.items = stored /\ array' # NoArray
      <3>1. array'.items = stored /\ stored # <<>>
        BY <2>5, <2>6, <1>2
      <3> QED BY <3>1 DEF NoArray
    <2>10. UNCHANGED <<addr, left, right, result>> /\ left = 1 /\ right = 0 /\ result = 0
      <3>1. Len(array.items) = 0 /\ UNCHANGED <<addr, left, right, result>>
        BY <1>0 DEF NoArray, gu_interval_array_init
      <3> QED BY <3>1, <1>0 DEF TypeOK
    <2>11. TypeOK'
      BY <1>0, <1>2, <2>4, <2>5, <2>8, <2>9, <2>10 DEF TypeOK
    <2>12. /\ Len(items') > 0 /\ Len(array'.items) = Len(items')
           /\ Disjoint(items') => /\ array'.items = items'
                                  /\ array'.min = items'[1].start
                                  /\ array'.max = items'[Len(items')].end
      BY <1>2, <2>4, <2>5, <2>6, <2>9
    <2> QED BY <1>2, <2>9, <2>11, <2>12 DEF Inv, SearchExact, SearchSound
  <1> QED BY <1>1, <1>2 DEF gu_interval_array_init

(* The start of a search: an address outside min and max is in no interval. *)
LEMMA SearchInv ==
  ASSUME Inv, NEW a \in Addr, gu_interval_array_search(a)
  PROVE  Inv'
  <1>0. /\ TypeOK /\ UNCHANGED <<items, array>> /\ addr' = a /\ result' = 0
        /\ left' = 1 /\ right' = Len(array.items) /\ Len(array.items) \in Nat
    BY DEF Inv, TypeOK, gu_interval_array_search
  <1>1. TypeOK'
    BY <1>0 DEF TypeOK, gu_interval_array_search
  <1>2. \A i \in 1..Len(items) : items[i].start \in Int /\ items[i].end \in Int
    BY <1>0, ItemBounds DEF TypeOK
  <1>3. ASSUME Disjoint(items), array # NoArray, a < array.min \/ a > array.max,
               NEW i \in 1..Len(items)
        PROVE  ~Contains(items[i], a)
    <2>1. /\ array.min = items[1].start /\ array.max = items[Len(items)].end
          /\ 1 \in 1..Len(items) /\ Len(items) \in 1..Len(items)
      BY <1>0, <1>3 DEF Inv, TypeOK
    <2>2. items[1].start <= items[i].start
      <3>1. i = 1 \/ (items[1].end <= items[i].start /\ items[1].start <= items[1].end)
        BY <1>3, <2>1 DEF Disjoint
      <3> QED BY <3>1, <2>1, <1>2
    <2>3. items[i].end <= items[Len(items)].end
      <3>1. i = Len(items) \/ (/\ items[i].end <= items[Len(items)].start
                               /\ items[Len(items)].start <= items[Len(items)].end)
        BY <1>3, <2>1 DEF Disjoint
      <3> QED BY <3>1, <2>1, <1>2
    <2> QED BY <1>2, <1>3, <2>1, <2>2, <2>3, Widths DEF Contains, Addr
  <1>4. CASE pc' = "done"
    <2>1. array # NoArray => a < array.min \/ a > array.max
      BY <1>4 DEF gu_interval_array_search
    <2>2. SearchExact'
      BY <1>0, <1>3, <2>1 DEF SearchExact
    <2> QED BY <1>0, <1>1, <1>4, <2>2 DEF Inv, SearchSound
  <1>5. CASE pc' = "loop"
    <2>1. array # NoArray /\ left' <= right' + 1
      BY <1>0, <1>5 DEF gu_interval_array_search
    <2>2. Disjoint(items) => \A i \in 1..Len(items) : left' <= i /\ i <= right'
      BY <1>0, <2>1 DEF Inv
    <2> QED BY <1>0, <1>1, <1>5, <2>1, <2>2 DEF Inv, SearchExact, SearchSound
  <1> QED BY <1>4, <1>5 DEF gu_interval_array_search

(* A round of the loop drops only intervals that do not hold the address,   *)
(* and narrows the range.                                                   *)
LEMMA StepInv ==
  ASSUME Inv, SearchStep
  PROVE  Inv' /\ (pc' = "loop" => right' - left' < right - left)
  <1> DEFINE mid == left + (right - left) \div 2
  <1>0. /\ TypeOK /\ UNCHANGED <<items, array, addr>>
        /\ array # NoArray /\ result = 0 /\ left <= right + 1
        /\ pc = "loop" /\ Len(array.items) \in Nat /\ Len(array.items) = Len(items)
        /\ left \in Int /\ right \in Int /\ addr \in Int
    BY Widths DEF Inv, TypeOK, SearchStep, Addr
  <1>1. left <= right =>
          /\ mid \in 1..Len(array.items) /\ left <= mid /\ mid <= right
          /\ array.items[mid].start \in Int /\ array.items[mid].end \in Int
    <2>1. left <= right => mid \in 1..Len(array.items) /\ left <= mid /\ mid <= right
      BY <1>0 DEF TypeOK
    <2> QED BY Zenon, <1>0, <2>1, ItemBounds DEF TypeOK
  <1>2. Disjoint(items) =>
          /\ array.items = items
          /\ \A i \in 1..Len(items) : Contains(items[i], addr) => left <= i /\ i <= right
    BY <1>0 DEF Inv
  <1>b. \A i \in 1..Len(items) : items[i].start \in Int /\ items[i].end \in Int
    BY <1>0, ItemBounds DEF TypeOK
  <1> HIDE DEF mid
  <1>3. CASE left > right /\ pc' = "done" /\ UNCHANGED <<left, right, result>>
    <2>1. SearchExact'
      <3>1. Disjoint(items) => \A i \in 1..Len(items) : ~Contains(items[i], addr)
        BY <1>0, <1>2, <1>3
      <3> QED BY <1>0, <1>3, <3>1 DEF SearchExact
    <2> QED BY <1>0, <1>3, <2>1 DEF Inv, TypeOK, SearchSound
  <1>4. CASE /\ left <= right /\ Contains(array.items[mid], addr) /\ result' = mid
             /\ pc' = "done" /\ UNCHANGED <<left, right>>
    <2>1. TypeOK'
      BY <1>0, <1>1, <1>4 DEF TypeOK
    <2>2. SearchExact' /\ SearchSound'
      <3>1. mid # 0
        BY <1>1, <1>4
      <3> QED BY <1>0, <1>2, <1>4, <3>1 DEF SearchExact, SearchSound
    <2> QED BY <1>0, <1>4, <2>1, <2>2 DEF Inv
  <1>5. CASE /\ left <= right /\ addr < array.items[mid].start /\ right' = mid - 1
             /\ UNCHANGED <<left, result, pc>>
    <2>1. TypeOK' /\ left' <= right' + 1 /\ right' - left' < right - left
      BY <1>0, <1>1, <1>5 DEF TypeOK
    <2>2. ASSUME Disjoint(items), NEW i \in 1..Len(items), Contains(items[i], addr)
          PROVE  left' <= i /\ i <= right'
      <3>1. left <= i /\ i <= right /\ items[i].start <= addr
        BY <1>2, <2>2 DEF Contains
      <3>2. i < mid
        <4>1. addr < items[mid].start /\ mid \in 1..Len(items)
          BY <1>0, <1>1, <1>2, <1>5, <2>2
        <4>2. mid < i => items[mid].end <= items[i].start /\ items[mid].start <= items[mid].end
          BY <2>2, <4>1 DEF Disjoint
        <4>3. i # mid
          BY <4>1, <3>1, <1>0, <1>b
        <4>4. ~(mid < i)
          BY <4>1, <4>2, <3>1, <1>0, <1>b
        <4> QED BY <4>1, <4>3, <4>4
      <3> QED BY <3>1, <3>2, <1>5, <1>1
    <2> QED BY <1>0, <1>5, <2>1, <2>2 DEF Inv, SearchExact, SearchSound
  <1>6. CASE /\ left <= right /\ addr >= array.items[mid].start
             /\ addr >= array.items[mid].end /\ left' = mid + 1
             /\ UNCHANGED <<right, result, pc>>
    <2>1. TypeOK' /\ left' <= right' + 1 /\ right' - left' < right - left
      BY <1>0, <1>1, <1>6 DEF TypeOK
    <2>2. ASSUME Disjoint(items), NEW i \in 1..Len(items), Contains(items[i], addr)
          PROVE  left' <= i /\ i <= right'
      <3>1. left <= i /\ i <= right /\ items[i].start <= addr /\ addr < items[i].end
        BY <1>2, <2>2 DEF Contains
      <3>2. mid < i
        <4>1. addr >= items[mid].start /\ addr >= items[mid].end /\ mid \in 1..Len(items)
          BY Zenon, <1>0, <1>1, <1>2, <1>6, <2>2
        <4>2. i < mid => items[i].end <= items[mid].start
          BY <2>2, <4>1 DEF Disjoint
        <4>3. i # mid
          BY <4>1, <3>1, <1>0, <1>b
        <4>4. ~(i < mid)
          BY <4>1, <4>2, <3>1, <1>0, <1>b
        <4> QED BY <4>1, <4>3, <4>4
      <3> QED BY <3>1, <3>2, <1>6, <1>1
    <2> QED BY <1>0, <1>6, <2>1, <2>2 DEF Inv, SearchExact, SearchSound
  <1> QED BY <1>3, <1>4, <1>5, <1>6 DEF SearchStep, mid

(* The invariant is inductive.                                              *)
LEMMA InvAlways == Spec => []Inv
  <1>1. Init => Inv
    BY InitInv
  <1>2. Inv /\ [Next]_vars => Inv'
    <2> SUFFICES ASSUME Inv, [Next]_vars PROVE Inv'
      OBVIOUS
    <2>1. CASE UNCHANGED vars
      BY <2>1 DEF vars, Inv, TypeOK, SearchExact, SearchSound
    <2> QED BY <2>1, BuildInv, SearchInv, StepInv DEF Next
  <1> QED BY <1>1, <1>2, PTL DEF Spec

(* gu_interval_array_search() answers exactly on disjoint intervals,        *)
(* whatever their number and the widths of the integers.                    *)
THEOREM SearchIsExact == Spec => []SearchExact
  BY InvAlways, PTL DEF Inv

(* An answer always holds the address, overlaps or not.                     *)
THEOREM SearchIsSound == Spec => []SearchSound
  BY InvAlways, PTL DEF Inv

(* The binary search stays inside the table.                                *)
THEOREM SearchInBounds == Spec => []TypeOK
  BY InvAlways, PTL DEF Inv

(* The binary search ends: each round narrows the range.                    *)
THEOREM SearchNarrows == Spec => LoopNarrows
  <1>1. Inv /\ [Next]_vars =>
          [(pc = "loop" /\ pc' = "loop") => right' - left' < right - left]_vars
    <2> SUFFICES ASSUME Inv, Next, pc = "loop", pc' = "loop"
                 PROVE  right' - left' < right - left
      OBVIOUS
    <2>1. SearchStep
      BY DEF Next, gu_interval_array_init, gu_interval_array_search
    <2> QED BY <2>1, StepInv
  <1> QED BY <1>1, InvAlways, PTL DEF Spec, LoopNarrows

-----------------------------------------------------------------------------
(* The tables of KernelSymbols.                                             *)
Tables == [kernel_symbols : 0..MaxLoads, kernel_symbol_hash : 0..MaxLoads]
Array == [items : Seq(Item), min : Addr, max : Addr]
Table == [syms : Seq(KernelFunction), items : Seq(Item), array : Array, enlarged : BOOLEAN]
Symbol == [name : STRING \cup {"none"}, start : Addr]
Search == [pc : {"idle", "sym", "search", "name", "entry", "answered"},
           for : Symbol, from : 0..MaxLoads, answer : Symbol]

(* The items of the functions as they were read.                            *)
ReadTable(t) ==
  /\ Len(t.items) = Len(t.syms) /\ t.array = NoArray
  /\ \A i \in 1..Len(t.syms) : /\ t.items[i].private = i /\ t.items[i].start = t.syms[i].start
                               /\ ~t.enlarged => t.items[i].end = 0

(* Sorted items each of which ends where the next one starts.               *)
Chain(s) == Sorted(s) /\ \A i \in 1..(Len(s) - 1) : s[i].end = s[i + 1].start

(* What the conversion to 32 bits leaves of a table of disjoint items, or   *)
(* of a chain.                                                              *)
Kept(t) ==
  /\ t.array.items = t.items
  /\ t.array.min = t.items[1].start /\ t.array.max = t.items[Len(t.items)].end

(* A table that was built: an item for each function, which refers to it.   *)
BuiltTable(t) ==
  LET n == Len(t.syms) IN
  /\ n > 0 /\ Len(t.items) = n /\ Len(t.array.items) = n
  /\ \A i \in 1..n : /\ t.items[i].private \in 1..n
                     /\ t.array.items[i].private = t.items[i].private
                     /\ t.items[i].start = t.syms[t.items[i].private].start
  /\ \A j \in 1..n : \E i \in 1..n : t.items[i].private = j
  /\ Disjoint(t.items) => Kept(t)
  /\ ~t.enlarged =>
       /\ Chain(t.items) /\ Kept(t)
       /\ t.items[n].end = IF t.items[n].start < U32Max THEN U32Max - 1 ELSE U64Max - 1

(* What the loop has ruled out.                                             *)
RuledOut ==
  /\ pc = "loop" => \A i \in 1..Len(items) : /\ i < left => items[i].end <= addr
                                             /\ i > right => addr < items[i].start
  /\ pc = "done" /\ result = 0 =>
       \A i \in 1..Len(items) : addr < items[i].start \/ addr >= items[Len(items)].end

(* A way to put m + 1 items into m places, each into one of its own.        *)
Fits(f, m) ==
  /\ f \in [1..(m + 1) -> 1..m]
  /\ \A x, y \in 1..(m + 1) : f[x] = f[y] => x = y

(* With one item and one place less there would be one, too.                *)
LEMMA OneLess ==
  ASSUME NEW m \in Nat, NEW g, Fits(g, m)
  PROVE  m - 1 \in Nat /\ \E h : Fits(h, m - 1)
  <1>1. \A x \in 1..(m + 1) : g[x] \in 1..m
    BY DEF Fits
  <1>2. \A x, y \in 1..(m + 1) : g[x] = g[y] => x = y
    BY Zenon DEF Fits
  <1>3. m - 1 \in Nat /\ (m - 1) + 1 = m /\ m + 1 \in 1..(m + 1)
    <2>1. 1 \in 1..(m + 1)
      OBVIOUS
    <2>2. g[1] \in 1..m
      BY Zenon, <1>1, <2>1
    <2> QED BY <2>2
  <1> DEFINE last == g[m + 1]
             h == [x \in 1..m |-> IF g[x] = m THEN last ELSE g[x]]
  <1>4. ASSUME NEW x \in 1..m
        PROVE  x \in 1..(m + 1) /\ g[x] \in 1..m /\ g[x] # last /\ last \in 1..m
    <2>1. x \in 1..(m + 1) /\ x # m + 1
      OBVIOUS
    <2> QED BY Zenon, <1>1, <1>2, <1>3, <2>1
  <1> HIDE DEF last
  <1>5. ASSUME NEW x \in 1..m PROVE h[x] \in 1..(m - 1)
    BY <1>4
  <1>6. ASSUME NEW x \in 1..m, NEW y \in 1..m, h[x] = h[y] PROVE x = y
    <2>1. g[x] = g[y]
      BY <1>4, <1>6
    <2> QED BY Zenon, <1>2, <1>4, <2>1
  <1>7. h \in [1..m -> 1..(m - 1)]
    BY Zenon, <1>5
  <1> HIDE DEF h
  <1>8. Fits(h, m - 1)
    BY Zenon, <1>3, <1>6, <1>7 DEF Fits
  <1> QED BY Zenon, <1>3, <1>8

(* So there is none.                                                        *)
LEMMA PigeonHole ==
  ASSUME NEW n \in Nat, NEW f
  PROVE  ~Fits(f, n)
  <1> DEFINE T == {m \in Nat : \E g : Fits(g, m)}
             R == OpToRel(<, Nat)
  <1> SUFFICES ASSUME Fits(f, n) PROVE FALSE
    OBVIOUS
  <1>1. T \subseteq Nat /\ n \in T
    OBVIOUS
  <1>2. ASSUME NEW m \in T PROVE m - 1 \in T /\ m - 1 \in Nat /\ m \in Nat
    BY Zenon, OneLess
  <1>3. IsWellFoundedOn(R, Nat)
    BY NatLessThanWellFounded
  <1>4. \A x, y \in Nat : x < y => <<x, y>> \in R
    BY DEF OpToRel
  <1> HIDE DEF T, R
  <1>5. PICK m \in T : \A k \in T : ~(<<k, m>> \in R)
    BY Zenon, <1>1, <1>3, WFMin
  <1>6. m - 1 \in T /\ m - 1 \in Nat /\ m \in Nat
    BY Zenon, <1>2
  <1>7. m - 1 < m
    BY <1>6
  <1> QED BY Zenon, <1>4, <1>5, <1>6, <1>7

(* Any order of n items has them all.                                       *)
LEMMA OrderOnto ==
  ASSUME NEW n \in Nat, NEW f, IsOrder(f, n), NEW j \in 1..n
  PROVE  \E i \in 1..n : f[i] = j
  <1> SUFFICES ASSUME \A i \in 1..n : f[i] # j PROVE FALSE
    BY Zenon
  <1>1. \A x \in 1..n : f[x] \in 1..n /\ f[x] # j
    BY DEF IsOrder
  <1>2. \A x, y \in 1..n : f[x] = f[y] => x = y
    BY Zenon DEF IsOrder
  <1>3. n - 1 \in Nat /\ (n - 1) + 1 = n
    OBVIOUS
  <1> DEFINE g == [x \in 1..n |-> IF f[x] = n THEN j ELSE f[x]]
  <1>4. ASSUME NEW x \in 1..n PROVE g[x] \in 1..(n - 1)
    BY <1>1
  <1>5. ASSUME NEW x \in 1..n, NEW y \in 1..n, g[x] = g[y] PROVE x = y
    <2>1. f[x] = f[y]
      BY <1>1, <1>5
    <2> QED BY Zenon, <1>2, <2>1
  <1>6. g \in [1..n -> 1..(n - 1)]
    BY Zenon, <1>4
  <1> HIDE DEF g
  <1>7. Fits(g, n - 1)
    BY Zenon, <1>3, <1>5, <1>6 DEF Fits
  <1> QED BY Zenon, <1>3, <1>7, PigeonHole

(* The items of a chain that is closed at its end stay what they are when   *)
(* they are stored.                                                         *)
LEMMA ChainStored ==
  ASSUME NEW s \in Seq(Item), Len(s) > 0, Chain(s),
         s[Len(s)].end = IF s[Len(s)].start < U32Max THEN U32Max - 1 ELSE U64Max - 1
  PROVE  Stored(s) = s
  <1> DEFINE n == Len(s)
  <1>0. n \in Nat /\ n \in 1..n
    OBVIOUS
  <1>1. \A i \in 1..n : s[i].start \in Int /\ s[i].end \in Int
    BY ItemBounds
  <1>2. CASE s[n].start < U32Max
    <2>1. ASSUME NEW i \in 1..n, NEW j \in 1..n, i < j PROVE s[i].end <= s[j].start
      <3>1. s[i].end = s[i + 1].start /\ i + 1 \in 1..n
        BY <1>0, <2>1 DEF Chain
      <3>2. i + 1 = j \/ i + 1 < j
        BY <2>1
      <3>3. s[i + 1].start <= s[j].start
        BY <1>1, <2>1, <3>1, <3>2 DEF Chain, Sorted
      <3> QED BY <3>1, <3>3
    <2>2. ASSUME NEW i \in 1..n PROVE s[i].start <= s[i].end
      <3>1. CASE i = n
        BY <1>0, <1>1, <1>2, <3>1, Widths
      <3>2. CASE i < n
        <4>1. s[i].end = s[i + 1].start /\ i + 1 \in 1..n /\ i < i + 1
          BY <1>0, <3>2 DEF Chain
        <4>2. s[i].start <= s[i + 1].start
          BY <4>1 DEF Chain, Sorted
        <4> QED BY <4>1, <4>2
      <3> QED BY <1>0, <3>1, <3>2
    <2>3. Disjoint(s)
      BY <2>1, <2>2 DEF Disjoint
    <2> QED BY <2>3, StoredType
  <1>3. CASE ~(s[n].start < U32Max)
    <2>1. ~(s[n].end < U32Max)
      BY <1>0, <1>1, <1>3, Widths
    <2> QED BY <2>1 DEF Stored
  <1> QED BY <1>2, <1>3

(* Neither closing nor storing an item changes its payload.                 *)
LEMMA PayloadKept ==
  ASSUME NEW s \in Seq(Item), NEW i \in 1..Len(s)
  PROVE  Closed(s)[i].private = s[i].private /\ Stored(s)[i].private = s[i].private
  <1>1. s[i] \in Item
    OBVIOUS
  <1> QED BY <1>1 DEF Closed, Stored, Item

(* The items of a table in the order f, and the table built from them.      *)
InOrder(t, f) == [i \in 1..Len(t.items) |-> t.items[f[i]]]
Build(t, sorted) ==
  LET stored == Stored(Closed(sorted)) IN
  [syms |-> t.syms, items |-> Closed(sorted), enlarged |-> t.enlarged,
   array |-> [items |-> stored, min |-> stored[1].start, max |-> stored[Len(t.items)].end]]

(* gu_interval_array_init() on the items that were read builds a table of   *)
(* the functions.                                                           *)
LEMMA ReadBuilds ==
  ASSUME NEW t \in Table, ReadTable(t), Len(t.items) > 0,
         NEW f, IsOrder(f, Len(t.items)), Sorted(InOrder(t, f))
  PROVE  Build(t, InOrder(t, f)) \in Table /\ BuiltTable(Build(t, InOrder(t, f)))
  <1> DEFINE n == Len(t.items)
             sorted == InOrder(t, f)
             closed == Closed(sorted)
             stored == Stored(closed)
             u == Build(t, sorted)
  <1>0. /\ t.items \in Seq(Item) /\ t.syms \in Seq(KernelFunction) /\ t.enlarged \in BOOLEAN
        /\ n \in Nat \ {0} /\ Len(t.syms) = n
        /\ f \in [1..n -> 1..n] /\ IsOrder(f, n) /\ Len(t.items) = n
    BY DEF Table, ReadTable, IsOrder
  <1>r. \A i \in 1..n : /\ t.items[i].private = i /\ t.items[i].start = t.syms[i].start
                        /\ ~t.enlarged => t.items[i].end = 0
                        /\ t.items[i] \in Item
    BY DEF ReadTable, Table
  <1>u. /\ u.syms = t.syms /\ u.items = closed /\ u.array.items = stored
        /\ u.array.min = stored[1].start /\ u.array.max = stored[n].end
        /\ u.enlarged = t.enlarged
    BY DEF Build
  <1>s. sorted = [i \in 1..n |-> t.items[f[i]]] /\ Sorted(sorted)
    BY Zenon DEF InOrder
  <1> HIDE DEF n, sorted, stored, u
  <1>1. sorted \in [1..n -> Item] /\ \A i \in 1..n : sorted[i] = t.items[f[i]]
    BY Zenon, <1>0, <1>r, <1>s
  <1>2. sorted \in Seq(Item) /\ Len(sorted) = n
    BY <1>0, <1>1, FunctionSeq
  <1>3. /\ closed \in Seq(Item) /\ Len(closed) = n
        /\ \A i \in 1..n : closed[i].start = sorted[i].start
    BY <1>2, ClosedType
  <1>4. /\ stored \in Seq(Item) /\ Len(stored) = n
        /\ Disjoint(closed) => stored = closed
    BY <1>0, <1>3, StoredType DEF stored
  <1>5. \A i \in 1..n : /\ closed[i].private = sorted[i].private
                        /\ stored[i].private = closed[i].private
    BY <1>2, <1>3, PayloadKept DEF stored
  <1>6. stored[1] \in Item /\ stored[n] \in Item
    BY <1>0, <1>4
  <1> HIDE DEF closed
  <1>8. u \in Table
    <2>1. stored[1].start \in Addr /\ stored[n].end \in Addr
      BY <1>6 DEF Item
    <2>2. [items |-> stored, min |-> stored[1].start, max |-> stored[n].end] \in Array
      BY <1>4, <2>1 DEF Array
    <2> QED BY Zenon, <1>0, <1>3, <2>2 DEF Table, closed, u, Build, stored, n, sorted
  <1>9. ASSUME NEW i \in 1..n
        PROVE  /\ closed[i].private = f[i] /\ f[i] \in 1..n
               /\ closed[i].start = t.syms[f[i]].start
    <2>1. f[i] \in 1..n
      BY <1>0
    <2> QED BY <1>1, <1>3, <1>5, <1>r, <2>1
  <1>10. \A j \in 1..n : \E i \in 1..n : closed[i].private = j
    <2>1. ASSUME NEW j \in 1..n PROVE \E i \in 1..n : f[i] = j
      BY <1>0, OrderOnto
    <2> QED BY <1>9, <2>1
  <1>11. Disjoint(closed) => Kept(u)
    BY <1>3, <1>4, <1>u DEF Kept
  <1>12. ASSUME ~t.enlarged
         PROVE  /\ Chain(closed) /\ Kept(u)
                /\ closed[n].end = IF closed[n].start < U32Max THEN U32Max - 1 ELSE U64Max - 1
    <2>1. \A i \in 1..n : sorted[i].end = 0 /\ sorted[i] \in Item
      <3>1. \A i \in 1..n : f[i] \in 1..n
        BY <1>0
      <3> QED BY <1>1, <1>r, <1>12, <3>1
    <2>2. \A i \in 1..n : closed[i].end = IF i < n THEN sorted[i + 1].start
                                          ELSE IF sorted[i].start < U32Max THEN U32Max - 1
                                          ELSE U64Max - 1
      <3> SUFFICES ASSUME NEW i \in 1..n
                   PROVE  closed[i].end = IF i < n THEN sorted[i + 1].start
                                          ELSE IF sorted[i].start < U32Max THEN U32Max - 1
                                          ELSE U64Max - 1
        OBVIOUS
      <3>1. closed[i] = [sorted[i] EXCEPT !.end =
                           IF sorted[i].end # 0 THEN sorted[i].end
                           ELSE IF i < n THEN sorted[i + 1].start
                           ELSE IF sorted[i].start < U32Max THEN U32Max - 1 ELSE U64Max - 1]
        BY <1>2 DEF closed, Closed
      <3>2. sorted[i] \in Item /\ sorted[i].end = 0
        BY <2>1
      <3> QED BY <3>1, <3>2 DEF Item
    <2>3. Chain(closed)
      <3>1. Sorted(closed)
        BY <1>2, <1>3, <1>s DEF Sorted
      <3>2. ASSUME NEW i \in 1..(n - 1) PROVE closed[i].end = closed[i + 1].start
        <4>1. i \in 1..n /\ i + 1 \in 1..n /\ i < n
          BY <1>0
        <4> QED BY <1>3, <2>2, <4>1
      <3> QED BY <1>3, <3>1, <3>2 DEF Chain
    <2>4. closed[n].end = IF closed[n].start < U32Max THEN U32Max - 1 ELSE U64Max - 1
      <3>1. n \in 1..n /\ ~(n < n)
        BY <1>0
      <3>2. closed[n].end = IF sorted[n].start < U32Max THEN U32Max - 1 ELSE U64Max - 1
        BY <2>2, <3>1
      <3> QED BY <1>3, <3>1, <3>2
    <2>5. stored = closed
      BY Zenon, <1>0, <1>3, <2>3, <2>4, ChainStored DEF stored
    <2> QED BY <1>3, <1>u, <2>3, <2>4, <2>5 DEF Kept
  <1>13. BuiltTable(u)
    <2>1. n > 0 /\ Len(u.syms) = n /\ Len(u.items) = n /\ Len(u.array.items) = n
      BY Zenon, <1>0, <1>3, <1>4, <1>u
    <2>2. \A i \in 1..n : /\ u.items[i].private \in 1..n
                          /\ u.array.items[i].private = u.items[i].private
                          /\ u.items[i].start = u.syms[u.items[i].private].start
      BY <1>5, <1>9, <1>u
    <2>3. \A j \in 1..n : \E i \in 1..n : u.items[i].private = j
      BY <1>10, <1>u
    <2>4. Disjoint(u.items) => Kept(u)
      BY <1>11, <1>u
    <2>5. ~u.enlarged =>
            /\ Chain(u.items) /\ Kept(u)
            /\ u.items[n].end = IF u.items[n].start < U32Max THEN U32Max - 1 ELSE U64Max - 1
      BY <1>12, <1>u
    <2> QED BY <2>1, <2>2, <2>3, <2>4, <2>5 DEF BuiltTable
  <1> QED BY <1>8, <1>13 DEF u, sorted

(* No table, and no search.                                                 *)
LEMMA NothingTyped ==
  NoTable \in Table /\ NoSearch \in Search /\ NoTables \in Tables /\ NoSym \in Symbol
  <1>1. 0 \in Addr /\ 0 \in 0..MaxLoads
    BY Widths, KernelConstants DEF Addr
  <1>2. NoArray \in Array
    BY <1>1 DEF NoArray, Array
  <1>3. NoTable \in Table
    BY <1>2 DEF NoTable, Table
  <1>4. NoSym \in Symbol
    BY <1>1 DEF NoSym, Symbol
  <1>5. NoSearch \in Search
    BY <1>1, <1>4 DEF NoSearch, Search
  <1>6. NoTables \in Tables
    BY <1>1 DEF NoTables, Tables
  <1> QED BY <1>3, <1>4, <1>5, <1>6

(* The items read for the functions of a file.                              *)
LEMMA OpenItemsRead ==
  ASSUME NEW file \in Kallsyms, NEW cap, NEW open \in OpenItems(FunctionsOf(file), cap),
         NEW t, t = [syms |-> FunctionsOf(file), items |-> open, array |-> NoArray,
                     enlarged |-> \E i \in 1..Len(FunctionsOf(file)) : ~(i <= cap)]
  PROVE  t \in Table /\ ReadTable(t)
  <1> DEFINE syms == FunctionsOf(file)
             n == Len(syms)
  <1>1. syms \in Seq(KernelFunction) /\ n \in Nat /\ n <= MaxItems
    BY KernelConstants
  <1>2. PICK ends \in {e \in [1..n -> Garbage \cup {0}] : \A i \in 1..n : i <= cap => e[i] = 0} :
          open = [i \in 1..n |-> [start |-> syms[i].start, end |-> ends[i], private |-> i]]
    BY Zenon DEF OpenItems
  <1>4. ends \in [1..n -> Garbage \cup {0}] /\ \A i \in 1..n : i <= cap => ends[i] = 0
    BY Zenon, <1>2
  <1>3. ASSUME NEW i \in 1..n
        PROVE  [start |-> syms[i].start, end |-> ends[i], private |-> i] \in Item
    <2>1. syms[i] \in KernelFunction
      BY <1>1
    <2>2. syms[i].start \in Addr
      BY <2>1 DEF KernelFunction
    <2>3. ends[i] \in Addr
      <3>1. ends[i] \in Garbage \cup {0}
        BY Zenon, <1>4
      <3>2. 0 \in Addr /\ Garbage \subseteq Addr
        BY Widths, KernelConstants DEF Addr
      <3> QED BY <3>1, <3>2
    <2>4. i \in 1..MaxItems
      BY <1>1, Widths
    <2> QED BY <2>2, <2>3, <2>4 DEF Item
  <1>5. /\ t.syms = syms /\ t.items = open /\ t.array = NoArray
        /\ ~t.enlarged => \A i \in 1..n : i <= cap
    OBVIOUS
  <1>6. t.enlarged \in BOOLEAN
    OBVIOUS
  <1>7. NoArray \in Array
    BY NothingTyped DEF NoTable, Table
  <1>8. t = [syms |-> syms, items |-> open, array |-> NoArray, enlarged |-> t.enlarged]
    OBVIOUS
  <1> HIDE DEF syms, n
  <1>9. open \in [1..n -> Item]
    BY <1>2, <1>3
  <1>10. open \in Seq(Item) /\ Len(open) = n
    BY <1>1, <1>9, FunctionSeq
  <1>11. \A i \in 1..n : /\ open[i].private = i /\ open[i].start = syms[i].start
                         /\ open[i].end = ends[i]
    BY Zenon, <1>2
  <1>12. t \in Table
    BY Zenon, <1>1, <1>6, <1>7, <1>8, <1>10 DEF Table
  <1>13. ReadTable(t)
    BY <1>4, <1>5, <1>10, <1>11 DEF ReadTable, n
  <1> QED BY <1>12, <1>13

(* The start of a binary search in a chain: outside min and max there is    *)
(* nothing to find.                                                         *)
LEMMA StartRulesOut ==
  ASSUME Inv, Chain(items), Kept([items |-> items, array |-> array]), array # NoArray,
         NEW a \in Addr, gu_interval_array_search(a)
  PROVE  RuledOut'
  <1>0. /\ TypeOK /\ UNCHANGED <<items, array>> /\ addr' = a /\ result' = 0
        /\ left' = 1 /\ right' = Len(array.items) /\ Len(items) \in Nat /\ a \in Int
        /\ array.items = items /\ array.min = items[1].start /\ array.max = items[Len(items)].end
        /\ Len(items) > 0
    <2>1. /\ TypeOK /\ UNCHANGED <<items, array>> /\ addr' = a /\ result' = 0
          /\ left' = 1 /\ right' = Len(array.items)
      BY Zenon DEF Inv, gu_interval_array_search
    <2>2. /\ array.items = items /\ array.min = items[1].start
          /\ array.max = items[Len(items)].end
      BY DEF Kept
    <2>3. Len(items) > 0
      BY Zenon DEF Inv
    <2>4. Len(items) \in Nat /\ a \in Int
      BY <2>1, Widths DEF TypeOK, Addr
    <2> QED BY Zenon, <2>1, <2>2, <2>3, <2>4
  <1>1. \A i \in 1..Len(items) : items[i].start \in Int /\ items[i].end \in Int
    BY Zenon, <1>0, ItemBounds DEF TypeOK
  <1>2. ASSUME a < array.min \/ a > array.max, NEW i \in 1..Len(items)
        PROVE  a < items[i].start \/ a >= items[Len(items)].end
    <2>1. items[1].start <= items[i].start
      BY <1>0, <1>1 DEF Chain, Sorted
    <2>2. 1 \in 1..Len(items) /\ Len(items) \in 1..Len(items)
      BY <1>0
    <2> QED BY <1>0, <1>1, <1>2, <2>1, <2>2
  <1>3. pc' = "done" => a < array.min \/ a > array.max
    BY DEF gu_interval_array_search
  <1>4. /\ \A i \in 1..Len(items) : ~(i < left') /\ ~(i > right')
        /\ items' = items /\ addr' = a
    BY <1>0
  <1> QED BY ZenonT(30), <1>2, <1>3, <1>4 DEF RuledOut

(* A round of the binary search in a chain.                                 *)
LEMMA StepRulesOut ==
  ASSUME Inv, Chain(items), array.items = items, RuledOut, SearchStep
  PROVE  RuledOut'
  <1> DEFINE mid == left + (right - left) \div 2
             n == Len(items)
  <1>0. /\ TypeOK /\ UNCHANGED <<items, array, addr>> /\ pc = "loop" /\ result = 0
        /\ left \in Int /\ right \in Int /\ addr \in Int /\ n \in Nat
        /\ left \in 1..(n + 1) /\ right \in 0..n /\ left <= right + 1
    BY Widths DEF Inv, TypeOK, SearchStep, Addr
  <1>1. \A i \in 1..n : items[i].start \in Int /\ items[i].end \in Int
    BY <1>0, ItemBounds DEF TypeOK
  <1>2. \A i, j \in 1..n : i <= j => items[i].start <= items[j].start
    BY <1>1 DEF Chain, Sorted
  <1>3. \A i \in 1..n : i < n => items[i].end = items[i + 1].start
    BY <1>0 DEF Chain
  <1>4. \A i \in 1..n : (i < left => items[i].end <= addr) /\ (i > right => addr < items[i].start)
    BY <1>0 DEF RuledOut
  <1>5. left <= right => mid \in 1..n /\ left <= mid /\ mid <= right
    BY <1>0
  <1> HIDE DEF mid
  <1>6. CASE left > right /\ pc' = "done" /\ UNCHANGED <<left, right, result>>
    <2> SUFFICES ASSUME NEW i \in 1..n, items[i].start <= addr PROVE addr >= items[n].end
      BY <1>0, <1>1, <1>6 DEF RuledOut
    <2>1. i <= right /\ right \in 1..n /\ right < left
      BY <1>0, <1>1, <1>4, <1>6
    <2>2. items[right].end <= addr
      BY <1>4, <2>1
    <2>3. right < n => items[right].end = items[right + 1].start /\ addr < items[right + 1].start
      BY <1>0, <1>3, <1>4, <2>1
    <2>4. right < n => right + 1 \in 1..n
      BY <2>1
    <2> QED BY <1>0, <1>1, <2>1, <2>2, <2>3, <2>4
  <1>7. CASE left <= right /\ result' = mid /\ pc' = "done"
    BY <1>5, <1>7 DEF RuledOut
  <1>8. CASE left <= right /\ addr < items[mid].start /\ right' = mid - 1 /\ UNCHANGED <<left, result, pc>>
    <2>1. ASSUME NEW i \in 1..n, i > right' PROVE addr < items[i].start
      <3>1. mid <= i /\ mid \in 1..n
        BY <1>5, <1>8, <2>1
      <3> QED BY <1>0, <1>1, <1>2, <1>8, <3>1
    <2> QED BY <1>0, <1>4, <1>8, <2>1 DEF RuledOut
  <1>9. CASE /\ left <= right /\ addr >= items[mid].start /\ addr >= items[mid].end
             /\ left' = mid + 1 /\ UNCHANGED <<right, result, pc>>
    <2>1. ASSUME NEW i \in 1..n, i < left' PROVE items[i].end <= addr
      <3>1. mid \in 1..n /\ i <= mid
        BY <1>5, <1>9, <2>1
      <3>2. CASE i = mid
        BY <1>0, <1>1, <1>9, <3>1, <3>2
      <3>3. CASE i < mid
        <4>1. items[i].end = items[i + 1].start /\ i + 1 \in 1..n /\ i + 1 <= mid
          BY <1>0, <1>3, <3>1, <3>3
        <4>2. items[i + 1].start <= items[mid].start
          BY Zenon, <1>2, <3>1, <4>1
        <4> QED BY <1>0, <1>1, <1>9, <3>1, <4>1, <4>2
      <3> QED BY <3>1, <3>2, <3>3
    <2> QED BY <1>0, <1>4, <1>9, <2>1 DEF RuledOut
  <1> QED BY <1>6, <1>7, <1>8, <1>9 DEF SearchStep, mid

(* Without a table there is nothing to find.                                *)
LEMMA NoTableAnswers ==
  ASSUME NEW x, x.answer = NoSym
  PROVE  AnswerExact(x, TableOf(0))
  <1>1. TableOf(0).syms = <<>>
    BY DEF TableOf, NoTable
  <1>2. {Named(y) : y \in Range(TableOf(0).syms)} = {}
    BY <1>1 DEF Range
  <1>3. x.answer.start = 0
    BY DEF NoSym
  <1> HIDE DEF NoSym
  <1> QED BY <1>2, <1>3 DEF AnswerExact

(* What a finished search found in the table t.                             *)
FoundIn(t) == IF result = 0 THEN NoSym ELSE Named(t.syms[array.items[result].private])

Finished(t) ==
  /\ items = t.items /\ array = t.array /\ Inv /\ pc = "done"
  /\ ~t.enlarged => RuledOut

(* n functions that start at st, sorted by P, each ending where the next    *)
(* one starts, and the result r of a search for a among them.               *)
Columns(n, st, P, E) ==
  /\ st \in [1..n -> Int] /\ P \in [1..n -> 1..n] /\ E \in [1..n -> Int]
  /\ \A j \in 1..n : \E i \in 1..n : P[i] = j

Chained(n, st, P, E) ==
  /\ \A i, j \in 1..n : i < j => st[P[i]] <= st[P[j]]
  /\ \A i \in 1..(n - 1) : E[i] = st[P[i + 1]]
  /\ E[n] = IF st[P[n]] < U32Max THEN U32Max - 1 ELSE U64Max - 1

Searched(n, st, P, E, a, r) ==
  /\ r # 0 => st[P[r]] <= a /\ a < E[r]
  /\ r = 0 => \A i \in 1..n : a < st[P[i]] \/ a >= E[n]

Nearest(n, st, P, E, a, r) ==
  /\ r # 0 => \A j \in 1..n : st[j] <= a => st[j] <= st[P[r]]
  /\ r = 0 /\ a < E[n] => \A j \in 1..n : a < st[j]
  /\ E[n] = IF \E j \in 1..n : st[j] >= U32Max THEN U64Max - 1 ELSE U32Max - 1

(* The result is the last function at or below a; there is none before the  *)
(* first or where the last one has ended.                                   *)
LEMMA NearestBelow ==
  ASSUME NEW n \in Nat \ {0}, NEW st, NEW P, NEW E, NEW a \in Int, NEW r \in 0..n,
         Columns(n, st, P, E), Chained(n, st, P, E), Searched(n, st, P, E, a, r)
  PROVE  Nearest(n, st, P, E, a, r)
  <1>1. ASSUME NEW i \in 1..n
        PROVE  st[i] \in Int /\ P[i] \in 1..n /\ st[P[i]] \in Int /\ E[i] \in Int
    BY Zenon DEF Columns
  <1>2. ASSUME NEW j \in 1..n PROVE \E i \in 1..n : P[i] = j
    BY DEF Columns
  <1>3. ASSUME NEW i \in 1..n, NEW j \in 1..n, i <= j PROVE st[P[i]] <= st[P[j]]
    <2>1. CASE i = j
      BY <1>1, <2>1
    <2>2. CASE i < j
      BY <2>2 DEF Chained
    <2> QED BY <1>3, <2>1, <2>2
  <1>4. ASSUME r # 0, NEW j \in 1..n, st[j] <= a PROVE st[j] <= st[P[r]]
    <2>1. PICK i \in 1..n : P[i] = j
      BY <1>2
    <2>2. r \in 1..n
      BY <1>4
    <2>3. CASE i <= r
      <3>1. st[P[i]] <= st[P[r]]
        BY <1>3, <2>2, <2>3
      <3> QED BY <2>1, <3>1
    <2>4. CASE r < i
      <3>1. r \in 1..(n - 1) /\ r + 1 \in 1..n /\ r + 1 <= i
        BY <2>2, <2>4
      <3>2. st[P[r + 1]] <= st[P[i]]
        BY <1>3, <3>1
      <3>3. E[r] = st[P[r + 1]]
        BY <3>1 DEF Chained
      <3>4. a < E[r]
        BY <1>4 DEF Searched
      <3>5. st[P[r + 1]] \in Int /\ st[j] \in Int
        BY <1>1, <3>1
      <3> QED BY <1>4, <2>1, <3>2, <3>3, <3>4, <3>5
    <2> QED BY <2>2, <2>3, <2>4
  <1>5. ASSUME r = 0, a < E[n], NEW j \in 1..n PROVE a < st[j]
    <2>1. PICK i \in 1..n : P[i] = j
      BY <1>2
    <2>2. a < st[P[i]] \/ a >= E[n]
      BY <1>5 DEF Searched
    <2>3. n \in 1..n
      OBVIOUS
    <2>4. E[n] \in Int
      BY <1>1, <2>3
    <2> QED BY <1>5, <2>1, <2>2, <2>4
  <1>6. E[n] = IF \E j \in 1..n : st[j] >= U32Max THEN U64Max - 1 ELSE U32Max - 1
    <2>0. n \in 1..n
      OBVIOUS
    <2>1. P[n] \in 1..n /\ st[P[n]] \in Int
      BY <1>1, <2>0
    <2>2. E[n] = IF st[P[n]] < U32Max THEN U32Max - 1 ELSE U64Max - 1
      BY DEF Chained
    <2>3. ASSUME NEW j \in 1..n PROVE st[j] \in Int /\ st[j] <= st[P[n]]
      <3>1. PICK i \in 1..n : P[i] = j
        BY <1>2
      <3>2. i <= n
        OBVIOUS
      <3> QED BY <1>1, <1>3, <2>0, <3>1, <3>2
    <2>4. CASE st[P[n]] < U32Max
      <3>1. \A j \in 1..n : ~(st[j] >= U32Max)
        BY <2>1, <2>3, <2>4, Widths
      <3> QED BY <2>2, <2>4, <3>1
    <2>5. CASE ~(st[P[n]] < U32Max)
      <3>1. st[P[n]] >= U32Max
        BY <2>1, <2>5, Widths
      <3> QED BY <2>1, <2>2, <2>5, <3>1
    <2> QED BY <2>4, <2>5
  <1> QED BY Zenon, <1>4, <1>5, <1>6 DEF Nearest

(* A table by the starts of its functions and the ends and payloads of its  *)
(* items.                                                                   *)
Placed(t, n) ==
  /\ n \in Nat \ {0} /\ Len(t.items) = n /\ Len(t.array.items) = n
  /\ \A i \in 1..n : /\ t.syms[i] \in KernelFunction /\ t.items[i] \in Item
                     /\ t.items[i].private \in 1..n
                     /\ t.array.items[i].private = t.items[i].private
                     /\ t.items[i].start = t.syms[t.items[i].private].start
  /\ \A j \in 1..n : \E i \in 1..n : t.items[i].private = j

Tiled(t, n) ==
  /\ t.array.items = t.items /\ Sorted(t.items)
  /\ \A i \in 1..(n - 1) : t.items[i].end = t.items[i + 1].start
  /\ t.items[n].end = IF t.items[n].start < U32Max THEN U32Max - 1 ELSE U64Max - 1

(* A built table is one, in tiles unless it was enlarged.                   *)
LEMMA BuiltColumns ==
  ASSUME NEW t \in Table, BuiltTable(t), NEW n, n = Len(t.syms)
  PROVE  Placed(t, n) /\ (~t.enlarged => Tiled(t, n))
  <1> DEFINE syms == t.syms
             its == t.items
             arr == t.array.items
  <1>1. syms \in Seq(KernelFunction) /\ its \in Seq(Item)
    BY DEF Table
  <1>4. n \in Nat
    BY <1>1
  <1>5. n > 0 /\ Len(its) = n /\ Len(arr) = n
    BY DEF BuiltTable
  <1>6. /\ \A i \in 1..n : /\ its[i].private \in 1..n /\ arr[i].private = its[i].private
                           /\ its[i].start = syms[its[i].private].start
        /\ \A j \in 1..n : \E i \in 1..n : its[i].private = j
    BY Zenon DEF BuiltTable
  <1>2. n \in Nat \ {0} /\ Len(its) = n
    BY <1>4, <1>5
  <1>3. ~t.enlarged => /\ arr = its /\ Chain(its)
                       /\ its[n].end = IF its[n].start < U32Max THEN U32Max - 1 ELSE U64Max - 1
    BY Zenon DEF BuiltTable, Kept
  <1> HIDE DEF syms, its, arr
  <1>7. \A i \in 1..n : syms[i] \in KernelFunction /\ its[i] \in Item
    BY <1>1, <1>2 DEF syms
  <1>8. ~t.enlarged => Sorted(its) /\ \A i \in 1..(n - 1) : its[i].end = its[i + 1].start
    BY <1>2, <1>3 DEF Chain
  <1>9. Placed(t, n)
    BY Zenon, <1>2, <1>5, <1>6, <1>7 DEF Placed, syms, its, arr
  <1>10. ~t.enlarged => Tiled(t, n)
    BY Zenon, <1>3, <1>8 DEF Tiled, its, arr
  <1> QED BY Zenon, <1>9, <1>10

(* The answer of a finished search is a symbol.                             *)
LEMMA FoundIsTyped ==
  ASSUME NEW t \in Table, BuiltTable(t), Finished(t)
  PROVE  FoundIn(t) \in Symbol
  <1> DEFINE n == Len(t.syms)
  <1>0. Placed(t, n)
    BY Zenon, BuiltColumns
  <1> HIDE DEF n
  <1>1. /\ n \in Nat \ {0} /\ Len(t.array.items) = n
        /\ \A i \in 1..n : /\ t.syms[i] \in KernelFunction
                           /\ t.items[i].private \in 1..n
                           /\ t.array.items[i].private = t.items[i].private
    BY Zenon, <1>0 DEF Placed
  <1>2. CASE result = 0
    BY <1>2, NothingTyped DEF FoundIn
  <1>3. CASE result # 0
    <2>1. result \in 1..n
      BY <1>1, <1>3 DEF Finished, Inv, TypeOK
    <2> DEFINE sym == t.syms[array.items[result].private]
    <2>2. sym \in KernelFunction
      BY Zenon, <1>1, <2>1 DEF Finished
    <2>3. FoundIn(t) = Named(sym)
      BY <1>3 DEF FoundIn
    <2> HIDE DEF sym
    <2> QED BY <2>2, <2>3 DEF KernelFunction, Named, Symbol
  <1> QED BY <1>2, <1>3

(* The answer of a finished search is the one the table calls for.          *)
LEMMA FoundIsExact ==
  ASSUME NEW t \in Table, BuiltTable(t), Finished(t),
         NEW x \in Search, x.for.name = "none", x.for.start = addr, x.answer = FoundIn(t)
  PROVE  AnswerExact(x, t)
  <1> DEFINE n == Len(t.syms)
             all == {Named(y) : y \in Range(t.syms)}
             st == [j \in 1..n |-> t.syms[j].start]
             P == [i \in 1..n |-> t.items[i].private]
             E == [i \in 1..n |-> t.items[i].end]
             ans == x.answer
  <1>0. Placed(t, n) /\ (~t.enlarged => Tiled(t, n))
    BY Zenon, BuiltColumns
  <1> HIDE DEF n
  <1>1. n \in Nat \ {0} /\ Len(t.array.items) = n
    BY Zenon, <1>0 DEF Placed
  <1>2. addr \in Int /\ result \in 0..n
    BY <1>1, Widths DEF Finished, Inv, TypeOK, Addr
  <1>3. \A j \in 1..n : st[j] \in Nat
    <2> SUFFICES ASSUME NEW j \in 1..n PROVE st[j] \in Nat
      OBVIOUS
    <2>1. t.syms[j] \in KernelFunction
      BY Zenon, <1>0 DEF Placed
    <2>2. t.syms[j].start \in Nat
      BY <2>1, Widths DEF KernelFunction, Addr
    <2> QED BY <2>2
  <1>4. \A i \in 1..n : /\ t.items[i].start = st[P[i]] /\ t.items[i].end = E[i]
                        /\ E[i] \in Int /\ P[i] \in 1..n
    <2> SUFFICES ASSUME NEW i \in 1..n
                 PROVE  /\ t.items[i].start = st[P[i]] /\ t.items[i].end = E[i]
                        /\ E[i] \in Int /\ P[i] \in 1..n
      BY Zenon
    <2>1. t.items[i] \in Item /\ t.items[i].private \in 1..n
      BY Zenon, <1>0 DEF Placed
    <2>2. t.items[i].end \in Int
      BY <2>1, Widths DEF Item, Addr
    <2>3. E[i] = t.items[i].end /\ P[i] = t.items[i].private
      BY Zenon
    <2>4. st[P[i]] = t.syms[t.items[i].private].start
      BY Zenon, <2>1
    <2>5. t.items[i].start = t.syms[t.items[i].private].start
      BY Zenon, <1>0 DEF Placed
    <2> HIDE DEF st, P, E
    <2> QED BY Zenon, <2>1, <2>2, <2>3, <2>4, <2>5
  <1>5. Columns(n, st, P, E)
    <2>1. \A j \in 1..n : \E i \in 1..n : P[i] = j
      BY Zenon, <1>0 DEF Placed
    <2>2. P = [i \in 1..n |-> P[i]] /\ E = [i \in 1..n |-> E[i]] /\ st = [j \in 1..n |-> st[j]]
      BY Zenon
    <2> HIDE DEF st, P, E
    <2>3. P \in [1..n -> 1..n] /\ E \in [1..n -> Int]
      BY Zenon, <1>4, <2>2
    <2>4. \A j \in 1..n : st[j] \in Int
      BY <1>3
    <2>5. st \in [1..n -> Int]
      BY Zenon, <2>2, <2>4
    <2> QED BY Zenon, <2>1, <2>3, <2>5 DEF Columns
  <1>6. ASSUME ~t.enlarged PROVE Chained(n, st, P, E)
    <2> HIDE DEF st, P, E
    <2>0. Len(t.items) = n
      BY Zenon, <1>0 DEF Placed
    <2>1. \A i, j \in 1..n : i < j => st[P[i]] <= st[P[j]]
      BY ZenonT(30), <1>0, <1>4, <1>6, <2>0 DEF Tiled, Sorted
    <2>2. ASSUME NEW i \in 1..(n - 1) PROVE E[i] = st[P[i + 1]]
      <3>1. i \in 1..n /\ i + 1 \in 1..n
        BY <1>1
      <3>2. t.items[i].end = t.items[i + 1].start
        BY Zenon, <1>0, <1>6 DEF Tiled
      <3> QED BY Zenon, <1>4, <3>1, <3>2
    <2>3. n \in 1..n
      BY <1>1
    <2>4. E[n] = IF st[P[n]] < U32Max THEN U32Max - 1 ELSE U64Max - 1
      BY Zenon, <1>0, <1>4, <1>6, <2>3 DEF Tiled
    <2> QED BY Zenon, <2>1, <2>2, <2>4 DEF Chained
  <1>7. ASSUME ~t.enlarged PROVE Searched(n, st, P, E, addr, result)
    <2> HIDE DEF st, P, E
    <2>0. array = t.array /\ t.array.items = t.items
      BY Zenon, <1>0, <1>7 DEF Finished, Tiled
    <2>1. CASE result # 0
      <3>1. result \in 1..n
        BY <1>1, <1>2, <2>1
      <3>2. Contains(t.items[result], addr)
        BY Zenon, <2>0, <2>1 DEF Finished, Inv, SearchSound
      <3>3. t.items[result].start <= addr /\ addr < t.items[result].end
        BY Zenon, <3>2 DEF Contains
      <3> QED BY Zenon, <1>4, <2>1, <3>1, <3>3 DEF Searched
    <2>2. CASE result = 0
      <3>1. \A i \in 1..n : addr < t.items[i].start \/ addr >= t.items[n].end
        BY Zenon, <1>0, <1>7, <2>2 DEF Finished, RuledOut, Placed
      <3>2. n \in 1..n
        BY <1>1
      <3> QED BY Zenon, <1>4, <2>2, <3>1, <3>2 DEF Searched
    <2> QED BY Zenon, <2>1, <2>2
  <1>8. /\ \A y \in all : \E j \in 1..n : y.start = st[j]
        /\ \A j \in 1..n : Named(t.syms[j]) \in all /\ Named(t.syms[j]).start = st[j]
    <2>1. t.syms \in Seq(KernelFunction)
      BY DEF Table
    <2>2. Range(t.syms) = {t.syms[j] : j \in 1..n}
      BY <2>1 DEF Range, n
    <2>3. \A j \in 1..n : Named(t.syms[j]).start = st[j]
      BY DEF Named
    <2>4. /\ \A y \in all : \E j \in 1..n : y = Named(t.syms[j])
          /\ \A j \in 1..n : Named(t.syms[j]) \in all
      BY Zenon, <2>2
    <2> HIDE DEF st, all
    <2> QED BY Zenon, <2>3, <2>4
  <1>9. result = 0 => ans.start = 0
    BY DEF FoundIn, NoSym
  <1>10. ASSUME result # 0 PROVE result \in 1..n /\ ans \in all /\ ans.start = st[P[result]]
    <2>1. result \in 1..n
      BY <1>1, <1>2, <1>10
    <2>2. array.items[result].private = P[result] /\ P[result] \in 1..n
      BY Zenon, <1>0, <1>4, <2>1 DEF Finished, Placed
    <2>3. ans = Named(t.syms[P[result]])
      BY Zenon, <1>10, <2>2 DEF FoundIn
    <2> HIDE DEF st, P, all, ans
    <2> QED BY Zenon, <1>8, <2>1, <2>2, <2>3
  <1> HIDE DEF all, st, P, E, ans
  <1>11. ans.start # 0 => ans \in all /\ 0 < ans.start /\ result # 0
    BY <1>3, <1>4, <1>9, <1>10
  <1>12. ASSUME ~t.enlarged PROVE Nearest(n, st, P, E, addr, result)
    BY Zenon, <1>1, <1>2, <1>5, <1>6, <1>7, <1>12, NearestBelow
  <1> DEFINE below == {y \in all : 0 < y.start /\ y.start <= addr}
             reach == IF \E y \in all : y.start >= U32Max THEN U64Max - 1 ELSE U32Max - 1
  <1>13. ASSUME ~t.enlarged, result # 0 PROVE st[P[result]] <= addr
    BY ZenonT(30), <1>7, <1>13 DEF Searched
  <1>14. ans.start # 0 => ans \in IF t.enlarged THEN all ELSE below
    BY <1>10, <1>11, <1>13
  <1>15. ASSUME ~t.enlarged, addr < reach, NEW y \in below PROVE y.start <= ans.start
    <2>1. PICK j \in 1..n : y.start = st[j]
      BY Zenon, <1>8
    <2>2. st[j] <= addr /\ st[j] \in Nat
      BY Zenon, <1>3, <2>1
    <2>3. E[n] = reach
      BY Zenon, <1>8, <1>12, <1>15 DEF Nearest
    <2>4. ~(addr < st[j])
      BY <1>2, <2>2
    <2>5. result # 0
      BY Zenon, <1>12, <1>15, <2>3, <2>4 DEF Nearest
    <2>6. st[j] <= st[P[result]]
      BY Zenon, <1>12, <1>15, <2>2, <2>5 DEF Nearest
    <2> QED BY Zenon, <1>10, <2>1, <2>5, <2>6
  <1> HIDE DEF below, reach
  <1>16. /\ ans.start # 0 => ans \in IF t.enlarged THEN all ELSE below
         /\ ~t.enlarged /\ addr < reach => \A y \in below : y.start <= ans.start
    BY Zenon, <1>14, <1>15
  <1> QED BY Zenon, <1>16 DEF AnswerExact, all, below, reach, ans
=============================================================================
