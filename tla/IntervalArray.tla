---------------------------- MODULE IntervalArray ----------------------------
(***************************************************************************)
(* src/gu_interval_array.c: the sorted table of intervals behind the       *)
(* symbols of an ELF, the mappings of a process, the FDEs of a CFI section *)
(* and the kernel symbols.  gu_interval_array_init() sorts the caller's    *)
(* items in place, closes the open ones (end = 0) and stores them in 32    *)
(* bits when they fit; gu_interval_array_search() is a binary search.      *)
(*                                                                         *)
(* One behaviour builds one table and searches it again and again.         *)
(***************************************************************************)
EXTENDS Integers, Sequences

CONSTANTS
  U32Max,     \* UINT32_MAX
  U64Max,     \* UINT64_MAX
  MaxItems    \* bound of the model: items of a table

ASSUME Widths == U32Max \in Nat \ {0} /\ U64Max \in Nat /\ U32Max < U64Max
                   /\ MaxItems \in Nat

VARIABLES
  items,      \* the caller's array, sorted and closed in place
  array,      \* the table: its stored items, min and max
  pc,         \* "input", "failed", "ready", "loop" or "done"
  addr,       \* the address searched for
  left, right, \* the bounds of the binary search
  result      \* index found, or 0 for not found (-1 in the code)

vars == <<items, array, pc, addr, left, right, result>>

Addr == 0..U64Max

(* An interval; private is its payload, here the position it was given at.  *)
Item == [start : Addr, end : Addr, private : 1..MaxItems]

NoArray == [items |-> <<>>, min |-> 0, max |-> 0]

(* The items callers pass: an end is 0 (open) or not before the start.      *)
Input(s) ==
  \A i \in 1..Len(s) : /\ s[i].end = 0 \/ s[i].start <= s[i].end
                       /\ s[i].private = i

Sorted(s) == \A i, j \in 1..Len(s) : i < j => s[i].start <= s[j].start

(* qsort() is not stable: any order of the items that sorts them.           *)
IsOrder(f, n) ==
  /\ f \in [1..n -> 1..n]
  /\ \A i, j \in 1..n : f[i] = f[j] => i = j

(* An open item ends where the next one starts; the last one at the end of  *)
(* the address space.                                                       *)
Closed(s) ==
  [i \in 1..Len(s) |->
     [s[i] EXCEPT !.end = IF @ # 0 THEN @
                          ELSE IF i < Len(s) THEN s[i + 1].start
                          ELSE IF s[i].start < U32Max THEN U32Max - 1 ELSE U64Max - 1]]

(* Mutant: 32-bit storage whatever the ends are.                            *)
StoredNarrow(s) ==
  [i \in 1..Len(s) |-> [s[i] EXCEPT !.start = @ % (U32Max + 1), !.end = @ % (U32Max + 1)]]

(* 32-bit storage, chosen by the end of the last item, truncates.           *)
Stored(s) ==
  IF s[Len(s)].end < U32Max
    THEN [i \in 1..Len(s) |-> [s[i] EXCEPT !.start = @ % (U32Max + 1),
                                            !.end = @ % (U32Max + 1)]]
    ELSE s

Init ==
  /\ \E n \in 0..MaxItems : items \in [1..n -> Item]
  /\ Input(items)
  /\ array = NoArray
  /\ pc = "input"
  /\ addr = 0 /\ left = 1 /\ right = 0 /\ result = 0

(* Without items, or without memory, there is no table.                     *)
gu_interval_array_init ==
  /\ pc = "input"
  /\ \/ /\ Len(items) > 0
        /\ \E f \in [1..Len(items) -> 1..Len(items)] :
             LET sorted == [i \in 1..Len(items) |-> items[f[i]]]
                 stored == Stored(Closed(sorted))
             IN /\ IsOrder(f, Len(items))
                /\ Sorted(sorted)
                /\ items' = Closed(sorted)
                /\ array' = [items |-> stored, min |-> stored[1].start,
                             max |-> stored[Len(stored)].end]
        /\ pc' = "ready"
     \/ pc' = "failed" /\ UNCHANGED <<items, array>>
  /\ UNCHANGED <<addr, left, right, result>>

(* gu_interval_array_search(): no table or out of its range, or the loop.    *)
gu_interval_array_search(a) ==
  /\ pc \in {"ready", "failed", "done"}
  /\ addr' = a
  /\ result' = 0
  /\ left' = 1
  /\ right' = Len(array.items)
  /\ pc' = IF array = NoArray \/ a < array.min \/ a > array.max THEN "done" ELSE "loop"
  /\ UNCHANGED <<items, array>>

Contains(item, a) == item.start <= a /\ a < item.end

SearchStep ==
  LET mid == left + (right - left) \div 2 IN
  /\ pc = "loop"
  /\ \/ left > right /\ pc' = "done" /\ UNCHANGED <<left, right, result>>
     \/ /\ left <= right /\ Contains(array.items[mid], addr)
        /\ result' = mid
        /\ pc' = "done"
        /\ UNCHANGED <<left, right>>
     \/ /\ left <= right /\ addr < array.items[mid].start
        /\ right' = mid - 1
        /\ UNCHANGED <<left, result, pc>>
     \/ /\ left <= right /\ addr >= array.items[mid].start /\ addr >= array.items[mid].end
        /\ left' = mid + 1
        /\ UNCHANGED <<right, result, pc>>
  /\ UNCHANGED <<items, array, addr>>

Next ==
  \/ gu_interval_array_init
  \/ \E a \in Addr : gu_interval_array_search(a)
  \/ SearchStep

Spec == Init /\ [][Next]_vars

-----------------------------------------------------------------------------
(* Everything has its type, and the search never leaves the table.          *)
TypeOK ==
  /\ items \in Seq(Item)
  /\ array \in [items : Seq(Item), min : Addr, max : Addr]
  /\ pc \in {"input", "failed", "ready", "loop", "done"}
  /\ addr \in Addr
  /\ left \in 1..(Len(array.items) + 1)
  /\ right \in 0..Len(array.items)
  /\ result \in 0..Len(array.items)

Disjoint(s) == /\ \A i, j \in 1..Len(s) : i < j => s[i].end <= s[j].start
               /\ \A i \in 1..Len(s) : s[i].start <= s[i].end

(* On a table of disjoint intervals the search answers exactly: it returns  *)
(* the interval of the caller's array that holds the address, untouched by  *)
(* the conversion to 32 bits, and it fails only when there is none.         *)
SearchExact ==
  (pc = "done" /\ array # NoArray /\ Disjoint(items)) =>
    /\ result # 0 => /\ Contains(items[result], addr)
                     /\ array.items[result] = items[result]
    /\ result = 0 => \A i \in 1..Len(items) : ~Contains(items[i], addr)

(* Whatever the overlaps, an answer is an interval that holds the address.  *)
SearchSound == (pc = "done" /\ result # 0) => Contains(array.items[result], addr)

(* Each round of the loop narrows the range that is left to search, for     *)
(* overlapping items too, so the search returns.                            *)
LoopNarrows == [][(pc = "loop" /\ pc' = "loop") => right' - left' < right - left]_vars

=============================================================================
