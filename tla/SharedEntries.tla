---------------------------- MODULE SharedEntries ----------------------------
(***************************************************************************)
(* What a shared, reference-counted cache promises, without counters,      *)
(* deadlines or a sweep: an entry stays in the cache at least as long as   *)
(* somebody holds it, and a holder holds one entry at a time.  GuCache     *)
(* implements it with ELF metadata as entries and maps intervals as        *)
(* holders (gu_stacktrace.c).                                              *)
(***************************************************************************)
CONSTANTS Entry, Holder

VARIABLES
  cached,   \* entries in the cache
  held      \* who holds each entry

Init == cached = {} /\ held = [e \in Entry |-> {}]

Acquire(e, h) ==
  /\ \A f \in Entry : h \notin held[f]
  /\ cached' = cached \cup {e}
  /\ held' = [held EXCEPT ![e] = @ \cup {h}]

(* Acquired and released again at once. *)
Touch(e) == cached' = cached \cup {e} /\ UNCHANGED held

Release(e, h) ==
  /\ h \in held[e]
  /\ held' = [held EXCEPT ![e] = @ \ {h}]
  /\ UNCHANGED cached

Evict(S) ==
  /\ S \subseteq cached
  /\ \A e \in S : held[e] = {}
  /\ cached' = cached \ S
  /\ UNCHANGED held

Next ==
  \/ \E S \in SUBSET Entry : Evict(S)
  \/ \E e \in Entry, h \in Holder : Acquire(e, h) \/ Release(e, h)
  \/ \E e \in Entry : Touch(e)

Spec == Init /\ [][Next]_<<cached, held>>
=============================================================================
