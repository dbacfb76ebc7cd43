----------------------------- MODULE PidCtxEvents -----------------------------
(***************************************************************************)
(* src/gu_pid_ctx_event.c: a fixed table of listeners, shared by all       *)
(* contexts of the process.  A notification copies the table under the     *)
(* lock and calls the listeners after it has released it; other threads    *)
(* register and notify meanwhile, and a listener may register another.     *)
(* A critical section is one step.                                         *)
(***************************************************************************)
EXTENDS Naturals, Sequences, Functions

CONSTANTS
  Thread,         \* threads that own a context or register listeners
  Listener,       \* registrations: a callback with its user context
  ListenerMax,    \* GU_PID_CTX_EVENT_LISTENER_MAX
  MaxEvents       \* bound of the model: events of a thread

ASSUME EventConstants == ListenerMax \in Nat /\ MaxEvents \in Nat

VARIABLES
  pid_ctx_event_cbs,   \* the table; its used slots come first
  calling,             \* per thread: is it in pid_ctx_event_notify()
  cbs,                 \* per thread: the listeners it has yet to call
  sent,                \* per thread: events sent
  got,                 \* per listener: the events it was called with
  due                  \* the events sent while it was registered

eventVars == <<pid_ctx_event_cbs, calling, cbs, sent, got, due>>

EventsInit ==
  /\ pid_ctx_event_cbs = <<>>
  /\ calling = [t \in Thread |-> FALSE]
  /\ cbs = [t \in Thread |-> <<>>]
  /\ sent = [t \in Thread |-> 0]
  /\ got = [l \in Listener |-> <<>>]
  /\ due = [l \in Listener |-> {}]

(* Mutant: a full table loses its last listener.                            *)
RegisterOverwrites(l) ==
  /\ l \notin Range(pid_ctx_event_cbs)
  /\ pid_ctx_event_cbs' = IF Len(pid_ctx_event_cbs) < ListenerMax
                            THEN Append(pid_ctx_event_cbs, l)
                            ELSE [pid_ctx_event_cbs EXCEPT ![ListenerMax] = l]
  /\ UNCHANGED <<calling, cbs, sent, got, due>>

(* The first free slot, or failure.  Also called from a callback.           *)
gu_register_pid_ctx_event_listener(l) ==
  /\ l \notin Range(pid_ctx_event_cbs)
  /\ Len(pid_ctx_event_cbs) < ListenerMax
  /\ pid_ctx_event_cbs' = Append(pid_ctx_event_cbs, l)
  /\ UNCHANGED <<calling, cbs, sent, got, due>>

(* Mutant: the last slot is not copied.                                     *)
NotifyAllButLast(t) ==
  /\ ~calling[t] /\ sent[t] < MaxEvents
  /\ sent' = [sent EXCEPT ![t] = @ + 1]
  /\ cbs' = [cbs EXCEPT ![t] = SubSeq(pid_ctx_event_cbs, 1, Len(pid_ctx_event_cbs) - 1)]
  /\ calling' = [calling EXCEPT ![t] = TRUE]
  /\ due' = [l \in Listener |-> IF l \in Range(pid_ctx_event_cbs)
                                  THEN due[l] \cup {<<t, sent'[t]>>} ELSE due[l]]
  /\ UNCHANGED <<pid_ctx_event_cbs, got>>

(* gu_pid_ctx_event_notify_pid_ctx() up to the release of the lock.         *)
pid_ctx_event_notify(t) ==
  /\ ~calling[t] /\ sent[t] < MaxEvents
  /\ sent' = [sent EXCEPT ![t] = @ + 1]
  /\ cbs' = [cbs EXCEPT ![t] = pid_ctx_event_cbs]
  /\ calling' = [calling EXCEPT ![t] = TRUE]
  /\ due' = [l \in Listener |-> IF l \in Range(pid_ctx_event_cbs)
                                  THEN due[l] \cup {<<t, sent'[t]>>} ELSE due[l]]
  /\ UNCHANGED <<pid_ctx_event_cbs, got>>

(* The next callback, or the end of the notification.                       *)
Callback(t) ==
  /\ calling[t]
  /\ IF cbs[t] = <<>>
       THEN calling' = [calling EXCEPT ![t] = FALSE] /\ UNCHANGED <<cbs, got>>
       ELSE /\ got' = [got EXCEPT ![Head(cbs[t])] = Append(@, <<t, sent[t]>>)]
            /\ cbs' = [cbs EXCEPT ![t] = Tail(@)]
            /\ UNCHANGED calling
  /\ UNCHANGED <<pid_ctx_event_cbs, sent, due>>

EventsNext ==
  \/ \E l \in Listener : gu_register_pid_ctx_event_listener(l)
  \/ \E t \in Thread : pid_ctx_event_notify(t) \/ Callback(t)

EventsSpec == EventsInit /\ [][EventsNext]_eventVars

-----------------------------------------------------------------------------
(* A listener is called once for every event sent while it was registered   *)
(* and for no other, in the order each thread sent them; the events whose   *)
(* notification is still running may be missing.                            *)
CalledOncePerEvent ==
  \A l \in Listener :
    /\ Range(got[l]) \subseteq due[l]
    /\ \A e \in due[l] \ Range(got[l]) : calling[e[1]] /\ e[2] = sent[e[1]]
    /\ \A i, j \in 1..Len(got[l]) :
         (i < j /\ got[l][i][1] = got[l][j][1]) => got[l][i][2] < got[l][j][2]

(* No registration that succeeded is overwritten, and the table is not      *)
(* overrun.                                                                 *)
RegistrationsKept ==
  [][/\ SubSeq(pid_ctx_event_cbs', 1, Len(pid_ctx_event_cbs)) = pid_ctx_event_cbs
     /\ Len(pid_ctx_event_cbs') <= ListenerMax]_eventVars
=============================================================================
