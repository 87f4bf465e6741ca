----------------------- MODULE ProvidersHealthManager -----------------------
(***************************************************************************)
(* The per-chain RPC providers health manager of                           *)
(* src/healthmanager/providers_health_manager.go.                          *)
(*                                                                         *)
(* Update holds the mutex while it feeds the call statuses to the          *)
(* aggregator and compares the new aggregated status with lastStatus,      *)
(* releases it, emits a change notification to the subscribers, and takes  *)
(* the mutex again to record lastStatus.  Each of the three pieces is an   *)
(* action; several goroutines may be inside Update at once.  Reset         *)
(* replaces the aggregator under the mutex.                                *)
(*                                                                         *)
(* The aggregator (healthmanager/aggregator) is outside this file: a batch *)
(* of call statuses moves its aggregated status to any value of Statuses.  *)
(* The subscription manager's Emit is a coalescing, non-blocking signal:   *)
(* one subscriber, with a pending flag, that reads Status() when it wakes. *)
(***************************************************************************)
EXTENDS Naturals, TLC

CONSTANTS
  Updaters,   \* goroutines that call Update
  Statuses,   \* rpcstatus status values an aggregation can produce
  Unknown,    \* the status of a fresh aggregator
  None,       \* lastStatus == nil
  MaxUpdates, \* bound on the number of Update calls
  MaxResets   \* bound on the number of Reset calls

ASSUME Unknown \notin Statuses /\ None \notin Statuses \cup {Unknown}

VARIABLES
  agg,        \* p.aggregator's aggregated status
  lastStatus, \* p.lastStatus (None for nil)
  pc,         \* per updater: "idle", "emit" (unlocked, about to emit), "store"
  newStatus,  \* per updater: its local newStatus
  pending,    \* a notification is waiting in the subscriber's channel
  seen,       \* the status the subscriber read after its last notification
  updates,    \* Update calls so far (bound)
  resets      \* Reset calls so far (bound)

vars == <<agg, lastStatus, pc, newStatus, pending, seen, updates, resets>>

AnyStatus == Statuses \cup {Unknown}

\* Status(): the aggregated status, read under the read lock.
Status == agg

Init ==
  /\ agg = Unknown
  /\ lastStatus = None
  /\ pc = [u \in Updaters |-> "idle"]
  /\ newStatus = [u \in Updaters |-> Unknown]
  /\ pending = FALSE
  /\ seen = Unknown
  /\ updates = 0
  /\ resets = 0

\* Faulty variant: emits only on the first status ever seen.
ShouldEmitFirstOnly(last, new) == last = None

\* shouldEmit := p.lastStatus == nil || p.lastStatus.Status != newStatus.Status
ShouldEmit(last, new) == last = None \/ last # new

(***************************************************************************)
(* Update, under the lock: aggregate the batch, read the aggregated        *)
(* status, decide whether to emit, unlock; return at once if not.          *)
(***************************************************************************)
UpdateAggregate(u, s) ==
  /\ pc[u] = "idle" /\ updates < MaxUpdates
  /\ agg' = s
  /\ newStatus' = [newStatus EXCEPT ![u] = s]
  /\ pc' = [pc EXCEPT ![u] = IF ShouldEmit(lastStatus, s) THEN "emit" ELSE "idle"]
  /\ updates' = updates + 1
  /\ UNCHANGED <<lastStatus, pending, seen, resets>>

\* emitChainStatus, without the lock.
UpdateEmit(u) ==
  /\ pc[u] = "emit"
  /\ pending' = TRUE
  /\ pc' = [pc EXCEPT ![u] = "store"]
  /\ UNCHANGED <<agg, lastStatus, newStatus, seen, updates, resets>>

\* Lock again and record p.lastStatus = &newStatus.
UpdateStore(u) ==
  /\ pc[u] = "store"
  /\ lastStatus' = newStatus[u]
  /\ pc' = [pc EXCEPT ![u] = "idle"]
  /\ UNCHANGED <<agg, newStatus, pending, seen, updates, resets>>

\* Faulty variant: the aggregator is dropped (nil) instead of replaced.
ResetToNil ==
  /\ resets < MaxResets
  /\ agg' = None
  /\ resets' = resets + 1
  /\ UNCHANGED <<lastStatus, pc, newStatus, pending, seen, updates>>

\* Reset: a new aggregator, under the lock; lastStatus is kept.
Reset ==
  /\ resets < MaxResets
  /\ agg' = Unknown
  /\ resets' = resets + 1
  /\ UNCHANGED <<lastStatus, pc, newStatus, pending, seen, updates>>

\* The subscriber wakes on its channel and reads Status().
SubscriberWakes ==
  /\ pending
  /\ pending' = FALSE
  /\ seen' = Status
  /\ UNCHANGED <<agg, lastStatus, pc, newStatus, updates, resets>>

Next ==
  \/ \E u \in Updaters, s \in Statuses : UpdateAggregate(u, s)
  \/ \E u \in Updaters : UpdateEmit(u) \/ UpdateStore(u)
  \/ Reset
  \/ SubscriberWakes

Spec == Init /\ [][Next]_vars

-----------------------------------------------------------------------------
TypeOK ==
  /\ agg \in AnyStatus
  /\ lastStatus \in AnyStatus \cup {None}
  /\ pc \in [Updaters -> {"idle", "emit", "store"}]
  /\ newStatus \in [Updaters -> AnyStatus]
  /\ pending \in BOOLEAN /\ seen \in AnyStatus
  /\ updates \in 0..MaxUpdates /\ resets \in 0..MaxResets

Quiescent == \A u \in Updaters : pc[u] = "idle"

(***************************************************************************)
(* A subscriber that has learned a status is never left behind by Update:  *)
(* when no Update is in progress and no notification is pending, a         *)
(* subscriber whose last read gave a known status still holds the current *)
(* aggregated status.  About Update's shouldEmit decision, made against    *)
(* lastStatus, which is recorded only after the lock was dropped and       *)
(* retaken around emitChainStatus.                                         *)
(***************************************************************************)
KnownStatusCurrent ==
  (Quiescent /\ ~pending /\ seen # Unknown /\ Status # Unknown) => seen = Status

(***************************************************************************)
(* The same for every subscriber, including one that read the unknown      *)
(* status of the fresh aggregator Reset installs: once an Update has       *)
(* produced a known status again, the subscriber holds it.  About Reset    *)
(* replacing the aggregator while keeping lastStatus.                      *)
(***************************************************************************)
SubscriberUpToDate ==
  (Quiescent /\ ~pending /\ Status # Unknown) => seen = Status
=============================================================================
