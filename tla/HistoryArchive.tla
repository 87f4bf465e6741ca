---------------------------- MODULE HistoryArchive ----------------------------
(***************************************************************************)
(* What the history-archive writer promises, without files, windows or     *)
(* offsets: received messages are put into archives, no message twice and  *)
(* no message too large for an archive; the resumption cursor only moves   *)
(* forward, and only past messages that have been archived.  This is the   *)
(* contract of spec.md's "Community archive state" (lastArchiveEndDate     *)
(* advances only forward, so repeated calls append rather than duplicate)  *)
(* and of its oversized-message rule.                                      *)
(***************************************************************************)
EXTENDS Naturals

CONSTANTS
  Msgs,           \* message ids
  MsgTs,          \* [Msgs -> Nat]: the message's timestamp
  MsgSize,        \* [Msgs -> Nat]: the message's size
  MaxArchiveSize  \* the largest message an archive takes

VARIABLES
  stored,    \* messages received
  archived,  \* messages in some archive
  cursor     \* the resumption cursor; 0 before the first run

vars == <<stored, archived, cursor>>

Fits(m) == MsgSize[m] <= MaxArchiveSize

Init == stored = {} /\ archived = {} /\ cursor = 0

Receive(m) ==
  /\ m \notin stored
  /\ stored' = stored \cup {m}
  /\ UNCHANGED <<archived, cursor>>

\* Archive a batch of received messages not archived yet.
Archive(S) ==
  /\ S # {}
  /\ S \subseteq stored \ archived
  /\ \A m \in S : Fits(m)
  /\ archived' = archived \cup S
  /\ UNCHANGED <<stored, cursor>>

\* Move the cursor forward: every message below the new cursor that fits
\* is archived.
Advance ==
  /\ cursor' \in Nat /\ cursor' > cursor
  /\ \A m \in stored : MsgTs[m] < cursor' /\ Fits(m) => m \in archived
  /\ UNCHANGED <<stored, archived>>

Next ==
  \/ \E m \in Msgs : Receive(m)
  \/ \E S \in SUBSET Msgs : Archive(S)
  \/ Advance

Spec == Init /\ [][Next]_vars
=============================================================================
