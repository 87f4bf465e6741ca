----------------------------- MODULE MailserverDB -----------------------------
(***************************************************************************)
(* The mailserver tables of src/services/mailservers/database.go: the      *)
(* mailservers, the request gaps, the topics and the chat request ranges.  *)
(*                                                                         *)
(* Every exported method is one action.  A single-statement method either  *)
(* applies its statement or returns the error.  AddGaps, AddTopics,        *)
(* AddChatRequestRanges and SetTopics open a transaction, run one          *)
(* statement per element of their input, and leave the outcome to a       *)
(* deferred closure: commit when `err` is nil, roll back otherwise.        *)
(* SQLite serialises writers, so each method is one atomic step.           *)
(*                                                                         *)
(* Data is abstracted: a table is a function from its primary key to the   *)
(* columns the properties tell apart.  A statement may fail when its kind  *)
(* is in Failures: "begin" (db.Begin), "exec" (an INSERT, UPDATE or        *)
(* DELETE), "select" (SetTopics' existence check) and "commit".            *)
(***************************************************************************)
EXTENDS Naturals, Sequences, SequencesExt, Functions

CONSTANTS
  MailserverInputs, \* Mailserver values passed to Add: [id, addr]
  NoAddr,           \* a Mailserver whose Addr is nil
  GapLists,         \* []MailserverRequestGap passed to AddGaps: seqs of [id, chat]
  GapIDLists,       \* []string passed to DeleteGaps
  ChatIDs,          \* chat ids
  TopicInputs,      \* MailserverTopic values: [ps, ct, lastRequest]
  TopicLists,       \* []MailserverTopic passed to AddTopics
  FilterLists,      \* []*transport.Filter passed to SetTopics: seqs of [ps, ct]
  Day,              \* time.Now() - 24h, the last_request SetTopics inserts
  RangeInputs,      \* ChatRequestRange values: [chat, lo]
  RangeLists,       \* []ChatRequestRange passed to AddChatRequestRanges
  Failures          \* the statement kinds that may fail in this run

VARIABLES
  mailservers,  \* mailservers: id -> address
  gaps,         \* mailserver_request_gaps: id -> chat_id
  topics,       \* mailserver_topics: <<pubsub_topic, topic>> -> last_request
  ranges,       \* mailserver_chat_request_ranges: chat_id -> lowest_request_from
  result,       \* what the last call returned: "none", "ok", "err", "panic"
  call          \* the last call: [op, arg]

tables == <<mailservers, gaps, topics, ranges>>
vars == <<mailservers, gaps, topics, ranges, result, call>>

\* INSERT OR REPLACE of row v under key k; DELETE of the keys in S.
Upsert(f, k, v) == (k :> v) @@ f
DeleteKeys(f, S) == Restrict(f, DOMAIN f \ S)

TopicKey(t) == <<t.ps, t.ct>>

Init ==
  /\ mailservers = << >> /\ gaps = << >> /\ topics = << >> /\ ranges = << >>
  /\ result = "none" /\ call = [op |-> "none", arg |-> << >>]

\* A call with its input recorded; the tables it does not touch are unchanged.
Called(op, arg) == call' = [op |-> op, arg |-> arg]

(***************************************************************************)
(* Single-statement methods: the statement is applied, or `err` returned.  *)
(***************************************************************************)
Statement(table, after) ==
  \/ table' = after /\ result' = "ok"
  \/ "exec" \in Failures /\ UNCHANGED table /\ result' = "err"

\* Faulty variant: the address is stored without being dereferenced.
AddNoNilCheck(m) ==
  /\ Called("Add", m)
  /\ Statement(mailservers, Upsert(mailservers, m.id, m.addr))
  /\ UNCHANGED <<gaps, topics, ranges>>

\* Add: (*mailserver.Addr).String() dereferences a nil Addr and panics.
Add(m) ==
  /\ Called("Add", m)
  /\ \/ m.addr = NoAddr /\ result' = "panic" /\ UNCHANGED mailservers
     \/ m.addr # NoAddr /\ Statement(mailservers, Upsert(mailservers, m.id, m.addr))
  /\ UNCHANGED <<gaps, topics, ranges>>

Delete(id) ==
  /\ Called("Delete", id)
  /\ Statement(mailservers, DeleteKeys(mailservers, {id}))
  /\ UNCHANGED <<gaps, topics, ranges>>

\* DeleteGaps returns nil at once for an empty list.
DeleteGaps(ids) ==
  /\ Called("DeleteGaps", ids)
  /\ \/ ids = << >> /\ result' = "ok" /\ UNCHANGED gaps
     \/ ids # << >> /\ Statement(gaps, DeleteKeys(gaps, ToSet(ids)))
  /\ UNCHANGED <<mailservers, topics, ranges>>

DeleteGapsByChatID(c) ==
  /\ Called("DeleteGapsByChatID", c)
  /\ Statement(gaps, DeleteKeys(gaps, {g \in DOMAIN gaps : gaps[g] = c}))
  /\ UNCHANGED <<mailservers, topics, ranges>>

AddTopic(t) ==
  /\ Called("AddTopic", t)
  /\ Statement(topics, Upsert(topics, TopicKey(t), t.lastRequest))
  /\ UNCHANGED <<mailservers, gaps, ranges>>

ResetLastRequest(k) ==
  /\ Called("ResetLastRequest", k)
  /\ Statement(topics, IF k \in DOMAIN topics THEN [topics EXCEPT ![k] = 0] ELSE topics)
  /\ UNCHANGED <<mailservers, gaps, ranges>>

DeleteTopic(k) ==
  /\ Called("DeleteTopic", k)
  /\ Statement(topics, DeleteKeys(topics, {k}))
  /\ UNCHANGED <<mailservers, gaps, ranges>>

AddChatRequestRange(r) ==
  /\ Called("AddChatRequestRange", r)
  /\ Statement(ranges, Upsert(ranges, r.chat, r.lo))
  /\ UNCHANGED <<mailservers, gaps, topics>>

DeleteChatRequestRange(c) ==
  /\ Called("DeleteChatRequestRange", c)
  /\ Statement(ranges, DeleteKeys(ranges, {c}))
  /\ UNCHANGED <<mailservers, gaps, topics>>

(***************************************************************************)
(* The transactional methods.  The deferred closure commits when `err` is  *)
(* nil and rolls back otherwise: `done` is what the statements executed so *)
(* far did inside the transaction.                                         *)
(***************************************************************************)
\* Faulty variant: the closure commits whatever was executed.
TxEndNoRollback(err, before, done) == done

TxEnd(err, before, done) == IF err THEN before ELSE done

(***************************************************************************)
(* Begin; one statement per element (prefix[i] is the table after the    *)
(* first i statements); the first failing statement returns its error;    *)
(* then the closure.  A failed COMMIT leaves the table as it was, and the  *)
(* method returns commitResult.                                            *)
(***************************************************************************)
\* The table after the first i INSERT OR REPLACEs of the loop, for i in
\* 0..Len(rows); rows are the <<key, value>> pairs the loop writes.
AfterStatements(table, rows) ==
  [i \in 0..Len(rows) |->
     FoldLeft(LAMBDA f, kv : Upsert(f, kv[1], kv[2]), table, SubSeq(rows, 1, i))]

Tx(table, list, prefix, commitResult) ==
  \/ "begin" \in Failures /\ UNCHANGED table /\ result' = "err"
  \/ /\ "exec" \in Failures
     /\ \E i \in 1..Len(list) : table' = TxEnd(TRUE, table, prefix[i - 1])
     /\ result' = "err"
  \/ "commit" \in Failures /\ UNCHANGED table /\ result' = commitResult
  \/ table' = TxEnd(FALSE, table, prefix[Len(list)]) /\ result' = "ok"

(***************************************************************************)
(* AddGaps declares `err` with := and has an unnamed result: `return err`  *)
(* copies it before the closure runs, so the closure's `err = tx.Commit()` *)
(* is lost and a failed commit returns nil.                                *)
(***************************************************************************)
AddGaps(list) ==
  /\ Called("AddGaps", list)
  /\ Tx(gaps, list, AfterStatements(gaps, [i \in DOMAIN list |-> <<list[i].id, list[i].chat>>]), "ok")
  /\ UNCHANGED <<mailservers, topics, ranges>>

\* AddTopics and AddChatRequestRanges have a named result `err`.
AddTopics(list) ==
  /\ Called("AddTopics", list)
  /\ Tx(topics, list, AfterStatements(topics, [i \in DOMAIN list |-> <<TopicKey(list[i]), list[i].lastRequest>>]), "err")
  /\ UNCHANGED <<mailservers, gaps, ranges>>

AddChatRequestRanges(list) ==
  /\ Called("AddChatRequestRanges", list)
  /\ Tx(ranges, list, AfterStatements(ranges, [i \in DOMAIN list |-> <<list[i].chat, list[i].lo>>]), "err")
  /\ UNCHANGED <<mailservers, gaps, topics>>

(***************************************************************************)
(* SetTopics: group the filters' content topics by pubsub topic; for each  *)
(* pubsub topic DELETE its topics not in the group (the error of each      *)
(* DELETE is overwritten by the next statement, so a failed one is         *)
(* ignored); then for each filter SELECT the topic and INSERT it with      *)
(* last_request = now - 1 day when there is no row.  An empty filter list  *)
(* returns nil at once (and commits nothing).                              *)
(***************************************************************************)
\* Faulty variant: every filter is inserted, whether or not it had a row.
MissingNoSelect(keys, existing) == keys

Missing(keys, existing) == keys \ DOMAIN existing

SetTopics(F) ==
  LET pubsubs == {F[i].ps : i \in DOMAIN F}
      keys == {TopicKey(F[i]) : i \in DOMAIN F}
      Stale(P) == {k \in DOMAIN topics : k[1] \in P /\ k \notin keys}
  IN
  /\ Called("SetTopics", F)
  /\ \/ "begin" \in Failures /\ UNCHANGED topics /\ result' = "err"
     \/ F = << >> /\ UNCHANGED topics /\ result' = "ok"
     \/ F = << >> /\ "commit" \in Failures /\ UNCHANGED topics /\ result' = "err"
     \/ /\ F # << >>
        \* the pubsub topics whose DELETE succeeded
        /\ \E deleted \in IF "exec" \in Failures THEN SUBSET pubsubs ELSE {pubsubs} :
           LET afterDelete == DeleteKeys(topics, Stale(deleted))
               inserted == [k \in Missing(keys, afterDelete) |-> Day] @@ afterDelete
           IN
           \/ /\ "select" \in Failures
              /\ topics' = TxEnd(TRUE, topics, afterDelete) /\ result' = "err"
           \/ /\ "exec" \in Failures /\ Missing(keys, afterDelete) # {}
              /\ topics' = TxEnd(TRUE, topics, afterDelete) /\ result' = "err"
           \/ "commit" \in Failures /\ UNCHANGED topics /\ result' = "err"
           \/ topics' = TxEnd(FALSE, topics, inserted) /\ result' = "ok"
  /\ UNCHANGED <<mailservers, gaps, ranges>>

Next ==
  \/ \E m \in MailserverInputs : Add(m)
  \/ \E m \in MailserverInputs : Delete(m.id)
  \/ \E l \in GapLists : AddGaps(l)
  \/ \E l \in GapIDLists : DeleteGaps(l)
  \/ \E c \in ChatIDs : DeleteGapsByChatID(c)
  \/ \E t \in TopicInputs : AddTopic(t) \/ ResetLastRequest(TopicKey(t)) \/ DeleteTopic(TopicKey(t))
  \/ \E l \in TopicLists : AddTopics(l)
  \/ \E F \in FilterLists : SetTopics(F)
  \/ \E r \in RangeInputs : AddChatRequestRange(r)
  \/ \E l \in RangeLists : AddChatRequestRanges(l)
  \/ \E c \in ChatIDs : DeleteChatRequestRange(c)

Spec == Init /\ [][Next]_vars

-----------------------------------------------------------------------------
(***************************************************************************)
(* What the read methods return: Mailservers (toMailservers marks every    *)
(* row Custom), RequestGaps(chatID), Topics and ChatRequestRanges.         *)
(***************************************************************************)
Mailservers == {[id |-> i, addr |-> mailservers[i], custom |-> TRUE] : i \in DOMAIN mailservers}
RequestGaps(c) == {[id |-> g, chat |-> c] : g \in {x \in DOMAIN gaps : gaps[x] = c}}
Topics == {[ps |-> k[1], ct |-> k[2], lastRequest |-> topics[k]] : k \in DOMAIN topics}
ChatRequestRanges == {[chat |-> c, lo |-> ranges[c]] : c \in DOMAIN ranges}

TypeOK ==
  /\ result \in {"none", "ok", "err", "panic"}
  /\ \A i \in DOMAIN mailservers : mailservers[i] # NoAddr
  /\ \A g \in DOMAIN gaps : gaps[g] \in ChatIDs
  /\ \A k \in DOMAIN ranges : k \in ChatIDs

(***************************************************************************)
(* A call that returns an error (or panics) leaves every table as it was:  *)
(* a transactional method's deferred closure rolls back the statements it  *)
(* had already executed.  About the rollback in AddGaps, AddTopics,        *)
(* AddChatRequestRanges and SetTopics when a later statement fails.        *)
(***************************************************************************)
ErrorLeavesTablesUnchanged ==
  [][result' \in {"err", "panic"} => UNCHANGED tables]_vars

(***************************************************************************)
(* SetTopics never changes the last_request of a topic that it keeps: it  *)
(* inserts only the filters that have no row, so re-subscribing to a      *)
(* topic does not make the next history request start again from a day   *)
(* ago.  About the SELECT before the INSERT in SetTopics.                  *)
(***************************************************************************)
SetTopicsKeepsLastRequest ==
  [][call'.op = "SetTopics" =>
       \A k \in DOMAIN topics \cap DOMAIN topics' : topics'[k] = topics[k]]_vars

(***************************************************************************)
(* A method that stores rows and returns nil has stored them: reading back *)
(* shows every row of its input.  About the deferred commit of the         *)
(* transactional methods and whether a failed commit reaches the caller.  *)
(***************************************************************************)
StoredWhenOk ==
  result = "ok" =>
    CASE call.op = "AddGaps" -> \A g \in ToSet(call.arg) : g \in RequestGaps(g.chat)
      [] call.op = "AddTopics" -> ToSet(call.arg) \subseteq Topics
      [] call.op = "AddChatRequestRanges" -> ToSet(call.arg) \subseteq ChatRequestRanges
      [] call.op = "AddTopic" -> call.arg \in Topics
      [] call.op = "AddChatRequestRange" -> call.arg \in ChatRequestRanges
      [] call.op = "Add" -> [id |-> call.arg.id, addr |-> call.arg.addr, custom |-> TRUE] \in Mailservers
      [] OTHER -> TRUE
=============================================================================
