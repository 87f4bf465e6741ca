-------------------------- MODULE MultiTransactionDB --------------------------
(***************************************************************************)
(* The multi_transactions table of                                         *)
(* src/services/wallet/transfer/multi_transaction_db.go.                   *)
(*                                                                         *)
(* CreateMultiTransaction and UpdateMultiTransaction prepare a statement,  *)
(* execute it and close it; DeleteMultiTransaction executes one statement; *)
(* ReadMultiTransactions builds a WHERE clause from the filters of a       *)
(* MultiTxDetails, prepares and runs the query.  Each write is one step;  *)
(* the read writes nothing and closes what it opens, so it is an operator *)
(* giving its possible results over the current table.                    *)
(*                                                                         *)
(* A row is a record of the columns the filters test.  A WHERE clause is   *)
(* the sequence of its tokens: every condition is followed by an And      *)
(* token (the string " AND "), and whereClause[:len(whereClause)-5] drops  *)
(* the last token.  A statement may fail when its kind is in Failures:     *)
(* "prepare", "exec" (besides a duplicate primary key) and "query".        *)
(***************************************************************************)
EXTENDS Naturals, Sequences, SequencesExt

CONSTANTS
  IDs,          \* multi-transaction ids the callers use
  NoID,         \* wallet_common.NoMultiTransactionID
  Rows,         \* rows: [from, to, chain, cross, type]
  Zero,         \* common.Address{}
  Details,      \* MultiTxDetails values passed to ReadMultiTransactions
  Failures,     \* the statement kinds that may fail in this run
  MaxLeaked     \* the leaked-statement count stops at this bound

VARIABLES
  table,        \* multi_transactions: id -> row
  leaked        \* prepared statements that were never closed

vars == <<table, leaked>>

Init == table = << >> /\ leaked = 0

-----------------------------------------------------------------------------
(***************************************************************************)
(* MultiTransactionDBType is MultiTransactionType + 1, with 0 for invalid: *)
(* mtDBTypeToMTType maps it back.                                          *)
(***************************************************************************)
InvalidDBType == 0

\* Faulty variant: the DB type is used as the stored type.
MtDBTypeToMTTypeNoShift(t) == t

MtDBTypeToMTType(t) == t - 1

(***************************************************************************)
(* The conditions ReadMultiTransactions appends, in its order; each one is *)
(* a column test.                                                          *)
(***************************************************************************)
Conditions(d) ==
  SelectSeq(
    << [on |-> d.ids # {},            test |-> "ids",   v |-> d.ids],
       [on |-> d.anyAddress # Zero,   test |-> "any",   v |-> d.anyAddress],
       [on |-> d.fromAddress # Zero,  test |-> "from",  v |-> d.fromAddress],
       [on |-> d.toAddress # Zero,    test |-> "to",    v |-> d.toAddress],
       [on |-> d.toChainID # 0,       test |-> "chain", v |-> d.toChainID],
       [on |-> d.crossTxID # "",      test |-> "cross", v |-> d.crossTxID],
       [on |-> d.type # InvalidDBType, test |-> "type", v |-> MtDBTypeToMTType(d.type)] >>,
    LAMBDA c : c.on)

\* whereClause: every condition followed by the token " AND ".
And == [on |-> TRUE, test |-> "and", v |-> {}]
WhereClause(d) == FlattenSeq([i \in DOMAIN Conditions(d) |-> << Conditions(d)[i], And >>])

\* whereClause[:len(whereClause)-5]: out of range (a panic) when it is empty.
Trimmed(w) == SubSeq(w, 1, Len(w) - 1)

\* SQLite evaluates the clause: a row matches every condition token.
Holds(id, row, c) ==
  CASE c.test = "ids"   -> id \in c.v
    [] c.test = "any"   -> row.from = c.v \/ row.to = c.v
    [] c.test = "from"  -> row.from = c.v
    [] c.test = "to"    -> row.to = c.v
    [] c.test = "chain" -> row.chain = c.v
    [] c.test = "cross" -> row.cross = c.v
    [] c.test = "type"  -> row.type = c.v

Selected(tbl, w) ==
  {id \in DOMAIN tbl : \A i \in DOMAIN w : w[i].test # "and" => Holds(id, tbl[id], w[i])}

-----------------------------------------------------------------------------
\* A prepared statement whose Exec failed is returned from without Close.
\* The count saturates at MaxLeaked, so the bound never blocks a call.
Leak == leaked' = IF leaked < MaxLeaked THEN leaked + 1 ELSE leaked

\* CreateMultiTransaction: INSERT; a row with the same id makes it fail.
CreateMultiTransaction(id, row) ==
  /\ \/ "prepare" \in Failures /\ UNCHANGED <<table, leaked>>
     \/ (id \in DOMAIN table \/ "exec" \in Failures) /\ Leak /\ UNCHANGED table
     \/ id \notin DOMAIN table /\ table' = (id :> row) @@ table /\ UNCHANGED leaked

\* Faulty variant: the NoMultiTransactionID check is missing.
UpdateMultiTransactionNoIDCheck(id, row) ==
  /\ \/ "prepare" \in Failures /\ UNCHANGED <<table, leaked>>
     \/ "exec" \in Failures /\ Leak /\ UNCHANGED table
     \/ table' = (id :> row) @@ table /\ UNCHANGED leaked

\* UpdateMultiTransaction: REPLACE INTO, which inserts the row when absent.
UpdateMultiTransaction(id, row) ==
  /\ \/ id = NoID /\ UNCHANGED <<table, leaked>>
     \/ id # NoID /\ "prepare" \in Failures /\ UNCHANGED <<table, leaked>>
     \/ id # NoID /\ "exec" \in Failures /\ Leak /\ UNCHANGED table
     \/ id # NoID /\ table' = (id :> row) @@ table /\ UNCHANGED leaked

DeleteMultiTransaction(id) ==
  /\ \/ table' = [x \in DOMAIN table \ {id} |-> table[x]]
     \/ "exec" \in Failures /\ UNCHANGED table
  /\ UNCHANGED leaked

\* ReadMultiTransactions: build the clause, trim it, prepare, query; the
\* results it may return over the current table.
ReadMultiTransactions(d) ==
  LET w == WhereClause(d) IN
  IF w = << >> THEN {[status |-> "panic", ids |-> {}]}
  ELSE {[status |-> "ok", ids |-> Selected(table, Trimmed(w))]}
       \cup {[status |-> "err", ids |-> {}] : f \in {"prepare", "query"} \cap Failures}

Next ==
  \/ \E id \in IDs, r \in Rows : CreateMultiTransaction(id, r)
  \/ \E id \in IDs \cup {NoID}, r \in Rows : UpdateMultiTransaction(id, r)
  \/ \E id \in IDs : DeleteMultiTransaction(id)

Spec == Init /\ [][Next]_vars

-----------------------------------------------------------------------------
TypeOK ==
  /\ \A id \in DOMAIN table : id \in IDs /\ table[id] \in Rows
  /\ leaked \in 0..MaxLeaked

(***************************************************************************)
(* The reference filter: a row matches a MultiTxDetails when it passes     *)
(* every filter that is set (a zero value means "not set"), and the        *)
(* details' Type names the row's type (Send, stored as 0, is               *)
(* MultiTransactionDBSend = 1).                                            *)
(***************************************************************************)
Matches(d, id, row) ==
  /\ d.ids # {} => id \in d.ids
  /\ d.anyAddress # Zero => d.anyAddress \in {row.from, row.to}
  /\ d.fromAddress # Zero => row.from = d.fromAddress
  /\ d.toAddress # Zero => row.to = d.toAddress
  /\ d.toChainID # 0 => row.chain = d.toChainID
  /\ d.crossTxID # "" => row.cross = d.crossTxID
  /\ d.type # InvalidDBType => row.type + 1 = d.type

(***************************************************************************)
(* ReadMultiTransactions returns exactly the rows that match its details.  *)
(* About the WHERE clause built condition by condition and trimmed of its  *)
(* trailing " AND ", the OR of the any-address filter, and the shift       *)
(* between MultiTransactionDBType and the stored MultiTransactionType.     *)
(***************************************************************************)
ReadReturnsMatchingRows ==
  \A d \in Details : \A r \in ReadMultiTransactions(d) :
    r.status = "ok" => r.ids = {id \in DOMAIN table : Matches(d, id, table[id])}
=============================================================================
