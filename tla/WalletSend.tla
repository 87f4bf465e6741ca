----------------------------- MODULE WalletSend -----------------------------
(***************************************************************************)
(* The send path of the deprecated wallet API CreateMultiTransaction       *)
(* (src/services/wallet/api.go), through the transaction manager's send    *)
(* loop to the ERC-1155 path processor's Send                              *)
(* (src/services/wallet/router/pathprocessor/processor_erc1155.go), and    *)
(* the multi_transactions table the call writes last.                      *)
(*                                                                         *)
(* The RPC server runs API calls concurrently, and the calls share one     *)
(* account.  A call sends its paths one after another; each path is a      *)
(* sendOrBuild in three steps, with the chain and the other calls free to  *)
(* move between them: choose the nonce (NextNonce from the node for the    *)
(* first path on a chain, the previous nonce + 1 after that), broadcast    *)
(* with SafeTransferFrom, and StoreAndTrackPendingTx.  The node accepts a  *)
(* transaction whose nonce is not below the account's pending nonce and    *)
(* rejects the others ("nonce too low").  After the last path the call     *)
(* inserts its multi-transaction row; a failure there is only logged.      *)
(*                                                                         *)
(* The transaction manager and the transactor are not under src/: their   *)
(* part (the send loop's per-chain nonce map, NextNonce, the insert) is    *)
(* modelled from their use here.                                           *)
(***************************************************************************)
EXTENDS Integers, Sequences, FiniteSets

CONSTANTS
  IDs, NoID, Rows, Zero, Details, MaxLeaked,  \* of MultiTransactionDB
  Failures,     \* the failing steps: DB statements and the wallet's steps
  Calls,        \* concurrent CreateMultiTransaction calls
  Paths,        \* [Calls -> Seq(Chains)]: the chain of each path, in order
  Chains,       \* chain ids
  CallID,       \* [Calls -> IDs]: the multi-transaction id each call gets
  MTRow,        \* the row InsertMultiTransaction writes
  Passwords     \* the password arguments: "" (keycard) and "pw"

VARIABLES
  table, leaked,  \* the multi_transactions table (MultiTransactionDB)
  chainTxs,     \* transactions the nodes accepted: [chain, nonce, call]
  tracked,      \* pending transactions the transactor stores: [chain, nonce, mt]
  rejected,     \* broadcasts rejected for a nonce below the pending one
  call          \* Calls -> the state of each CreateMultiTransaction call

dbVars == <<table, leaked>>
walletVars == <<chainTxs, tracked, rejected, call>>
vars == <<table, leaked, chainTxs, tracked, rejected, call>>

MTDB == INSTANCE MultiTransactionDB

\* A call: its step, the path it is at, the transaction manager's usedNonces
\* map (-1 when absent), the nonce of the current path, and its result.
Idle == [pc |-> "idle", i |-> 1, used |-> [c \in Chains |-> -1], nonce |-> 0, result |-> "none"]

Init == MTDB!Init /\ chainTxs = {} /\ tracked = {} /\ rejected = {} /\ call = [p \in Calls |-> Idle]

Fail(s) == s \in Failures

\* The account's pending nonce on chain c, which NextNonce returns.
PendingNonce(c) == Cardinality({t \in chainTxs : t.chain = c})

Chain(p) == Paths[p][call[p].i]

\* A step of call p that returns an error from CreateMultiTransaction.
Return(p, r) == call' = [call EXCEPT ![p].pc = "done", ![p].result = r]

\* getVerifiedWalletAccount (api.go 901-925) returns an error: the address
\* lookup fails, the address is not an account, or the password is wrong.
GetVerifiedWalletAccountFails == Fail("verify")

-----------------------------------------------------------------------------
(***************************************************************************)
(* CreateMultiTransaction up to the send (lines 702-716): build the        *)
(* command; with a password, verify the account (getVerifiedWalletAccount, *)
(* lines 901-925: AddressExists, then VerifyAccountPassword); without one, *)
(* hand the transactions to the keycard, which sends nothing here.         *)
(***************************************************************************)
CreateMultiTransaction(p, pw) ==
  /\ call[p].pc = "idle"
  /\ \/ Fail("create") /\ Return(p, "err")
     \/ pw = "" /\ Return(p, "keycard")
     \/ pw # "" /\ GetVerifiedWalletAccountFails /\ Return(p, "err")
     \/ pw # "" /\ call' = [call EXCEPT ![p].pc = "nonce"]
  /\ UNCHANGED <<dbVars, chainTxs, tracked, rejected>>

(***************************************************************************)
(* sendOrBuild, lines 116-134: EthClient and NewIerc1155 may fail; the     *)
(* nonce is NextNonce for the first path on the chain (lastUsedNonce < 0)  *)
(* and lastUsedNonce + 1 after it.                                         *)
(***************************************************************************)
\* Faulty variant: the previous nonce is reused instead of incremented.
ChooseNonceNoIncrement(p) ==
  LET last == call[p].used[Chain(p)] IN
  /\ call[p].pc = "nonce"
  /\ \/ Fail("client") /\ Return(p, "err")
     \/ last < 0 /\ Fail("nextNonce") /\ Return(p, "err")
     \/ last < 0 /\ call' = [call EXCEPT ![p].pc = "broadcast", ![p].nonce = PendingNonce(Chain(p))]
     \/ last >= 0 /\ call' = [call EXCEPT ![p].pc = "broadcast", ![p].nonce = last]
  /\ UNCHANGED <<dbVars, chainTxs, tracked, rejected>>

ChooseNonce(p) ==
  LET last == call[p].used[Chain(p)] IN
  /\ call[p].pc = "nonce"
  /\ \/ Fail("client") /\ Return(p, "err")
     \/ last < 0 /\ Fail("nextNonce") /\ Return(p, "err")
     \/ last < 0 /\ call' = [call EXCEPT ![p].pc = "broadcast", ![p].nonce = PendingNonce(Chain(p))]
     \/ last >= 0 /\ call' = [call EXCEPT ![p].pc = "broadcast", ![p].nonce = last + 1]
  /\ UNCHANGED <<dbVars, chainTxs, tracked, rejected>>

(***************************************************************************)
(* SafeTransferFrom, lines 136-149: sign and send.  The send may fail      *)
(* before the node has the transaction ("send"), or after it accepted it   *)
(* with the answer lost ("lost"); the node rejects a nonce below the       *)
(* pending one.                                                            *)
(***************************************************************************)
Broadcast(p) ==
  LET tx == [chain |-> Chain(p), nonce |-> call[p].nonce, call |-> p] IN
  /\ call[p].pc = "broadcast"
  /\ \/ tx.nonce < PendingNonce(tx.chain) /\ rejected' = rejected \cup {tx}
        /\ Return(p, "err") /\ UNCHANGED chainTxs
     \/ tx.nonce >= PendingNonce(tx.chain) /\ Fail("send")
        /\ Return(p, "err") /\ UNCHANGED <<chainTxs, rejected>>
     \/ tx.nonce >= PendingNonce(tx.chain) /\ chainTxs' = chainTxs \cup {tx}
        /\ \/ Fail("lost") /\ Return(p, "err")
           \/ call' = [call EXCEPT ![p].pc = "track"]
        /\ UNCHANGED rejected
  /\ UNCHANGED <<dbVars, tracked>>

(***************************************************************************)
(* StoreAndTrackPendingTx, lines 150-154, then Send returns tx.Nonce()     *)
(* (line 162) and the send loop records it in usedNonces for the chain     *)
(* and moves to the next path, or to the insert after the last one.        *)
(***************************************************************************)
\* Faulty variant: one lastUsedNonce for all chains instead of usedNonces.
TrackSharedNonce(p) ==
  /\ call[p].pc = "track"
  /\ \/ Fail("track") /\ Return(p, "err") /\ UNCHANGED tracked
     \/ /\ tracked' = tracked \cup {[chain |-> Chain(p), nonce |-> call[p].nonce, mt |-> CallID[p]]}
        /\ call' = [call EXCEPT ![p].used = [c \in Chains |-> call[p].nonce], ![p].i = call[p].i + 1,
                                ![p].pc = IF call[p].i = Len(Paths[p]) THEN "insert" ELSE "nonce"]
  /\ UNCHANGED <<dbVars, chainTxs, rejected>>

\* Faulty variant: a failed StoreAndTrackPendingTx is not returned.
TrackIgnoreError(p) ==
  /\ call[p].pc = "track"
  /\ \/ Fail("track") /\ UNCHANGED tracked
     \/ tracked' = tracked \cup {[chain |-> Chain(p), nonce |-> call[p].nonce, mt |-> CallID[p]]}
  /\ call' = [call EXCEPT ![p].used[Chain(p)] = call[p].nonce, ![p].i = call[p].i + 1,
                          ![p].pc = IF call[p].i = Len(Paths[p]) THEN "insert" ELSE "nonce"]
  /\ UNCHANGED <<dbVars, chainTxs, rejected>>

Track(p) ==
  /\ call[p].pc = "track"
  /\ \/ Fail("track") /\ Return(p, "err") /\ UNCHANGED tracked
     \/ /\ tracked' = tracked \cup {[chain |-> Chain(p), nonce |-> call[p].nonce, mt |-> CallID[p]]}
        /\ call' = [call EXCEPT ![p].used[Chain(p)] = call[p].nonce, ![p].i = call[p].i + 1,
                                ![p].pc = IF call[p].i = Len(Paths[p]) THEN "insert" ELSE "nonce"]
  /\ UNCHANGED <<dbVars, chainTxs, rejected>>

(***************************************************************************)
(* InsertMultiTransaction (lines 723-726): the row is written with         *)
(* MultiTransactionDB's CreateMultiTransaction; its error is logged and    *)
(* the call returns its result regardless.                                 *)
(***************************************************************************)
InsertMultiTransaction(p) ==
  /\ call[p].pc = "insert"
  /\ MTDB!CreateMultiTransaction(CallID[p], MTRow)
  /\ Return(p, "ok")
  /\ UNCHANGED <<chainTxs, tracked, rejected>>

\* Other writers of the table: the transaction manager's inserts, updates and
\* deletes.
TableStep == MTDB!Next /\ UNCHANGED walletVars

Next ==
  \/ \E p \in Calls :
       \/ \E pw \in Passwords : CreateMultiTransaction(p, pw)
       \/ ChooseNonce(p) \/ Broadcast(p) \/ Track(p) \/ InsertMultiTransaction(p)
  \/ TableStep

Spec == Init /\ [][Next]_vars

-----------------------------------------------------------------------------
TypeOK ==
  /\ MTDB!TypeOK
  /\ chainTxs \subseteq [chain : Chains, nonce : Nat, call : Calls]
  /\ rejected \subseteq [chain : Chains, nonce : Nat, call : Calls]
  /\ tracked \subseteq [chain : Chains, nonce : Nat, mt : IDs]
  /\ \A p \in Calls :
       /\ call[p].pc \in {"idle", "nonce", "broadcast", "track", "insert", "done"}
       /\ call[p].result \in {"none", "ok", "err", "keycard"}
       /\ call[p].i \in 1..(Len(Paths[p]) + 1)

(***************************************************************************)
(* On every chain the account's accepted nonces are 0 .. n-1, with no gap  *)
(* that would leave later transactions queued forever.  About the send     *)
(* loop's usedNonces kept per chain, lastUsedNonce + 1 in sendOrBuild, and *)
(* NextNonce read once per chain, with concurrent calls on one account.    *)
(***************************************************************************)
NoNonceGap ==
  \A c \in Chains :
    {t.nonce : t \in {u \in chainTxs : u.chain = c}} = 0..(PendingNonce(c) - 1)

(***************************************************************************)
(* A broadcast is rejected for a stale nonce only when another call's      *)
(* transaction holds that nonce: a call never collides with itself.  About *)
(* the window between NextNonce (or the previous send) and                 *)
(* SafeTransferFrom, in which another call may send.                       *)
(***************************************************************************)
StaleOnlyFromOtherCall ==
  \A r \in rejected :
    \E t \in chainTxs : t.chain = r.chain /\ t.nonce = r.nonce /\ t.call # r.call

(***************************************************************************)
(* A call that reports success has broadcast one transaction per path and  *)
(* every one of them is tracked as pending under the call's                *)
(* multi-transaction id.  About the error returns of sendOrBuild after the *)
(* broadcast (StoreAndTrackPendingTx) and the send loop's abort.           *)
(***************************************************************************)
SuccessMeansSentAndTracked ==
  \A p \in Calls :
    call[p].result = "ok" =>
      LET mine == {t \in chainTxs : t.call = p} IN
      /\ Cardinality(mine) = Len(Paths[p])
      /\ \A t \in mine : [chain |-> t.chain, nonce |-> t.nonce, mt |-> CallID[p]] \in tracked

\* The table property of MultiTransactionDB, under the composition.
ReadReturnsMatchingRows == MTDB!ReadReturnsMatchingRows
=============================================================================
