----------------------- MODULE MC_ArchiveFileManager -----------------------
(***************************************************************************)
(* Model values for ArchiveFileManager.  Four messages: 1 and 2 share a    *)
(* window and together overflow MaxArchiveSize (two chunks); 3 is larger   *)
(* than MaxArchiveSize and alone in its window; 4 is small.  PieceLength 2 *)
(* makes raw sizes 1, 2, 3, 4 and 6 occur, so both branches of the padding *)
(* rule and the exact-multiple case are reached.  Partition 2 over the     *)
(* clock 1..5 gives up to two windows per call.                            *)
(***************************************************************************)
EXTENDS ArchiveFileManager

MCMsgs == {1, 2, 3, 4}
MCMsgTs == (1 :> 1) @@ (2 :> 1) @@ (3 :> 3) @@ (4 :> 4)
MCMsgSize == (1 :> 2) @@ (2 :> 2) @@ (3 :> 4) @@ (4 :> 1)

\* The failures that happen before anything is written.
BeforeWriteFailures == {"mkdir", "loadIndex", "dbRead", "encrypt", "openIndex"}
\* The failures up to the index rewrite, which empties the file first.
EarlyFailures == BeforeWriteFailures \cup {"writeIndex"}
NoFailures == {}
=============================================================================
