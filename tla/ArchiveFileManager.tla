------------------------- MODULE ArchiveFileManager -------------------------
(***************************************************************************)
(* The community history-archive writer of                                 *)
(* src/protocol/communities/manager_archive_file.go, driven by its          *)
(* periodic scheduler.                                                      *)
(*                                                                         *)
(* createHistoryArchiveTorrent is one call that partitions [start, end)    *)
(* into windows, chunks the messages of each window by size, pads each     *)
(* encoded archive to the torrent piece length, and then does four I/O     *)
(* steps in this order: rewrite the index file, append to the data file,   *)
(* write the .torrent file, save the resumption cursor.  Every one of      *)
(* them can return an error, and the call returns at once when it does.    *)
(* The pure computation of the call is one action (BuildArchives); each    *)
(* I/O step is an action of its own so that a failure, or a crash, can     *)
(* fall between them.  The index rewrite is os.WriteFile, which opens the  *)
(* file with O_TRUNC and then writes: it is two steps, and a write that    *)
(* fails or is interrupted leaves the file empty, partial or unreadable.   *)
(*                                                                         *)
(* Data is abstracted: a message is an integer with a timestamp (MsgTs)    *)
(* and a byte size len(Payload)+len(Sig) (MsgSize); an encoded archive     *)
(* is ArchiveOverhead bytes plus the sizes of its messages, plus           *)
(* EncOverhead when it is encrypted.  The data file is the sequence of     *)
(* the segments appended to it, each with its raw length and padding, so   *)
(* byte offsets are sums of segment lengths.  An archive ID (the Keccak    *)
(* hash of the index entry) is the entry record itself.                    *)
(***************************************************************************)
EXTENDS Naturals, Sequences, FiniteSets, SequencesExt, FiniteSetsExt, TLC

CONSTANTS
  Msgs,             \* message ids (integers)
  MsgTs,            \* [Msgs -> Nat]: the message's unix timestamp
  MsgSize,          \* [Msgs -> Nat]: len(msg.Payload) + len(msg.Sig)
  MaxArchiveSize,   \* maxArchiveSizeInBytes
  PieceLength,      \* pieceLength of the torrent
  ArchiveOverhead,  \* bytes proto.Marshal adds to an archive's messages
  EncOverhead,      \* bytes BuildHashRatchetMessage adds when encrypting
  Partition,        \* the partition duration
  CreatedAt,        \* the community's creation time: the first start date
  MaxTime,          \* bound: the clock stops advancing here
  LateBy,           \* how old a message may be when it is received
  Reading,          \* whether a reader runs beside the writer
  EncryptModes,     \* the values the caller passes as `encrypt`
  Failures,         \* the I/O steps that may return an error in this run
  MaxExplicitCalls, \* bound on CreateHistoryArchiveTorrentFromMessages calls
  MaxCalls          \* bound on createHistoryArchiveTorrent calls of any kind

FailurePoints ==
  {"mkdir", "loadIndex", "dbRead", "encrypt", "openIndex",
   "writeIndex", "appendData", "writeTorrent", "saveCursor"}

ASSUME /\ Msgs \subseteq Nat
       /\ MsgTs \in [Msgs -> Nat] /\ MsgSize \in [Msgs -> Nat \ {0}]
       /\ {MaxArchiveSize, PieceLength, Partition, CreatedAt} \subseteq Nat \ {0}
       /\ {ArchiveOverhead, EncOverhead, MaxTime, LateBy, MaxExplicitCalls, MaxCalls} \subseteq Nat
       /\ EncryptModes \subseteq BOOLEAN /\ EncryptModes # {}
       /\ Failures \subseteq FailurePoints

VARIABLES
  now,          \* the wall clock (unix seconds, abstracted)
  stored,       \* messages in the waku message table
  cursor,       \* last message archive end date; 0 = no row
  indexFile,    \* the index file: [exists, enc, garbled, archives: archiveID -> msgs]
  dataFile,     \* the data file: the sequence of appended segments
  torrent,      \* what the .torrent file describes, or NoTorrent
  phase,        \* where the running createHistoryArchiveTorrent call is
  pending,      \* that call's in-memory result
  due,          \* the scheduler's ticker has fired and not been served
  explicitCalls, \* CreateHistoryArchiveTorrentFromMessages calls so far
  calls,        \* createHistoryArchiveTorrent calls so far
  reader        \* a caller of ExtractMessagesFromHistoryArchive

vars == <<now, stored, cursor, indexFile, dataFile, torrent, phase, pending,
          due, explicitCalls, calls, reader>>

NoTorrent == [index |-> << >>, bytes |-> 0]
NoPending == [index |-> << >>, data |-> << >>, from |-> 0, enc |-> FALSE]
Phases == {"idle", "writeIndex", "writingIndex", "appendData", "writeTorrent", "saveCursor"}
NoIndexFile == [exists |-> FALSE, enc |-> FALSE, garbled |-> FALSE, archives |-> << >>]

-----------------------------------------------------------------------------
(***************************************************************************)
(* Windows: from := startDate; to := min(from+partition, endDate); and     *)
(* after every window from := to; to := min(to+partition, endDate), until  *)
(* from >= endDate.                                                         *)
(***************************************************************************)
Clip(t, end) == IF t > end THEN end ELSE t

RECURSIVE WindowsFrom(_, _)
WindowsFrom(from, end) ==
  IF from >= end THEN << >>
  ELSE LET to == Clip(from + Partition, end)
       IN << [from |-> from, to |-> to] >> \o WindowsFrom(to, end)

\* The value of `from` when the loop ends: what the cursor is set to.
FinalFrom(start, end) ==
  LET W == WindowsFrom(start, end)
  IN IF W = << >> THEN start ELSE W[Len(W)].to

\* A message belongs to window [from, to) (the explicit-list filter, and
\* the range of GetWakuMessagesByFilterTopic).
\* Faulty variants: a closed window, and a window open at its start.
InWindowClosed(m, w) == MsgTs[m] >= w.from /\ MsgTs[m] <= w.to
InWindowOpenStart(m, w) == MsgTs[m] > w.from /\ MsgTs[m] < w.to

InWindow(m, w) == MsgTs[m] >= w.from /\ MsgTs[m] < w.to

WindowMsgs(source, w) == {m \in source : InWindow(m, w)}

\* Messages in the order they are returned: by timestamp, then by id.
ByTime(a, b) == MsgTs[a] < MsgTs[b] \/ (MsgTs[a] = MsgTs[b] /\ a < b)

-----------------------------------------------------------------------------
(***************************************************************************)
(* Greedy chunking of one window's messages by size (lines 152-171): a     *)
(* message larger than MaxArchiveSize is dropped; a message that would     *)
(* overflow the current chunk closes it; the last chunk is always          *)
(* appended, even when it is empty.                                        *)
(***************************************************************************)
\* Faulty variant: a message that overflows the chunk is dropped.
ChunkStepDropOverflow(st, m) ==
  IF MsgSize[m] > MaxArchiveSize \/ st.size + MsgSize[m] > MaxArchiveSize THEN st
  ELSE [st EXCEPT !.cur = Append(@, m), !.size = @ + MsgSize[m]]

ChunkStep(st, m) ==
  IF MsgSize[m] > MaxArchiveSize THEN st
  ELSE IF st.size + MsgSize[m] > MaxArchiveSize
       THEN [chunks |-> Append(st.chunks, st.cur), cur |-> <<m>>, size |-> MsgSize[m]]
       ELSE [st EXCEPT !.cur = Append(@, m), !.size = @ + MsgSize[m]]

Chunks(list) ==
  LET st == FoldLeft(ChunkStep, [chunks |-> << >>, cur |-> << >>, size |-> 0], list)
  IN Append(st.chunks, st.cur)

\* createWakuMessageArchive: the window's bounds and its messages.
CreateWakuMessageArchive(from, to, msgs) == [from |-> from, to |-> to, msgs |-> msgs]

\* The archives of one window: none when the window has no message at all.
WindowArchives(source, w) ==
  LET ms == WindowMsgs(source, w)
      cs == Chunks(SetToSortSeq(ms, ByTime))
  IN IF ms = {} THEN << >>
     ELSE [i \in DOMAIN cs |-> CreateWakuMessageArchive(w.from, w.to, ToSet(cs[i]))]

PlannedArchives(source, start, end) ==
  LET W == WindowsFrom(start, end)
  IN FlattenSeq([i \in DOMAIN W |-> WindowArchives(source, W[i])])

-----------------------------------------------------------------------------
(***************************************************************************)
(* Sizes, padding and offsets (lines 94-99, 192-220).                      *)
(***************************************************************************)
EncodedSize(msgs, enc) ==
  ArchiveOverhead + MapThenSumSet(LAMBDA m : MsgSize[m], msgs)
    + (IF enc THEN EncOverhead ELSE 0)

\* Faulty variant: only the small-archive branch, for every size.
PaddingSmallOnly(rawSize) == PieceLength - rawSize

Padding(rawSize) ==
  IF rawSize > PieceLength THEN PieceLength - (rawSize % PieceLength)
  ELSE PieceLength - rawSize

\* The starting offset of a run: the sum of the sizes of the loaded entries.
IndexedBytes(archives) == MapThenSumSet(LAMBDA id : id.size, DOMAIN archives)

(***************************************************************************)
(* The loop over the planned archives (lines 173-221): archive k gets      *)
(* offset = the starting offset plus the bytes (rawSize + padding) of the  *)
(* archives before it; its entry is added to the index map under its ID    *)
(* and its bytes, then its padding, to the output buffer.                  *)
(***************************************************************************)
ArchiveBytes(a, enc) == EncodedSize(a.msgs, enc) + Padding(EncodedSize(a.msgs, enc))

\* Faulty variant: the offset advances by rawSize only, not by the padding.
OffsetOfNoPadding(plan, enc, base, k) ==
  base + MapThenSumSet(LAMBDA j : EncodedSize(plan[j].msgs, enc), 1..(k - 1))

OffsetOf(plan, enc, base, k) ==
  base + MapThenSumSet(LAMBDA j : ArchiveBytes(plan[j], enc), 1..(k - 1))

Segment(a, enc) ==
  [from |-> a.from, to |-> a.to, msgs |-> a.msgs,
   raw |-> EncodedSize(a.msgs, enc), padding |-> Padding(EncodedSize(a.msgs, enc))]

ArchiveID(plan, enc, base, k) ==
  LET seg == Segment(plan[k], enc)
  IN [from |-> seg.from, to |-> seg.to, offset |-> OffsetOf(plan, enc, base, k),
      size |-> seg.raw + seg.padding, padding |-> seg.padding]

\* The IDs of the planned archives, in loop order.
ArchiveIDs(plan, enc, base) == [k \in DOMAIN plan |-> ArchiveID(plan, enc, base, k)]

\* The index map after the loop: the loaded entries plus one per archive.
BuiltIndex(loaded, plan, ids) ==
  [id \in Range(ids) |-> plan[CHOOSE k \in DOMAIN ids : ids[k] = id].msgs] @@ loaded

\* The bytes appended to the data file: every archive, then its padding.
BuiltData(plan, enc) == [k \in DOMAIN plan |-> Segment(plan[k], enc)]

SegBytes(s) == s.raw + s.padding
DataBytes(data) == MapThenSumSet(LAMBDA k : SegBytes(data[k]), DOMAIN data)
SegStart(data, k) == DataBytes(SubSeq(data, 1, k - 1))

(***************************************************************************)
(* ExtractMessagesFromHistoryArchive: seek to the entry's offset, read     *)
(* size - padding bytes and unmarshal them (decrypting when the plain      *)
(* parse fails).  The bytes decode to an archive only when a segment       *)
(* begins at that offset with that length; anything else is garbage.      *)
(***************************************************************************)
Extracted(msgs) == [ok |-> TRUE, msgs |-> msgs]
Corrupt == [ok |-> FALSE, msgs |-> {}]

(***************************************************************************)
(* LoadHistoryArchiveIndexFromFile (lines 477-511): ReadFile, Unmarshal,   *)
(* and, when the plain parse of a non-empty file lists no archive, the     *)
(* decryption and its parse.  A half-written file fails to parse; any      *)
(* other file fails only when the run lets the load fail (a read error or  *)
(* a failed decryption).  An empty file parses as an index with no         *)
(* archive and no error.                                                   *)
(***************************************************************************)
LoadIndexFails ==
  indexFile.exists /\ (indexFile.garbled \/ "loadIndex" \in Failures)

\* The index loads, or there is no index file (os.Stat fails, line 86).
IndexLoads == ~(indexFile.exists /\ indexFile.garbled)

ExtractMessages(data, id) ==
  LET hits == {k \in DOMAIN data : /\ SegStart(data, k) = id.offset
                                   /\ data[k].raw = id.size - id.padding}
  IN IF hits = {} THEN Corrupt ELSE Extracted(data[CHOOSE k \in hits : TRUE].msgs)

-----------------------------------------------------------------------------
NoArchiveID == [from |-> 0, to |-> 0, offset |-> 0, size |-> 0, padding |-> 0]
\* metadata := index.Archives[archiveID] is nil for an ID the index lacks,
\* and metadata.Offset dereferences it (lines 430-432).
Panic == [ok |-> FALSE, msgs |-> Msgs]
NoReader == [pc |-> "idle", id |-> NoArchiveID, got |-> Corrupt]

Init ==
  /\ now = CreatedAt
  /\ stored = {}
  /\ cursor = 0
  /\ indexFile = NoIndexFile
  /\ dataFile = << >>
  /\ torrent = NoTorrent
  /\ phase = "idle"
  /\ pending = NoPending
  /\ due = TRUE
  /\ explicitCalls = 0
  /\ calls = 0
  /\ reader = NoReader

\* The scheduler's ticker fires; the clock advances up to MaxTime.
TimerTick ==
  /\ now' = IF now < MaxTime THEN now + 1 ELSE now
  /\ due' = TRUE
  /\ UNCHANGED <<stored, cursor, indexFile, dataFile, torrent, phase, pending,
                 explicitCalls, calls, reader>>

\* StoreWakuMessage: a message is received, at most LateBy after its time.
StoreWakuMessage(m) ==
  /\ m \notin stored
  /\ MsgTs[m] <= now /\ now <= MsgTs[m] + LateBy
  /\ stored' = stored \cup {m}
  /\ UNCHANGED <<now, cursor, indexFile, dataFile, torrent, phase, pending,
                 due, explicitCalls, calls, reader>>

\* The start date the caller passes: the cursor, or the creation time.
ArchiveStart == IF cursor > 0 THEN cursor ELSE CreatedAt

(***************************************************************************)
(* createHistoryArchiveTorrent up to its first write (lines 54-228, and    *)
(* 311-320 when no archive is produced).  msgs = {} means load from DB.    *)
(***************************************************************************)
BuildArchives(msgs, enc) ==
  LET loadFromDB == msgs = {}
      source == IF loadFromDB THEN stored ELSE msgs
      start  == ArchiveStart
      end    == now
  IN
  \* (\E x \in {e} binds x to the value of e, so that e is evaluated once.)
  \E plan \in {PlannedArchives(source, start, end)} :
  \E ids \in {ArchiveIDs(plan, enc, IndexedBytes(indexFile.archives))} :
  \/ /\ "mkdir" \in Failures
     /\ UNCHANGED <<phase, pending>>
  \/ /\ LoadIndexFails
     /\ UNCHANGED <<phase, pending>>
  \/ /\ IndexLoads /\ "dbRead" \in Failures /\ loadFromDB /\ start < end
     /\ UNCHANGED <<phase, pending>>
  \/ /\ IndexLoads /\ "encrypt" \in Failures /\ enc /\ plan # << >>
     /\ UNCHANGED <<phase, pending>>
  \/ /\ IndexLoads /\ plan # << >>
     /\ phase' = "writeIndex"
     /\ pending' = [index |-> BuiltIndex(indexFile.archives, plan, ids),
                    data  |-> BuiltData(plan, enc),
                    from  |-> FinalFrom(start, end), enc |-> enc]
  \/ /\ IndexLoads /\ plan = << >>
     /\ phase' = "saveCursor"
     /\ pending' = [NoPending EXCEPT !.from = FinalFrom(start, end)]

\* The scheduler's tick: CreateHistoryArchiveTorrentFromDB(start, now).
CreateHistoryArchiveTorrentFromDB(enc) ==
  /\ phase = "idle" /\ due /\ calls < MaxCalls
  /\ due' = FALSE /\ calls' = calls + 1
  /\ BuildArchives({}, enc)
  /\ UNCHANGED <<now, stored, cursor, indexFile, dataFile, torrent, explicitCalls, reader>>

\* A caller hands over the messages received since the cursor.
CreateHistoryArchiveTorrentFromMessages(enc) ==
  LET received == {m \in stored : MsgTs[m] >= ArchiveStart}
  IN
  /\ phase = "idle" /\ explicitCalls < MaxExplicitCalls /\ calls < MaxCalls
  /\ received # {}
  /\ explicitCalls' = explicitCalls + 1 /\ calls' = calls + 1
  /\ BuildArchives(received, enc)
  /\ UNCHANGED <<now, stored, cursor, indexFile, dataFile, torrent, due, reader>>

(***************************************************************************)
(* os.WriteFile(indexPath, ...) (line 256): OpenFile with O_TRUNC, then    *)
(* Write, then Close.  The open either fails, leaving the file as it was,  *)
(* or empties it.                                                          *)
(***************************************************************************)
WriteIndexFile ==
  /\ phase = "writeIndex"
  /\ \/ /\ indexFile' = [NoIndexFile EXCEPT !.exists = TRUE]
        /\ phase' = "writingIndex"
        /\ UNCHANGED pending
     \/ /\ "openIndex" \in Failures
        /\ phase' = "idle" /\ pending' = NoPending
        /\ UNCHANGED indexFile
  /\ UNCHANGED <<now, stored, cursor, dataFile, torrent, due, explicitCalls, calls, reader>>

(***************************************************************************)
(* What a Write that returns an error (or a crash) leaves in the emptied   *)
(* file: nothing, bytes that no longer parse, or, for a plain index cut at *)
(* an entry boundary, a valid index listing some of the entries (all of    *)
(* them when only Close fails).  An encrypted index parses only whole.     *)
(***************************************************************************)
PartialIndexes(p) ==
  {[NoIndexFile EXCEPT !.exists = TRUE],
   [NoIndexFile EXCEPT !.exists = TRUE, !.enc = p.enc, !.garbled = TRUE]}
  \cup (IF p.enc THEN {}
        ELSE {[NoIndexFile EXCEPT !.exists = TRUE, !.archives = Restrict(p.index, S)]
                : S \in SUBSET DOMAIN p.index})

WriteIndexData ==
  /\ phase = "writingIndex"
  /\ \/ /\ indexFile' = [exists |-> TRUE, enc |-> pending.enc, garbled |-> FALSE,
                          archives |-> pending.index]
        /\ phase' = "appendData"
        /\ UNCHANGED pending
     \/ /\ "writeIndex" \in Failures
        /\ indexFile' \in PartialIndexes(pending)
        /\ phase' = "idle" /\ pending' = NoPending
  /\ UNCHANGED <<now, stored, cursor, dataFile, torrent, due, explicitCalls, calls, reader>>

(***************************************************************************)
(* The data file is opened with O_APPEND and the new bytes written         *)
(* (261-270).  A failed Write may have appended some of the archives.      *)
(***************************************************************************)
AppendDataFile ==
  /\ phase = "appendData"
  /\ \/ /\ dataFile' = dataFile \o pending.data
        /\ phase' = "writeTorrent"
        /\ UNCHANGED pending
     \/ /\ "appendData" \in Failures
        /\ \E k \in 0..(Len(pending.data) - 1) : dataFile' = dataFile \o SubSeq(pending.data, 1, k)
        /\ phase' = "idle" /\ pending' = NoPending
  /\ UNCHANGED <<now, stored, cursor, indexFile, torrent, due, explicitCalls, calls, reader>>

\* The .torrent is rebuilt from the archive directory and written, then
\* HistoryArchivesCreatedSignal is published (lines 272-310).
WriteTorrentFile ==
  /\ phase = "writeTorrent"
  /\ \/ /\ torrent' = [index |-> indexFile.archives, bytes |-> DataBytes(dataFile)]
        /\ phase' = "saveCursor"
        /\ UNCHANGED pending
     \/ /\ "writeTorrent" \in Failures
        /\ phase' = "idle" /\ pending' = NoPending
        /\ UNCHANGED <<torrent>>
  /\ UNCHANGED <<now, stored, cursor, indexFile, dataFile, due, explicitCalls, calls, reader>>

\* GetLastMessageArchiveEndDate, then Update or Save it as `from` (322-335).
SaveLastMessageArchiveEndDate ==
  /\ phase = "saveCursor"
  /\ \/ cursor' = pending.from
     \/ /\ "saveCursor" \in Failures
        /\ UNCHANGED cursor
  /\ phase' = "idle" /\ pending' = NoPending
  /\ UNCHANGED <<now, stored, indexFile, dataFile, torrent, due, explicitCalls, calls, reader>>

(***************************************************************************)
(* ExtractMessagesFromHistoryArchive (lines 413-475) takes no lock, so it  *)
(* runs alongside a build.  Its caller holds an archive ID it read from    *)
(* the index earlier (ExtractBegin); the call loads the index (416-419),   *)
(* looks the ID up and dereferences the entry (430-432), then seeks the    *)
(* data file to the entry's offset and reads it (421-475).                 *)
(***************************************************************************)
writerVars == <<now, stored, cursor, indexFile, dataFile, torrent, phase, pending,
                due, explicitCalls, calls>>

ExtractBegin(id) ==
  /\ Reading /\ reader.pc = "idle"
  /\ reader' = [reader EXCEPT !.pc = "begin", !.id = id]
  /\ UNCHANGED writerVars

ExtractLoadIndex ==
  /\ reader.pc = "begin"
  /\ \/ /\ LoadIndexFails \/ ~indexFile.exists
        /\ reader' = [NoReader EXCEPT !.got = Corrupt]
     \/ /\ indexFile.exists /\ IndexLoads
        /\ reader.id \notin DOMAIN indexFile.archives
        /\ reader' = [NoReader EXCEPT !.got = Panic]
     \/ /\ indexFile.exists /\ IndexLoads
        /\ reader.id \in DOMAIN indexFile.archives
        /\ reader' = [reader EXCEPT !.pc = "loaded"]
  /\ UNCHANGED writerVars

ExtractReadData ==
  /\ reader.pc = "loaded"
  /\ reader' = [NoReader EXCEPT !.got = ExtractMessages(dataFile, reader.id)]
  /\ UNCHANGED writerVars

Next ==
  \/ TimerTick
  \/ \E m \in Msgs : StoreWakuMessage(m)
  \/ \E enc \in EncryptModes : CreateHistoryArchiveTorrentFromDB(enc)
  \/ \E enc \in EncryptModes : CreateHistoryArchiveTorrentFromMessages(enc)
  \/ WriteIndexFile
  \/ WriteIndexData
  \/ AppendDataFile
  \/ WriteTorrentFile
  \/ SaveLastMessageArchiveEndDate
  \/ \E id \in DOMAIN indexFile.archives : ExtractBegin(id)
  \/ ExtractLoadIndex
  \/ ExtractReadData

(***************************************************************************)
(* Time passes and the ticker fires (WF of TimerTick); a goroutine that    *)
(* runs the build keeps running (WF of each step and of the tick's build). *)
(* Receiving messages and explicit calls are the environment: not fair.    *)
(***************************************************************************)
Fairness ==
  /\ WF_vars(TimerTick)
  /\ WF_vars(\E enc \in EncryptModes : CreateHistoryArchiveTorrentFromDB(enc))
  /\ WF_vars(WriteIndexFile)
  /\ WF_vars(WriteIndexData)
  /\ WF_vars(AppendDataFile)
  /\ WF_vars(WriteTorrentFile)
  /\ WF_vars(SaveLastMessageArchiveEndDate)

Spec == Init /\ [][Next]_vars
FairSpec == Spec /\ Fairness

-----------------------------------------------------------------------------
(***************************************************************************)
(* What is archived: the messages of the index entries whose bytes read    *)
(* back from the data file.  While os.WriteFile rewrites the index, the    *)
(* entries are those the call loaded and holds in memory: the file is      *)
(* empty then, and only a failure or a crash in that window makes the      *)
(* emptiness last.                                                         *)
(***************************************************************************)
HeldIndex == IF phase = "writingIndex" THEN pending.index ELSE indexFile.archives

Readable(idx) == {id \in DOMAIN idx : ExtractMessages(dataFile, id) = Extracted(idx[id])}

Archived == UNION {HeldIndex[id] : id \in Readable(HeldIndex)}

TypeOK ==
  /\ now \in CreatedAt..MaxTime
  /\ stored \subseteq Msgs
  /\ cursor \in 0..MaxTime
  /\ indexFile.exists \in BOOLEAN /\ indexFile.enc \in BOOLEAN
  /\ \A id \in DOMAIN indexFile.archives :
        /\ indexFile.archives[id] \subseteq Msgs
        /\ id.offset \in Nat /\ id.padding \in 0..PieceLength
        /\ id.size \in Nat /\ id.size > id.padding
  /\ phase \in Phases
  /\ due \in BOOLEAN
  /\ explicitCalls \in 0..MaxExplicitCalls
  /\ calls \in 0..MaxCalls
  /\ indexFile.garbled \in BOOLEAN
  /\ reader.pc \in {"idle", "begin", "loaded"}

(***************************************************************************)
(* Every archive the index lists can be read back: seeking the data file   *)
(* to the entry's offset and reading size - padding bytes yields exactly   *)
(* the messages that were archived under that ID.  About the offset        *)
(* bookkeeping across runs (the starting offset summed from the loaded     *)
(* index, offset += rawSize + padding) and the order of the index rewrite  *)
(* and the data append; checked whenever no call is in progress.           *)
(***************************************************************************)
IndexConsistent ==
  phase = "idle" =>
    \A id \in DOMAIN indexFile.archives :
      ExtractMessages(dataFile, id) = Extracted(indexFile.archives[id])

(***************************************************************************)
(* No message is archived twice: the archives of the index are disjoint.   *)
(* About the resumption cursor: the next call starts where the previous    *)
(* one ended, the windows are half-open, and a call that wrote archives    *)
(* but not the cursor makes the next call rebuild the same windows.        *)
(***************************************************************************)
NoDuplicateArchive ==
  \A i, j \in DOMAIN indexFile.archives :
    i # j => indexFile.archives[i] \cap indexFile.archives[j] = {}

(***************************************************************************)
(* An archive never holds zero messages: the spec says an oversized        *)
(* message is dropped and "does not by itself trigger an empty-chunk       *)
(* artifact".                                                              *)
(***************************************************************************)
NoEmptyArchive ==
  \A id \in DOMAIN indexFile.archives : indexFile.archives[id] # {}

(***************************************************************************)
(* A message once archived stays archived: no step drops a readable entry  *)
(* from the index or makes its bytes unreadable.  Spec section 7 says the  *)
(* index of a second call holds the entries of both calls ("not            *)
(* overwritten") and that the on-disk write is one atomic batch.  About    *)
(* os.WriteFile at line 256, which truncates the index before writing it:  *)
(* a failed or interrupted write leaves fewer entries than were archived.  *)
(***************************************************************************)
ArchivedNeverLost == [][Archived \subseteq Archived']_vars

(***************************************************************************)
(* Every received message that fits in an archive, is older than the last  *)
(* clock value and lies at or after the start date of the next call while  *)
(* no call runs, ends up in an archive, provided the ticker keeps firing   *)
(* and a started call runs to its end.  The start date is read from the    *)
(* saved cursor (GetLastMessageArchiveEndDate, line 322), so a message     *)
(* delivered during a call, after the DB read and older than the end date  *)
(* that call saves, never satisfies the premise: TLC finds the form        *)
(* without "idle" and the start date violated once LateBy > 0.             *)
(***************************************************************************)
EventuallyArchived ==
  \A m \in Msgs :
    (/\ m \in stored /\ phase = "idle" /\ MsgTs[m] >= ArchiveStart
     /\ MsgSize[m] <= MaxArchiveSize /\ MsgTs[m] < MaxTime)
      ~> m \in Archived

(***************************************************************************)
(* The writer implements the abstract history archive: the received        *)
(* messages are `stored`, the messages of the readable index entries are   *)
(* `archived` (Archived), and the saved end date is the cursor.  Every step either archives a fresh   *)
(* batch of received messages that fit, or moves the cursor forward only   *)
(* past messages already archived, or changes none of the three.  About   *)
(* the order of the index rewrite and the cursor save in                   *)
(* createHistoryArchiveTorrent, and the chunking that decides what is      *)
(* archived before the cursor passes it, and of the in-place rewrite of    *)
(* the index (a failed or interrupted os.WriteFile drops archived         *)
(* messages, which no HistoryArchive step allows, so it is checked without *)
(* failures; ArchivedNeverLost shows the loss).  It can hold only while    *)
(* messages are stored                                                     *)
(* on time (LateBy = 0): a message delivered during a call and older than  *)
(* the `from` that call saves leaves a stored, unarchived message below    *)
(* the cursor, which Advance forbids.                                      *)
(***************************************************************************)
HA == INSTANCE HistoryArchive WITH archived <- Archived

HistoryArchiveRefined == HA!Spec
=============================================================================
