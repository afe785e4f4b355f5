--------------------------- MODULE StorageEngine ---------------------------
(***************************************************************************)
(* The storage engine of one table: modules/storage/engine.go, the writes  *)
(* of modules/storage/model.go and the commit of modules/storage/tx.go.    *)
(*                                                                         *)
(* A table is a directory of append-only segment files.  A segment is a    *)
(* sequence of entries: records, or Torn, the bytes of a record that was   *)
(* not written whole (its checksum does not match).  The engine keeps the  *)
(* list of its segments and an index in memory; both are rebuilt from the  *)
(* files when the table is opened.  The engine lock is held by every       *)
(* write, by the whole commit of a transaction and by the whole            *)
(* compaction; the process may crash at any point of them.                 *)
(*                                                                         *)
(* Abstractions.  A record counts one unit of size, and a segment takes    *)
(* SegCap of them (maxSegSize).  Inserts and updates are replayed alike,   *)
(* so both are "doc" records; a delete is one whose value is NoDoc.  The   *)
(* index maps an ID to the document its location leads to.  Only the       *)
(* primary index is modelled.                                              *)
(***************************************************************************)
EXTENDS Naturals, Sequences, FiniteSets, FiniteSetsExt, SequencesExt

CONSTANTS
    Ids, Vals,      \* document IDs and contents
    NoDoc,          \* no document: it does not exist or was deleted
    Corrupt,        \* what is read where a location leads to other bytes than its record
    TxOps,          \* the operations of transactions: sequences of <<id, value or NoDoc>>
    SegCap,         \* records that fit in a segment
    MaxLog,         \* bound: entries in all the files
    MaxSeg,         \* bound: the numbers of segments
    MaxTx,          \* bound: transactions of one process
    Faults,         \* what may go wrong: a subset of {"torn", "short", "fail"}
    Compacts        \* whether Compact is called

ASSUME EngineAssumption ==
    /\ IsFiniteSet(Ids) /\ NoDoc \notin Vals /\ Corrupt \notin Vals \cup {NoDoc}
    /\ TxOps \subseteq Seq(Ids \X (Vals \cup {NoDoc}))
    /\ SegCap \in Nat \ {0} /\ {MaxLog, MaxSeg, MaxTx} \subseteq Nat
    /\ Faults \subseteq {"torn", "short", "fail"}
    /\ Compacts \in BOOLEAN

VARIABLES
    files,      \* the segment files: a function from their numbers to their entries
    up,         \* the process runs and has opened the table
    segs,       \* e.segs, as numbers; the last one is e.current
    nextSeg,    \* e.nextSeg
    size,       \* seg.size, for each of segs: where its next record is thought to go
    idx,        \* e.idx: the document each ID leads to
    txCounter,  \* the counter of transaction IDs of the process
    ops, todo,  \* the transaction being committed, and what of it is not written
    written,    \* what the index will say of what is written
    lock,       \* what holds the engine lock across steps
    newSegs,    \* compaction: the contents of the new segments
    moved,      \* compaction: how many segments were renamed, or removed
    used,       \* IDs that have been given to a document
    docs,       \* what the callers have been told: the acknowledged contents
    damaged     \* one of the four ways to lose documents has happened: an entry was
                \* appended after a torn record, the process died while Exposed, a
                \* compaction left an old segment behind, or met a transaction

memory == <<up, segs, nextSeg, size, idx, txCounter>>
compaction == <<newSegs, moved>>
commit == <<ops, todo, written>>
vars == <<files, memory, commit, lock, compaction, used, docs, damaged>>

Torn == [kind |-> "torn", tx |-> 0]
DocRecord(tx, id, v) == [kind |-> "doc", tx |-> tx, id |-> id, val |-> v]
Mark(kind, tx) == [kind |-> kind, tx |-> tx]

----------------------------------------------------------------------------
\* scanSegFile: the records before the first one that does not decode.
Readable(s) ==
    LET n == CHOOSE k \in 0 .. Len(s) :
                /\ \A i \in 1 .. k : s[i] # Torn
                /\ k = Len(s) \/ s[k + 1] = Torn
    IN  SubSeq(s, 1, n)

\* The records a scan of the segments ids, in that order, visits.
Scanned(fs, ids) ==
    LET upTo[k \in 0 .. Len(ids)] ==
            IF k = 0 THEN <<>> ELSE upTo[k - 1] \o Readable(fs[ids[k]])
    IN  upTo[Len(ids)]

\* What a scan by the running engine reads: seg.size of each segment.
Known == [n \in Range(segs) |-> SubSeq(files[n], 1, size[n])]

NoDocs == [id \in Ids |-> NoDoc]

\* Mutant: a begin record keeps what an earlier transaction with the same number
\* left, as if transaction IDs were never used again.
Replay_KeepsBuffer(st, r) ==
    CASE r.kind = "begin"  -> [st EXCEPT !.open = @ \cup {r.tx}]
      [] r.kind = "commit" ->
            LET mine == {e \in st.txs : e.tx = r.tx} IN
            [primary |-> [id \in Ids |-> IF \E e \in mine : e.id = id
                                         THEN (CHOOSE e \in mine : e.id = id).val
                                         ELSE st.primary[id]],
             txs |-> st.txs \ mine, open |-> st.open \ {r.tx}]
      [] r.kind = "rollback" ->
            [st EXCEPT !.txs = {e \in @ : e.tx # r.tx}, !.open = @ \ {r.tx}]
      [] r.kind = "doc" /\ r.tx = 0 -> [st EXCEPT !.primary[r.id] = r.val]
      [] r.kind = "doc" /\ r.tx # 0 /\ r.tx \in st.open ->
            [st EXCEPT !.txs = {e \in @ : e.tx # r.tx \/ e.id # r.id} \cup {r}]
      [] OTHER -> st

\* rebuildIndex, one record.  txs holds the records of the transactions that
\* began and did not end: per transaction, the last one of each document.
Replay(st, r) ==
    CASE r.kind = "begin"  ->
            [st EXCEPT !.txs = {e \in @ : e.tx # r.tx}, !.open = @ \cup {r.tx}]
      [] r.kind = "commit" ->
            LET mine == {e \in st.txs : e.tx = r.tx} IN
            [primary |-> [id \in Ids |-> IF \E e \in mine : e.id = id
                                         THEN (CHOOSE e \in mine : e.id = id).val
                                         ELSE st.primary[id]],
             txs |-> st.txs \ mine, open |-> st.open \ {r.tx}]
      [] r.kind = "rollback" ->
            [st EXCEPT !.txs = {e \in @ : e.tx # r.tx}, !.open = @ \ {r.tx}]
      [] r.kind = "doc" /\ r.tx = 0 -> [st EXCEPT !.primary[r.id] = r.val]
      [] r.kind = "doc" /\ r.tx # 0 /\ r.tx \in st.open ->
            [st EXCEPT !.txs = {e \in @ : e.tx # r.tx \/ e.id # r.id} \cup {r}]
      [] OTHER -> st

\* rebuildIndex after each number of records: nothing is known before the first.
Replays(log) ==
    LET st[n \in 0 .. Len(log)] ==
            IF n = 0 THEN [primary |-> NoDocs, txs |-> {}, open |-> {}]
            ELSE Replay(st[n - 1], log[n])
    IN  st
Replayed(log) == Replays(log)[Len(log)]

\* rebuildIndex: what the files say the documents are.
Recovered(fs, ids) == Replayed(Scanned(fs, ids)).primary

\* loadSegments: the segments in the directory, in the order of their numbers.
SegsOf(fs) ==
    [k \in 1 .. Cardinality(DOMAIN fs) |->
        CHOOSE n \in DOMAIN fs : Cardinality({m \in DOMAIN fs : m < n}) = k - 1]

Current == segs[Len(segs)]
Entries(fs) == MapThenSumSet(LAMBDA n : Len(fs[n]), DOMAIN fs)

----------------------------------------------------------------------------
TypeOK ==
    /\ \A n \in DOMAIN files : n \in Nat /\ \A i \in DOMAIN files[n] :
          LET r == files[n][i] IN
             \/ r = Torn
             \/ r.kind = "doc" /\ r.tx \in 0 .. MaxTx /\ r.id \in Ids
                /\ r.val \in Vals \cup {NoDoc}
             \/ r.kind \in {"begin", "commit", "rollback"} /\ r.tx \in 1 .. MaxTx
    /\ up \in BOOLEAN
    /\ segs \in Seq(DOMAIN files) \/ lock = "remove"
    /\ nextSeg \in Nat
    /\ size \in [Range(segs) -> Nat]
    /\ lock \in {"rename", "remove"} \/ \A n \in Range(segs) : size[n] <= Len(files[n])
    /\ idx \in [Ids -> Vals \cup {NoDoc, Corrupt}]
    /\ txCounter \in 0 .. MaxTx
    /\ {ops, todo} \subseteq Seq(Ids \X (Vals \cup {NoDoc}))
    /\ written \in Seq(Ids \X (Vals \cup {NoDoc, Corrupt}))
    /\ lock \in {"free", "commit", "rollback", "rename", "remove"}
    /\ moved \in Nat
    /\ used \subseteq Ids
    /\ docs \in [Ids -> Vals \cup {NoDoc}]
    /\ damaged \in BOOLEAN

Init ==
    /\ files = <<>>
    /\ up = FALSE /\ segs = <<>> /\ nextSeg = 0 /\ size = <<>>
    /\ idx = NoDocs /\ txCounter = 0
    /\ ops = <<>> /\ todo = <<>> /\ written = <<>>
    /\ lock = "free" /\ newSegs = <<>> /\ moved = 0
    /\ used = {} /\ docs = NoDocs /\ damaged = FALSE

\* openEngine: loadSegments, which adds a segment when there is none or the
\* last is full, then rebuildIndex.
Open ==
    /\ ~up
    /\ LET old == SegsOf(files)
           n == IF old = <<>> THEN 0 ELSE old[Len(old)] + 1
           full == old = <<>> \/ Cardinality({i \in DOMAIN files[n - 1] : files[n - 1][i] # Torn}) >= SegCap
           fs == IF full THEN [m \in DOMAIN files \cup {n} |->
                                 IF m = n THEN <<>> ELSE files[m]]
                 ELSE files
       IN  /\ files' = fs
           /\ segs' = SegsOf(fs)
           /\ nextSeg' = IF full THEN n + 1 ELSE n
           /\ size' = [m \in DOMAIN fs |-> Len(fs[m])]
           /\ idx' = Recovered(fs, SegsOf(fs))
    /\ up' = TRUE
    /\ txCounter' = 0
    /\ UNCHANGED <<commit, lock, compaction, used, docs, damaged>>

\* What is in memory is lost.
Lost ==
    /\ up' = FALSE /\ segs' = <<>> /\ nextSeg' = 0 /\ size' = <<>>
    /\ idx' = NoDocs /\ txCounter' = 0
    /\ ops' = <<>> /\ todo' = <<>> /\ written' = <<>>
    /\ lock' = "free" /\ newSegs' = <<>> /\ moved' = 0

\* A compaction into several segments has begun to replace the old ones.
Exposed == lock \in {"rename", "remove"} /\ Len(newSegs) > 1

Crash ==
    /\ up
    /\ Lost
    /\ damaged' = (damaged \/ Exposed)
    /\ UNCHANGED <<files, used, docs>>

----------------------------------------------------------------------------
\* The segment the next record goes to: a new one when the current is full.
\* newSegment does not truncate a file that is already there.
Target == IF size[Current] >= SegCap THEN nextSeg ELSE Current
Bytes(n) == IF n \in DOMAIN files THEN files[n] ELSE <<>>
Offset == IF Target = Current THEN size[Current] ELSE 0

\* The bytes of an entry reach the file.
Put(entry) ==
    /\ Entries(files) < MaxLog /\ Target <= MaxSeg
    /\ files' = [n \in DOMAIN files \cup {Target} |->
                    IF n = Target THEN Append(Bytes(n), entry) ELSE files[n]]
    /\ damaged' = (damaged \/ Torn \in Range(Bytes(Target)))

\* writeRecord: the size advances by what it was told is written, nothing when
\* File.Write failed after some bytes.
AppendEntry(entry) ==
    /\ Put(entry)
    /\ segs' = IF Target = Current THEN segs ELSE Append(segs, Target)
    /\ nextSeg' = IF Target = Current THEN nextSeg ELSE nextSeg + 1
    /\ size' = [n \in DOMAIN size \cup {Target} |->
                   IF n # Target THEN size[n]
                   ELSE IF entry = Torn THEN Offset ELSE Offset + 1]

\* What a reader finds at the location of a record written now.
Seen(v) == IF v # NoDoc /\ Offset # Len(Bytes(Target)) THEN Corrupt ELSE v

\* The process dies inside File.Write.
TornWrite ==
    /\ "torn" \in Faults
    /\ up /\ lock \in {"free", "commit", "rollback"}
    /\ Put(Torn)
    /\ Lost
    /\ UNCHANGED <<used, docs>>

\* Model.Create, UpdateByID and DeleteByID share their last part: the record
\* is written, then the index is updated.
Write(id, v) ==
    /\ AppendEntry(DocRecord(0, id, v))
    /\ idx' = [idx EXCEPT ![id] = Seen(v)]
    /\ docs' = [docs EXCEPT ![id] = v]
    /\ UNCHANGED <<up, txCounter, commit, lock, compaction>>

\* Model.Create.  IDs are random and never drawn twice.
Create(id, v) ==
    /\ up /\ lock = "free"
    /\ id \notin used
    /\ used' = used \cup {id}
    /\ Write(id, v)

\* Model.UpdateByID: ErrNotFound, or ErrCorrupt, unless the document is read.
UpdateByID(id, v) ==
    /\ up /\ lock = "free"
    /\ idx[id] \in Vals
    /\ Write(id, v)
    /\ UNCHANGED used

\* Model.DeleteByID
DeleteByID(id) ==
    /\ up /\ lock = "free"
    /\ idx[id] \in Vals
    /\ Write(id, NoDoc)
    /\ UNCHANGED used

\* A write of a record, or of the begin of a transaction, that fails after some
\* bytes leaves the index alone.
FailedWrite ==
    /\ "short" \in Faults
    /\ up /\ lock = "free"
    /\ AppendEntry(Torn)
    /\ UNCHANGED <<up, idx, txCounter, commit, lock, compaction, used, docs>>

----------------------------------------------------------------------------
\* Tx.commit, the begin record.  TxModel does not look documents up, so a
\* transaction may update or delete any ID.
TxBegin(tx) ==
    /\ up /\ lock = "free"
    /\ txCounter < MaxTx
    /\ txCounter' = txCounter + 1
    /\ AppendEntry(Mark("begin", txCounter'))
    /\ ops' = tx /\ todo' = tx /\ written' = <<>>
    /\ lock' = "commit"
    /\ used' = used \cup {tx[i][1] : i \in DOMAIN tx}
    /\ UNCHANGED <<up, idx, compaction, docs>>

\* Mutant: the index is updated with each record, not after the commit.
TxWrite_IndexesAtOnce ==
    /\ up /\ lock = "commit" /\ todo # <<>>
    /\ AppendEntry(DocRecord(txCounter, Head(todo)[1], Head(todo)[2]))
    /\ todo' = Tail(todo)
    /\ written' = Append(written, <<Head(todo)[1], Seen(Head(todo)[2])>>)
    /\ idx' = [idx EXCEPT ![Head(todo)[1]] = Seen(Head(todo)[2])]
    /\ UNCHANGED <<up, txCounter, ops, lock, compaction, used, docs>>

\* Tx.commit, the record of an operation.
TxWrite ==
    /\ up /\ lock = "commit" /\ todo # <<>>
    /\ AppendEntry(DocRecord(txCounter, Head(todo)[1], Head(todo)[2]))
    /\ todo' = Tail(todo)
    /\ written' = Append(written, <<Head(todo)[1], Seen(Head(todo)[2])>>)
    /\ UNCHANGED <<up, idx, txCounter, ops, lock, compaction, used, docs>>

\* What the operations s, pairs <<id, value>>, make of the documents m: the last
\* one on a document wins.
Apply(m, s) ==
    [id \in Ids |-> LET mine == {i \in DOMAIN s : s[i][1] = id}
                    IN  IF mine = {} THEN m[id] ELSE s[Max(mine)][2]]

\* Tx.commit, the commit record, fsync and the update of the indexes.
TxCommit ==
    /\ up /\ lock = "commit" /\ todo = <<>>
    /\ AppendEntry(Mark("commit", txCounter))
    /\ idx' = Apply(idx, written)
    /\ docs' = Apply(docs, ops)
    /\ ops' = <<>> /\ written' = <<>>
    /\ lock' = "free"
    /\ UNCHANGED <<up, txCounter, todo, compaction, used>>

\* Tx.commit, a record of an operation or the commit record could not be
\* written; some bytes of it may have been.
TxFail(short) ==
    /\ (IF short THEN "short" ELSE "fail") \in Faults
    /\ up /\ lock = "commit"
    /\ IF short THEN AppendEntry(Torn)
       ELSE UNCHANGED <<files, damaged, segs, nextSeg, size>>
    /\ ops' = <<>> /\ todo' = <<>> /\ written' = <<>>
    /\ lock' = "rollback"
    /\ UNCHANGED <<up, idx, txCounter, compaction, used, docs>>

\* Tx.commit, the rollback record; its failure is ignored.
TxRollback(ok) ==
    /\ up /\ lock = "rollback"
    /\ IF ok THEN AppendEntry(Mark("rollback", txCounter))
       ELSE UNCHANGED <<files, damaged, segs, nextSeg, size>>
    /\ lock' = "free"
    /\ UNCHANGED <<up, idx, txCounter, commit, compaction, used, docs>>

----------------------------------------------------------------------------
\* Mutant: deletes are ignored.
Compactable_KeepsDeleted(log) ==
    [id \in Ids |-> LET mine == {i \in DOMAIN log : /\ log[i].kind = "doc" /\ log[i].tx = 0
                                                    /\ log[i].id = id /\ log[i].val # NoDoc}
                    IN  IF mine = {} THEN NoDoc ELSE log[Max(mine)].val]

\* compact, its scan: the last record of each document.  Transactions are
\* ignored, and so are their records.
Compactable(log) ==
    [id \in Ids |-> LET mine == {i \in DOMAIN log : /\ log[i].kind = "doc" /\ log[i].tx = 0
                                                    /\ log[i].id = id}
                    IN  IF mine = {} THEN NoDoc ELSE log[Max(mine)].val]

\* The documents order, a segment full at a time; there is always a segment.
Chunks(m, order) ==
    LET recs == [i \in DOMAIN order |-> DocRecord(0, order[i], m[order[i]])]
        n == (Len(order) + SegCap - 1) \div SegCap
    IN  [k \in 1 .. (IF n = 0 THEN 1 ELSE n) |->
           SubSeq(recs, (k - 1) * SegCap + 1,
                  IF k * SegCap < Len(recs) THEN k * SegCap ELSE Len(recs))]

\* compact, up to the renames: the new segments are in _compact, a directory
\* that loadSegments does not look into.  The map of live documents is
\* iterated in any order.
CompactWrite ==
    /\ Compacts
    /\ up /\ lock = "free"
    /\ LET m == Compactable(Scanned(Known, segs)) IN
       \E order \in SetToSeqs({id \in Ids : m[id] # NoDoc}) :
          newSegs' = Chunks(m, order)
    /\ moved' = 0
    /\ lock' = "rename"
    /\ damaged' = (damaged \/ \E r \in Range(Scanned(Known, segs)) : r.tx # 0)
    /\ UNCHANGED <<files, memory, commit, used, docs>>

\* compact, one rename over seg_<moved>.
CompactRename ==
    /\ lock = "rename" /\ moved < Len(newSegs)
    /\ files' = [n \in DOMAIN files \cup {moved} |->
                    IF n = moved THEN newSegs[moved + 1] ELSE files[n]]
    /\ moved' = moved + 1
    /\ lock' = IF moved' = Len(newSegs) THEN "remove" ELSE "rename"
    /\ UNCHANGED <<memory, commit, newSegs, used, docs, damaged>>

\* Mutant: the old segments are removed from the last one on.
CompactRemove_LastFirst ==
    /\ lock = "remove" /\ moved < Len(segs)
    /\ LET n == segs[Len(segs) - (moved - Len(newSegs))] IN
       files' = [m \in DOMAIN files \ {n} |-> files[m]]
    /\ moved' = moved + 1
    /\ UNCHANGED <<memory, commit, lock, newSegs, used, docs, damaged>>

\* compact, the removal of one of the old segments, those whose position (not
\* number) is beyond the new ones.
CompactRemove ==
    /\ lock = "remove" /\ moved < Len(segs)
    /\ files' = [n \in DOMAIN files \ {segs[moved + 1]} |-> files[n]]
    /\ moved' = moved + 1
    /\ UNCHANGED <<memory, commit, lock, newSegs, used, docs, damaged>>

\* compact, the end: the new segments are adopted and the index rebuilt.
CompactEnd ==
    /\ lock = "remove" /\ moved >= Len(segs)
    /\ segs' = [k \in DOMAIN newSegs |-> k - 1]
    /\ nextSeg' = Len(newSegs)
    /\ size' = [n \in Range(segs') |-> Len(files[n])]
    /\ idx' = Recovered(files, segs')
    /\ lock' = "free"
    /\ newSegs' = <<>> /\ moved' = 0
    /\ damaged' = (damaged \/ DOMAIN files # Range(segs'))
    /\ UNCHANGED <<files, up, txCounter, commit, used, docs>>

----------------------------------------------------------------------------
Next ==
    \/ Open \/ Crash \/ TornWrite \/ FailedWrite
    \/ \E id \in Ids, v \in Vals : Create(id, v) \/ UpdateByID(id, v)
    \/ \E id \in Ids : DeleteByID(id)
    \/ \E tx \in TxOps : TxBegin(tx)
    \/ TxWrite \/ TxCommit
    \/ \E b \in BOOLEAN : TxFail(b) \/ TxRollback(b)
    \/ CompactWrite \/ CompactRename \/ CompactRemove \/ CompactEnd

Spec == Init /\ [][Next]_vars

----------------------------------------------------------------------------
\* README, Crash recovery: if the process crashes now, the next Open finds
\* exactly the acknowledged documents: no write that returned is missing and no
\* transaction is there in part, whatever was under way: a write cut short, a
\* commit, or a compaction into one segment.  It holds until damaged.
RecoversAcknowledged ==
    ~damaged /\ ~Exposed => Recovered(files, SegsOf(files)) = docs

\* While no writer holds the lock, FindByID answers for every ID with what the
\* last acknowledged write of it said, across any number of restarts and
\* compactions, until damaged.
ReadsAcknowledged == ~damaged /\ up /\ lock = "free" => idx = docs

\* README, Compact: it keeps "the latest version of each document": no step of
\* the engine but a write changes what FindByID answers.
CompactionKeepsDocs == up /\ lock = "free" => idx = docs
=============================================================================
