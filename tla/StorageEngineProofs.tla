------------------------ MODULE StorageEngineProofs ------------------------
(***************************************************************************)
(* What is read, and what a restart recovers, is what was acknowledged,    *)
(* for every set of documents, every size of segments and every mixture of *)
(* faults, transactions and compactions.  The invariant Inv follows the    *)
(* log: an entry that is written makes it one record longer, and           *)
(* rebuildIndex is one Replay further; a compaction replaces a log by one  *)
(* that ends in the same documents.                                        *)
(***************************************************************************)
EXTENDS StorageEngine, SequenceTheorems, FiniteSetTheorems, WellFoundedInduction, TLAPS

Ops == Ids \X (Vals \cup {NoDoc})
DocRecords == [kind : {"doc"}, tx : Nat, id : Ids, val : Vals \cup {NoDoc}]
Marks == [kind : {"begin", "commit", "rollback"}, tx : Nat \ {0}]
Records == DocRecords \cup Marks

\* A segment: only its last entry may be torn.
IsSegment(s) ==
    /\ s \in Seq(Records \cup {Torn})
    /\ \A i \in 1 .. Len(s) - 1 : s[i] # Torn

\* ids are the numbers D in ascending order.
Ascending(ids, D) ==
    /\ ids \in Seq(Nat)
    /\ D = {ids[i] : i \in 1 .. Len(ids)}
    /\ \A i, j \in 1 .. Len(ids) : i < j => ids[i] < ids[j]

\* The records of the files, and what rebuildIndex makes of them.
Log(fs) == Scanned(fs, SegsOf(fs))
State(fs) == Replayed(Log(fs))

----------------------------------------------------------------------------
\* The numbers of the files are those of a list that begins with 0.
Numbered ==
    ~Exposed => /\ Ascending(SegsOf(files), DOMAIN files)
                /\ SegsOf(files) # <<>> => SegsOf(files)[1] = 0

\* The engine knows its files: its sizes are theirs, but for a torn entry.
Loaded ==
    /\ Ascending(segs, DOMAIN files) /\ segs # <<>> /\ segs[1] = 0
    /\ nextSeg \in Nat /\ \A n \in DOMAIN files : n < nextSeg
    /\ size \in [DOMAIN files -> Nat]
    /\ \A n \in DOMAIN files :
          \/ size[n] = Len(files[n])
          \/ size[n] + 1 = Len(files[n]) /\ files[n][Len(files[n])] = Torn

\* It does until a compaction replaces the first of them.
Opened ==
    /\ ~up => lock = "free"
    /\ up => txCounter \in Nat
    /\ lock = "rollback" => txCounter # 0
    /\ up /\ lock # "remove" /\ (lock = "rename" => moved = 0) => Loaded

\* The last operation on each document, as the records of a transaction.
LastOf(s, tx) ==
    {DocRecord(tx, s[i][1], s[i][2]) :
        i \in {i \in 1 .. Len(s) : \A j \in 1 .. Len(s) : j > i => s[j][1] # s[i][1]}}

\* While a transaction is written, rebuildIndex would find it open, with what is
\* written of it.
Committing ==
    lock = "commit" =>
        /\ txCounter # 0 /\ ops \in Seq(Ops) /\ todo \in Seq(Ops) /\ written \in Seq(Ops)
        /\ ops = written \o todo
        /\ txCounter \in State(files).open
        /\ {e \in State(files).txs : e.tx = txCounter} = LastOf(written, txCounter)

\* A log without transactions whose last record of a document is what it is now.
Latest(log) ==
    /\ log \in Seq(DocRecords)
    /\ \A i \in 1 .. Len(log) :
          /\ log[i].tx = 0
          /\ (\A j \in 1 .. Len(log) : j > i => log[j].id # log[i].id)
                => log[i].val = docs[log[i].id]

\* The new segments hold every document as it is; while there is one, what is left
\* of the old ones, replayed after it, changes nothing.
Compacting ==
    lock \in {"rename", "remove"} =>
        /\ segs \in Seq(Nat) /\ segs # <<>> /\ segs[1] = 0
        /\ \A i, j \in 1 .. Len(segs) : i < j => segs[i] < segs[j]
        /\ newSegs \in Seq(Seq(DocRecords)) /\ newSegs # <<>>
        /\ \A k \in 1 .. Len(newSegs) : \A i \in 1 .. Len(newSegs[k]) :
              newSegs[k][i].tx = 0 /\ newSegs[k][i].val = docs[newSegs[k][i].id]
        /\ \A id \in Ids : docs[id] # NoDoc =>
              \E k \in 1 .. Len(newSegs) : \E i \in 1 .. Len(newSegs[k]) : newSegs[k][i].id = id
        /\ moved \in Nat
        /\ lock = "rename" => moved < Len(newSegs)
        /\ lock = "remove" => moved >= Len(newSegs)
        /\ \A k \in 1 .. Len(newSegs) : k <= moved =>
              k - 1 \in DOMAIN files /\ files[k - 1] = newSegs[k]
        /\ lock = "rename" /\ moved = 0 => Latest(Scanned(files, segs))
        /\ lock = "remove" /\ Len(newSegs) = 1 =>
              /\ moved <= Len(segs)
              /\ Ascending(<< 0 >> \o SubSeq(segs, moved + 1, Len(segs)), DOMAIN files)
              /\ Latest(Scanned(files, SubSeq(segs, moved + 1, Len(segs))))

Segments == \A n \in DOMAIN files : IsSegment(files[n])

\* What holds as long as nothing is damaged.
Good ==
    /\ lock \in {"free", "commit", "rollback", "rename", "remove"}
    /\ docs \in [Ids -> Vals \cup {NoDoc}]
    /\ Segments /\ Numbered /\ Opened
    /\ ~Exposed => State(files).primary = docs
    /\ up => idx = docs
    /\ Committing /\ Compacting

Inv == ~damaged => Good

----------------------------------------------------------------------------
\* A set of naturals has a least element.
LEMMA LeastNat ==
    ASSUME NEW T \in SUBSET Nat, T # {}
    PROVE  \E n \in T : \A m \in T : n <= m
<1> DEFINE less == OpToRel(<, Nat)
<1>1. IsWellFoundedOn(less, Nat)
    BY NatLessThanWellFounded
<1>2. \A n, m \in Nat : m < n => <<m, n>> \in less
    BY DEF OpToRel
<1> HIDE DEF less
<1>3. PICK n \in T : \A m \in T : ~(<<m, n>> \in less)
    BY <1>1, WFMin, Zenon
<1>4. ASSUME NEW m \in T PROVE n <= m
    <2>1. ~(m < n)
        BY <1>2, <1>3, Zenon
    <2> QED BY <2>1
<1> QED BY <1>4

\* What holds of 0 and goes from each number to the next holds up to n: S is the set
\* of the numbers it holds of.
LEMMA Induction ==
    ASSUME NEW n \in Nat, NEW S, 0 \in S, \A k \in 1 .. n : k - 1 \in S => k \in S
    PROVE  \A k \in 0 .. n : k \in S
<1> DEFINE bad == {k \in 0 .. n : k \notin S}
<1> SUFFICES ASSUME bad # {} PROVE FALSE
    OBVIOUS
<1>1. bad \in SUBSET Nat
    OBVIOUS
<1> HIDE DEF bad
<1>2. PICK k \in bad : \A m \in bad : k <= m
    BY <1>1, LeastNat
<1>3. k \in 0 .. n /\ k \notin S
    BY <1>2 DEF bad
<1>4. k \in 1 .. n /\ k - 1 \in 0 .. n /\ ~(k <= k - 1)
    BY <1>3
<1>5. k - 1 \in S
    BY <1>2, <1>4 DEF bad
<1> QED BY <1>3, <1>4, <1>5

\* Two functions that start alike and go on alike are alike.
LEMMA Agree ==
    ASSUME NEW n \in Nat, NEW f, NEW g, f[0] = g[0],
           \A k \in 1 .. n : f[k - 1] = g[k - 1] => f[k] = g[k]
    PROVE  f[n] = g[n]
<1> DEFINE S == {k \in 0 .. n : f[k] = g[k]}
<1>1. 0 \in S /\ \A k \in 1 .. n : k - 1 \in S => k \in S
    OBVIOUS
<1> HIDE DEF S
<1>2. n \in S
    BY <1>1, Induction
<1> QED BY <1>2 DEF S

\* A set of positions that is not empty has a last one.
LEMMA LastPosition ==
    ASSUME NEW n \in Nat, NEW T \in SUBSET (1 .. n), T # {}
    PROVE  Max(T) \in T /\ \A x \in T : x <= Max(T)
<1> DEFINE U == {n - x : x \in T}
<1>0. \A x \in T : x \in 1 .. n /\ n - x \in Nat
    OBVIOUS
<1>1. U \in SUBSET Nat /\ U # {}
    BY <1>0
<1> HIDE DEF U
<1>2. PICK u \in U : \A m \in U : u <= m
    BY <1>1, LeastNat
<1>3. PICK x \in T : u = n - x
    BY <1>2 DEF U
<1>4. \A y \in T : n - x <= n - y
    BY <1>2, <1>3 DEF U
<1>5. \A y \in T : y <= x
    BY <1>4
<1>6. \E z \in T : \A y \in T : z >= y
    BY <1>5
<1>7. Max(T) \in T /\ \A y \in T : Max(T) >= y
    BY <1>6 DEF Max
<1> QED BY <1>7

\* loadSegments finds the segments in ascending order.
LEMMA SegsOfAscending ==
    ASSUME NEW fs, NEW ids, Ascending(ids, DOMAIN fs)
    PROVE  SegsOf(fs) = ids
<1> DEFINE first(k) == {ids[i] : i \in 1 .. k}
<1>0. ids \in Seq(Nat) /\ Len(ids) \in Nat /\ \A i \in 1 .. Len(ids) : ids[i] \in Nat
    BY DEF Ascending
<1>1. \A i, j \in 1 .. Len(ids) : i < j => ids[i] < ids[j]
    BY DEF Ascending
<1>2. \A i, j \in 1 .. Len(ids) : ids[i] = ids[j] => i = j
    BY <1>0, <1>1
<1>3. ASSUME NEW k \in 0 .. Len(ids) PROVE Cardinality(first(k)) = k
    <2> DEFINE f == [i \in 1 .. k |-> ids[i]]
    <2>0. k \in Nat /\ \A i \in 1 .. k : i \in 1 .. Len(ids)
        BY <1>0
    <2>1. f \in Bijection(1 .. k, first(k))
        <3>1. f \in [1 .. k -> first(k)]
            OBVIOUS
        <3>2. \A a, b \in 1 .. k : f[a] = f[b] => a = b
            BY <1>2, <2>0
        <3>3. \A t \in first(k) : \E a \in 1 .. k : f[a] = t
            OBVIOUS
        <3> HIDE DEF f, first
        <3> QED BY <3>1, <3>2, <3>3 DEF Bijection, Injection, Surjection, IsInjective
    <2>2. ExistsBijection(1 .. k, first(k)) /\ k \in Nat
        BY <2>0, <2>1 DEF ExistsBijection
    <2> QED BY <2>2, FS_CountingElements
<1>4. DOMAIN fs = first(Len(ids))
    BY DEF Ascending
<1>5. ASSUME NEW k \in 1 .. Len(ids)
      PROVE  Cardinality({m \in DOMAIN fs : m < ids[k]}) = k - 1
    <2>1. {m \in DOMAIN fs : m < ids[k]} = first(k - 1)
        <3>1. \A i \in 1 .. Len(ids) : ids[i] < ids[k] <=> i \in 1 .. k - 1
            BY <1>0, <1>1
        <3>2. k - 1 \in 0 .. Len(ids)
            BY <1>0
        <3> QED BY <1>0, <1>4, <3>1, <3>2
    <2>2. k - 1 \in 0 .. Len(ids)
        BY <1>0
    <2> QED BY <2>1, <2>2, <1>3
<1>6. Cardinality(DOMAIN fs) = Len(ids)
    <2>1. Len(ids) \in 0 .. Len(ids)
        BY <1>0
    <2> QED BY <1>3, <1>4, <2>1
<1>7. ASSUME NEW k \in 1 .. Len(ids)
      PROVE  (CHOOSE n \in DOMAIN fs : Cardinality({m \in DOMAIN fs : m < n}) = k - 1) = ids[k]
    <2> DEFINE P(n) == Cardinality({m \in DOMAIN fs : m < n}) = k - 1
    <2>1. ids[k] \in DOMAIN fs /\ P(ids[k])
        BY <1>4, <1>5
    <2>2. ASSUME NEW n \in DOMAIN fs, P(n) PROVE n = ids[k]
        <3>1. PICK j \in 1 .. Len(ids) : n = ids[j]
            BY <1>4
        <3>2. j - 1 = k - 1
            BY <2>2, <3>1, <1>5
        <3>3. j = k
            BY <3>2
        <3> QED BY <3>1, <3>3
    <2> HIDE DEF P
    <2>3. (CHOOSE n \in DOMAIN fs : P(n)) = ids[k]
        BY <2>1, <2>2, Zenon
    <2> QED BY <2>3 DEF P
<1> HIDE DEF first
<1>8. SegsOf(fs) = [k \in 1 .. Len(ids) |-> ids[k]]
    BY <1>6, <1>7 DEF SegsOf
<1>9. ids = [k \in 1 .. Len(ids) |-> ids[k]]
    BY <1>0
<1> QED BY <1>8, <1>9

----------------------------------------------------------------------------
\* A torn entry is not a record.
LEMMA TornIsNone == Torn \notin Records
BY DEF Torn, Records, DocRecords, Marks

\* A segment that is whole is read to its end.
LEMMA ReadableWhole ==
    ASSUME NEW s \in Seq(Records)
    PROVE  Readable(s) = s
<1> DEFINE Q(k) == (\A i \in 1 .. k : s[i] # Torn) /\ (k = Len(s) \/ s[k + 1] = Torn)
<1>1. Len(s) \in Nat /\ \A i \in 1 .. Len(s) : s[i] # Torn
    BY TornIsNone
<1>2. Len(s) \in 0 .. Len(s) /\ Q(Len(s))
    BY <1>1
<1>3. \A k \in 0 .. Len(s) : Q(k) => k = Len(s)
    BY <1>1
<1>4. Readable(s) = SubSeq(s, 1, CHOOSE k \in 0 .. Len(s) : Q(k))
    BY DEF Readable
<1> HIDE DEF Q
<1>5. (CHOOSE k \in 0 .. Len(s) : Q(k)) = Len(s)
    BY <1>2, <1>3
<1> QED BY <1>4, <1>5, SubSeqFull

\* A segment that ends in a torn entry is read up to it.
LEMMA ReadableTorn ==
    ASSUME NEW s \in Seq(Records)
    PROVE  Readable(Append(s, Torn)) = s
<1> DEFINE t == Append(s, Torn)
           Q(k) == (\A i \in 1 .. k : t[i] # Torn) /\ (k = Len(t) \/ t[k + 1] = Torn)
<1>1. Len(s) \in Nat /\ \A i \in 1 .. Len(s) : s[i] # Torn
    BY TornIsNone
<1>2. /\ t \in Seq(Records \cup {Torn}) /\ Len(t) = Len(s) + 1
      /\ \A i \in 1 .. Len(s) : t[i] = s[i]
      /\ t[Len(s) + 1] = Torn
    OBVIOUS
<1>3. Readable(t) = SubSeq(t, 1, CHOOSE k \in 0 .. Len(t) : Q(k))
    BY DEF Readable
<1> HIDE DEF t
<1>4. Len(s) \in 0 .. Len(t) /\ Q(Len(s))
    BY <1>1, <1>2
<1>5. \A k \in 0 .. Len(t) : Q(k) => k = Len(s)
    BY <1>1, <1>2
<1> HIDE DEF Q
<1>6. (CHOOSE k \in 0 .. Len(t) : Q(k)) = Len(s)
    BY <1>4, <1>5
<1> DEFINE u == SubSeq(t, 1, Len(s))
<1>7. u \in Seq(Records \cup {Torn}) /\ Len(u) = Len(s) /\ \A i \in 1 .. Len(s) : u[i] = t[i]
    BY <1>1, <1>2
<1> HIDE DEF u
<1>8. s \in Seq(Records \cup {Torn})
    OBVIOUS
<1>9. u = s
    BY <1>1, <1>2, <1>7, <1>8, SeqEqual
<1> QED BY <1>3, <1>6, <1>9 DEF t, u

\* A segment is whole, or whole but for its last entry.
LEMMA SegmentShape ==
    ASSUME NEW s, IsSegment(s)
    PROVE  s \in Seq(Records) \/ \E t \in Seq(Records) : s = Append(t, Torn)
<1>1. s \in Seq(Records \cup {Torn}) /\ Len(s) \in Nat
    BY DEF IsSegment
<1>2. \A i \in 1 .. Len(s) - 1 : s[i] \in Records
    BY <1>1 DEF IsSegment
<1>3. CASE Len(s) = 0 \/ s[Len(s)] # Torn
    <2>1. \A i \in 1 .. Len(s) : s[i] \in Records
        BY <1>1, <1>2, <1>3
    <2>2. s \in [1 .. Len(s) -> Records]
        BY <1>1, <2>1
    <2>3. \A n \in Nat : \A t \in [1 .. n -> Records] : t \in Seq(Records)
        OBVIOUS
    <2> QED BY <1>1, <2>2, <2>3
<1>4. CASE Len(s) # 0 /\ s[Len(s)] = Torn
    <2> DEFINE t == [i \in 1 .. Len(s) - 1 |-> s[i]]
    <2>1. t \in [1 .. Len(s) - 1 -> Records] /\ Len(s) - 1 \in Nat
        BY <1>1, <1>2, <1>4
    <2>2. \A i \in 1 .. Len(s) - 1 : t[i] = s[i]
        OBVIOUS
    <2> HIDE DEF t
    <2>3. t \in Seq(Records) /\ Len(t) = Len(s) - 1
        BY <2>1
    <2> DEFINE u == Append(t, Torn)
    <2>4. /\ u \in Seq(Records \cup {Torn}) /\ Len(u) = Len(s)
          /\ \A i \in 1 .. Len(s) : u[i] = s[i]
        BY <1>1, <1>4, <2>2, <2>3
    <2> HIDE DEF u
    <2>5. u = s
        BY <1>1, <2>4, SeqEqual
    <2> QED BY <2>3, <2>5 DEF u
<1> QED BY <1>1, <1>3, <1>4

\* What is read of a segment is records.
LEMMA ReadableFacts ==
    ASSUME NEW s, IsSegment(s)
    PROVE  Readable(s) \in Seq(Records)
<1>1. CASE s \in Seq(Records)
    BY <1>1, ReadableWhole
<1>2. ASSUME NEW t \in Seq(Records), s = Append(t, Torn) PROVE Readable(s) \in Seq(Records)
    BY <1>2, ReadableTorn
<1> QED BY <1>1, <1>2, SegmentShape

\* An entry goes after a segment that is whole.
LEMMA SegmentAppend ==
    ASSUME NEW s \in Seq(Records), NEW e \in Records \cup {Torn}
    PROVE  IsSegment(Append(s, e))
<1>1. \A i \in 1 .. Len(s) : s[i] # Torn
    BY TornIsNone
<1> QED BY <1>1 DEF IsSegment

----------------------------------------------------------------------------
\* f is the scan of the first n of the segments ids, one after the other.
ScanOf(f, n, fs, ids) ==
    f = [k \in 0 .. n |-> IF k = 0 THEN <<>> ELSE f[k - 1] \o Readable(fs[ids[k]])]
IsScan(f, n, fs, ids) ==
    f[0] = <<>> /\ \A k \in 1 .. n : f[k] = f[k - 1] \o Readable(fs[ids[k]])

\* There is such a function.
LEMMA ScanExists ==
    ASSUME NEW fs, NEW ids, NEW n \in Nat
    PROVE  \E f : ScanOf(f, n, fs, ids)
<1> DEFINE S == {k \in Nat : \E f : ScanOf(f, k, fs, ids)}
<1>1. 0 \in S
    <2> DEFINE f == [k \in 0 .. 0 |-> <<>>]
    <2>1. f = [k \in 0 .. 0 |-> IF k = 0 THEN <<>> ELSE f[k - 1] \o Readable(fs[ids[k]])]
        OBVIOUS
    <2>2. ScanOf(f, 0, fs, ids)
        BY <2>1 DEF ScanOf
    <2> QED BY <2>2
<1>2. ASSUME NEW m \in 1 .. n, m - 1 \in S PROVE m \in S
    <2>1. PICK f : ScanOf(f, m - 1, fs, ids)
        BY <1>2
    <2>2. m \in Nat /\ m # 0
        OBVIOUS
    <2> DEFINE new(p, k) == p \o Readable(fs[ids[k]])
               g == [k \in 0 .. m |-> IF k = m THEN new(f[m - 1], m) ELSE f[k]]
               h == [k \in 0 .. m |-> IF k = 0 THEN <<>> ELSE new(g[k - 1], k)]
    <2>3. \A k \in 0 .. m - 1 : f[k] = IF k = 0 THEN <<>> ELSE new(f[k - 1], k)
        BY <2>1 DEF ScanOf
    <2> HIDE DEF new
    <2>4. \A k \in 0 .. m - 1 : g[k] = f[k]
        BY <2>2
    <2>5. g[m] = new(f[m - 1], m)
        BY <2>2
    <2>6. \A k \in 1 .. m : g[k - 1] = f[k - 1]
        BY <2>2, <2>4
    <2>7. ASSUME NEW k \in 0 .. m PROVE g[k] = h[k]
        <3>1. CASE k = 0
            BY <3>1, <2>2, <2>3, <2>4
        <3>2. CASE k \in 1 .. m - 1
            <4>1. g[k] = new(f[k - 1], k) /\ g[k - 1] = f[k - 1]
                BY <3>2, <2>3, <2>4, <2>6
            <4>2. h[k] = new(g[k - 1], k)
                BY <3>2
            <4> QED BY <4>1, <4>2, Zenon
        <3>3. CASE k = m
            <4>1. g[k - 1] = f[k - 1] /\ k # 0
                BY <3>3, <2>2, <2>6
            <4>2. h[k] = new(g[k - 1], k)
                BY <4>1
            <4> QED BY <3>3, <4>1, <4>2, <2>5, Zenon
        <3> QED BY <2>2, <3>1, <3>2, <3>3
    <2>8. g = h
        BY <2>7
    <2>9. ScanOf(g, m, fs, ids)
        <3> HIDE DEF g
        <3> QED BY <2>8 DEF ScanOf, new
    <2> QED BY <2>2, <2>9
<1> HIDE DEF S
<1>3. n \in S
    BY <1>1, <1>2, Induction
<1> QED BY <1>3 DEF S

\* Scanned is the scan of all the segments.
LEMMA ScannedIs ==
    ASSUME NEW fs, NEW ids, NEW n \in Nat, Len(ids) = n
    PROVE  \E f : IsScan(f, n, fs, ids) /\ Scanned(fs, ids) = f[n]
<1> DEFINE R(f) == ScanOf(f, n, fs, ids)
<1>1. \E f : R(f)
    BY ScanExists
<1>2. Scanned(fs, ids) = (CHOOSE f : R(f))[n]
    BY DEF Scanned, ScanOf
<1> HIDE DEF R
<1>3. R(CHOOSE f : R(f))
    BY <1>1
<1>4. PICK f : R(f) /\ Scanned(fs, ids) = f[n]
    BY <1>2, <1>3
<1> DEFINE new(p, k) == p \o Readable(fs[ids[k]])
<1>5. f = [k \in 0 .. n |-> IF k = 0 THEN <<>> ELSE new(f[k - 1], k)]
    BY <1>4 DEF R, ScanOf
<1> HIDE DEF new
<1>6. 0 \in 0 .. n /\ \A k \in 1 .. n : k \in 0 .. n /\ k # 0
    OBVIOUS
<1>7. \A k \in 0 .. n : f[k] = IF k = 0 THEN <<>> ELSE new(f[k - 1], k)
    BY <1>5, Zenon
<1>8. f[0] = <<>>
    BY <1>6, <1>7, Zenon
<1>9. \A k \in 1 .. n : f[k] = new(f[k - 1], k)
    BY <1>6, <1>7, Zenon
<1>10. IsScan(f, n, fs, ids)
    BY <1>8, <1>9, Zenon DEF new, IsScan
<1> QED BY <1>4, <1>10

\* Segments with the same records give the same log.
LEMMA ScannedSame ==
    ASSUME NEW fs, NEW gs, NEW ids, NEW jds, NEW n \in Nat, Len(ids) = n, Len(jds) = n,
           \A i \in 1 .. n : Readable(fs[ids[i]]) = Readable(gs[jds[i]])
    PROVE  Scanned(fs, ids) = Scanned(gs, jds)
<1>1. PICK f : IsScan(f, n, fs, ids) /\ Scanned(fs, ids) = f[n]
    BY ScannedIs
<1>2. PICK g : IsScan(g, n, gs, jds) /\ Scanned(gs, jds) = g[n]
    BY ScannedIs
<1>3. f[0] = g[0]
    BY <1>1, <1>2, Zenon DEF IsScan
<1>4. ASSUME NEW i \in 1 .. n, f[i - 1] = g[i - 1] PROVE f[i] = g[i]
    <2>1. f[i] = f[i - 1] \o Readable(fs[ids[i]])
        BY <1>1, Zenon DEF IsScan
    <2>2. g[i] = g[i - 1] \o Readable(gs[jds[i]])
        BY <1>2, Zenon DEF IsScan
    <2> QED BY <1>4, <2>1, <2>2
<1>5. f[n] = g[n]
    BY <1>3, <1>4, Agree
<1> QED BY <1>1, <1>2, <1>5

\* No segments, no records.
LEMMA ScannedEmpty ==
    ASSUME NEW fs
    PROVE  Scanned(fs, <<>>) = <<>>
<1>1. Len(<<>>) = 0 /\ 0 \in Nat
    OBVIOUS
<1>2. PICK f : IsScan(f, 0, fs, <<>>) /\ Scanned(fs, <<>>) = f[0]
    BY <1>1, ScannedIs
<1> QED BY <1>2 DEF IsScan

\* One segment more adds its records.
LEMMA ScannedAppend ==
    ASSUME NEW fs, NEW gs, NEW ids \in Seq(Nat), NEW x \in Nat,
           \A i \in 1 .. Len(ids) : Readable(fs[ids[i]]) = Readable(gs[ids[i]])
    PROVE  Scanned(gs, Append(ids, x)) = Scanned(fs, ids) \o Readable(gs[x])
<1> DEFINE jds == Append(ids, x)
           n == Len(ids)
<1>1. /\ n \in Nat /\ Len(jds) = n + 1 /\ jds[n + 1] = x
      /\ \A i \in 1 .. n : jds[i] = ids[i]
    OBVIOUS
<1>a. n + 1 \in Nat /\ n + 1 \in 1 .. n + 1 /\ (n + 1) - 1 = n
      /\ \A i \in 1 .. n : i \in 1 .. n + 1
    BY <1>1
<1> HIDE DEF n, jds
<1>2. PICK f : IsScan(f, n, fs, ids) /\ Scanned(fs, ids) = f[n]
    BY <1>1, ScannedIs DEF n
<1>3. PICK g : IsScan(g, n + 1, gs, jds) /\ Scanned(gs, jds) = g[n + 1]
    BY <1>1, <1>a, ScannedIs
<1>4. f[n] = g[n]
    <2>1. f[0] = g[0]
        BY <1>2, <1>3, Zenon DEF IsScan
    <2>2. ASSUME NEW i \in 1 .. n, f[i - 1] = g[i - 1] PROVE f[i] = g[i]
        <3>1. f[i] = f[i - 1] \o Readable(fs[ids[i]])
            BY <1>2, Zenon DEF IsScan
        <3>2. g[i] = g[i - 1] \o Readable(gs[jds[i]])
            BY <1>3, <1>a, Zenon DEF IsScan
        <3>3. Readable(fs[ids[i]]) = Readable(gs[jds[i]])
            BY <1>1 DEF n
        <3> QED BY <2>2, <3>1, <3>2, <3>3
    <2> QED BY <1>1, <2>1, <2>2, Agree
<1>5. g[n + 1] = g[(n + 1) - 1] \o Readable(gs[jds[n + 1]])
    BY <1>3, <1>a, Zenon DEF IsScan
<1>6. g[n + 1] = f[n] \o Readable(gs[x])
    BY <1>1, <1>4, <1>5, <1>a
<1> QED BY <1>2, <1>3, <1>6 DEF jds

\* The elements of a sequence.
El(s) == {s[i] : i \in 1 .. Len(s)}

\* Those of a concatenation.
LEMMA ElConcat ==
    ASSUME NEW S, NEW s \in Seq(S), NEW t \in Seq(S)
    PROVE  El(s \o t) = El(s) \cup El(t)
<1> DEFINE u == s \o t
<1>1. /\ Len(s) \in Nat /\ Len(t) \in Nat /\ Len(u) = Len(s) + Len(t)
      /\ \A i \in 1 .. Len(s) + Len(t) : u[i] = IF i <= Len(s) THEN s[i] ELSE t[i - Len(s)]
    BY ConcatProperties
<1> HIDE DEF u
<1>2. ASSUME NEW x \in El(u) PROVE x \in El(s) \cup El(t)
    <2>1. PICK i \in 1 .. Len(s) + Len(t) : x = u[i]
        BY <1>1 DEF El
    <2>2. CASE i <= Len(s)
        BY <1>1, <2>1, <2>2 DEF El
    <2>3. CASE ~(i <= Len(s))
        <3>1. x = t[i - Len(s)] /\ i - Len(s) \in 1 .. Len(t)
            BY <1>1, <2>1, <2>3
        <3> QED BY <3>1 DEF El
    <2> QED BY <2>2, <2>3
<1>3. ASSUME NEW x \in El(s) PROVE x \in El(u)
    <2>1. PICK i \in 1 .. Len(s) : x = s[i]
        BY DEF El
    <2>2. i \in 1 .. Len(u) /\ u[i] = x
        BY <1>1, <2>1
    <2> QED BY <2>2 DEF El
<1>4. ASSUME NEW x \in El(t) PROVE x \in El(u)
    <2>1. PICK i \in 1 .. Len(t) : x = t[i]
        BY DEF El
    <2>2. i + Len(s) \in 1 .. Len(s) + Len(t) /\ ~(i + Len(s) <= Len(s)) /\ (i + Len(s)) - Len(s) = i
        BY <1>1
    <2>3. i + Len(s) \in 1 .. Len(u) /\ u[i + Len(s)] = x
        BY <1>1, <2>1, <2>2
    <2> QED BY <2>3 DEF El
<1>5. El(u) = El(s) \cup El(t)
    BY <1>2, <1>3, <1>4
<1> QED BY <1>5 DEF u

\* The log is made of the records that are read of the segments.
LEMMA ScannedRecords ==
    ASSUME NEW fs, NEW ids \in Seq(Nat),
           \A i \in 1 .. Len(ids) : IsSegment(fs[ids[i]])
    PROVE  /\ Scanned(fs, ids) \in Seq(Records)
           /\ \A x : x \in El(Scanned(fs, ids)) <=>
                 \E i \in 1 .. Len(ids) : x \in El(Readable(fs[ids[i]]))
<1> DEFINE n == Len(ids)
           R(i) == Readable(fs[ids[i]])
<1>1. n \in Nat /\ \A i \in 1 .. n : R(i) \in Seq(Records)
    BY ReadableFacts
<1> HIDE DEF n
<1>2. PICK f : IsScan(f, n, fs, ids) /\ Scanned(fs, ids) = f[n]
    BY <1>1, ScannedIs DEF n
<1>3. f[0] = <<>> /\ \A i \in 1 .. n : f[i] = f[i - 1] \o R(i)
    BY <1>2, Zenon DEF IsScan
<1> HIDE DEF R
<1> DEFINE S == {k \in 0 .. n : /\ f[k] \in Seq(Records)
                               /\ \A x : x \in El(f[k]) <=> \E i \in 1 .. k : x \in El(R(i))}
<1>4. 0 \in S
    <2>1. <<>> \in Seq(Records) /\ El(<<>>) = {} /\ 0 \in 0 .. n
        BY <1>1 DEF El
    <2>2. \A i : i \notin 1 .. 0
        OBVIOUS
    <2>3. f[0] \in Seq(Records) /\ \A x : x \notin El(f[0])
        BY <1>3, <2>1
    <2>4. \A x : x \in El(f[0]) <=> \E i \in 1 .. 0 : x \in El(R(i))
        BY <2>2, <2>3, Zenon
    <2> QED BY <2>1, <2>3, <2>4
<1>5. ASSUME NEW k \in 1 .. n, k - 1 \in S PROVE k \in S
    <2>1. f[k - 1] \in Seq(Records) /\ R(k) \in Seq(Records) /\ f[k] = f[k - 1] \o R(k)
        BY <1>1, <1>3, <1>5
    <2>2. f[k] \in Seq(Records) /\ El(f[k]) = El(f[k - 1]) \cup El(R(k))
        BY <2>1, ConcatProperties, ElConcat
    <2>3. \A x : x \in El(f[k - 1]) <=> \E i \in 1 .. k - 1 : x \in El(R(i))
        BY <1>5
    <2>4. \A i : i \in 1 .. k <=> (i \in 1 .. k - 1 \/ i = k)
        OBVIOUS
    <2>5. \A x : x \in El(f[k]) <=> \E i \in 1 .. k : x \in El(R(i))
        BY <2>2, <2>3, <2>4, Zenon
    <2>6. k \in 0 .. n
        OBVIOUS
    <2> QED BY <2>2, <2>5, <2>6
<1> HIDE DEF S
<1>6. n \in S
    <2>1. n \in 0 .. n
        BY <1>1
    <2> QED BY <1>1, <1>4, <1>5, <2>1, Induction
<1>7. f[n] \in Seq(Records) /\ \A x : x \in El(f[n]) <=> \E i \in 1 .. n : x \in El(R(i))
    BY <1>6 DEF S
<1> QED BY <1>2, <1>7 DEF n, R

\* The log is the records of the first segment and the log of the others.
LEMMA ScannedTail ==
    ASSUME NEW fs, NEW ids \in Seq(Nat), ids # <<>>,
           \A i \in 1 .. Len(ids) : IsSegment(fs[ids[i]])
    PROVE  Scanned(fs, ids) = Readable(fs[ids[1]]) \o Scanned(fs, Tail(ids))
<1> DEFINE n == Len(ids)
           m == n - 1
           jds == Tail(ids)
           R(i) == Readable(fs[ids[i]])
           Q(i) == Readable(fs[jds[i]])
<1>1. /\ n \in Nat /\ n # 0 /\ m \in Nat /\ Len(jds) = m
      /\ \A i \in 1 .. m : jds[i] = ids[i + 1]
    OBVIOUS
<1>2. \A i \in 1 .. n : R(i) \in Seq(Records)
    BY ReadableFacts
<1>a. Len(ids) = n /\ n - 1 = m
    OBVIOUS
<1> HIDE DEF jds, n, m
<1>3. \A i \in 1 .. m : Q(i) = R(i + 1)
    BY <1>1
<1>4. PICK f : IsScan(f, n, fs, ids) /\ Scanned(fs, ids) = f[n]
    BY <1>1, <1>a, ScannedIs
<1>b. m \in Nat /\ Len(jds) = m
    BY <1>1
<1>5. PICK g : IsScan(g, m, fs, jds) /\ Scanned(fs, jds) = g[m]
    BY <1>b, ScannedIs, Zenon
<1>6. f[0] = <<>> /\ \A i \in 1 .. n : f[i] = f[i - 1] \o R(i)
    BY <1>4, Zenon DEF IsScan
<1>7. g[0] = <<>> /\ \A i \in 1 .. m : g[i] = g[i - 1] \o Q(i)
    BY <1>5, Zenon DEF IsScan
<1> HIDE DEF R, Q
<1> DEFINE S == {k \in 0 .. m : g[k] \in Seq(Records) /\ f[k + 1] = R(1) \o g[k]}
<1>8. 0 \in S
    <2>1. 1 \in 1 .. n /\ 1 - 1 = 0 /\ 0 + 1 = 1 /\ 0 \in 0 .. m
        BY <1>1, <1>a
    <2>2. R(1) \in Seq(Records) /\ <<>> \in Seq(Records)
        BY <1>2, <2>1
    <2>3. f[1] = f[1 - 1] \o R(1)
        BY <1>6, <2>1, Zenon
    <2>4. f[1] = <<>> \o R(1)
        BY <1>6, <2>1, <2>3
    <2>5. <<>> \o R(1) = R(1) /\ R(1) \o <<>> = R(1)
        BY <2>2, ConcatEmptySeq
    <2> QED BY <1>7, <2>1, <2>2, <2>4, <2>5
<1>9. ASSUME NEW k \in 1 .. m, k - 1 \in S PROVE k \in S
    <2>1. /\ k + 1 \in 1 .. n /\ (k + 1) - 1 = k /\ (k - 1) + 1 = k /\ k \in 0 .. m
          /\ 1 \in 1 .. n
        BY <1>1, <1>a
    <2>2. g[k - 1] \in Seq(Records) /\ f[k] = R(1) \o g[k - 1]
        BY <1>9, <2>1
    <2>3. f[k + 1] = f[k] \o R(k + 1)
        <3>1. f[k + 1] = f[(k + 1) - 1] \o R(k + 1)
            BY <1>6, <2>1, Zenon
        <3> QED BY <2>1, <3>1
    <2>4. g[k] = g[k - 1] \o R(k + 1)
        <3>1. g[k] = g[k - 1] \o Q(k)
            BY <1>7, Zenon
        <3> QED BY <1>3, <3>1
    <2>5. R(k + 1) \in Seq(Records) /\ R(1) \in Seq(Records)
        BY <1>2, <2>1
    <2>6. (R(1) \o g[k - 1]) \o R(k + 1) = R(1) \o (g[k - 1] \o R(k + 1))
        <3> DEFINE a == R(1)
                   b == g[k - 1]
                   c == R(k + 1)
        <3>1. a \in Seq(Records) /\ b \in Seq(Records) /\ c \in Seq(Records)
            BY <2>2, <2>5
        <3> HIDE DEF a, b, c
        <3>2. (a \o b) \o c = a \o (b \o c)
            BY <3>1, ConcatAssociative, SMTT(30)
        <3> QED BY <3>2 DEF a, b, c
    <2>7. g[k] \in Seq(Records)
        BY <2>2, <2>4, <2>5, ConcatProperties
    <2> QED BY <2>1, <2>2, <2>3, <2>4, <2>6, <2>7
<1> HIDE DEF S
<1>10. m \in S
    <2>1. m \in 0 .. m
        BY <1>1
    <2> QED BY <1>1, <1>8, <1>9, <2>1, Induction
<1>11. f[m + 1] = R(1) \o g[m] /\ m + 1 = n
    BY <1>1, <1>a, <1>10 DEF S
<1> QED BY <1>4, <1>5, <1>11 DEF jds, R, n

----------------------------------------------------------------------------
States == [primary : [Ids -> Vals \cup {NoDoc}], txs : SUBSET DocRecords, open : SUBSET Nat]
Blank == [primary |-> NoDocs, txs |-> {}, open |-> {}]

\* Before the first record nothing is known.
LEMMA BlankIsState == Blank \in States
BY DEF Blank, States, NoDocs

\* rebuildIndex, a record that is not of a transaction.
LEMMA ReplayDoc ==
    ASSUME NEW st \in States, NEW r \in DocRecords, r.tx = 0
    PROVE  /\ Replay(st, r) \in States
           /\ Replay(st, r).primary = [st.primary EXCEPT ![r.id] = r.val]
<1>1. r.kind = "doc" /\ r.id \in Ids /\ r.val \in Vals \cup {NoDoc}
    BY DEF DocRecords
<1> DEFINE p == [st.primary EXCEPT ![r.id] = r.val]
<1>3. p \in [Ids -> Vals \cup {NoDoc}]
    BY <1>1 DEF States
<1>4. Replay(st, r) = [st EXCEPT !.primary = p]
    BY <1>1 DEF Replay, States
<1> HIDE DEF p
<1>5. Replay(st, r) \in States /\ Replay(st, r).primary = p
    BY <1>3, <1>4 DEF States
<1> QED BY <1>5 DEF p

\* rebuildIndex, a record of a transaction that is open.
LEMMA ReplayTxDoc ==
    ASSUME NEW st \in States, NEW r \in DocRecords, r.tx # 0, r.tx \in st.open
    PROVE  /\ Replay(st, r) \in States
           /\ Replay(st, r).primary = st.primary /\ Replay(st, r).open = st.open
           /\ Replay(st, r).txs = {e \in st.txs : e.tx # r.tx \/ e.id # r.id} \cup {r}
<1>1. r.kind = "doc"
    BY DEF DocRecords
<1>2. Replay(st, r) = [st EXCEPT !.txs = {e \in @ : e.tx # r.tx \/ e.id # r.id} \cup {r}]
    BY <1>1 DEF Replay
<1> QED BY <1>2 DEF States

\* rebuildIndex, the begin of a transaction: what an earlier one with its number left
\* is forgotten.
LEMMA ReplayBegin ==
    ASSUME NEW st \in States, NEW t \in Nat
    PROVE  /\ Replay(st, Mark("begin", t)) \in States
           /\ Replay(st, Mark("begin", t)).primary = st.primary
           /\ Replay(st, Mark("begin", t)).open = st.open \cup {t}
           /\ Replay(st, Mark("begin", t)).txs = {e \in st.txs : e.tx # t}
<1>1. Replay(st, Mark("begin", t)) = [st EXCEPT !.txs = {e \in @ : e.tx # t}, !.open = @ \cup {t}]
    BY DEF Replay, Mark
<1> QED BY <1>1 DEF States

\* rebuildIndex, a rollback.
LEMMA ReplayRollback ==
    ASSUME NEW st \in States, NEW t \in Nat
    PROVE  /\ Replay(st, Mark("rollback", t)) \in States
           /\ Replay(st, Mark("rollback", t)).primary = st.primary
<1>1. Replay(st, Mark("rollback", t)) = [st EXCEPT !.txs = {e \in @ : e.tx # t}, !.open = @ \ {t}]
    BY DEF Replay, Mark
<1> QED BY <1>1 DEF States

\* rebuildIndex, a commit: what is known of the transaction is applied.
LEMMA ReplayCommit ==
    ASSUME NEW st \in States, NEW t \in Nat
    PROVE  /\ Replay(st, Mark("commit", t)) \in States
           /\ Replay(st, Mark("commit", t)).primary =
                [id \in Ids |->
                    IF \E e \in {e \in st.txs : e.tx = t} : e.id = id
                    THEN (CHOOSE e \in {e \in st.txs : e.tx = t} : e.id = id).val
                    ELSE st.primary[id]]
<1> DEFINE mine == {e \in st.txs : e.tx = t}
           p == [id \in Ids |-> IF \E e \in mine : e.id = id
                                THEN (CHOOSE e \in mine : e.id = id).val
                                ELSE st.primary[id]]
<1>1. Replay(st, Mark("commit", t)) = [primary |-> p, txs |-> st.txs \ mine, open |-> st.open \ {t}]
    BY DEF Replay, Mark
<1>2. mine \subseteq DocRecords
    BY DEF States
<1>3. p \in [Ids -> Vals \cup {NoDoc}]
    <2> HIDE DEF mine
    <2>1. \A id \in Ids : (\E e \in mine : e.id = id) =>
              (CHOOSE e \in mine : e.id = id).val \in Vals \cup {NoDoc}
        BY <1>2 DEF DocRecords
    <2>2. \A id \in Ids : st.primary[id] \in Vals \cup {NoDoc}
        BY DEF States
    <2> QED BY <2>1, <2>2
<1> HIDE DEF p
<1>4. [primary |-> p, txs |-> st.txs \ mine, open |-> st.open \ {t}] \in States
    BY <1>3 DEF States
<1> HIDE DEF mine
<1>5. Replay(st, Mark("commit", t)).primary = p
    BY <1>1
<1> QED BY <1>1, <1>4, <1>5 DEF p, mine

\* rebuildIndex, a record of a transaction that is not open.
LEMMA ReplayStrayDoc ==
    ASSUME NEW st \in States, NEW r \in DocRecords, r.tx # 0, r.tx \notin st.open
    PROVE  Replay(st, r) = st
<1>1. r.kind = "doc"
    BY DEF DocRecords
<1> QED BY <1>1 DEF Replay

\* rebuildIndex, any record.
LEMMA ReplayState ==
    ASSUME NEW st \in States, NEW r \in Records
    PROVE  Replay(st, r) \in States
<1>1. CASE r \in DocRecords
    <2>1. CASE r.tx = 0
        BY <1>1, <2>1, ReplayDoc
    <2>2. CASE r.tx # 0 /\ r.tx \in st.open
        BY <1>1, <2>2, ReplayTxDoc
    <2>3. CASE r.tx # 0 /\ r.tx \notin st.open
        BY <1>1, <2>3, ReplayStrayDoc
    <2> QED BY <2>1, <2>2, <2>3, Zenon
<1>2. CASE r \in Marks
    <2>1. r = Mark(r.kind, r.tx) /\ r.tx \in Nat /\ r.kind \in {"begin", "commit", "rollback"}
        BY <1>2 DEF Marks, Mark
    <2> QED BY <2>1, ReplayBegin, ReplayCommit, ReplayRollback
<1> QED BY <1>1, <1>2 DEF Records

----------------------------------------------------------------------------
\* f is the replay of the first n records of a log.
ReplayOf(f, n, log) ==
    f = [k \in 0 .. n |-> IF k = 0 THEN Blank ELSE Replay(f[k - 1], log[k])]
IsReplay(f, n, log) ==
    f[0] = Blank /\ \A k \in 1 .. n : f[k] = Replay(f[k - 1], log[k])

\* There is such a function.
LEMMA ReplayExists ==
    ASSUME NEW log, NEW n \in Nat
    PROVE  \E f : ReplayOf(f, n, log)
<1> DEFINE S == {k \in Nat : \E f : ReplayOf(f, k, log)}
<1>1. 0 \in S
    <2> DEFINE f == [k \in 0 .. 0 |-> Blank]
    <2>1. f = [k \in 0 .. 0 |-> IF k = 0 THEN Blank ELSE Replay(f[k - 1], log[k])]
        OBVIOUS
    <2>2. ReplayOf(f, 0, log)
        BY <2>1 DEF ReplayOf
    <2> QED BY <2>2
<1>2. ASSUME NEW m \in 1 .. n, m - 1 \in S PROVE m \in S
    <2>1. PICK f : ReplayOf(f, m - 1, log)
        BY <1>2
    <2>2. m \in Nat /\ m # 0
        OBVIOUS
    <2> DEFINE g == [k \in 0 .. m |-> IF k = m THEN Replay(f[m - 1], log[m]) ELSE f[k]]
               h == [k \in 0 .. m |-> IF k = 0 THEN Blank ELSE Replay(g[k - 1], log[k])]
    <2>3. \A k \in 0 .. m - 1 : f[k] = IF k = 0 THEN Blank ELSE Replay(f[k - 1], log[k])
        BY <2>1 DEF ReplayOf
    <2>4. \A k \in 0 .. m - 1 : g[k] = f[k]
        BY <2>2
    <2>5. g[m] = Replay(f[m - 1], log[m])
        BY <2>2
    <2>6. \A k \in 1 .. m : g[k - 1] = f[k - 1]
        BY <2>2, <2>4
    <2>7. ASSUME NEW k \in 0 .. m PROVE g[k] = h[k]
        <3>1. CASE k = 0
            BY <3>1, <2>2, <2>3, <2>4
        <3>2. CASE k \in 1 .. m - 1
            <4>1. g[k] = Replay(f[k - 1], log[k]) /\ g[k - 1] = f[k - 1]
                BY <3>2, <2>3, <2>4, <2>6
            <4>2. h[k] = Replay(g[k - 1], log[k])
                BY <3>2
            <4> QED BY <4>1, <4>2, Zenon
        <3>3. CASE k = m
            <4>1. g[k - 1] = f[k - 1] /\ k # 0
                BY <3>3, <2>2, <2>6
            <4>2. h[k] = Replay(g[k - 1], log[k])
                BY <4>1
            <4> QED BY <3>3, <4>1, <4>2, <2>5, Zenon
        <3> QED BY <2>2, <3>1, <3>2, <3>3
    <2>8. g = h
        BY <2>7
    <2>9. ReplayOf(g, m, log)
        <3> HIDE DEF g
        <3> QED BY <2>8 DEF ReplayOf
    <2> QED BY <2>2, <2>9
<1> HIDE DEF S
<1>3. n \in S
    BY <1>1, <1>2, Induction
<1> QED BY <1>3 DEF S

\* Replayed is the replay of the whole log.
LEMMA ReplayedIs ==
    ASSUME NEW log, NEW n \in Nat, Len(log) = n
    PROVE  \E f : IsReplay(f, n, log) /\ Replayed(log) = f[n]
<1> DEFINE R(f) == ReplayOf(f, n, log)
<1>1. \E f : R(f)
    BY ReplayExists
<1>2. Replayed(log) = (CHOOSE f : R(f))[n]
    BY DEF Replayed, Replays, ReplayOf, Blank
<1> HIDE DEF R
<1>3. R(CHOOSE f : R(f))
    BY <1>1
<1>4. PICK f : R(f) /\ Replayed(log) = f[n]
    BY <1>2, <1>3
<1>5. f = [k \in 0 .. n |-> IF k = 0 THEN Blank ELSE Replay(f[k - 1], log[k])]
    BY <1>4 DEF R, ReplayOf
<1>6. 0 \in 0 .. n /\ \A k \in 1 .. n : k \in 0 .. n /\ k # 0
    OBVIOUS
<1>7. \A k \in 0 .. n : f[k] = IF k = 0 THEN Blank ELSE Replay(f[k - 1], log[k])
    BY <1>5, Zenon
<1>8. f[0] = Blank
    BY <1>6, <1>7, Zenon
<1>9. \A k \in 1 .. n : f[k] = Replay(f[k - 1], log[k])
    BY <1>6, <1>7, Zenon
<1> QED BY <1>4, <1>8, <1>9 DEF IsReplay

\* Nothing is known of an empty log.
LEMMA ReplayedEmpty == Replayed(<<>>) = Blank
<1>1. Len(<<>>) = 0 /\ 0 \in Nat
    OBVIOUS
<1>2. PICK f : IsReplay(f, 0, <<>>) /\ Replayed(<<>>) = f[0]
    BY <1>1, ReplayedIs
<1> QED BY <1>2 DEF IsReplay

\* The replay of a log of records is a state.
LEMMA ReplayedState ==
    ASSUME NEW log \in Seq(Records)
    PROVE  Replayed(log) \in States
<1> DEFINE n == Len(log)
<1>1. n \in Nat /\ \A k \in 1 .. n : log[k] \in Records
    OBVIOUS
<1>2. PICK f : IsReplay(f, n, log) /\ Replayed(log) = f[n]
    BY <1>1, ReplayedIs
<1> HIDE DEF n
<1> DEFINE S == {k \in 0 .. n : f[k] \in States}
<1>3. 0 \in S
    BY <1>1, <1>2, BlankIsState DEF IsReplay
<1>4. ASSUME NEW k \in 1 .. n, k - 1 \in S PROVE k \in S
    <2>1. f[k] = Replay(f[k - 1], log[k])
        BY <1>2, Zenon DEF IsReplay
    <2>2. f[k - 1] \in States /\ log[k] \in Records /\ k \in 0 .. n
        BY <1>1, <1>4
    <2>3. f[k] \in States
        BY <2>1, <2>2, ReplayState
    <2> QED BY <2>2, <2>3
<1> HIDE DEF S
<1>5. n \in S
    <2>1. n \in 0 .. n
        BY <1>1
    <2> QED BY <1>1, <1>3, <1>4, <2>1, Induction
<1> QED BY <1>2, <1>5 DEF S

\* One record more is one step of rebuildIndex more.
LEMMA ReplayedAppend ==
    ASSUME NEW log \in Seq(Records), NEW r \in Records
    PROVE  Replayed(Append(log, r)) = Replay(Replayed(log), r)
<1> DEFINE n == Len(log)
           long == Append(log, r)
<1>1. /\ n \in Nat /\ Len(long) = n + 1 /\ long[n + 1] = r
      /\ \A k \in 1 .. n : long[k] = log[k]
    OBVIOUS
<1>2. Len(log) = n
    OBVIOUS
<1> HIDE DEF n, long
<1>3. n + 1 \in Nat /\ n + 1 \in 1 .. n + 1 /\ (n + 1) - 1 = n /\ \A k \in 1 .. n : k \in 1 .. n + 1
    BY <1>1
<1>4. PICK f : IsReplay(f, n, log) /\ Replayed(log) = f[n]
    BY <1>1, <1>2, ReplayedIs
<1>5. PICK g : IsReplay(g, n + 1, long) /\ Replayed(long) = g[n + 1]
    BY <1>1, <1>3, ReplayedIs
<1>6. f[n] = g[n]
    <2>1. f[0] = g[0]
        BY <1>4, <1>5 DEF IsReplay
    <2>2. ASSUME NEW k \in 1 .. n, f[k - 1] = g[k - 1] PROVE f[k] = g[k]
        <3>1. f[k] = Replay(f[k - 1], log[k])
            BY <1>4, Zenon DEF IsReplay
        <3>2. g[k] = Replay(g[k - 1], long[k])
            BY <1>3, <1>5, Zenon DEF IsReplay
        <3> QED BY <1>1, <2>2, <3>1, <3>2
    <2> QED BY <1>1, <2>1, <2>2, Agree
<1>7. g[n + 1] = Replay(g[(n + 1) - 1], long[n + 1])
    BY <1>3, <1>5, Zenon DEF IsReplay
<1>8. g[n + 1] = Replay(f[n], r)
    BY <1>1, <1>3, <1>6, <1>7
<1> QED BY <1>4, <1>5, <1>8 DEF long

----------------------------------------------------------------------------
\* Without transactions rebuildIndex and the scan of compact come to the same: the
\* last record of a document wins.
LEMMA ReplayedLast ==
    ASSUME NEW log \in Seq(DocRecords), \A i \in 1 .. Len(log) : log[i].tx = 0
    PROVE  Replayed(log).primary = Compactable(log)
<1> DEFINE n == Len(log)
           mine(k, id) == {i \in 1 .. k : log[i].id = id}
           V(k) == [id \in Ids |-> IF mine(k, id) = {} THEN NoDoc ELSE log[Max(mine(k, id))].val]
<1>1. n \in Nat /\ \A i \in 1 .. n : log[i] \in DocRecords /\ log[i].tx = 0
    OBVIOUS
<1>2. PICK f : IsReplay(f, n, log) /\ Replayed(log) = f[n]
    BY <1>1, ReplayedIs
<1>3. V(n) = Compactable(log)
    <2>1. \A i \in 1 .. n : log[i].kind = "doc"
        BY <1>1 DEF DocRecords
    <2>2. ASSUME NEW id \in Ids
          PROVE  mine(n, id) = {i \in DOMAIN log : /\ log[i].kind = "doc" /\ log[i].tx = 0
                                                   /\ log[i].id = id}
        BY <1>1, <2>1
    <2> HIDE DEF mine
    <2> QED BY <2>2 DEF Compactable
<1> DEFINE S == {k \in 0 .. n : f[k] \in States /\ f[k].primary = V(k)}
<1> HIDE DEF n
<1>4. 0 \in S
    <2>1. \A id \in Ids : mine(0, id) = {}
        OBVIOUS
    <2>2. V(0) = NoDocs
        BY <2>1 DEF NoDocs
    <2> HIDE DEF V
    <2>3. f[0] = Blank /\ 0 \in 0 .. n
        BY <1>1, <1>2 DEF IsReplay
    <2> QED BY <2>2, <2>3, BlankIsState DEF Blank
<1>5. ASSUME NEW k \in 1 .. n, k - 1 \in S PROVE k \in S
    <2> DEFINE r == log[k]
    <2>1. r \in DocRecords /\ r.tx = 0 /\ k \in Nat /\ k - 1 \in Nat
        BY <1>1
    <2>2. f[k - 1] \in States /\ f[k - 1].primary = V(k - 1)
        BY <1>5
    <2>3. f[k] = Replay(f[k - 1], r)
        BY <1>2, Zenon DEF IsReplay
    <2>4. f[k] \in States /\ f[k].primary = [V(k - 1) EXCEPT ![r.id] = r.val]
        <3> HIDE DEF V, r
        <3>1. /\ Replay(f[k - 1], r) \in States
              /\ Replay(f[k - 1], r).primary = [f[k - 1].primary EXCEPT ![r.id] = r.val]
            BY <2>1, <2>2, ReplayDoc
        <3> QED BY <2>2, <2>3, <3>1
    <2>5. [V(k - 1) EXCEPT ![r.id] = r.val] = V(k)
        <3>1. ASSUME NEW id \in Ids
              PROVE  [V(k - 1) EXCEPT ![r.id] = r.val][id] = V(k)[id]
            <4>1. CASE id = r.id
                <5>1. k \in mine(k, id) /\ mine(k, id) \in SUBSET (1 .. k)
                    BY <2>1, <4>1
                <5> HIDE DEF mine
                <5>2. Max(mine(k, id)) \in 1 .. k /\ k <= Max(mine(k, id))
                    BY <2>1, <5>1, LastPosition
                <5>3. Max(mine(k, id)) = k
                    BY <2>1, <5>2
                <5> QED BY <4>1, <5>1, <5>3
            <4>2. CASE id # r.id
                <5>1. mine(k, id) = mine(k - 1, id)
                    BY <2>1, <4>2
                <5> HIDE DEF mine
                <5> QED BY <4>2, <5>1
            <4> QED BY <4>1, <4>2
        <3> QED BY <3>1
    <2>6. k \in 0 .. n
        OBVIOUS
    <2> HIDE DEF V
    <2> QED BY <2>4, <2>5, <2>6
<1>6. n \in S
    <2>1. n \in 0 .. n
        BY <1>1
    <2> HIDE DEF S
    <2> QED BY <1>1, <1>4, <1>5, <2>1, Induction
<1> HIDE DEF V
<1> QED BY <1>2, <1>3, <1>6

\* The position of the last record of a document, and what compact takes from it.
LEMMA CompactableFacts ==
    ASSUME NEW log \in Seq(DocRecords), \A i \in 1 .. Len(log) : log[i].tx = 0, NEW id \in Ids
    PROVE  \/ /\ \A i \in 1 .. Len(log) : log[i].id # id
              /\ Compactable(log)[id] = NoDoc
           \/ \E i \in 1 .. Len(log) :
                 /\ log[i].id = id /\ Compactable(log)[id] = log[i].val
                 /\ \A j \in 1 .. Len(log) : j > i => log[j].id # id
<1> DEFINE mine == {i \in DOMAIN log : /\ log[i].kind = "doc" /\ log[i].tx = 0
                                       /\ log[i].id = id}
<1>0. Len(log) \in Nat /\ \A i \in 1 .. Len(log) : log[i] \in DocRecords
    OBVIOUS
<1>1. Len(log) \in Nat /\ \A i \in 1 .. Len(log) : log[i].kind = "doc"
    BY <1>0 DEF DocRecords
<1>2. mine = {i \in 1 .. Len(log) : log[i].id = id}
    BY <1>1
<1>3. Compactable(log)[id] = IF mine = {} THEN NoDoc ELSE log[Max(mine)].val
    BY DEF Compactable
<1> HIDE DEF mine
<1>4. CASE mine = {}
    BY <1>2, <1>3, <1>4
<1>5. CASE mine # {}
    <2>1. Max(mine) \in mine /\ \A x \in mine : x <= Max(mine)
        BY <1>1, <1>2, <1>5, LastPosition
    <2>2. Max(mine) \in 1 .. Len(log) /\ log[Max(mine)].id = id
        BY <1>2, <2>1
    <2>3. \A j \in 1 .. Len(log) : j > Max(mine) => log[j].id # id
        BY <1>1, <1>2, <2>1, <2>2
    <2>4. Compactable(log)[id] = log[Max(mine)].val
        BY <1>3, <1>5
    <2> QED BY <2>2, <2>3, <2>4
<1> QED BY <1>4, <1>5

\* A log that ends in the documents as they are, and has them all, is replayed to them.
LEMMA LatestReplayed ==
    ASSUME NEW log, Latest(log), docs \in [Ids -> Vals \cup {NoDoc}],
           \A id \in Ids : docs[id] # NoDoc => \E i \in 1 .. Len(log) : log[i].id = id
    PROVE  Replayed(log).primary = docs
<1>1. log \in Seq(DocRecords) /\ \A i \in 1 .. Len(log) : log[i].tx = 0
    BY DEF Latest
<1>2. ASSUME NEW id \in Ids PROVE Compactable(log)[id] = docs[id]
    <2>1. CASE /\ \A i \in 1 .. Len(log) : log[i].id # id
               /\ Compactable(log)[id] = NoDoc
        BY <2>1
    <2>2. CASE \E i \in 1 .. Len(log) :
                 /\ log[i].id = id /\ Compactable(log)[id] = log[i].val
                 /\ \A j \in 1 .. Len(log) : j > i => log[j].id # id
        <3>1. PICK i \in 1 .. Len(log) :
                 /\ log[i].id = id /\ Compactable(log)[id] = log[i].val
                 /\ \A j \in 1 .. Len(log) : j > i => log[j].id # id
            BY <2>2
        <3>2. log[i].val = docs[log[i].id]
            BY <3>1 DEF Latest
        <3> QED BY <3>1, <3>2
    <2> QED BY <1>1, <2>1, <2>2, CompactableFacts
<1>3. Compactable(log) = docs
    <2>1. Compactable(log) = [id \in Ids |-> Compactable(log)[id]]
        BY DEF Compactable
    <2>2. docs = [id \in Ids |-> docs[id]]
        OBVIOUS
    <2> QED BY <1>2, <2>1, <2>2, Zenon
<1> QED BY <1>1, <1>3, ReplayedLast

\* A log without transactions that is replayed to the documents ends in them.
LEMMA ReplayedIsLatest ==
    ASSUME NEW log \in Seq(DocRecords), \A i \in 1 .. Len(log) : log[i].tx = 0,
           Replayed(log).primary = docs
    PROVE  Latest(log) /\ Compactable(log) = docs
<1>1. Compactable(log) = docs
    BY ReplayedLast
<1>2. ASSUME NEW i \in 1 .. Len(log), \A j \in 1 .. Len(log) : j > i => log[j].id # log[i].id
      PROVE  log[i].val = docs[log[i].id]
    <2> DEFINE id == log[i].id
    <2>0. log[i] \in DocRecords /\ Len(log) \in Nat
        OBVIOUS
    <2>1. id \in Ids /\ Len(log) \in Nat
        BY <2>0 DEF DocRecords
    <2>2. PICK k \in 1 .. Len(log) :
                 /\ log[k].id = id /\ Compactable(log)[id] = log[k].val
                 /\ \A j \in 1 .. Len(log) : j > k => log[j].id # id
        BY <2>1, CompactableFacts
    <2>3. ~(k > i) /\ ~(i > k)
        BY <1>2, <2>2
    <2>4. k = i
        BY <2>1, <2>3
    <2> QED BY <1>1, <2>2, <2>4
<1> QED BY <1>1, <1>2 DEF Latest

\* What such a log ends in, it still ends in without its beginning.
LEMMA LatestSuffix ==
    ASSUME NEW a \in Seq(Records), NEW b \in Seq(Records), Latest(a \o b)
    PROVE  Latest(b)
<1> DEFINE u == a \o b
<1>1. /\ Len(a) \in Nat /\ Len(b) \in Nat /\ Len(u) = Len(a) + Len(b)
      /\ \A i \in 1 .. Len(a) + Len(b) : u[i] = IF i <= Len(a) THEN a[i] ELSE b[i - Len(a)]
    BY ConcatProperties
<1>2. Latest(u)
    OBVIOUS
<1> HIDE DEF u
<1>3. ASSUME NEW i \in 1 .. Len(b) PROVE i + Len(a) \in 1 .. Len(u) /\ u[i + Len(a)] = b[i]
    <2>1. i + Len(a) \in 1 .. Len(a) + Len(b) /\ ~(i + Len(a) <= Len(a)) /\ (i + Len(a)) - Len(a) = i
        BY <1>1
    <2> QED BY <1>1, <2>1
<1>4. u \in Seq(DocRecords) /\ \A i \in 1 .. Len(u) : u[i].tx = 0 /\ u[i] \in DocRecords
    BY <1>2 DEF Latest
<1>5. \A i \in 1 .. Len(b) : b[i] \in DocRecords /\ b[i].tx = 0
    BY <1>3, <1>4
<1>6. b \in Seq(DocRecords)
    <2>1. b \in [1 .. Len(b) -> DocRecords]
        BY <1>5
    <2>2. \A k \in Nat : \A t \in [1 .. k -> DocRecords] : t \in Seq(DocRecords)
        OBVIOUS
    <2> QED BY <1>1, <2>1, <2>2
<1>7. ASSUME NEW i \in 1 .. Len(b), \A j \in 1 .. Len(b) : j > i => b[j].id # b[i].id
      PROVE  b[i].val = docs[b[i].id]
    <2>1. ASSUME NEW j \in 1 .. Len(u), j > i + Len(a) PROVE u[j].id # u[i + Len(a)].id
        <3>1. j - Len(a) \in 1 .. Len(b) /\ j - Len(a) > i /\ (j - Len(a)) + Len(a) = j
            BY <1>1, <2>1
        <3>2. u[j] = b[j - Len(a)] /\ u[i + Len(a)] = b[i]
            BY <1>3, <3>1
        <3> QED BY <1>7, <3>1, <3>2
    <2>2. i + Len(a) \in 1 .. Len(u) /\ u[i + Len(a)] = b[i]
        BY <1>3
    <2>3. u[i + Len(a)].val = docs[u[i + Len(a)].id]
        BY <1>2, <2>1, <2>2 DEF Latest
    <2> QED BY <2>2, <2>3
<1> QED BY <1>5, <1>6, <1>7 DEF Latest

\* Before such a log, documents as they are do no harm.
LEMMA LatestAfter ==
    ASSUME NEW a \in Seq(DocRecords), NEW b, Latest(b),
           \A i \in 1 .. Len(a) : a[i].tx = 0 /\ a[i].val = docs[a[i].id]
    PROVE  Latest(a \o b)
<1> DEFINE u == a \o b
<1>1. b \in Seq(DocRecords)
    BY DEF Latest
<1>2. /\ Len(a) \in Nat /\ Len(b) \in Nat /\ Len(u) = Len(a) + Len(b) /\ u \in Seq(DocRecords)
      /\ \A i \in 1 .. Len(a) + Len(b) : u[i] = IF i <= Len(a) THEN a[i] ELSE b[i - Len(a)]
    BY <1>1, ConcatProperties
<1> HIDE DEF u
<1>3. ASSUME NEW i \in 1 .. Len(u)
      PROVE  /\ u[i].tx = 0
             /\ (\A j \in 1 .. Len(u) : j > i => u[j].id # u[i].id) => u[i].val = docs[u[i].id]
    <2>1. CASE i <= Len(a)
        <3>1. i \in 1 .. Len(a) /\ u[i] = a[i]
            BY <1>2, <2>1
        <3> QED BY <3>1
    <2>2. CASE ~(i <= Len(a))
        <3> DEFINE k == i - Len(a)
        <3>1. k \in 1 .. Len(b) /\ u[i] = b[k] /\ i = k + Len(a)
            BY <1>2, <2>2
        <3> HIDE DEF k
        <3>2. b[k].tx = 0
            BY <3>1 DEF Latest
        <3>3. ASSUME \A j \in 1 .. Len(u) : j > i => u[j].id # u[i].id
              PROVE  b[k].val = docs[b[k].id]
            <4>1. ASSUME NEW j \in 1 .. Len(b), j > k PROVE b[j].id # b[k].id
                <5>1. /\ j + Len(a) \in 1 .. Len(u) /\ j + Len(a) > i
                      /\ ~(j + Len(a) <= Len(a)) /\ (j + Len(a)) - Len(a) = j
                    BY <1>2, <3>1, <4>1
                <5>2. u[j + Len(a)] = b[j]
                    BY <1>2, <5>1
                <5> QED BY <3>1, <3>3, <5>1, <5>2
            <4> QED BY <3>1, <4>1 DEF Latest
        <3> QED BY <3>1, <3>2, <3>3
    <2> QED BY <2>1, <2>2
<1>4. Latest(u)
    BY <1>2, <1>3 DEF Latest
<1> QED BY <1>4 DEF u

----------------------------------------------------------------------------
\* One operation more in a transaction.
LEMMA LastOfAppend ==
    ASSUME NEW s \in Seq(Ops), NEW op \in Ops, NEW t
    PROVE  LastOf(Append(s, op), t) =
               {e \in LastOf(s, t) : e.id # op[1]} \cup {DocRecord(t, op[1], op[2])}
<1> DEFINE n == Len(s)
           u == Append(s, op)
           rec(x) == DocRecord(t, x[1], x[2])
<1>1. n \in Nat /\ Len(u) = n + 1 /\ u[n + 1] = op /\ \A i \in 1 .. n : u[i] = s[i]
    OBVIOUS
<1>2. \A x : rec(x).id = x[1]
    BY DEF DocRecord
<1>3. \A e : e \in LastOf(s, t) <=>
          \E i \in 1 .. n : e = rec(s[i]) /\ \A j \in 1 .. n : j > i => s[j][1] # s[i][1]
    BY DEF LastOf
<1>4. \A e : e \in LastOf(u, t) <=>
          \E i \in 1 .. n + 1 : e = rec(u[i]) /\ \A j \in 1 .. n + 1 : j > i => u[j][1] # u[i][1]
    <2>1. Len(u) = n + 1
        BY <1>1
    <2> HIDE DEF n, u
    <2> QED BY <2>1 DEF LastOf
<1> HIDE DEF n, u, rec
<1>5. ASSUME NEW e \in LastOf(u, t)
      PROVE  e = rec(op) \/ (e \in LastOf(s, t) /\ e.id # op[1])
    <2>1. PICK i \in 1 .. n + 1 : e = rec(u[i]) /\ \A j \in 1 .. n + 1 : j > i => u[j][1] # u[i][1]
        BY <1>4
    <2>2. CASE i = n + 1
        BY <1>1, <2>1, <2>2
    <2>3. CASE i # n + 1
        <3>1. i \in 1 .. n /\ n + 1 > i /\ n + 1 \in 1 .. n + 1 /\ \A j \in 1 .. n : j \in 1 .. n + 1
            BY <1>1, <2>3
        <3>2. e = rec(s[i]) /\ op[1] # s[i][1] /\ \A j \in 1 .. n : j > i => s[j][1] # s[i][1]
            BY <1>1, <2>1, <3>1
        <3> QED BY <1>2, <1>3, <3>1, <3>2
    <2> QED BY <2>2, <2>3
<1>6. rec(op) \in LastOf(u, t)
    <2>1. n + 1 \in 1 .. n + 1 /\ \A j \in 1 .. n + 1 : ~(j > n + 1)
        BY <1>1
    <2> QED BY <1>1, <1>4, <2>1
<1>7. ASSUME NEW e \in LastOf(s, t), e.id # op[1] PROVE e \in LastOf(u, t)
    <2>1. PICK i \in 1 .. n : e = rec(s[i]) /\ \A j \in 1 .. n : j > i => s[j][1] # s[i][1]
        BY <1>3
    <2>2. i \in 1 .. n + 1 /\ e = rec(u[i])
        BY <1>1, <2>1
    <2>3. ASSUME NEW j \in 1 .. n + 1, j > i PROVE u[j][1] # u[i][1]
        <3>1. u[i] = s[i] /\ s[i][1] # op[1]
            BY <1>1, <1>2, <1>7, <2>1
        <3>2. CASE j = n + 1
            BY <1>1, <3>1, <3>2
        <3>3. CASE j # n + 1
            <4>1. j \in 1 .. n
                BY <1>1, <3>3
            <4> QED BY <1>1, <2>1, <2>3, <3>1, <4>1
        <3> QED BY <3>2, <3>3
    <2> QED BY <1>4, <2>2, <2>3
<1>8. LastOf(u, t) = {e \in LastOf(s, t) : e.id # op[1]} \cup {rec(op)}
    BY <1>5, <1>6, <1>7
<1> QED BY <1>8 DEF u, rec

\* What a commit applies from its last operations is what applying them all makes.
LEMMA ApplyLast ==
    ASSUME NEW s \in Seq(Ops), NEW t, NEW m
    PROVE  Apply(m, s) = [id \in Ids |->
                             IF \E e \in LastOf(s, t) : e.id = id
                             THEN (CHOOSE e \in LastOf(s, t) : e.id = id).val
                             ELSE m[id]]
<1> DEFINE n == Len(s)
           rec(x) == DocRecord(t, x[1], x[2])
           mine(id) == {i \in 1 .. n : s[i][1] = id}
<1>1. n \in Nat /\ DOMAIN s = 1 .. n
    OBVIOUS
<1>2. \A x : rec(x).id = x[1] /\ rec(x).val = x[2]
    BY DEF DocRecord
<1>3. \A e : e \in LastOf(s, t) <=>
          \E i \in 1 .. n : e = rec(s[i]) /\ \A j \in 1 .. n : j > i => s[j][1] # s[i][1]
    BY DEF LastOf
<1>4. Apply(m, s) = [id \in Ids |-> IF mine(id) = {} THEN m[id] ELSE s[Max(mine(id))][2]]
    BY <1>1 DEF Apply
<1> HIDE DEF n, rec
<1>5. ASSUME NEW id \in Ids
      PROVE  (IF mine(id) = {} THEN m[id] ELSE s[Max(mine(id))][2])
             = IF \E e \in LastOf(s, t) : e.id = id
               THEN (CHOOSE e \in LastOf(s, t) : e.id = id).val
               ELSE m[id]
    <2>1. CASE mine(id) = {}
        <3>1. ~\E e \in LastOf(s, t) : e.id = id
            BY <1>2, <1>3, <2>1
        <3> QED BY <2>1, <3>1
    <2>2. CASE mine(id) # {}
        <3> DEFINE k == Max(mine(id))
        <3>1. mine(id) \in SUBSET (1 .. n)
            OBVIOUS
        <3>2. k \in mine(id) /\ \A x \in mine(id) : x <= k
            <4> HIDE DEF mine
            <4> QED BY <1>1, <2>2, <3>1, LastPosition
        <3> HIDE DEF k
        <3>3. k \in 1 .. n /\ s[k][1] = id /\ \A j \in 1 .. n : j > k => s[j][1] # id
            BY <1>1, <3>2
        <3>4. rec(s[k]) \in LastOf(s, t) /\ rec(s[k]).id = id
            BY <1>2, <1>3, <3>3
        <3>5. ASSUME NEW e \in LastOf(s, t), e.id = id PROVE e = rec(s[k])
            <4>1. PICK i \in 1 .. n : e = rec(s[i]) /\ \A j \in 1 .. n : j > i => s[j][1] # s[i][1]
                BY <1>3
            <4>2. s[i][1] = id
                BY <1>2, <3>5, <4>1
            <4>3. ~(k > i) /\ ~(i > k)
                BY <3>3, <4>1, <4>2
            <4>4. i = k
                BY <1>1, <3>3, <4>3
            <4> QED BY <4>1, <4>4
        <3>6. (CHOOSE e \in LastOf(s, t) : e.id = id) = rec(s[k])
            BY <3>4, <3>5
        <3>7. rec(s[k]).val = s[k][2]
            BY <1>2
        <3> QED BY <2>2, <3>4, <3>6, <3>7 DEF k
    <2> QED BY <2>1, <2>2
<1> HIDE DEF mine
<1> QED BY <1>4, <1>5

----------------------------------------------------------------------------
\* An element more after a concatenation.
LEMMA ConcatAppend ==
    ASSUME NEW S, NEW a \in Seq(S), NEW b \in Seq(S), NEW e \in S
    PROVE  a \o Append(b, e) = Append(a \o b, e)
<1>1. Append(b, e) = b \o <<e>> /\ <<e>> \in Seq(S)
    BY AppendIsConcat
<1>2. a \o b \in Seq(S)
    BY ConcatProperties
<1>3. Append(a \o b, e) = (a \o b) \o <<e>>
    BY <1>2, AppendIsConcat
<1>4. (a \o b) \o <<e>> = a \o (b \o <<e>>)
    BY <1>1, ConcatAssociative
<1> QED BY <1>1, <1>3, <1>4

\* The elements of a prefix.
LEMMA PrefixFacts ==
    ASSUME NEW S, NEW a \in Seq(S), NEW i \in 0 .. Len(a)
    PROVE  /\ SubSeq(a, 1, i) \in Seq(S) /\ Len(SubSeq(a, 1, i)) = i
           /\ \A k \in 1 .. i : SubSeq(a, 1, i)[k] = a[k]
OBVIOUS

\* An ascending list, split before its last element.
LEMMA AscendingLast ==
    ASSUME NEW ids, NEW D, Ascending(ids, D), ids # <<>>
    PROVE  LET n == Len(ids)
               front == SubSeq(ids, 1, n - 1)
           IN  /\ n \in Nat /\ n >= 1 /\ ids[n] \in D /\ D \subseteq Nat
               /\ front \in Seq(Nat) /\ ids = Append(front, ids[n])
               /\ \A i \in 1 .. Len(front) : front[i] \in D /\ front[i] < ids[n]
<1> DEFINE n == Len(ids)
           front == SubSeq(ids, 1, n - 1)
<1>1. ids \in Seq(Nat) /\ n \in Nat /\ n >= 1 /\ \A i \in 1 .. n : ids[i] \in Nat
    BY DEF Ascending
<1>2. D = {ids[i] : i \in 1 .. n} /\ \A i, j \in 1 .. n : i < j => ids[i] < ids[j]
    BY DEF Ascending
<1>3. /\ front \in Seq(Nat) /\ Len(front) = n - 1
      /\ \A i \in 1 .. n - 1 : front[i] = ids[i]
    <2>1. n - 1 \in 0 .. n
        BY <1>1
    <2> HIDE DEF n
    <2> QED BY <1>1, <2>1, PrefixFacts DEF n
<1> HIDE DEF front
<1>4. \A i \in 1 .. n - 1 : i \in 1 .. n /\ i < n /\ n \in 1 .. n
    BY <1>1
<1>5. \A i \in 1 .. Len(front) : front[i] \in D /\ front[i] < ids[n]
    BY <1>2, <1>3, <1>4
<1>6. ids = Append(front, ids[n])
    <2> DEFINE u == Append(front, ids[n])
    <2>1. u \in Seq(Nat) /\ Len(u) = n /\ \A i \in 1 .. n : u[i] = ids[i]
        BY <1>1, <1>3
    <2> HIDE DEF u
    <2>2. u = ids
        BY <1>1, <2>1, SeqEqual
    <2> QED BY <2>2 DEF u
<1>7. ids[n] \in D /\ D \subseteq Nat
    BY <1>1, <1>2
<1> HIDE DEF n
<1> QED BY <1>1, <1>3, <1>5, <1>6, <1>7 DEF front, n

\* An ascending list goes on with a greater number.
LEMMA AscendingAppend ==
    ASSUME NEW ids, NEW D, Ascending(ids, D), NEW x \in Nat, \A d \in D : d < x
    PROVE  Ascending(Append(ids, x), D \cup {x})
<1> DEFINE n == Len(ids)
           u == Append(ids, x)
<1>1. ids \in Seq(Nat) /\ n \in Nat /\ \A i \in 1 .. n : ids[i] \in Nat
    BY DEF Ascending
<1>2. D = {ids[i] : i \in 1 .. n} /\ \A i, j \in 1 .. n : i < j => ids[i] < ids[j]
    BY DEF Ascending
<1>3. u \in Seq(Nat) /\ Len(u) = n + 1 /\ u[n + 1] = x /\ \A i \in 1 .. n : u[i] = ids[i]
    BY <1>1
<1> HIDE DEF u, n
<1>4. \A i : i \in 1 .. n + 1 <=> (i \in 1 .. n \/ i = n + 1)
    BY <1>1
<1>5. D \cup {x} = {u[i] : i \in 1 .. n + 1}
    BY <1>2, <1>3, <1>4
<1>6. ASSUME NEW i \in 1 .. n + 1, NEW j \in 1 .. n + 1, i < j PROVE u[i] < u[j]
    <2>1. i \in 1 .. n
        BY <1>1, <1>6
    <2>2. CASE j \in 1 .. n
        BY <1>2, <1>3, <1>6, <2>1, <2>2
    <2>3. CASE j = n + 1
        BY <1>2, <1>3, <2>1, <2>3
    <2> QED BY <1>4, <2>2, <2>3
<1>7. Ascending(u, D \cup {x})
    BY <1>3, <1>5, <1>6 DEF Ascending
<1> QED BY <1>7 DEF u

\* The records of the files when they are loaded.
LEMMA LoadedLog ==
    ASSUME Loaded, Segments
    PROVE  /\ SegsOf(files) = segs /\ Log(files) = Scanned(files, segs)
           /\ Log(files) \in Seq(Records) /\ State(files) \in States
<1>1. Ascending(segs, DOMAIN files)
    BY DEF Loaded
<1>2. SegsOf(files) = segs
    BY <1>1, SegsOfAscending
<1>3. segs \in Seq(Nat) /\ \A i \in 1 .. Len(segs) : segs[i] \in DOMAIN files
    BY <1>1 DEF Ascending
<1>4. \A i \in 1 .. Len(segs) : IsSegment(files[segs[i]])
    BY <1>3 DEF Segments
<1>5. Scanned(files, segs) \in Seq(Records)
    BY <1>3, <1>4, ScannedRecords
<1> QED BY <1>2, <1>5, ReplayedState DEF Log, State

\* The list of segments after a write.
Extended == IF Target = Current THEN segs ELSE Append(segs, Target)

\* An entry that does not follow a torn one is the next record of the log, unless it
\* is torn itself.
LEMMA PutFacts ==
    ASSUME Loaded, Segments, NEW e \in Records \cup {Torn}, Put(e), ~damaged'
    PROVE  /\ Target \in Nat /\ Bytes(Target) \in Seq(Records)
           /\ Target # Current => Target = nextSeg /\ Bytes(Target) = <<>>
           /\ Target = Current => Target \in DOMAIN files /\ Bytes(Target) = files[Target]
           /\ DOMAIN files' = DOMAIN files \cup {Target}
           /\ files'[Target] = Append(Bytes(Target), e)
           /\ \A n \in DOMAIN files : n # Target => files'[n] = files[n]
           /\ Segments'
           /\ Ascending(Extended, DOMAIN files') /\ Extended # <<>> /\ Extended[1] = 0
           /\ Log(files') = IF e = Torn THEN Log(files) ELSE Append(Log(files), e)
<1> DEFINE n == Len(segs)
           front == SubSeq(segs, 1, n - 1)
           B == Bytes(Target)
<1>1. Ascending(segs, DOMAIN files) /\ segs # <<>> /\ segs[1] = 0
      /\ nextSeg \in Nat /\ \A k \in DOMAIN files : k < nextSeg
    BY DEF Loaded
<1>2. /\ n \in Nat /\ n >= 1 /\ segs[n] \in DOMAIN files /\ DOMAIN files \subseteq Nat
      /\ front \in Seq(Nat) /\ segs = Append(front, segs[n])
      /\ \A i \in 1 .. Len(front) : front[i] \in DOMAIN files /\ front[i] < segs[n]
    BY <1>1, AscendingLast
<1>3. Current = segs[n] /\ segs \in Seq(Nat)
    BY <1>1 DEF Current, Ascending
<1>4. Target = Current \/ Target = nextSeg
    BY DEF Target
<1>5. Current \in DOMAIN files /\ Current \in Nat /\ Current # nextSeg /\ nextSeg \notin DOMAIN files
    <2>1. \A k \in DOMAIN files : k \in Nat /\ k # nextSeg
        BY <1>1, <1>2
    <2> QED BY <1>2, <1>3, <2>1
<1> HIDE DEF n, front
<1>6. Target \in Nat
    BY <1>1, <1>4, <1>5
<1>7. Target # Current => Target = nextSeg /\ Target \notin DOMAIN files /\ B = <<>>
    BY <1>4, <1>5 DEF Bytes
<1>8. Target = Current => Target \in DOMAIN files /\ B = files[Target]
    BY <1>5 DEF Bytes
<1>9. B \in Seq(Records)
    <2>1. CASE Target # Current
        BY <1>7, <2>1
    <2>2. CASE Target = Current
        <3>1. Torn \notin Range(B)
            BY DEF Put
        <3>2. IsSegment(B)
            BY <1>8, <2>2 DEF Segments
        <3>3. ASSUME NEW t \in Seq(Records), B = Append(t, Torn) PROVE FALSE
            <4>1. Len(t) + 1 \in DOMAIN Append(t, Torn) /\ Append(t, Torn)[Len(t) + 1] = Torn
                OBVIOUS
            <4> HIDE DEF B
            <4>2. Torn \in Range(B)
                BY <3>3, <4>1 DEF Range
            <4> QED BY <3>1, <4>2
        <3> QED BY <3>2, <3>3, SegmentShape
    <2> QED BY <2>1, <2>2
<1>10. /\ DOMAIN files' = DOMAIN files \cup {Target}
       /\ files'[Target] = Append(B, e)
       /\ \A k \in DOMAIN files : k # Target => files'[k] = files[k]
    BY DEF Put
<1> HIDE DEF B
<1>11. IsSegment(files'[Target])
    BY <1>9, <1>10, SegmentAppend
<1>12. Segments'
    <2>1. \A k \in DOMAIN files' : IsSegment(files'[k])
        BY <1>10, <1>11 DEF Segments
    <2> QED BY <2>1 DEF Segments
<1>13. Readable(files'[Target]) = (IF e = Torn THEN B ELSE Append(B, e)) /\ Readable(B) = B
    <2>1. CASE e = Torn
        BY <1>9, <1>10, <2>1, ReadableTorn, ReadableWhole
    <2>2. CASE e # Torn
        <3>1. Append(B, e) \in Seq(Records)
            BY <1>9, <2>2
        <3> QED BY <1>9, <1>10, <2>2, <3>1, ReadableWhole
    <2> QED BY <2>1, <2>2
<1> DEFINE base == IF Target = Current THEN front ELSE segs
<1>14. /\ base \in Seq(Nat) /\ Extended = Append(base, Target)
       /\ \A i \in 1 .. Len(base) : base[i] \in DOMAIN files /\ base[i] # Target
    <2>1. CASE Target = Current
        <3>1. \A k \in Nat : k < Current => k # Current
            BY <1>5
        <3> QED BY <1>2, <1>3, <2>1, <3>1 DEF Extended
    <2>2. CASE Target # Current
        <3>1. \A i \in 1 .. Len(segs) : segs[i] \in DOMAIN files
            BY <1>1 DEF Ascending
        <3> QED BY <1>3, <1>7, <2>2, <3>1 DEF Extended
    <2> QED BY <2>1, <2>2
<1>15. Ascending(Extended, DOMAIN files') /\ Extended # <<>> /\ Extended[1] = 0
    <2>1. CASE Target = Current
        <3>1. DOMAIN files' = DOMAIN files /\ Extended = segs
            BY <1>8, <1>10, <2>1 DEF Extended
        <3> QED BY <1>1, <3>1
    <2>2. CASE Target # Current
        <3>1. Extended = Append(segs, nextSeg) /\ DOMAIN files' = DOMAIN files \cup {nextSeg}
            BY <1>7, <1>10, <2>2 DEF Extended
        <3>2. Ascending(Append(segs, nextSeg), DOMAIN files \cup {nextSeg})
            BY <1>1, AscendingAppend
        <3>3. Append(segs, nextSeg) # <<>> /\ Append(segs, nextSeg)[1] = 0
            BY <1>1, <1>2, <1>3 DEF n
        <3> QED BY <3>1, <3>2, <3>3
    <2> QED BY <2>1, <2>2
<1>16. Log(files') = Scanned(files', Extended)
    BY <1>15, SegsOfAscending DEF Log
<1> DEFINE A == Scanned(files, base)
<1>17. A \in Seq(Records)
    <2>1. \A i \in 1 .. Len(base) : IsSegment(files[base[i]])
        BY <1>14 DEF Segments
    <2> HIDE DEF base
    <2> QED BY <1>14, <2>1, ScannedRecords
<1>18. Scanned(files', Extended) = A \o Readable(files'[Target])
    <2>1. \A i \in 1 .. Len(base) : Readable(files[base[i]]) = Readable(files'[base[i]])
        BY <1>10, <1>14
    <2> HIDE DEF base
    <2> QED BY <1>6, <1>14, <2>1, ScannedAppend
<1>19. Log(files) = A \o B
    <2>0. Log(files) = Scanned(files, segs) /\ Scanned(files, segs) \in Seq(Records)
        BY LoadedLog
    <2>1. CASE Target = Current
        <3>1. Scanned(files, Append(front, Current)) = Scanned(files, front) \o Readable(files[Current])
            BY <1>2, <1>5, ScannedAppend
        <3> QED BY <1>2, <1>3, <1>8, <1>13, <2>0, <2>1, <3>1
    <2>2. CASE Target # Current
        <3>1. Scanned(files, segs) \o <<>> = Scanned(files, segs)
            BY <2>0, ConcatEmptySeq
        <3> QED BY <1>7, <2>0, <2>2, <3>1
    <2> QED BY <2>1, <2>2
<1> HIDE DEF A, base
<1>20. Log(files') = IF e = Torn THEN Log(files) ELSE Append(Log(files), e)
    <2>1. CASE e = Torn
        BY <1>13, <1>16, <1>18, <1>19, <2>1
    <2>2. CASE e # Torn
        <3>1. A \o Append(B, e) = Append(A \o B, e)
            BY <1>9, <1>17, <2>2, ConcatAppend
        <3> QED BY <1>13, <1>16, <1>18, <1>19, <2>2, <3>1
    <2> QED BY <2>1, <2>2
<1> QED BY <1>6, <1>7, <1>8, <1>9, <1>10, <1>12, <1>15, <1>20 DEF B

\* writeRecord: the engine still knows its files, and finds what it writes.
LEMMA AppendFacts ==
    ASSUME Loaded, Segments, NEW e \in Records \cup {Torn}, AppendEntry(e), ~damaged'
    PROVE  /\ Loaded' /\ Segments' /\ Log(files') \in Seq(Records)
           /\ e = Torn => State(files') = State(files)
           /\ e # Torn => State(files') = Replay(State(files), e)
           /\ \A v : Seen(v) = v
<1> DEFINE B == Bytes(Target)
<1>1. Put(e)
    BY DEF AppendEntry
<1>2. /\ Target \in Nat /\ B \in Seq(Records)
      /\ Target # Current => Target = nextSeg /\ B = <<>>
      /\ Target = Current => Target \in DOMAIN files /\ B = files[Target]
      /\ DOMAIN files' = DOMAIN files \cup {Target}
      /\ files'[Target] = Append(B, e)
      /\ \A n \in DOMAIN files : n # Target => files'[n] = files[n]
      /\ Segments'
      /\ Ascending(Extended, DOMAIN files') /\ Extended # <<>> /\ Extended[1] = 0
      /\ Log(files') = IF e = Torn THEN Log(files) ELSE Append(Log(files), e)
    BY <1>1, PutFacts
<1>3. /\ segs' = Extended /\ nextSeg' = (IF Target = Current THEN nextSeg ELSE nextSeg + 1)
      /\ size' = [n \in DOMAIN size \cup {Target} |->
                    IF n # Target THEN size[n] ELSE IF e = Torn THEN Offset ELSE Offset + 1]
    BY DEF AppendEntry, Extended
<1> HIDE DEF B
<1>4. /\ nextSeg \in Nat /\ \A n \in DOMAIN files : n < nextSeg
      /\ size \in [DOMAIN files -> Nat]
      /\ \A n \in DOMAIN files :
            \/ size[n] = Len(files[n])
            \/ size[n] + 1 = Len(files[n]) /\ files[n][Len(files[n])] = Torn
    BY DEF Loaded
<1>5. Offset = Len(B) /\ Len(B) \in Nat
    <2>1. CASE Target # Current
        <3>1. Offset = 0 /\ B = <<>>
            BY <1>2, <2>1 DEF Offset
        <3> QED BY <3>1
    <2>2. CASE Target = Current
        <3>1. Offset = size[Target] /\ Target \in DOMAIN files /\ B = files[Target]
            BY <1>2, <2>2 DEF Offset
        <3>2. ASSUME size[Target] + 1 = Len(B), B[Len(B)] = Torn PROVE FALSE
            <4>1. Len(B) \in 1 .. Len(B)
                BY <1>2, <1>4, <3>1, <3>2
            <4>2. B[Len(B)] \in Records
                BY <1>2, <4>1
            <4> QED BY <3>2, <4>2, TornIsNone
        <3> QED BY <1>2, <1>4, <3>1, <3>2
    <2> QED BY <2>1, <2>2
<1>6. \A v : Seen(v) = v
    BY <1>5 DEF Seen, B
<1>7. nextSeg' \in Nat /\ \A n \in DOMAIN files' : n < nextSeg'
    <2>1. CASE Target = Current
        BY <1>2, <1>3, <1>4, <2>1
    <2>2. CASE Target # Current
        <3>1. nextSeg' = nextSeg + 1 /\ DOMAIN files' = DOMAIN files \cup {nextSeg}
            BY <1>2, <1>3, <2>2
        <3>2. DOMAIN files' \subseteq Nat
            <4>1. \A ids, D : Ascending(ids, D) => D \subseteq Nat
                BY DEF Ascending
            <4> QED BY <1>2, <4>1
        <3>3. \A n \in DOMAIN files : n \in Nat /\ n < nextSeg + 1
            BY <1>4, <3>1, <3>2
        <3>4. nextSeg + 1 \in Nat /\ nextSeg < nextSeg + 1
            BY <1>4
        <3>5. \A n \in DOMAIN files \cup {nextSeg} : n < nextSeg + 1
            BY <3>3, <3>4
        <3> QED BY <3>1, <3>4, <3>5
    <2> QED BY <2>1, <2>2
<1>8. Len(files'[Target]) = Len(B) + 1 /\ files'[Target][Len(B) + 1] = e
    BY <1>2
<1>9. /\ DOMAIN size = DOMAIN files
      /\ \A n \in DOMAIN files : n # Target => size'[n] = size[n]
      /\ size'[Target] = IF e = Torn THEN Len(B) ELSE Len(B) + 1
    BY <1>3, <1>4, <1>5
<1>10. size' \in [DOMAIN files' -> Nat]
    <2>1. \A n \in DOMAIN files' : size'[n] \in Nat
        BY <1>2, <1>4, <1>5, <1>9
    <2>2. DOMAIN size' = DOMAIN files' /\ size' = [n \in DOMAIN size' |-> size'[n]]
        BY <1>2, <1>3, <1>9
    <2> QED BY <2>1, <2>2
<1>11. ASSUME NEW n \in DOMAIN files'
       PROVE  \/ size'[n] = Len(files'[n])
              \/ size'[n] + 1 = Len(files'[n]) /\ files'[n][Len(files'[n])] = Torn
    <2>1. CASE n = Target
        BY <1>5, <1>8, <1>9, <2>1
    <2>2. CASE n # Target
        BY <1>2, <1>4, <1>9, <2>2
    <2> QED BY <2>1, <2>2
<1>12. Loaded'
    BY <1>2, <1>3, <1>7, <1>10, <1>11 DEF Loaded
<1>13. Log(files) \in Seq(Records)
    BY LoadedLog
<1>14. e # Torn => e \in Records /\ Append(Log(files), e) \in Seq(Records)
    BY <1>13
<1>15. Log(files') \in Seq(Records)
    BY <1>2, <1>13, <1>14
<1>16. e = Torn => State(files') = State(files)
    BY <1>2 DEF State
<1>17. e # Torn => State(files') = Replay(State(files), e)
    BY <1>2, <1>13, <1>14, ReplayedAppend DEF State
<1> QED BY <1>2, <1>6, <1>12, <1>15, <1>16, <1>17

\* What has to be shown of a step after which no compaction is under way.
LEMMA GoodWhenLoaded ==
    ASSUME Segments', Loaded', lock' \in {"free", "commit", "rollback"}, txCounter' \in Nat,
           lock' = "rollback" => txCounter' # 0,
           Log(files') \in Seq(Records), State(files').primary = docs', idx' = docs', Committing', up'
    PROVE  Good'
<1>1. docs' \in [Ids -> Vals \cup {NoDoc}]
    BY ReplayedState DEF State, States
<1>2. Ascending(segs', DOMAIN files') /\ segs' # <<>> /\ segs'[1] = 0
    BY DEF Loaded
<1>3. SegsOf(files') = segs'
    BY <1>2, SegsOfAscending
<1>4. Numbered'
    BY <1>2, <1>3 DEF Numbered
<1>5. Opened'
    BY DEF Opened
<1>6. Compacting'
    BY DEF Compacting
<1> QED BY <1>1, <1>4, <1>5, <1>6 DEF Good

\* What holds while no compaction is under way.
LEMMA GoodLoaded ==
    ASSUME Good, up, lock \in {"free", "commit", "rollback"}
    PROVE  /\ Loaded /\ Segments /\ txCounter \in Nat
           /\ Log(files) \in Seq(Records) /\ State(files) \in States
           /\ State(files).primary = docs /\ idx = docs
<1>1. Loaded /\ Segments /\ txCounter \in Nat
    BY DEF Good, Opened
<1>2. ~Exposed
    BY DEF Exposed
<1> QED BY <1>1, <1>2, LoadedLog DEF Good

\* Model.Create, UpdateByID and DeleteByID.
LEMMA WriteStep ==
    ASSUME Good, up, lock = "free", NEW id \in Ids, NEW v \in Vals \cup {NoDoc},
           Write(id, v), ~damaged'
    PROVE  Good'
<1> DEFINE r == DocRecord(0, id, v)
<1>1. /\ Loaded /\ Segments /\ txCounter \in Nat
      /\ Log(files) \in Seq(Records) /\ State(files) \in States
      /\ State(files).primary = docs /\ idx = docs
    BY GoodLoaded
<1>2. r \in DocRecords /\ r.tx = 0 /\ r.id = id /\ r.val = v
    BY DEF DocRecord, DocRecords
<1>3. r \in Records /\ r # Torn
    BY <1>2, TornIsNone DEF Records
<1>4. /\ AppendEntry(r) /\ idx' = [idx EXCEPT ![id] = Seen(v)] /\ docs' = [docs EXCEPT ![id] = v]
      /\ up' = up /\ txCounter' = txCounter /\ lock' = lock
    BY DEF Write, commit, compaction
<1> HIDE DEF r
<1>5. /\ Loaded' /\ Segments' /\ Log(files') \in Seq(Records)
      /\ State(files') = Replay(State(files), r)
      /\ \A w : Seen(w) = w
    BY <1>1, <1>3, <1>4, AppendFacts
<1>6. State(files').primary = [State(files).primary EXCEPT ![r.id] = r.val]
    BY <1>1, <1>2, <1>5, ReplayDoc
<1>7. State(files').primary = docs' /\ idx' = docs'
    BY <1>1, <1>2, <1>4, <1>5, <1>6
<1>8. Committing'
    BY <1>4 DEF Committing
<1> QED BY <1>1, <1>4, <1>5, <1>7, <1>8, GoodWhenLoaded

\* A write that fails after some bytes.
LEMMA FailedWriteStep ==
    ASSUME Good, FailedWrite, ~damaged'
    PROVE  Good'
<1>0. up /\ lock = "free" /\ AppendEntry(Torn)
      /\ up' = up /\ idx' = idx /\ txCounter' = txCounter /\ lock' = lock /\ docs' = docs
    BY DEF FailedWrite
<1>1. /\ Loaded /\ Segments /\ txCounter \in Nat
      /\ Log(files) \in Seq(Records) /\ State(files) \in States
      /\ State(files).primary = docs /\ idx = docs
    BY <1>0, GoodLoaded
<1>2. Loaded' /\ Segments' /\ Log(files') \in Seq(Records) /\ State(files') = State(files)
    BY <1>0, <1>1, AppendFacts
<1>3. Committing'
    BY <1>0 DEF Committing
<1> QED BY <1>0, <1>1, <1>2, <1>3, GoodWhenLoaded

\* The begin of a transaction.
LEMMA TxBeginStep ==
    ASSUME Good, NEW tx \in TxOps, TxBegin(tx), ~damaged'
    PROVE  Good'
<1> DEFINE t == txCounter'
           r == Mark("begin", t)
<1>0. /\ up /\ lock = "free" /\ t = txCounter + 1 /\ AppendEntry(r)
      /\ ops' = tx /\ todo' = tx /\ written' = <<>> /\ lock' = "commit"
      /\ up' = up /\ idx' = idx /\ docs' = docs
    BY DEF TxBegin
<1>1. /\ Loaded /\ Segments /\ txCounter \in Nat
      /\ Log(files) \in Seq(Records) /\ State(files) \in States
      /\ State(files).primary = docs /\ idx = docs
    BY <1>0, GoodLoaded
<1>2. t \in Nat /\ t # 0
    BY <1>0, <1>1
<1>3. r \in Records /\ r # Torn
    BY <1>2, TornIsNone DEF Mark, Marks, Records
<1> HIDE DEF r
<1>4. Loaded' /\ Segments' /\ Log(files') \in Seq(Records) /\ State(files') = Replay(State(files), r)
    BY <1>0, <1>1, <1>3, AppendFacts
<1>5. /\ State(files').primary = docs'
      /\ State(files').open = State(files).open \cup {t}
      /\ State(files').txs = {e \in State(files).txs : e.tx # t}
    <2> DEFINE st == State(files)
    <2> HIDE DEF st, t
    <2>1. /\ Replay(st, Mark("begin", t)).primary = st.primary
          /\ Replay(st, Mark("begin", t)).open = st.open \cup {t}
          /\ Replay(st, Mark("begin", t)).txs = {e \in st.txs : e.tx # t}
        BY <1>1, <1>2, ReplayBegin DEF st
    <2> QED BY <1>0, <1>1, <1>4, <2>1 DEF r, st
<1>6. Committing'
    <2>1. tx \in Seq(Ops) /\ <<>> \in Seq(Ops) /\ <<>> \o tx = tx
        <3>1. TxOps \subseteq Seq(Ops)
            BY EngineAssumption DEF Ops
        <3>2. tx \in Seq(Ops) /\ <<>> \in Seq(Ops)
            BY <3>1
        <3> QED BY <3>2, ConcatEmptySeq
    <2>2. {e \in State(files').txs : e.tx = t} = {}
        BY <1>5
    <2>3. LastOf(<<>>, t) = {}
        BY DEF LastOf
    <2>4. t \in State(files').open
        BY <1>5
    <2> QED BY <1>0, <1>2, <2>1, <2>2, <2>3, <2>4 DEF Committing
<1> QED BY <1>0, <1>1, <1>2, <1>4, <1>5, <1>6, GoodWhenLoaded

\* The record of an operation of a transaction.
LEMMA TxWriteStep ==
    ASSUME Good, TxWrite, ~damaged'
    PROVE  Good'
<1> DEFINE t == txCounter
           op == Head(todo)
           r == DocRecord(t, op[1], op[2])
           st == State(files)
<1>0. /\ up /\ lock = "commit" /\ todo # <<>> /\ AppendEntry(r)
      /\ todo' = Tail(todo) /\ written' = Append(written, <<op[1], Seen(op[2])>>)
      /\ up' = up /\ idx' = idx /\ docs' = docs /\ lock' = lock /\ txCounter' = t /\ ops' = ops
    BY DEF TxWrite
<1>1. /\ Loaded /\ Segments /\ t \in Nat
      /\ Log(files) \in Seq(Records) /\ st \in States
      /\ st.primary = docs /\ idx = docs
    BY <1>0, GoodLoaded
<1>2. /\ t # 0 /\ ops \in Seq(Ops) /\ todo \in Seq(Ops) /\ written \in Seq(Ops)
      /\ ops = written \o todo /\ t \in st.open
      /\ {e \in st.txs : e.tx = t} = LastOf(written, t)
    BY <1>0 DEF Good, Committing
<1>3. op \in Ops /\ Tail(todo) \in Seq(Ops) /\ todo = <<op>> \o Tail(todo)
    BY <1>0, <1>2, HeadTailProperties
<1>4. op = <<op[1], op[2]>> /\ op[1] \in Ids /\ op[2] \in Vals \cup {NoDoc}
    BY <1>3 DEF Ops
<1> HIDE DEF op, t, st
<1>5. r \in DocRecords /\ r.tx = t /\ r.id = op[1] /\ r.val = op[2]
    BY <1>1, <1>4 DEF DocRecord, DocRecords
<1>6. r \in Records /\ r # Torn
    BY <1>5, TornIsNone DEF Records
<1> HIDE DEF r
<1>7. /\ Loaded' /\ Segments' /\ Log(files') \in Seq(Records) /\ State(files') = Replay(st, r)
      /\ \A v : Seen(v) = v
    BY <1>0, <1>1, <1>6, AppendFacts DEF st
<1>8. /\ State(files').primary = st.primary /\ State(files').open = st.open
      /\ State(files').txs = {e \in st.txs : e.tx # t \/ e.id # op[1]} \cup {r}
    <2>1. r.tx # 0 /\ r.tx \in st.open
        BY <1>2, <1>5
    <2>2. /\ Replay(st, r).primary = st.primary /\ Replay(st, r).open = st.open
          /\ Replay(st, r).txs = {e \in st.txs : e.tx # r.tx \/ e.id # r.id} \cup {r}
        BY <1>1, <1>5, <2>1, ReplayTxDoc
    <2> QED BY <1>5, <1>7, <2>2
<1>9. written' = Append(written, op) /\ written' \in Seq(Ops)
    <2>1. Seen(op[2]) = op[2]
        BY <1>7
    <2>2. written' = Append(written, op)
        BY <1>0, <1>4, <2>1, Zenon
    <2> QED BY <1>2, <1>3, <2>2
<1>10. ops = Append(written, op) \o Tail(todo)
    <2>1. <<op>> \in Seq(Ops) /\ Append(written, op) = written \o <<op>>
        BY <1>2, <1>3, AppendIsConcat
    <2>2. (written \o <<op>>) \o Tail(todo) = written \o (<<op>> \o Tail(todo))
        BY <1>2, <1>3, <2>1, ConcatAssociative
    <2> QED BY <1>2, <1>3, <2>1, <2>2
<1>11. {e \in State(files').txs : e.tx = t} = LastOf(written', t)
    <2>1. LastOf(Append(written, op), t) = {e \in LastOf(written, t) : e.id # op[1]} \cup {r}
        BY <1>2, <1>3, LastOfAppend DEF r
    <2>2. {e \in State(files').txs : e.tx = t} = {e \in {e \in st.txs : e.tx = t} : e.id # op[1]} \cup {r}
        BY <1>5, <1>8
    <2> QED BY <1>2, <1>9, <2>1, <2>2
<1>12. Committing'
    BY <1>0, <1>2, <1>3, <1>8, <1>9, <1>10, <1>11 DEF Committing
<1> QED BY <1>0, <1>1, <1>7, <1>8, <1>12, GoodWhenLoaded

\* The commit of a transaction: what rebuildIndex applies, the index and the callers
\* learn together.
LEMMA TxCommitStep ==
    ASSUME Good, TxCommit, ~damaged'
    PROVE  Good'
<1> DEFINE t == txCounter
           r == Mark("commit", t)
           st == State(files)
<1>0. /\ up /\ lock = "commit" /\ todo = <<>> /\ AppendEntry(r)
      /\ idx' = Apply(idx, written) /\ docs' = Apply(docs, ops) /\ lock' = "free"
      /\ up' = up /\ txCounter' = t
    BY DEF TxCommit
<1>1. /\ Loaded /\ Segments /\ t \in Nat
      /\ Log(files) \in Seq(Records) /\ st \in States
      /\ st.primary = docs /\ idx = docs
    BY <1>0, GoodLoaded
<1>2. /\ t # 0 /\ written \in Seq(Ops) /\ ops = written \o todo
      /\ {e \in st.txs : e.tx = t} = LastOf(written, t)
    BY <1>0 DEF Good, Committing
<1>3. ops = written
    BY <1>0, <1>2, ConcatEmptySeq
<1> HIDE DEF t, st
<1>4. r \in Records /\ r # Torn
    BY <1>1, <1>2, TornIsNone DEF Mark, Marks, Records
<1> HIDE DEF r
<1>5. Loaded' /\ Segments' /\ Log(files') \in Seq(Records) /\ State(files') = Replay(st, r)
    BY <1>0, <1>1, <1>4, AppendFacts DEF st
<1> DEFINE mine == {e \in st.txs : e.tx = t}
<1>6. Replay(st, r).primary =
        [id \in Ids |-> IF \E e \in mine : e.id = id
                        THEN (CHOOSE e \in mine : e.id = id).val ELSE st.primary[id]]
    BY <1>1, ReplayCommit DEF r
<1>7. mine = LastOf(written, t)
    BY <1>2
<1> HIDE DEF mine
<1>8. Apply(docs, written) =
        [id \in Ids |-> IF \E e \in mine : e.id = id
                        THEN (CHOOSE e \in mine : e.id = id).val ELSE docs[id]]
    BY <1>2, <1>7, ApplyLast
<1>9. State(files').primary = docs' /\ idx' = docs'
    BY <1>0, <1>1, <1>3, <1>5, <1>6, <1>8
<1>10. Committing'
    BY <1>0 DEF Committing
<1> QED BY <1>0, <1>1, <1>5, <1>9, <1>10, GoodWhenLoaded

\* A transaction that cannot go on: its records stay in an open transaction.
LEMMA TxFailStep ==
    ASSUME Good, NEW short \in BOOLEAN, TxFail(short), ~damaged'
    PROVE  Good'
<1>0. /\ up /\ lock = "commit" /\ lock' = "rollback"
      /\ up' = up /\ idx' = idx /\ txCounter' = txCounter /\ docs' = docs
    BY DEF TxFail
<1>1. /\ Loaded /\ Segments /\ txCounter \in Nat
      /\ Log(files) \in Seq(Records) /\ State(files) \in States
      /\ State(files).primary = docs /\ idx = docs
    BY <1>0, GoodLoaded
<1>2. txCounter # 0
    BY <1>0 DEF Good, Committing
<1>3. Loaded' /\ Segments' /\ Log(files') \in Seq(Records) /\ State(files') = State(files)
    <2>1. CASE short
        <3>1. AppendEntry(Torn)
            BY <2>1 DEF TxFail
        <3> QED BY <1>1, <3>1, AppendFacts
    <2>2. CASE ~short
        <3>1. files' = files /\ segs' = segs /\ nextSeg' = nextSeg /\ size' = size
            BY <2>2 DEF TxFail
        <3> QED BY <1>1, <3>1 DEF Loaded, Segments
    <2> QED BY <2>1, <2>2
<1>4. Committing'
    BY <1>0 DEF Committing
<1> QED BY <1>0, <1>1, <1>2, <1>3, <1>4, GoodWhenLoaded

\* The rollback record.
LEMMA TxRollbackStep ==
    ASSUME Good, NEW ok \in BOOLEAN, TxRollback(ok), ~damaged'
    PROVE  Good'
<1> DEFINE r == Mark("rollback", txCounter)
<1>0. /\ up /\ lock = "rollback" /\ lock' = "free"
      /\ up' = up /\ idx' = idx /\ txCounter' = txCounter /\ docs' = docs
    BY DEF TxRollback
<1>1. /\ Loaded /\ Segments /\ txCounter \in Nat
      /\ Log(files) \in Seq(Records) /\ State(files) \in States
      /\ State(files).primary = docs /\ idx = docs
    BY <1>0, GoodLoaded
<1>2. txCounter # 0
    BY <1>0 DEF Good, Opened
<1>3. /\ Loaded' /\ Segments' /\ Log(files') \in Seq(Records)
      /\ State(files').primary = State(files).primary
    <2>1. CASE ok
        <3>1. AppendEntry(r)
            BY <2>1 DEF TxRollback
        <3>2. r \in Records /\ r # Torn
            BY <1>1, <1>2, TornIsNone DEF Mark, Marks, Records
        <3> HIDE DEF r
        <3>3. Loaded' /\ Segments' /\ Log(files') \in Seq(Records)
              /\ State(files') = Replay(State(files), r)
            BY <1>1, <3>1, <3>2, AppendFacts
        <3>4. Replay(State(files), r).primary = State(files).primary
            BY <1>1, ReplayRollback DEF r
        <3> QED BY <3>3, <3>4
    <2>2. CASE ~ok
        <3>1. files' = files /\ segs' = segs /\ nextSeg' = nextSeg /\ size' = size
            BY <2>2 DEF TxRollback
        <3> QED BY <1>1, <3>1 DEF Loaded, Segments
    <2> QED BY <2>1, <2>2
<1>4. Committing'
    BY <1>0 DEF Committing
<1> QED BY <1>0, <1>1, <1>3, <1>4, GoodWhenLoaded

----------------------------------------------------------------------------
\* What has to be shown of a step after which the process is down.
LEMMA GoodWhenDown ==
    ASSUME Lost, Segments', docs' \in [Ids -> Vals \cup {NoDoc}],
           NEW ids, Ascending(ids, DOMAIN files'), ids # <<>> => ids[1] = 0,
           State(files').primary = docs'
    PROVE  Good'
<1>1. up' = FALSE /\ lock' = "free"
    BY DEF Lost
<1>2. SegsOf(files') = ids
    BY SegsOfAscending
<1>3. Numbered'
    BY <1>2 DEF Numbered
<1>4. Opened' /\ Committing' /\ Compacting'
    BY <1>1 DEF Opened, Committing, Compacting
<1> QED BY <1>1, <1>3, <1>4 DEF Good

\* The process dies inside a write.
LEMMA TornWriteStep ==
    ASSUME Good, TornWrite, ~damaged'
    PROVE  Good'
<1>0. up /\ lock \in {"free", "commit", "rollback"} /\ Put(Torn) /\ Lost /\ docs' = docs
    BY DEF TornWrite
<1>1. /\ Loaded /\ Segments /\ State(files).primary = docs
    BY <1>0, GoodLoaded
<1>2. /\ Segments' /\ Ascending(Extended, DOMAIN files') /\ Extended[1] = 0
      /\ Log(files') = Log(files)
    BY <1>0, <1>1, PutFacts
<1>3. State(files').primary = docs'
    BY <1>0, <1>1, <1>2 DEF State
<1>4. docs' \in [Ids -> Vals \cup {NoDoc}]
    BY <1>0 DEF Good
<1> HIDE DEF Extended
<1> QED BY <1>0, <1>2, <1>3, <1>4, GoodWhenDown

\* The process dies elsewhere.
LEMMA CrashStep ==
    ASSUME Good, Crash, ~damaged'
    PROVE  Good'
<1>0. Lost /\ files' = files /\ docs' = docs /\ ~Exposed
    BY DEF Crash
<1>1. /\ Ascending(SegsOf(files), DOMAIN files)
      /\ SegsOf(files) # <<>> => SegsOf(files)[1] = 0
      /\ State(files).primary = docs /\ Segments /\ docs \in [Ids -> Vals \cup {NoDoc}]
    BY <1>0 DEF Good, Numbered
<1>2. Segments'
    BY <1>0, <1>1 DEF Segments
<1> DEFINE ids == SegsOf(files)
<1>3. /\ Ascending(ids, DOMAIN files') /\ (ids # <<>> => ids[1] = 0)
      /\ State(files').primary = docs' /\ docs' \in [Ids -> Vals \cup {NoDoc}]
    BY <1>0, <1>1
<1> HIDE DEF ids
<1> QED BY <1>0, <1>2, <1>3, GoodWhenDown

\* The numbers of an ascending list are below the one after its last.
LEMMA AscendingBelow ==
    ASSUME NEW ids, NEW D, Ascending(ids, D), ids # <<>>
    PROVE  ids[Len(ids)] + 1 \in Nat /\ \A d \in D : d < ids[Len(ids)] + 1
<1> DEFINE n == Len(ids)
<1>1. n \in Nat /\ n >= 1 /\ \A i \in 1 .. n : ids[i] \in Nat
    BY DEF Ascending
<1>2. D = {ids[i] : i \in 1 .. n} /\ \A i, j \in 1 .. n : i < j => ids[i] < ids[j]
    BY DEF Ascending
<1> HIDE DEF n
<1>3. n \in 1 .. n /\ \A i \in 1 .. n : i = n \/ i < n
    BY <1>1
<1>4. \A i \in 1 .. n : ids[i] < ids[n] + 1
    BY <1>1, <1>2, <1>3
<1> QED BY <1>1, <1>2, <1>3, <1>4 DEF n

\* openEngine: an empty segment more changes nothing.
LEMMA OpenStep ==
    ASSUME Good, Open, ~damaged'
    PROVE  Good'
<1> DEFINE old == SegsOf(files)
           D == DOMAIN files
           n == IF old = <<>> THEN 0 ELSE old[Len(old)] + 1
<1>1. ~up /\ lock = "free" /\ ~Exposed
    BY DEF Open, Good, Opened, Exposed
<1>2. /\ Ascending(old, D) /\ (old # <<>> => old[1] = 0)
      /\ State(files).primary = docs /\ Segments
    BY <1>1 DEF Good, Numbered
<1>3. old \in Seq(Nat) /\ \A i \in 1 .. Len(old) : old[i] \in D
    BY <1>2 DEF Ascending
<1>4. n \in Nat /\ \A d \in D : d < n
    <2>1. CASE old = <<>>
        <3>1. D = {}
            BY <1>2, <2>1 DEF Ascending
        <3> QED BY <2>1, <3>1
    <2>2. CASE old # <<>>
        <3> HIDE DEF old, D
        <3>1. old[Len(old)] + 1 \in Nat /\ \A d \in D : d < old[Len(old)] + 1
            BY <1>2, <2>2, AscendingBelow
        <3> QED BY <2>2, <3>1
    <2> QED BY <2>1, <2>2
<1>5. \A i \in 1 .. Len(old) : IsSegment(files[old[i]])
    BY <1>2, <1>3 DEF Segments
<1>6. Scanned(files, old) \in Seq(Records)
    BY <1>3, <1>5, ScannedRecords
<1>7. /\ up' /\ lock' = lock /\ docs' = docs /\ txCounter' = 0
      /\ segs' = SegsOf(files') /\ size' = [m \in DOMAIN files' |-> Len(files'[m])]
      /\ idx' = Recovered(files', SegsOf(files'))
      /\ \/ old # <<>> /\ files' = files /\ nextSeg' = n
         \/ /\ files' = [m \in D \cup {n} |-> IF m = n THEN <<>> ELSE files[m]]
            /\ nextSeg' = n + 1
    BY DEF Open
<1> HIDE DEF n
<1>8. /\ Segments' /\ Log(files') = Log(files) /\ nextSeg' \in Nat
      /\ Ascending(segs', DOMAIN files') /\ segs' # <<>> /\ segs'[1] = 0
      /\ \A m \in DOMAIN files' : m < nextSeg'
    <2>1. CASE old # <<>> /\ files' = files /\ nextSeg' = n
        <3>1. Segments'
            BY <1>2, <2>1 DEF Segments
        <3> QED BY <1>2, <1>4, <1>7, <2>1, <3>1
    <2>2. CASE /\ files' = [m \in D \cup {n} |-> IF m = n THEN <<>> ELSE files[m]]
               /\ nextSeg' = n + 1
        <3>0. n \notin D /\ D \subseteq Nat
            <4>1. D \subseteq Nat
                BY <1>2 DEF Ascending
            <4>2. \A d \in D : d \in Nat /\ d # n
                BY <1>4, <4>1
            <4> QED BY <4>1, <4>2
        <3>1. DOMAIN files' = D \cup {n} /\ files'[n] = <<>> /\ \A m \in D : files'[m] = files[m]
            BY <2>2, <3>0
        <3>2. <<>> \in Seq(Records) /\ IsSegment(<<>>)
            BY DEF IsSegment
        <3>3. Segments'
            BY <1>2, <3>1, <3>2 DEF Segments
        <3> DEFINE ids == Append(old, n)
        <3>4. Ascending(ids, D \cup {n})
            <4> HIDE DEF old, D
            <4> QED BY <1>2, <1>4, AscendingAppend
        <3>5. ids # <<>> /\ ids[1] = 0
            <4>1. CASE old = <<>>
                BY <4>1 DEF n
            <4>2. CASE old # <<>>
                BY <1>2, <1>3, <4>2
            <4> QED BY <4>1, <4>2
        <3>6. SegsOf(files') = ids
            <4> HIDE DEF ids
            <4> QED BY <3>1, <3>4, SegsOfAscending
        <3>7. Readable(<<>>) = <<>>
            BY <3>2, ReadableWhole
        <3>8. Scanned(files', ids) = Scanned(files, old) \o <<>>
            <4>1. \A i \in 1 .. Len(old) : Readable(files[old[i]]) = Readable(files'[old[i]])
                BY <1>3, <3>1
            <4>2. Scanned(files', ids) = Scanned(files, old) \o Readable(files'[n])
                <5> HIDE DEF old
                <5> QED BY <1>3, <1>4, <4>1, ScannedAppend
            <4> QED BY <3>1, <3>7, <4>2
        <3>9. Scanned(files, old) \o <<>> = Scanned(files, old)
            BY <1>6, ConcatEmptySeq
        <3>10. Log(files') = Log(files)
            BY <3>6, <3>8, <3>9 DEF Log
        <3> HIDE DEF ids
        <3>11. n + 1 \in Nat /\ n < n + 1 /\ \A m \in D : m < n + 1
            BY <1>4, <3>0
        <3>12. \A m \in D \cup {n} : m < n + 1
            BY <3>11
        <3> QED BY <1>7, <2>2, <3>1, <3>3, <3>4, <3>5, <3>6, <3>10, <3>11, <3>12
    <2> QED BY <1>7, <2>1, <2>2
<1>9. \A m \in DOMAIN files' : Len(files'[m]) \in Nat
    <2>1. \A s : IsSegment(s) => Len(s) \in Nat
        BY DEF IsSegment
    <2> QED BY <1>8, <2>1 DEF Segments
<1>10. Loaded'
    BY <1>7, <1>8, <1>9 DEF Loaded
<1>11. State(files').primary = docs' /\ idx' = docs'
    BY <1>2, <1>7, <1>8 DEF State, Log, Recovered
<1>12. Log(files') \in Seq(Records)
    BY <1>6, <1>8 DEF Log
<1>13. Committing'
    BY <1>1, <1>7 DEF Committing
<1> QED BY <1>1, <1>7, <1>8, <1>10, <1>11, <1>12, <1>13, GoodWhenLoaded

----------------------------------------------------------------------------
\* Record i of N goes to group k, when c go to each.
LEMMA Groups ==
    ASSUME NEW N \in Nat, NEW c \in Nat \ {0}, NEW i \in 1 .. N
    PROVE  LET n == (N + c - 1) \div c
               k == (i - 1) \div c + 1
           IN  n \in Nat /\ k \in 1 .. n /\ (k - 1) * c + 1 \in Nat /\ (k - 1) * c + 1 <= i /\ i <= k * c
<1> DEFINE n == (N + c - 1) \div c
           p == (i - 1) \div c
<1>0. N + c - 1 \in Nat /\ i - 1 \in Nat
    OBVIOUS
<1>1. n \in Nat /\ n * c \in Nat /\ N + c - 1 < n * c + c
    BY <1>0
<1>2. p \in Nat /\ p * c \in Nat /\ p * c <= i - 1 /\ i - 1 < p * c + c
    BY <1>0
<1> HIDE DEF n, p
<1>3. (p + 1) * c = p * c + c
    BY <1>2
<1>4. p < n
    <2> SUFFICES ASSUME n <= p PROVE FALSE
        BY <1>1, <1>2
    <2>1. n * c <= p * c
        BY <1>1, <1>2
    <2> QED BY <1>1, <1>2, <2>1
<1>5. p + 1 \in 1 .. n /\ (p + 1) - 1 = p
    BY <1>1, <1>2, <1>4
<1> QED BY <1>1, <1>2, <1>3, <1>5 DEF n, p

\* The new segments hold the documents that are asked for, and no others.
LEMMA ChunksFacts ==
    ASSUME NEW m \in [Ids -> Vals \cup {NoDoc}], NEW order \in Seq(Ids)
    PROVE  LET new == Chunks(m, order) IN
           /\ new \in Seq(Seq(DocRecords)) /\ new # <<>>
           /\ \A k \in 1 .. Len(new) : \A i \in 1 .. Len(new[k]) :
                 new[k][i].tx = 0 /\ new[k][i].val = m[new[k][i].id]
           /\ \A i \in 1 .. Len(order) :
                 \E k \in 1 .. Len(new) : \E j \in 1 .. Len(new[k]) : new[k][j].id = order[i]
<1> DEFINE N == Len(order)
           c == SegCap
           recs == [i \in DOMAIN order |-> DocRecord(0, order[i], m[order[i]])]
           q == (N + c - 1) \div c
           n == IF q = 0 THEN 1 ELSE q
           lo(k) == (k - 1) * c + 1
           hi(k) == IF k * c < Len(recs) THEN k * c ELSE Len(recs)
           new == [k \in 1 .. n |-> SubSeq(recs, lo(k), hi(k))]
<1>0. new = Chunks(m, order)
    BY DEF Chunks
<1>1. c \in Nat \ {0} /\ N \in Nat /\ DOMAIN order = 1 .. N /\ \A i \in 1 .. N : order[i] \in Ids
    BY EngineAssumption
<1>2. \A i \in 1 .. N : /\ recs[i] \in DocRecords /\ recs[i].tx = 0 /\ recs[i].id = order[i]
                        /\ recs[i].val = m[recs[i].id]
    BY <1>1 DEF DocRecord, DocRecords
<1>3. Len(recs) = N
    <2>1. DOMAIN recs = 1 .. N
        BY <1>1
    <2> QED BY <1>1, <2>1, LenProperties
<1>4. q \in Nat /\ n \in Nat /\ n >= 1
    BY <1>1
<1> HIDE DEF recs, c, N, n, q
<1>5. ASSUME NEW k \in 1 .. n
      PROVE  /\ lo(k) \in Nat /\ lo(k) >= 1 /\ hi(k) \in Nat /\ hi(k) <= N
    <2>1. k \in Nat /\ k - 1 \in Nat
        BY <1>4
    <2>2. (k - 1) * c \in Nat /\ k * c \in Nat
        BY <1>1, <2>1
    <2> QED BY <1>1, <1>3, <2>2
<1>6. /\ DOMAIN new = 1 .. n /\ Len(new) = n
      /\ \A k \in 1 .. n : new[k] = SubSeq(recs, lo(k), hi(k))
    <2>1. DOMAIN new = 1 .. n
        OBVIOUS
    <2>2. Len(new) = n
        BY <1>4, <2>1
    <2> QED BY <2>1, <2>2
<1> HIDE DEF new
<1>7. ASSUME NEW k \in 1 .. n
      PROVE  /\ new[k] \in Seq(DocRecords)
             /\ Len(new[k]) = (IF lo(k) <= hi(k) THEN hi(k) - lo(k) + 1 ELSE 0)
             /\ \A i \in 1 .. hi(k) - lo(k) + 1 : new[k][i] = recs[lo(k) + i - 1]
    <2> DEFINE a == lo(k)
               b == hi(k)
    <2>1. a \in Nat /\ b \in Nat /\ a >= 1 /\ b <= N
        BY <1>5
    <2>2. new[k] = SubSeq(recs, a, b)
        BY <1>6
    <2> HIDE DEF a, b
    <2>3. \A i \in a .. b : i \in 1 .. N
        BY <1>1, <2>1
    <2>4. \A i \in a .. b : recs[i] \in DocRecords
        BY <1>2, <2>3
    <2>5. /\ SubSeq(recs, a, b) \in Seq(DocRecords)
          /\ Len(SubSeq(recs, a, b)) = (IF a <= b THEN b - a + 1 ELSE 0)
          /\ \A i \in 1 .. b - a + 1 : SubSeq(recs, a, b)[i] = recs[a + i - 1]
        BY <2>1, <2>4, SubSeqProperties
    <2> QED BY <2>2, <2>5 DEF a, b
<1>8. new \in Seq(Seq(DocRecords)) /\ new # <<>>
    <2>1. \A k \in Nat : \A t \in [1 .. k -> Seq(DocRecords)] : t \in Seq(Seq(DocRecords))
        OBVIOUS
    <2>2. new = [k \in 1 .. n |-> new[k]]
        BY <1>6 DEF new
    <2>3. new \in [1 .. n -> Seq(DocRecords)]
        BY <1>7, <2>2
    <2> QED BY <1>4, <1>6, <2>1, <2>3
<1>9. ASSUME NEW k \in 1 .. n, NEW i \in 1 .. Len(new[k])
      PROVE  new[k][i].tx = 0 /\ new[k][i].val = m[new[k][i].id]
    <2> DEFINE a == lo(k)
               b == hi(k)
    <2>1. a \in Nat /\ b \in Nat /\ a >= 1 /\ b <= N
        BY <1>5
    <2>2. Len(new[k]) = (IF a <= b THEN b - a + 1 ELSE 0)
          /\ \A j \in 1 .. b - a + 1 : new[k][j] = recs[a + j - 1]
        BY <1>7
    <2> HIDE DEF a, b
    <2>3. i \in 1 .. b - a + 1 /\ a + i - 1 \in 1 .. N
        BY <1>1, <2>1, <2>2
    <2>4. new[k][i] = recs[a + i - 1]
        BY <2>2, <2>3
    <2> QED BY <1>2, <2>3, <2>4
<1>10. ASSUME NEW i \in 1 .. N
       PROVE  \E k \in 1 .. n : \E j \in 1 .. Len(new[k]) : new[k][j].id = order[i]
    <2> DEFINE k == (i - 1) \div c + 1
               a == lo(k)
               b == hi(k)
    <2>1. /\ k \in 1 .. q /\ a <= i /\ i <= k * c
        BY <1>1, Groups DEF q
    <2> HIDE DEF k
    <2>2. k \in 1 .. n
        BY <1>4, <2>1 DEF n
    <2>3. a \in Nat /\ b \in Nat /\ a >= 1 /\ b <= N
        BY <1>5, <2>2
    <2>4. Len(new[k]) = (IF a <= b THEN b - a + 1 ELSE 0)
          /\ \A j \in 1 .. b - a + 1 : new[k][j] = recs[a + j - 1]
        BY <1>7, <2>2
    <2>5. i <= b
        BY <1>1, <1>3, <2>1
    <2>6. a <= i
        BY <2>1
    <2> HIDE DEF a, b
    <2>7. i - a + 1 \in 1 .. b - a + 1 /\ a <= b /\ a + (i - a + 1) - 1 = i
        BY <1>1, <2>3, <2>5, <2>6
    <2>8. i - a + 1 \in 1 .. Len(new[k]) /\ new[k][i - a + 1] = recs[i]
        BY <2>4, <2>7
    <2> QED BY <1>2, <2>2, <2>8
<1>11. /\ new \in Seq(Seq(DocRecords)) /\ new # <<>>
       /\ \A k \in 1 .. Len(new) : \A i \in 1 .. Len(new[k]) :
             new[k][i].tx = 0 /\ new[k][i].val = m[new[k][i].id]
       /\ \A i \in 1 .. N :
             \E k \in 1 .. Len(new) : \E j \in 1 .. Len(new[k]) : new[k][j].id = order[i]
    BY <1>6, <1>8, <1>9, <1>10
<1> QED BY <1>0, <1>11 DEF N

\* A list of a finite set has all its elements.
LEMMA OrderFacts ==
    ASSUME NEW S, S \subseteq Ids, NEW order \in SetToSeqs(S)
    PROVE  order \in Seq(Ids) /\ \A x \in S : \E i \in 1 .. Len(order) : order[i] = x
<1> DEFINE n == Cardinality(S)
<1>1. IsFiniteSet(S)
    BY EngineAssumption, FS_Subset
<1>2. n \in Nat
    BY <1>1, FS_CardinalityType
<1>3. order \in [1 .. n -> S] /\ \A i, j \in 1 .. n : i # j => order[i] # order[j]
    BY DEF SetToSeqs
<1> HIDE DEF n
<1>4. DOMAIN order = 1 .. n
    BY <1>3
<1>5. order \in Injection(1 .. n, S)
    BY <1>3, <1>4 DEF Injection, IsInjective
<1>6. Cardinality(1 .. n) = n
    <2>1. 1 \in Int /\ n \in Int /\ n - 1 + 1 = n
        BY <1>2
    <2> QED BY <1>2, <2>1, FS_Interval
<1>7. order \in Surjection(1 .. n, S)
    BY <1>1, <1>5, <1>6, FS_Injection DEF n
<1>8. \A x \in S : \E i \in 1 .. n : order[i] = x
    BY <1>7 DEF Surjection
<1>9. order \in Seq(Ids) /\ Len(order) = n
    <2>1. order \in [1 .. n -> Ids]
        BY <1>3
    <2> QED BY <1>2, <1>4, <2>1, LenProperties
<1> QED BY <1>8, <1>9

\* What the running engine reads of its files is what is in them.
LEMMA KnownLog ==
    ASSUME Loaded, Segments
    PROVE  Scanned(Known, segs) = Log(files)
<1>1. segs \in Seq(Nat) /\ \A i \in 1 .. Len(segs) : segs[i] \in DOMAIN files
    BY DEF Loaded, Ascending
<1>2. \A n \in DOMAIN files :
         \/ size[n] = Len(files[n])
         \/ size[n] + 1 = Len(files[n]) /\ files[n][Len(files[n])] = Torn
    BY DEF Loaded
<1>3. ASSUME NEW n \in DOMAIN files
      PROVE  Readable(SubSeq(files[n], 1, size[n])) = Readable(files[n])
    <2> DEFINE s == files[n]
               z == size[n]
    <2>0. z \in Nat
        BY DEF Loaded
    <2>1. IsSegment(s)
        BY DEF Segments
    <2>2. z = Len(s) \/ (z + 1 = Len(s) /\ s[Len(s)] = Torn)
        BY <1>2
    <2> HIDE DEF s, z
    <2>3. CASE z = Len(s)
        <3>1. SubSeq(s, 1, Len(s)) = s
            BY <2>1 DEF IsSegment
        <3> QED BY <2>3, <3>1 DEF s, z
    <2>4. CASE z + 1 = Len(s) /\ s[Len(s)] = Torn
        <3>1. s \notin Seq(Records)
            <4> SUFFICES ASSUME s \in Seq(Records) PROVE FALSE
                OBVIOUS
            <4>1. Len(s) \in 1 .. Len(s)
                BY <2>0, <2>4
            <4>2. s[Len(s)] \in Records
                BY <4>1
            <4> QED BY <2>4, <4>2, TornIsNone
        <3>2. PICK t \in Seq(Records) : s = Append(t, Torn)
            BY <2>1, <3>1, SegmentShape
        <3>3. Len(t) = z
            BY <2>0, <2>4, <3>2
        <3>4. SubSeq(s, 1, z) = t
            BY <3>2, <3>3
        <3>5. Readable(t) = t /\ Readable(s) = t
            BY <3>2, ReadableWhole, ReadableTorn
        <3> QED BY <3>4, <3>5 DEF s, z
    <2> QED BY <2>2, <2>3, <2>4
<1>4. ASSUME NEW i \in 1 .. Len(segs)
      PROVE  Readable(Known[segs[i]]) = Readable(files[segs[i]])
    <2>1. segs[i] \in Range(segs) /\ segs[i] \in DOMAIN files
        BY <1>1 DEF Range
    <2>2. Known[segs[i]] = SubSeq(files[segs[i]], 1, size[segs[i]])
        BY <2>1 DEF Known
    <2> QED BY <1>3, <2>1, <2>2
<1> DEFINE K == Known
           F == files
<1>5. /\ Len(segs) \in Nat
      /\ \A i \in 1 .. Len(segs) : Readable(K[segs[i]]) = Readable(F[segs[i]])
    BY <1>1, <1>4
<1> HIDE DEF K, F
<1>6. Scanned(K, segs) = Scanned(F, segs)
    BY <1>5, ScannedSame
<1> QED BY <1>6, LoadedLog DEF K, F

\* A compaction that met no transaction has every document as it is.
LEMMA CompactWriteStep ==
    ASSUME Good, CompactWrite, ~damaged'
    PROVE  Good'
<1> DEFINE log == Scanned(Known, segs)
           live == {id \in Ids : docs[id] # NoDoc}
<1>0. /\ up /\ lock = "free" /\ moved' = 0 /\ lock' = "rename"
      /\ \A r \in Range(log) : r.tx = 0
      /\ files' = files /\ up' = up /\ segs' = segs /\ nextSeg' = nextSeg /\ size' = size
      /\ idx' = idx /\ txCounter' = txCounter /\ docs' = docs
      /\ \E order \in SetToSeqs({id \in Ids : Compactable(log)[id] # NoDoc}) :
            newSegs' = Chunks(Compactable(log), order)
    BY DEF CompactWrite, memory
<1>1. /\ Loaded /\ Segments /\ txCounter \in Nat
      /\ Log(files) \in Seq(Records) /\ State(files).primary = docs /\ idx = docs
    BY <1>0, GoodLoaded
<1>2. log = Log(files) /\ log = Scanned(files, segs)
    BY <1>1, KnownLog, LoadedLog
<1>3. docs \in [Ids -> Vals \cup {NoDoc}] /\ ~Exposed
    BY <1>0 DEF Good, Exposed
<1> HIDE DEF log
<1>4. \A i \in 1 .. Len(log) : log[i] \in Records /\ log[i].tx = 0
    BY <1>0, <1>1, <1>2 DEF Range
<1>5. \A i \in 1 .. Len(log) : log[i] \in DocRecords
    <2>1. \A r \in Records : r.tx = 0 => r \in DocRecords
        BY DEF Records, Marks
    <2> QED BY <1>4, <2>1
<1>6. log \in Seq(DocRecords)
    <2>1. log \in Seq(Records)
        BY <1>1, <1>2
    <2>2. \A k \in Nat : \A t \in [1 .. k -> DocRecords] : t \in Seq(DocRecords)
        OBVIOUS
    <2>3. Len(log) \in Nat /\ log = [i \in 1 .. Len(log) |-> log[i]]
        BY <2>1
    <2>4. log \in [1 .. Len(log) -> DocRecords]
        BY <1>5, <2>3
    <2> QED BY <2>2, <2>3, <2>4
<1>7. Latest(log) /\ Compactable(log) = docs
    <2>1. Replayed(log).primary = docs
        BY <1>1, <1>2 DEF State
    <2> QED BY <1>4, <1>6, <2>1, ReplayedIsLatest
<1>8. PICK order \in SetToSeqs(live) : newSegs' = Chunks(docs, order)
    BY <1>0, <1>7
<1>9. order \in Seq(Ids) /\ \A x \in live : \E i \in 1 .. Len(order) : order[i] = x
    <2>1. live \subseteq Ids
        OBVIOUS
    <2> HIDE DEF live
    <2> QED BY <2>1, OrderFacts
<1> DEFINE new == Chunks(docs, order)
<1>10. /\ new \in Seq(Seq(DocRecords)) /\ new # <<>>
       /\ \A k \in 1 .. Len(new) : \A i \in 1 .. Len(new[k]) :
             new[k][i].tx = 0 /\ new[k][i].val = docs[new[k][i].id]
       /\ \A i \in 1 .. Len(order) :
             \E k \in 1 .. Len(new) : \E j \in 1 .. Len(new[k]) : new[k][j].id = order[i]
    BY <1>3, <1>9, ChunksFacts
<1>11. newSegs' = new
    BY <1>8
<1> HIDE DEF new
<1>12. \A id \in Ids : docs[id] # NoDoc =>
          \E k \in 1 .. Len(new) : \E i \in 1 .. Len(new[k]) : new[k][i].id = id
    <2> SUFFICES ASSUME NEW id \in Ids, docs[id] # NoDoc
                 PROVE  \E k \in 1 .. Len(new) : \E i \in 1 .. Len(new[k]) : new[k][i].id = id
        OBVIOUS
    <2>1. PICK i \in 1 .. Len(order) : order[i] = id
        BY <1>9
    <2> QED BY <1>10, <2>1
<1>13. Len(new) \in Nat /\ Len(new) > 0
    BY <1>10
<1>14. /\ segs \in Seq(Nat) /\ segs # <<>> /\ segs[1] = 0
       /\ \A i, j \in 1 .. Len(segs) : i < j => segs[i] < segs[j]
    BY <1>1 DEF Loaded, Ascending
<1>15. Latest(Scanned(files, segs))'
    BY <1>0, <1>2, <1>7 DEF Latest
<1>16. \A k \in 1 .. Len(new) : ~(k <= 0)
    BY <1>13
<1>17. Compacting'
    BY <1>0, <1>10, <1>11, <1>12, <1>13, <1>14, <1>15, <1>16 DEF Compacting
<1>18. Opened' /\ Segments'
    BY <1>0, <1>1 DEF Opened, Loaded, Segments
<1>19. Numbered'
    BY <1>0, <1>3 DEF Good, Numbered
<1>20. Committing'
    BY <1>0 DEF Committing
<1> QED BY <1>0, <1>1, <1>3, <1>17, <1>18, <1>19, <1>20 DEF Good

\* A list that goes on after 0.
LEMMA ZeroFirst ==
    ASSUME NEW rest \in Seq(Nat)
    PROVE  LET ids == << 0 >> \o rest IN
           /\ ids \in Seq(Nat) /\ ids # <<>> /\ ids[1] = 0 /\ Tail(ids) = rest
           /\ Len(ids) = Len(rest) + 1 /\ \A i \in 1 .. Len(rest) : ids[i + 1] = rest[i]
<1> DEFINE z == << 0 >>
           ids == z \o rest
<1>1. z \in Seq(Nat) /\ Len(z) = 1 /\ z[1] = 0
    OBVIOUS
<1> HIDE DEF z
<1>2. /\ ids \in Seq(Nat) /\ Len(ids) = 1 + Len(rest)
      /\ \A i \in 1 .. 1 + Len(rest) : ids[i] = IF i <= 1 THEN z[i] ELSE rest[i - 1]
    <2>1. /\ z \o rest \in Seq(Nat) /\ Len(z \o rest) = Len(z) + Len(rest)
          /\ \A i \in 1 .. Len(z) + Len(rest) :
                (z \o rest)[i] = IF i <= Len(z) THEN z[i] ELSE rest[i - Len(z)]
        BY <1>1, ConcatProperties
    <2> QED BY <1>1, <2>1
<1> HIDE DEF ids
<1>3. Len(rest) \in Nat /\ 1 \in 1 .. 1 + Len(rest)
    OBVIOUS
<1>4. ids[1] = 0 /\ ids # <<>>
    BY <1>1, <1>2, <1>3
<1>5. \A i \in 1 .. Len(rest) : ids[i + 1] = rest[i]
    <2> SUFFICES ASSUME NEW i \in 1 .. Len(rest) PROVE ids[i + 1] = rest[i]
        OBVIOUS
    <2>1. i + 1 \in 1 .. 1 + Len(rest) /\ ~(i + 1 <= 1) /\ (i + 1) - 1 = i
        BY <1>3
    <2> QED BY <1>2, <2>1
<1>6. Tail(ids) = rest
    <2> DEFINE u == Tail(ids)
    <2>1. u \in Seq(Nat) /\ Len(u) = Len(rest) /\ \A i \in 1 .. Len(rest) : u[i] = ids[i + 1]
        BY <1>2, <1>3, <1>4
    <2> HIDE DEF u
    <2>2. u = rest
        BY <1>5, <2>1, SeqEqual
    <2> QED BY <2>2 DEF u
<1> QED BY <1>2, <1>3, <1>4, <1>5, <1>6 DEF ids, z

\* A segment with every document as it is, and after it old ones that end in the same
\* documents, are replayed to them.
LEMMA OneSegment ==
    ASSUME NEW fs, NEW rest \in Seq(Nat), NEW s \in Seq(DocRecords), fs[0] = s,
           Ascending(<< 0 >> \o rest, DOMAIN fs), \A n \in DOMAIN fs : IsSegment(fs[n]),
           Latest(Scanned(fs, rest)), docs \in [Ids -> Vals \cup {NoDoc}],
           \A i \in 1 .. Len(s) : s[i].tx = 0 /\ s[i].val = docs[s[i].id],
           \A id \in Ids : docs[id] # NoDoc => \E i \in 1 .. Len(s) : s[i].id = id
    PROVE  SegsOf(fs) = << 0 >> \o rest /\ State(fs).primary = docs
<1> DEFINE ids == << 0 >> \o rest
           b == Scanned(fs, rest)
           log == s \o b
<1>1. SegsOf(fs) = ids
    BY SegsOfAscending
<1>2. ids \in Seq(Nat) /\ ids # <<>> /\ ids[1] = 0 /\ Tail(ids) = rest
    BY ZeroFirst
<1>3. \A i \in 1 .. Len(ids) : IsSegment(fs[ids[i]])
    BY DEF Ascending
<1>4. Readable(s) = s
    <2>1. s \in Seq(Records)
        BY DEF Records
    <2> QED BY <2>1, ReadableWhole
<1>5. Scanned(fs, ids) = log
    <2> HIDE DEF ids
    <2>1. Scanned(fs, ids) = Readable(fs[ids[1]]) \o Scanned(fs, Tail(ids))
        BY <1>2, <1>3, ScannedTail
    <2> QED BY <1>2, <1>4, <2>1
<1>6. b \in Seq(DocRecords)
    BY DEF Latest
<1>7. Latest(log)
    <2> HIDE DEF b
    <2>1. Latest(b)
        BY DEF b
    <2> QED BY <2>1, LatestAfter
<1>8. \A id \in Ids : docs[id] # NoDoc => \E i \in 1 .. Len(log) : log[i].id = id
    <2> SUFFICES ASSUME NEW id \in Ids, docs[id] # NoDoc
                 PROVE  \E i \in 1 .. Len(log) : log[i].id = id
        OBVIOUS
    <2>1. PICK i \in 1 .. Len(s) : s[i].id = id
        OBVIOUS
    <2> HIDE DEF b
    <2>2. i \in 1 .. Len(log) /\ log[i] = s[i]
        BY <1>6
    <2> HIDE DEF log
    <2> QED BY <2>1, <2>2
<1> HIDE DEF log
<1>9. Replayed(log).primary = docs
    BY <1>7, <1>8, LatestReplayed
<1> QED BY <1>1, <1>5, <1>9 DEF State, Log

\* The numbers of the old segments are at least their positions.
LEMMA AtLeast ==
    ASSUME NEW ids \in Seq(Nat), ids # <<>>, ids[1] = 0,
           \A i, j \in 1 .. Len(ids) : i < j => ids[i] < ids[j]
    PROVE  \A j \in 1 .. Len(ids) : ids[j] >= j - 1
<1> DEFINE n == Len(ids)
           S == {k \in 0 .. n : k = 0 \/ ids[k] >= k - 1}
<1>1. n \in Nat /\ \A i \in 1 .. n : ids[i] \in Nat
    OBVIOUS
<1>2. 0 \in S
    BY <1>1
<1>3. ASSUME NEW k \in 1 .. n, k - 1 \in S PROVE k \in S
    <2>1. CASE k = 1
        BY <1>1, <2>1
    <2>2. CASE k # 1
        <3>1. k - 1 \in 1 .. n /\ k - 1 < k /\ k \in 0 .. n
            BY <1>1, <2>2
        <3>2. ids[k - 1] >= (k - 1) - 1 /\ ids[k - 1] < ids[k]
            BY <1>3, <3>1
        <3>3. ids[k] >= k - 1
            BY <1>1, <3>1, <3>2
        <3> QED BY <3>1, <3>3
    <2> QED BY <2>1, <2>2
<1> HIDE DEF S, n
<1>4. \A k \in 0 .. n : k \in S
    BY <1>1, <1>2, <1>3, Induction
<1>5. \A j \in 1 .. n : j \in 0 .. n /\ j # 0
    BY <1>1
<1>6. \A j \in 1 .. n : ids[j] >= j - 1
    BY <1>4, <1>5 DEF S
<1> QED BY <1>6 DEF n

\* A renamed segment is a segment like the others.
LEMMA RenamedFiles ==
    ASSUME Good, CompactRename
    PROVE  /\ moved \in Nat /\ moved < Len(newSegs) /\ moved' = moved + 1
           /\ DOMAIN files' = DOMAIN files \cup {moved} /\ files'[moved] = newSegs[moved + 1]
           /\ \A n \in DOMAIN files : n # moved => files'[n] = files[n]
           /\ Segments'
<1>1. /\ lock = "rename" /\ moved < Len(newSegs) /\ moved' = moved + 1
      /\ files' = [n \in DOMAIN files \cup {moved} |->
                     IF n = moved THEN newSegs[moved + 1] ELSE files[n]]
    BY DEF CompactRename
<1>2. newSegs \in Seq(Seq(DocRecords)) /\ moved \in Nat
    BY <1>1 DEF Good, Compacting
<1>3. /\ DOMAIN files' = DOMAIN files \cup {moved} /\ files'[moved] = newSegs[moved + 1]
      /\ \A n \in DOMAIN files : n # moved => files'[n] = files[n]
    BY <1>1
<1>4. IsSegment(newSegs[moved + 1])
    <2>1. moved + 1 \in 1 .. Len(newSegs)
        BY <1>1, <1>2
    <2>2. newSegs[moved + 1] \in Seq(DocRecords)
        BY <1>2, <2>1
    <2>3. \A s \in Seq(DocRecords) : IsSegment(s)
        <3> SUFFICES ASSUME NEW s \in Seq(DocRecords) PROVE IsSegment(s)
            OBVIOUS
        <3>1. s \in Seq(Records \cup {Torn})
            BY DEF Records
        <3>2. \A i \in 1 .. Len(s) - 1 : s[i] \in Records
            BY DEF Records
        <3> QED BY <3>1, <3>2, TornIsNone DEF IsSegment
    <2> QED BY <2>2, <2>3
<1>5. Segments'
    BY <1>3, <1>4 DEF Good, Segments
<1> QED BY <1>1, <1>2, <1>3, <1>5

\* The rename of the only new segment, over the first of the old ones.
LEMMA CompactRenameOne ==
    ASSUME Good, CompactRename, Len(newSegs) = 1
    PROVE  Good'
<1> DEFINE s == newSegs[1]
           rest == Tail(segs)
<1>0. /\ lock = "rename" /\ up' = up /\ segs' = segs /\ txCounter' = txCounter /\ idx' = idx
      /\ newSegs' = newSegs /\ docs' = docs
      /\ lock' = IF moved' = Len(newSegs) THEN "remove" ELSE "rename"
    BY DEF CompactRename, memory
<1>1. /\ moved \in Nat /\ moved < Len(newSegs) /\ moved' = moved + 1
      /\ DOMAIN files' = DOMAIN files \cup {moved} /\ files'[moved] = newSegs[moved + 1]
      /\ \A n \in DOMAIN files : n # moved => files'[n] = files[n]
      /\ Segments'
    BY RenamedFiles
<1>2. moved = 0 /\ moved' = 1 /\ lock' = "remove"
    BY <1>0, <1>1
<1>3. up /\ Loaded /\ Segments
    BY <1>0, <1>2 DEF Good, Opened
<1>4. Ascending(segs, DOMAIN files) /\ segs # <<>> /\ segs[1] = 0 /\ segs \in Seq(Nat)
    BY <1>3 DEF Loaded, Ascending
<1>5. /\ newSegs \in Seq(Seq(DocRecords)) /\ Latest(Scanned(files, segs))
      /\ \A k \in 1 .. Len(newSegs) : \A i \in 1 .. Len(newSegs[k]) :
            newSegs[k][i].tx = 0 /\ newSegs[k][i].val = docs[newSegs[k][i].id]
      /\ \A id \in Ids : docs[id] # NoDoc =>
            \E k \in 1 .. Len(newSegs) : \E i \in 1 .. Len(newSegs[k]) : newSegs[k][i].id = id
      /\ \A i, j \in 1 .. Len(segs) : i < j => segs[i] < segs[j]
    BY <1>0, <1>2 DEF Good, Compacting
<1>6. docs \in [Ids -> Vals \cup {NoDoc}] /\ (up => idx = docs)
    BY DEF Good
<1>7. /\ s \in Seq(DocRecords)
      /\ \A i \in 1 .. Len(s) : s[i].tx = 0 /\ s[i].val = docs[s[i].id]
      /\ \A id \in Ids : docs[id] # NoDoc => \E i \in 1 .. Len(s) : s[i].id = id
    <2>1. \A k : k \in 1 .. Len(newSegs) <=> k = 1
        OBVIOUS
    <2>2. s \in Seq(DocRecords)
        BY <1>5, <2>1
    <2> QED BY <1>5, <2>1, <2>2
<1>8. \A i \in 1 .. Len(segs) : segs[i] \in DOMAIN files /\ IsSegment(files[segs[i]])
    BY <1>3, <1>4 DEF Ascending, Segments
<1>9. 0 \in DOMAIN files /\ DOMAIN files' = DOMAIN files /\ files'[0] = s
    <2>1. 1 \in 1 .. Len(segs)
        BY <1>4
    <2> QED BY <1>1, <1>2, <1>4, <1>8, <2>1
<1> DEFINE m == Len(segs)
<1>10. /\ rest \in Seq(Nat) /\ m \in Nat /\ m >= 1 /\ Len(rest) = m - 1
       /\ \A i \in 1 .. m - 1 : rest[i] = segs[i + 1]
       /\ rest = SubSeq(segs, 2, m) /\ segs = << 0 >> \o rest
    <2>1. segs = <<Head(segs)>> \o Tail(segs) /\ Head(segs) = segs[1]
        BY <1>4, HeadTailProperties
    <2>2. rest \in Seq(Nat) /\ m \in Nat /\ m >= 1 /\ Len(rest) = m - 1
        BY <1>4
    <2>3. \A i \in 1 .. m - 1 : rest[i] = segs[i + 1]
        BY <1>4
    <2>4. rest = SubSeq(segs, 2, m)
        BY <1>4, <2>2
    <2> QED BY <1>4, <2>1, <2>2, <2>3, <2>4
<1>11. \A i \in 1 .. Len(rest) : /\ rest[i] \in DOMAIN files /\ rest[i] # 0
                                 /\ IsSegment(files[rest[i]])
    <2> SUFFICES ASSUME NEW i \in 1 .. Len(rest)
                 PROVE  /\ rest[i] \in DOMAIN files /\ rest[i] # 0 /\ IsSegment(files[rest[i]])
        OBVIOUS
    <2>1. i + 1 \in 1 .. m /\ 1 \in 1 .. m /\ 1 < i + 1 /\ i \in 1 .. m - 1
        BY <1>10
    <2>2. rest[i] = segs[i + 1] /\ segs[1] < segs[i + 1]
        BY <1>5, <1>10, <2>1
    <2>3. segs[i + 1] # 0
        BY <1>4, <2>1, <2>2
    <2> QED BY <1>8, <2>1, <2>2, <2>3
<1> HIDE DEF m
<1>12. Latest(Scanned(files, rest))
    <2>1. Scanned(files, segs) = Readable(files[segs[1]]) \o Scanned(files, rest)
        BY <1>4, <1>8, ScannedTail
    <2> HIDE DEF rest
    <2>2. Scanned(files, rest) \in Seq(Records)
        BY <1>10, <1>11, ScannedRecords
    <2>3. Readable(files[segs[1]]) \in Seq(Records)
        BY <1>3, <1>4, <1>9, ReadableFacts DEF Segments
    <2> DEFINE a == Readable(files[segs[1]])
               b == Scanned(files, rest)
    <2>4. a \in Seq(Records) /\ b \in Seq(Records) /\ Latest(a \o b)
        BY <1>5, <2>1, <2>2, <2>3
    <2> HIDE DEF a, b
    <2>5. Latest(b)
        BY <2>4, LatestSuffix
    <2> QED BY <2>5 DEF b
<1> HIDE DEF rest, s
<1>13. Scanned(files', rest) = Scanned(files, rest)
    <2> DEFINE F == files
               G == files'
    <2>1. Len(rest) \in Nat /\ \A i \in 1 .. Len(rest) : Readable(G[rest[i]]) = Readable(F[rest[i]])
        BY <1>1, <1>2, <1>10, <1>11
    <2> HIDE DEF F, G
    <2>2. Scanned(G, rest) = Scanned(F, rest)
        BY <2>1, ScannedSame
    <2> QED BY <2>2 DEF F, G
<1> DEFINE fs == files'
<1>14. /\ fs[0] = s /\ Ascending(<< 0 >> \o rest, DOMAIN fs)
       /\ \A n \in DOMAIN fs : IsSegment(fs[n])
       /\ Latest(Scanned(fs, rest))
    BY <1>1, <1>4, <1>9, <1>10, <1>12, <1>13 DEF Segments
<1> HIDE DEF fs
<1>15. SegsOf(fs) = << 0 >> \o rest /\ State(fs).primary = docs
    BY <1>6, <1>7, <1>10, <1>14, OneSegment
<1>16. Numbered'
    BY <1>4, <1>9, <1>10, <1>15 DEF Numbered, fs
<1>17. Latest(Scanned(files, rest))'
    BY <1>0, <1>12, <1>13 DEF Latest, rest
<1>18. Compacting'
    <2>1. rest' = rest /\ rest = SubSeq(segs', moved' + 1, Len(segs'))
        BY <1>0, <1>2, <1>10 DEF m, rest
    <2>2. Latest(Scanned(files, SubSeq(segs, moved + 1, Len(segs))))'
        BY <1>17, <2>1
    <2>3. Ascending(<< 0 >> \o SubSeq(segs, moved + 1, Len(segs)), DOMAIN files)'
        BY <1>14, <2>1 DEF fs
    <2>4. \A k \in 1 .. Len(newSegs) : k = 1
        OBVIOUS
    <2>5. moved' <= Len(segs') /\ moved' >= Len(newSegs') /\ moved' \in Nat
        <3>1. Len(segs) \in Nat /\ Len(segs) >= 1
            BY <1>10 DEF m
        <3>2. Len(segs') = Len(segs) /\ Len(newSegs') = 1
            BY <1>0
        <3> QED BY <1>2, <3>1, <3>2
    <2>6. \A k \in 1 .. Len(newSegs') : k <= moved' =>
              k - 1 \in DOMAIN files' /\ files'[k - 1] = newSegs'[k]
        BY <1>0, <1>9, <2>4 DEF s
    <2>7. newSegs # <<>>
        OBVIOUS
    <2> QED BY <1>0, <1>2, <1>4, <1>5, <2>2, <2>3, <2>5, <2>6, <2>7 DEF Compacting
<1>19. Opened' /\ Committing'
    BY <1>0, <1>2, <1>3 DEF Good, Opened, Committing
<1> QED BY <1>0, <1>1, <1>2, <1>3, <1>6, <1>15, <1>16, <1>18, <1>19 DEF Good, fs

\* The rename of one of several new segments.
LEMMA CompactRenameMany ==
    ASSUME Good, CompactRename, Len(newSegs) # 1
    PROVE  Good'
<1>0. /\ lock = "rename" /\ up' = up /\ segs' = segs /\ txCounter' = txCounter /\ idx' = idx
      /\ newSegs' = newSegs /\ docs' = docs
      /\ lock' = IF moved' = Len(newSegs) THEN "remove" ELSE "rename"
    BY DEF CompactRename, memory
<1>1. /\ moved \in Nat /\ moved < Len(newSegs) /\ moved' = moved + 1
      /\ DOMAIN files' = DOMAIN files \cup {moved} /\ files'[moved] = newSegs[moved + 1]
      /\ \A n \in DOMAIN files : n # moved => files'[n] = files[n]
      /\ Segments'
    BY RenamedFiles
<1>2. /\ segs \in Seq(Nat) /\ segs # <<>> /\ segs[1] = 0
      /\ \A i, j \in 1 .. Len(segs) : i < j => segs[i] < segs[j]
      /\ newSegs \in Seq(Seq(DocRecords)) /\ newSegs # <<>>
      /\ \A k \in 1 .. Len(newSegs) : \A i \in 1 .. Len(newSegs[k]) :
            newSegs[k][i].tx = 0 /\ newSegs[k][i].val = docs[newSegs[k][i].id]
      /\ \A id \in Ids : docs[id] # NoDoc =>
            \E k \in 1 .. Len(newSegs) : \E i \in 1 .. Len(newSegs[k]) : newSegs[k][i].id = id
      /\ \A k \in 1 .. Len(newSegs) : k <= moved =>
            k - 1 \in DOMAIN files /\ files[k - 1] = newSegs[k]
    BY <1>0 DEF Good, Compacting
<1>3. up /\ docs \in [Ids -> Vals \cup {NoDoc}] /\ idx = docs /\ txCounter \in Nat
    BY <1>0 DEF Good, Opened
<1>4. Len(newSegs) \in Nat /\ Len(newSegs) > 1
    <2>1. newSegs \in Seq(Seq(DocRecords)) /\ newSegs # <<>>
        BY <1>2
    <2>2. \A S : \A t \in Seq(S) : t # <<>> => Len(t) \in Nat /\ Len(t) # 0
        OBVIOUS
    <2> DEFINE n == Len(newSegs)
    <2>3. n \in Nat /\ n # 0 /\ n # 1
        BY <2>1, <2>2, Zenon
    <2> HIDE DEF n
    <2>4. n \in Nat /\ n > 1
        BY <2>3
    <2> QED BY <2>4 DEF n
<1>5. lock' \in {"rename", "remove"} /\ Exposed'
    BY <1>0, <1>4 DEF Exposed
<1>6. ASSUME NEW k \in 1 .. Len(newSegs), k <= moved'
      PROVE  k - 1 \in DOMAIN files' /\ files'[k - 1] = newSegs[k]
    <2>1. CASE k = moved + 1
        <3>1. k - 1 = moved
            BY <1>1, <2>1
        <3> QED BY <1>1, <2>1, <3>1
    <2>2. CASE k # moved + 1
        <3>1. k <= moved /\ k - 1 # moved
            BY <1>1, <1>6, <2>2
        <3> QED BY <1>1, <1>2, <3>1
    <2> QED BY <2>1, <2>2
<1>7. /\ moved' \in Nat /\ moved' # 0
      /\ (lock' = "rename" => moved' < Len(newSegs))
      /\ (lock' = "remove" => moved' >= Len(newSegs))
    <2>1. CASE moved' = Len(newSegs)
        BY <1>0, <1>1, <1>4, <2>1
    <2>2. CASE moved' # Len(newSegs)
        <3>1. lock' = "rename"
            BY <1>0, <2>2
        <3> QED BY <1>1, <1>4, <2>2, <3>1
    <2> QED BY <2>1, <2>2
<1>8. Compacting'
    BY <1>0, <1>2, <1>6, <1>7 DEF Compacting
<1>9. Opened' /\ Committing' /\ Numbered'
    BY <1>0, <1>3, <1>5, <1>7 DEF Opened, Committing, Numbered
<1> QED BY <1>0, <1>1, <1>3, <1>5, <1>8, <1>9 DEF Good

\* A suffix of a list, and the next one.
LEMMA SuffixFacts ==
    ASSUME NEW ids \in Seq(Nat), NEW m \in Nat, m < Len(ids)
    PROVE  LET rest == SubSeq(ids, m + 1, Len(ids))
               tl == SubSeq(ids, m + 2, Len(ids))
           IN  /\ rest \in Seq(Nat) /\ rest # <<>> /\ rest[1] = ids[m + 1]
               /\ Tail(rest) = tl /\ tl \in Seq(Nat)
               /\ Len(rest) \in Nat /\ Len(rest) >= 1 /\ Len(tl) = Len(rest) - 1
               /\ \A i \in 1 .. Len(tl) : tl[i] = rest[i + 1]
<1> DEFINE n == Len(ids)
           rest == SubSeq(ids, m + 1, n)
           tl == SubSeq(ids, m + 2, n)
           k == n - m
<1>1. n \in Nat /\ m + 1 \in Int /\ m + 2 \in Int /\ n \in Int /\ k \in Nat /\ k >= 1
    OBVIOUS
<1>2. \A i \in m + 1 .. n : ids[i] \in Nat
    OBVIOUS
<1>3. \A i \in m + 2 .. n : ids[i] \in Nat
    OBVIOUS
<1> HIDE DEF n
<1>4. /\ rest \in Seq(Nat) /\ Len(rest) = (IF m + 1 <= n THEN n - (m + 1) + 1 ELSE 0)
      /\ \A i \in 1 .. n - (m + 1) + 1 : rest[i] = ids[m + 1 + i - 1]
    BY <1>1, <1>2, SubSeqProperties
<1>5. /\ tl \in Seq(Nat) /\ Len(tl) = (IF m + 2 <= n THEN n - (m + 2) + 1 ELSE 0)
      /\ \A i \in 1 .. n - (m + 2) + 1 : tl[i] = ids[m + 2 + i - 1]
    BY <1>1, <1>3, SubSeqProperties
<1> HIDE DEF rest, tl
<1>6. Len(rest) = k /\ \A i \in 1 .. k : rest[i] = ids[m + i]
    <2>1. n - (m + 1) + 1 = k /\ m + 1 <= n
        BY <1>1
    <2>2. \A i \in 1 .. k : m + 1 + i - 1 = m + i
        BY <1>1
    <2> QED BY <1>4, <2>1, <2>2
<1>7. Len(tl) = k - 1 /\ \A i \in 1 .. k - 1 : tl[i] = ids[m + (i + 1)]
    <2>1. n - (m + 2) + 1 = k - 1 /\ (m + 2 <= n <=> k - 1 >= 1) /\ (k - 1 = 0 \/ k - 1 >= 1)
        BY <1>1
    <2>2. \A i \in 1 .. k - 1 : m + 2 + i - 1 = m + (i + 1)
        BY <1>1
    <2>3. Len(tl) = k - 1
        BY <1>1, <1>5, <2>1
    <2> QED BY <1>5, <2>1, <2>2, <2>3
<1>8. rest[1] = ids[m + 1] /\ rest # <<>>
    <2>1. 1 \in 1 .. k
        BY <1>1
    <2> QED BY <1>1, <1>4, <1>6, <2>1
<1> HIDE DEF k
<1>9. \A i \in 1 .. k - 1 : tl[i] = rest[i + 1]
    <2>1. \A i \in 1 .. k - 1 : i + 1 \in 1 .. k
        BY <1>1
    <2> QED BY <1>6, <1>7, <2>1
<1> DEFINE u == Tail(rest)
<1>10. u \in Seq(Nat) /\ Len(u) = k - 1 /\ \A i \in 1 .. k - 1 : u[i] = rest[i + 1]
    BY <1>1, <1>4, <1>6, <1>8
<1> HIDE DEF u
<1>11. u = tl
    <2>1. Len(u) = Len(tl) /\ \A i \in 1 .. Len(u) : u[i] = tl[i]
        BY <1>7, <1>9, <1>10
    <2> QED BY <1>5, <1>10, <2>1, SeqEqual
<1>12. /\ rest \in Seq(Nat) /\ rest # <<>> /\ rest[1] = ids[m + 1]
       /\ Tail(rest) = tl /\ tl \in Seq(Nat)
       /\ Len(rest) \in Nat /\ Len(rest) >= 1 /\ Len(tl) = Len(rest) - 1
       /\ \A i \in 1 .. Len(tl) : tl[i] = rest[i + 1]
    BY <1>1, <1>4, <1>5, <1>6, <1>7, <1>8, <1>9, <1>11 DEF u
<1> QED BY <1>12 DEF rest, tl, n

\* The removal of an old segment.
LEMMA RemovedFiles ==
    ASSUME Good, CompactRemove
    PROVE  /\ moved \in Nat /\ moved < Len(segs) /\ moved' = moved + 1
           /\ DOMAIN files' = DOMAIN files \ {segs[moved + 1]}
           /\ \A n \in DOMAIN files : n # segs[moved + 1] => files'[n] = files[n]
           /\ Segments'
           /\ \A k \in 1 .. Len(newSegs) : k - 1 \in DOMAIN files' /\ files'[k - 1] = newSegs[k]
<1>1. /\ lock = "remove" /\ moved < Len(segs) /\ moved' = moved + 1
      /\ files' = [n \in DOMAIN files \ {segs[moved + 1]} |-> files[n]]
    BY DEF CompactRemove
<1>2. /\ segs \in Seq(Nat) /\ segs # <<>> /\ segs[1] = 0
      /\ \A i, j \in 1 .. Len(segs) : i < j => segs[i] < segs[j]
      /\ moved \in Nat /\ newSegs \in Seq(Seq(DocRecords)) /\ moved >= Len(newSegs)
      /\ \A k \in 1 .. Len(newSegs) : k <= moved =>
            k - 1 \in DOMAIN files /\ files[k - 1] = newSegs[k]
    BY <1>1 DEF Good, Compacting
<1>3. /\ DOMAIN files' = DOMAIN files \ {segs[moved + 1]}
      /\ \A n \in DOMAIN files : n # segs[moved + 1] => files'[n] = files[n]
    BY <1>1
<1>4. Segments'
    BY <1>3 DEF Good, Segments
<1>5. segs[moved + 1] \in Nat /\ segs[moved + 1] >= moved
    <2>1. moved + 1 \in 1 .. Len(segs) /\ (moved + 1) - 1 = moved
        BY <1>1, <1>2
    <2>2. segs[moved + 1] >= (moved + 1) - 1
        BY <1>2, <2>1, AtLeast
    <2> QED BY <1>2, <2>1, <2>2
<1>6. ASSUME NEW k \in 1 .. Len(newSegs)
      PROVE  k - 1 \in DOMAIN files' /\ files'[k - 1] = newSegs[k]
    <2>1. Len(newSegs) \in Nat
        BY <1>2
    <2>2. k <= moved /\ k - 1 # segs[moved + 1]
        BY <1>2, <1>5, <2>1
    <2> QED BY <1>2, <1>3, <2>2
<1> QED BY <1>1, <1>2, <1>3, <1>4, <1>6

\* What is left of the old segments still ends in the documents as they are.
LEMMA CompactRemoveStep ==
    ASSUME Good, CompactRemove
    PROVE  Good'
<1>0. /\ lock = "remove" /\ lock' = lock /\ up' = up /\ segs' = segs /\ txCounter' = txCounter
      /\ idx' = idx /\ newSegs' = newSegs /\ docs' = docs
    BY DEF CompactRemove, memory
<1>1. /\ moved \in Nat /\ moved < Len(segs) /\ moved' = moved + 1
      /\ DOMAIN files' = DOMAIN files \ {segs[moved + 1]}
      /\ \A n \in DOMAIN files : n # segs[moved + 1] => files'[n] = files[n]
      /\ Segments'
      /\ \A k \in 1 .. Len(newSegs) : k - 1 \in DOMAIN files' /\ files'[k - 1] = newSegs[k]
    BY RemovedFiles
<1>2. /\ segs \in Seq(Nat) /\ segs # <<>> /\ segs[1] = 0
      /\ \A i, j \in 1 .. Len(segs) : i < j => segs[i] < segs[j]
      /\ newSegs \in Seq(Seq(DocRecords)) /\ newSegs # <<>> /\ moved >= Len(newSegs)
      /\ \A k \in 1 .. Len(newSegs) : \A i \in 1 .. Len(newSegs[k]) :
            newSegs[k][i].tx = 0 /\ newSegs[k][i].val = docs[newSegs[k][i].id]
      /\ \A id \in Ids : docs[id] # NoDoc =>
            \E k \in 1 .. Len(newSegs) : \E i \in 1 .. Len(newSegs[k]) : newSegs[k][i].id = id
    BY <1>0 DEF Good, Compacting
<1>3. up /\ docs \in [Ids -> Vals \cup {NoDoc}] /\ idx = docs /\ txCounter \in Nat /\ Segments
    BY <1>0 DEF Good, Opened
<1> DEFINE rest == SubSeq(segs, moved + 1, Len(segs))
           tl == SubSeq(segs, moved + 2, Len(segs))
           x == segs[moved + 1]
<1>4. Len(newSegs) = 1 =>
        /\ Ascending(<< 0 >> \o tl, DOMAIN files') /\ Latest(Scanned(files', tl))
        /\ State(files').primary = docs /\ SegsOf(files') = << 0 >> \o tl /\ tl \in Seq(Nat)
    <2> SUFFICES ASSUME Len(newSegs) = 1
                 PROVE  /\ Ascending(<< 0 >> \o tl, DOMAIN files') /\ Latest(Scanned(files', tl))
                        /\ State(files').primary = docs /\ SegsOf(files') = << 0 >> \o tl
                        /\ tl \in Seq(Nat)
        OBVIOUS
    <2>1. Ascending(<< 0 >> \o rest, DOMAIN files) /\ Latest(Scanned(files, rest))
        BY <1>0 DEF Good, Compacting
    <2>2. segs \in Seq(Nat)
        BY <1>2
    <2>3. /\ rest \in Seq(Nat) /\ rest # <<>> /\ rest[1] = x /\ Tail(rest) = tl /\ tl \in Seq(Nat)
          /\ Len(rest) \in Nat /\ Len(rest) >= 1 /\ Len(tl) = Len(rest) - 1
          /\ \A i \in 1 .. Len(tl) : tl[i] = rest[i + 1]
        BY <1>1, <2>2, SuffixFacts
    <2> HIDE DEF rest, tl
    <2>4. /\ << 0 >> \o rest \in Seq(Nat) /\ Len(<< 0 >> \o rest) = Len(rest) + 1
          /\ (<< 0 >> \o rest)[1] = 0
          /\ \A i \in 1 .. Len(rest) : (<< 0 >> \o rest)[i + 1] = rest[i]
        BY <2>3, ZeroFirst
    <2>5. /\ << 0 >> \o tl \in Seq(Nat) /\ Len(<< 0 >> \o tl) = Len(tl) + 1
          /\ (<< 0 >> \o tl)[1] = 0
          /\ \A i \in 1 .. Len(tl) : (<< 0 >> \o tl)[i + 1] = tl[i]
        BY <2>3, ZeroFirst
    <2>6. /\ Len(rest) \in Nat /\ Len(rest) >= 1 /\ Len(tl) = Len(rest) - 1
          /\ \A i \in 1 .. Len(tl) : tl[i] = rest[i + 1]
        BY <2>3
    <2> DEFINE p == << 0 >> \o rest
               q == << 0 >> \o tl
               n == Len(rest)
    <2>7. /\ p[1] = 0 /\ p[2] = x /\ q[1] = 0 /\ \A i \in 2 .. n : q[i] = p[i + 1]
        <3>1. 1 \in 1 .. n /\ p[1 + 1] = rest[1]
            BY <2>4, <2>6
        <3>2. ASSUME NEW i \in 2 .. n PROVE q[i] = p[i + 1]
            <4>1. i - 1 \in 1 .. Len(tl) /\ (i - 1) + 1 = i /\ i \in 1 .. n
                BY <2>6
            <4>2. q[i] = tl[i - 1] /\ tl[i - 1] = rest[i] /\ p[i + 1] = rest[i]
                BY <2>4, <2>5, <2>6, <4>1
            <4> QED BY <4>2
        <3> QED BY <2>3, <2>4, <2>5, <3>1, <3>2
    <2>8. p \in Seq(Nat) /\ q \in Seq(Nat) /\ Len(p) = n + 1 /\ Len(q) = n /\ n \in Nat /\ n >= 1
        BY <2>4, <2>5, <2>6
    <2>9. /\ DOMAIN files = {p[i] : i \in 1 .. n + 1}
          /\ \A i, j \in 1 .. n + 1 : i < j => p[i] < p[j]
        BY <2>1, <2>8 DEF Ascending
    <2> HIDE DEF p, q, n
    <2>10. \A i \in 1 .. n + 1 : p[i] \in Nat
        BY <2>8
    <2>11. \A i \in 1 .. n + 1 : i # 2 => p[i] # x
        <3> SUFFICES ASSUME NEW i \in 1 .. n + 1, i # 2 PROVE p[i] # x
            OBVIOUS
        <3>1. 2 \in 1 .. n + 1 /\ (i < 2 \/ 2 < i)
            BY <2>8
        <3>2. p[i] < p[2] \/ p[2] < p[i]
            BY <2>9, <3>1
        <3>3. p[i] \in Nat /\ p[2] \in Nat
            BY <2>10, <3>1
        <3> QED BY <2>7, <3>2, <3>3
    <2>12. Ascending(q, DOMAIN files')
        <3> DEFINE h(i) == IF i = 1 THEN 1 ELSE i + 1
        <3>1. \A i \in 1 .. n : h(i) \in 1 .. n + 1 /\ h(i) # 2 /\ q[i] = p[h(i)]
            BY <2>7, <2>8
        <3>2. \A i \in 1 .. n + 1 : i # 2 => \E j \in 1 .. n : h(j) = i
            <4> SUFFICES ASSUME NEW i \in 1 .. n + 1, i # 2 PROVE \E j \in 1 .. n : h(j) = i
                OBVIOUS
            <4>1. CASE i = 1
                BY <2>8, <4>1
            <4>2. CASE i # 1
                <5>1. i - 1 \in 1 .. n /\ i - 1 # 1 /\ (i - 1) + 1 = i
                    BY <2>8, <4>2
                <5> QED BY <5>1
            <4> QED BY <4>1, <4>2
        <3>3. \A i, j \in 1 .. n : i < j => h(i) < h(j)
            BY <2>8
        <3> HIDE DEF h
        <3>4. DOMAIN files' = {q[i] : i \in 1 .. n}
            <4>1. \A y \in DOMAIN files' : \E i \in 1 .. n : q[i] = y
                <5> SUFFICES ASSUME NEW y \in DOMAIN files' PROVE \E i \in 1 .. n : q[i] = y
                    OBVIOUS
                <5>1. PICK i \in 1 .. n + 1 : p[i] = y
                    BY <1>1, <2>9
                <5>2. i # 2
                    BY <1>1, <2>7, <5>1
                <5>3. PICK j \in 1 .. n : h(j) = i
                    BY <3>2, <5>2
                <5> QED BY <3>1, <5>1, <5>3
            <4>2. \A i \in 1 .. n : q[i] \in DOMAIN files'
                BY <1>1, <2>9, <2>11, <3>1
            <4> QED BY <4>1, <4>2
        <3>5. \A i, j \in 1 .. n : i < j => q[i] < q[j]
            BY <2>9, <3>1, <3>3
        <3> QED BY <2>8, <3>4, <3>5 DEF Ascending
    <2>13. \A i \in 1 .. Len(tl) : tl[i] \in DOMAIN files /\ tl[i] # x /\ IsSegment(files[tl[i]])
        <3> SUFFICES ASSUME NEW i \in 1 .. Len(tl)
                     PROVE  tl[i] \in DOMAIN files' /\ IsSegment(files[tl[i]])
            BY <1>1
        <3>1. i + 1 \in 1 .. n /\ q[i + 1] = tl[i]
            BY <2>5, <2>6 DEF q, n
        <3>2. q[i + 1] \in DOMAIN files'
            BY <2>8, <2>12, <3>1 DEF Ascending
        <3> QED BY <1>1, <1>3, <3>1, <3>2 DEF Segments
    <2>14. Latest(Scanned(files, tl))
        <3> DEFINE a == Readable(files[x])
                   b == Scanned(files, tl)
        <3>1. x \in DOMAIN files
            <4>1. 2 \in 1 .. n + 1
                BY <2>8
            <4> QED BY <2>7, <2>9, <4>1
        <3>2. a \in Seq(Records)
            BY <1>3, <3>1, ReadableFacts DEF Segments
        <3>3. b \in Seq(Records)
            BY <2>3, <2>13, ScannedRecords
        <3>4. \A i \in 1 .. Len(rest) : IsSegment(files[rest[i]])
            <4> SUFFICES ASSUME NEW i \in 1 .. Len(rest) PROVE IsSegment(files[rest[i]])
                OBVIOUS
            <4>1. i + 1 \in 1 .. n + 1 /\ p[i + 1] = rest[i]
                BY <2>4, <2>6 DEF p, n
            <4> QED BY <1>3, <2>9, <4>1 DEF Segments
        <3>5. Scanned(files, rest) = Readable(files[rest[1]]) \o Scanned(files, Tail(rest))
            BY <2>3, <3>4, ScannedTail
        <3>6. Latest(a \o b)
            BY <2>1, <2>3, <3>5
        <3> HIDE DEF a, b
        <3>7. Latest(b)
            BY <3>2, <3>3, <3>6, LatestSuffix
        <3> QED BY <3>7 DEF b
    <2>15. Scanned(files', tl) = Scanned(files, tl)
        <3> DEFINE F == files
                   G == files'
        <3>1. Len(tl) \in Nat /\ \A i \in 1 .. Len(tl) : Readable(G[tl[i]]) = Readable(F[tl[i]])
            BY <1>1, <2>3, <2>13
        <3> HIDE DEF F, G
        <3>2. Scanned(G, tl) = Scanned(F, tl)
            BY <3>1, ScannedSame
        <3> QED BY <3>2 DEF F, G
    <2> DEFINE s == newSegs[1]
               fs == files'
    <2>16. /\ s \in Seq(DocRecords)
           /\ \A i \in 1 .. Len(s) : s[i].tx = 0 /\ s[i].val = docs[s[i].id]
           /\ \A id \in Ids : docs[id] # NoDoc => \E i \in 1 .. Len(s) : s[i].id = id
        <3>1. \A k : k \in 1 .. Len(newSegs) <=> k = 1
            OBVIOUS
        <3>2. s \in Seq(DocRecords)
            BY <1>2, <3>1
        <3> QED BY <1>2, <3>1, <3>2
    <2>17. fs[0] = s
        <3>1. 1 \in 1 .. Len(newSegs) /\ 1 - 1 = 0
            OBVIOUS
        <3> QED BY <1>1, <3>1
    <2>18. /\ Ascending(<< 0 >> \o tl, DOMAIN fs) /\ \A k \in DOMAIN fs : IsSegment(fs[k])
           /\ Latest(Scanned(fs, tl))
        BY <1>1, <2>12, <2>14, <2>15 DEF Segments, q
    <2> HIDE DEF s, fs
    <2>19. SegsOf(fs) = << 0 >> \o tl /\ State(fs).primary = docs
        BY <1>3, <2>3, <2>16, <2>17, <2>18, OneSegment
    <2> QED BY <2>3, <2>18, <2>19 DEF fs
<1>5. Len(newSegs) \in Nat /\ (~Exposed' => Len(newSegs) = 1)
    <2>1. \A S : \A t \in Seq(S) : t # <<>> => Len(t) \in Nat /\ Len(t) # 0
        OBVIOUS
    <2>2. newSegs \in Seq(Seq(DocRecords)) /\ newSegs # <<>>
        BY <1>2
    <2>3. Len(newSegs) \in Nat /\ Len(newSegs) # 0
        BY <2>1, <2>2, Zenon
    <2>4. Exposed' <=> Len(newSegs) > 1
        BY <1>0 DEF Exposed
    <2> DEFINE n == Len(newSegs)
    <2>5. n \in Nat /\ n # 0 /\ (Exposed' <=> n > 1)
        BY <2>3, <2>4
    <2> HIDE DEF n
    <2>6. n \in Nat /\ (~Exposed' => n = 1)
        BY <2>5
    <2> QED BY <2>6 DEF n
<1>6. Numbered' /\ (~Exposed' => State(files').primary = docs)
    <2>1. ASSUME ~Exposed'
          PROVE  /\ Ascending(SegsOf(files'), DOMAIN files') /\ SegsOf(files')[1] = 0
                 /\ State(files').primary = docs
        <3>1. Len(newSegs) = 1
            BY <1>5, <2>1
        <3> HIDE DEF tl
        <3>2. (<< 0 >> \o tl)[1] = 0
            BY <1>4, <3>1, ZeroFirst
        <3> QED BY <1>4, <3>1, <3>2
    <2> QED BY <2>1 DEF Numbered
<1>7. Compacting'
    <2>1. moved' \in Nat /\ moved' >= Len(newSegs) /\ moved' <= Len(segs) /\ moved' + 1 = moved + 2
        <3>1. Len(segs) \in Nat
            BY <1>2
        <3> QED BY <1>1, <1>2, <1>5, <3>1
    <2>2. tl = SubSeq(segs', moved' + 1, Len(segs'))
        BY <1>0, <2>1
    <2> HIDE DEF tl
    <2>3. Len(newSegs) = 1 => Ascending(<< 0 >> \o SubSeq(segs, moved + 1, Len(segs)), DOMAIN files)'
        BY <1>4, <2>2
    <2>4. Len(newSegs) = 1 => Latest(Scanned(files, SubSeq(segs, moved + 1, Len(segs))))'
        <3> SUFFICES ASSUME Len(newSegs) = 1
                     PROVE  Latest(Scanned(files, SubSeq(segs, moved + 1, Len(segs))))'
            OBVIOUS
        <3> DEFINE log == Scanned(files', tl)
        <3>1. Latest(log)
            BY <1>4
        <3>2. log = Scanned(files', SubSeq(segs', moved' + 1, Len(segs')))
            BY <2>2
        <3> HIDE DEF log
        <3> QED BY <1>0, <3>1, <3>2 DEF Latest
    <2> QED BY <1>0, <1>1, <1>2, <2>1, <2>3, <2>4 DEF Compacting
<1>8. Opened' /\ Committing'
    BY <1>0, <1>3 DEF Good, Opened, Committing
<1> QED BY <1>0, <1>1, <1>3, <1>6, <1>7, <1>8 DEF Good

\* The end of a compaction: its segments are all there is.
LEMMA CompactEndStep ==
    ASSUME Good, CompactEnd, ~damaged'
    PROVE  Good'
<1> DEFINE n == Len(newSegs)
           ids == [k \in DOMAIN newSegs |-> k - 1]
           log == Scanned(files, ids)
<1>0. /\ lock = "remove" /\ segs' = ids /\ nextSeg' = n /\ lock' = "free" /\ files' = files
      /\ size' = [k \in Range(ids) |-> Len(files[k])] /\ idx' = Recovered(files, ids)
      /\ DOMAIN files = Range(ids) /\ up' = up /\ txCounter' = txCounter /\ docs' = docs
    <2>1. segs' = ids
        BY DEF CompactEnd
    <2> HIDE DEF ids
    <2> QED BY <2>1 DEF CompactEnd
<1>1. newSegs \in Seq(Seq(DocRecords)) /\ newSegs # <<>>
    BY <1>0 DEF Good, Compacting
<1>2. /\ moved >= n
      /\ \A k \in 1 .. n : \A i \in 1 .. Len(newSegs[k]) :
            newSegs[k][i].tx = 0 /\ newSegs[k][i].val = docs[newSegs[k][i].id]
      /\ \A id \in Ids : docs[id] # NoDoc =>
            \E k \in 1 .. n : \E i \in 1 .. Len(newSegs[k]) : newSegs[k][i].id = id
      /\ moved \in Nat
      /\ \A k \in 1 .. n : k <= moved => k - 1 \in DOMAIN files /\ files[k - 1] = newSegs[k]
    BY <1>0 DEF Good, Compacting
<1>3. up /\ docs \in [Ids -> Vals \cup {NoDoc}] /\ txCounter \in Nat /\ Segments
    BY <1>0 DEF Good, Opened
<1>4. n \in Nat /\ n >= 1 /\ DOMAIN newSegs = 1 .. n
    <2>1. \A S : \A t \in Seq(S) : t # <<>> => Len(t) \in Nat /\ Len(t) # 0 /\ DOMAIN t = 1 .. Len(t)
        OBVIOUS
    <2>2. n \in Nat /\ n # 0 /\ DOMAIN newSegs = 1 .. n
        BY <1>1, <2>1, Zenon
    <2> HIDE DEF n
    <2> QED BY <2>2
<1> HIDE DEF n
<1>5. DOMAIN ids = 1 .. n /\ ids \in Seq(Nat) /\ Len(ids) = n /\ \A k \in 1 .. n : ids[k] = k - 1
    <2>1. DOMAIN ids = 1 .. n /\ \A k \in 1 .. n : ids[k] = k - 1
        BY <1>4
    <2>2. \A k \in 1 .. n : k - 1 \in Nat
        BY <1>4
    <2>3. ids \in [1 .. n -> Nat]
        BY <1>4, <2>2
    <2>4. \A k \in Nat : \A t \in [1 .. k -> Nat] : t \in Seq(Nat) /\ Len(t) = k
        OBVIOUS
    <2> HIDE DEF ids
    <2> QED BY <1>4, <2>1, <2>3, <2>4
<1> HIDE DEF ids
<1>6. Range(ids) = {ids[i] : i \in 1 .. n}
    BY <1>5 DEF Range
<1>7. Ascending(ids, DOMAIN files)
    <2>1. \A i, j \in 1 .. n : i < j => ids[i] < ids[j]
        <3>1. \A i, j \in 1 .. n : i < j => i - 1 < j - 1
            BY <1>4
        <3> QED BY <1>5, <3>1
    <2> QED BY <1>0, <1>5, <1>6, <2>1 DEF Ascending
<1>8. ids # <<>> /\ ids[1] = 0
    <2>1. 1 \in 1 .. n /\ 1 - 1 = 0
        BY <1>4
    <2> QED BY <1>5, <2>1
<1>9. \A k \in 1 .. n : ids[k] \in DOMAIN files /\ files[ids[k]] = newSegs[k]
    <2>1. \A k \in 1 .. n : k <= moved
        BY <1>2, <1>4
    <2> QED BY <1>2, <1>5, <2>1
<1>10. \A k \in 1 .. n : newSegs[k] \in Seq(DocRecords) /\ newSegs[k] \in Seq(Records)
    <2>1. \A k \in 1 .. n : newSegs[k] \in Seq(DocRecords)
        BY <1>1, <1>4
    <2>2. Seq(DocRecords) \subseteq Seq(Records)
        BY DEF Records
    <2> QED BY <2>1, <2>2
<1>11. \A k \in 1 .. n : IsSegment(files[ids[k]]) /\ Readable(files[ids[k]]) = newSegs[k]
    BY <1>3, <1>9, <1>10, ReadableWhole DEF Segments
<1>12. /\ log \in Seq(Records)
       /\ \A x : x \in El(log) <=> \E k \in 1 .. n : x \in El(newSegs[k])
    <2>1. /\ log \in Seq(Records)
          /\ \A x : x \in El(log) <=> \E i \in 1 .. Len(ids) : x \in El(Readable(files[ids[i]]))
        BY <1>5, <1>11, ScannedRecords
    <2> HIDE DEF log
    <2> QED BY <1>5, <1>11, <2>1
<1> HIDE DEF log
<1>13. ASSUME NEW i \in 1 .. Len(log)
       PROVE  log[i] \in DocRecords /\ log[i].tx = 0 /\ log[i].val = docs[log[i].id]
    <2>1. log[i] \in El(log)
        BY DEF El
    <2>2. PICK k \in 1 .. n : log[i] \in El(newSegs[k])
        BY <1>12, <2>1
    <2>3. PICK j \in 1 .. Len(newSegs[k]) : log[i] = newSegs[k][j]
        BY <2>2 DEF El
    <2>4. newSegs[k][j] \in DocRecords
        BY <1>10
    <2> QED BY <1>2, <2>3, <2>4
<1>14. log \in Seq(DocRecords)
    <2>1. \A k \in Nat : \A t \in [1 .. k -> DocRecords] : t \in Seq(DocRecords)
        OBVIOUS
    <2>2. Len(log) \in Nat /\ log = [i \in 1 .. Len(log) |-> log[i]]
        BY <1>12
    <2>3. log \in [1 .. Len(log) -> DocRecords]
        BY <1>13, <2>2
    <2> QED BY <2>1, <2>2, <2>3
<1>15. Latest(log)
    BY <1>13, <1>14 DEF Latest
<1>16. \A id \in Ids : docs[id] # NoDoc => \E i \in 1 .. Len(log) : log[i].id = id
    <2> SUFFICES ASSUME NEW id \in Ids, docs[id] # NoDoc
                 PROVE  \E i \in 1 .. Len(log) : log[i].id = id
        OBVIOUS
    <2>1. PICK k \in 1 .. n : \E i \in 1 .. Len(newSegs[k]) : newSegs[k][i].id = id
        BY <1>2
    <2>2. PICK i \in 1 .. Len(newSegs[k]) : newSegs[k][i].id = id
        BY <2>1
    <2>3. newSegs[k][i] \in El(newSegs[k])
        BY DEF El
    <2>4. newSegs[k][i] \in El(log)
        BY <1>12, <2>3
    <2>5. PICK j \in 1 .. Len(log) : newSegs[k][i] = log[j]
        BY <2>4 DEF El
    <2> QED BY <2>2, <2>5
<1>17. Replayed(log).primary = docs
    BY <1>3, <1>15, <1>16, LatestReplayed
<1>18. SegsOf(files) = ids
    BY <1>7, SegsOfAscending
<1>19. State(files').primary = docs' /\ idx' = docs' /\ Log(files') \in Seq(Records)
    BY <1>0, <1>12, <1>17, <1>18 DEF State, Log, Recovered, log
<1>20. Segments'
    BY <1>0, <1>3 DEF Segments
<1>21. \A k \in DOMAIN files : Len(files[k]) \in Nat /\ k < n
    <2>1. \A s : IsSegment(s) => Len(s) \in Nat
        BY DEF IsSegment
    <2>2. \A k \in 1 .. n : k - 1 < n
        BY <1>4
    <2>3. \A k \in 1 .. n : ids[k] < n
        BY <1>5, <2>2
    <2> QED BY <1>0, <1>3, <1>6, <2>1, <2>3 DEF Segments
<1>22. Loaded'
    BY <1>0, <1>4, <1>7, <1>8, <1>21 DEF Loaded
<1>23. Committing'
    BY <1>0 DEF Committing
<1> QED BY <1>0, <1>3, <1>19, <1>20, <1>22, <1>23, GoodWhenLoaded

----------------------------------------------------------------------------
\* No files: nothing is known, and nothing has been written.
LEMMA InitInv == Init => Inv
<1> SUFFICES ASSUME Init PROVE Good
    BY DEF Inv
<1>1. /\ files = <<>> /\ ~up /\ lock = "free" /\ docs = NoDocs
    BY DEF Init
<1>2. DOMAIN files = {}
    BY <1>1
<1>3. <<>> \in Seq(Nat) /\ Ascending(<<>>, DOMAIN files)
    BY <1>2 DEF Ascending
<1>4. SegsOf(files) = <<>>
    BY <1>3, SegsOfAscending
<1>5. Numbered /\ Segments /\ Opened /\ Committing /\ Compacting
    BY <1>1, <1>2, <1>3, <1>4 DEF Numbered, Segments, Opened, Committing, Compacting
<1>6. State(files) = Blank
    BY <1>4, ScannedEmpty, ReplayedEmpty DEF State, Log
<1>7. State(files).primary = docs
    BY <1>1, <1>6 DEF Blank
<1>8. docs \in [Ids -> Vals \cup {NoDoc}]
    BY <1>1 DEF NoDocs
<1> QED BY <1>1, <1>5, <1>7, <1>8 DEF Good

\* What is damaged stays damaged.
LEMMA DamageStays == Next /\ damaged => damaged'
<1> SUFFICES ASSUME Next, damaged PROVE damaged'
    OBVIOUS
<1>1. \A e : Put(e) => damaged'
    BY DEF Put
<1>2. \A e : AppendEntry(e) => damaged'
    BY <1>1 DEF AppendEntry
<1>3. CASE Open
    BY <1>3 DEF Open
<1>4. CASE Crash
    BY <1>4 DEF Crash
<1>5. CASE TornWrite
    BY <1>1, <1>5 DEF TornWrite
<1>6. CASE FailedWrite
    BY <1>2, <1>6 DEF FailedWrite
<1>7. ASSUME NEW id, NEW v, Write(id, v) PROVE damaged'
    BY <1>2, <1>7 DEF Write
<1>8. ASSUME NEW id \in Ids, NEW v \in Vals, Create(id, v) \/ UpdateByID(id, v) PROVE damaged'
    BY <1>7, <1>8 DEF Create, UpdateByID
<1>9. ASSUME NEW id \in Ids, DeleteByID(id) PROVE damaged'
    BY <1>7, <1>9 DEF DeleteByID
<1>10. ASSUME NEW tx \in TxOps, TxBegin(tx) PROVE damaged'
    BY <1>2, <1>10 DEF TxBegin
<1>11. CASE TxWrite
    BY <1>2, <1>11 DEF TxWrite
<1>12. CASE TxCommit
    BY <1>2, <1>12 DEF TxCommit
<1>13. ASSUME NEW b \in BOOLEAN, TxFail(b) \/ TxRollback(b) PROVE damaged'
    BY <1>2, <1>13 DEF TxFail, TxRollback
<1>14. CASE CompactWrite
    BY <1>14 DEF CompactWrite
<1>15. CASE CompactRename
    BY <1>15 DEF CompactRename
<1>16. CASE CompactRemove
    BY <1>16 DEF CompactRemove
<1>17. CASE CompactEnd
    BY <1>17 DEF CompactEnd
<1> QED
    BY <1>3, <1>4, <1>5, <1>6, <1>8, <1>9, <1>10, <1>11, <1>12, <1>13, <1>14, <1>15, <1>16, <1>17
    DEF Next

\* Every step preserves the invariant.
LEMMA StepInv == Inv /\ [Next]_vars => Inv'
<1> SUFFICES ASSUME Inv, [Next]_vars, ~damaged' PROVE Good'
    BY DEF Inv
<1>1. CASE UNCHANGED vars
    <2>1. /\ files' = files /\ up' = up /\ segs' = segs /\ nextSeg' = nextSeg /\ size' = size
          /\ idx' = idx /\ txCounter' = txCounter /\ ops' = ops /\ todo' = todo
          /\ written' = written /\ lock' = lock /\ newSegs' = newSegs /\ moved' = moved
          /\ docs' = docs /\ damaged' = damaged
        BY <1>1 DEF vars, memory, commit, compaction
    <2>2. Good
        BY <2>1 DEF Inv
    <2>3. Exposed' = Exposed
        BY <2>1 DEF Exposed
    <2>4. Segments' /\ Numbered'
        BY <2>1, <2>2, <2>3 DEF Good, Segments, Numbered
    <2>5. Opened'
        BY <2>1, <2>2 DEF Good, Opened, Loaded
    <2>6. Committing'
        BY <2>1, <2>2 DEF Good, Committing
    <2>7. \A log : Latest(log) => Latest(log)'
        BY <2>1 DEF Latest
    <2>8. Compacting'
        BY <2>1, <2>2, <2>7 DEF Good, Compacting
    <2> QED BY <2>1, <2>2, <2>3, <2>4, <2>5, <2>6, <2>8 DEF Good
<1>2. ASSUME Next PROVE Good'
    <2>0. ~damaged /\ Good
        BY <1>2, DamageStays DEF Inv
    <2>1. CASE Open
        BY <2>0, <2>1, OpenStep
    <2>2. CASE Crash
        BY <2>0, <2>2, CrashStep
    <2>3. CASE TornWrite
        BY <2>0, <2>3, TornWriteStep
    <2>4. CASE FailedWrite
        BY <2>0, <2>4, FailedWriteStep
    <2>5. ASSUME NEW id \in Ids, NEW v \in Vals, Create(id, v) \/ UpdateByID(id, v) PROVE Good'
        <3>1. up /\ lock = "free" /\ Write(id, v)
            BY <2>5 DEF Create, UpdateByID
        <3> QED BY <2>0, <3>1, WriteStep
    <2>6. ASSUME NEW id \in Ids, DeleteByID(id) PROVE Good'
        <3>1. up /\ lock = "free" /\ Write(id, NoDoc)
            BY <2>6 DEF DeleteByID
        <3>2. NoDoc \in Vals \cup {NoDoc}
            OBVIOUS
        <3> QED BY <2>0, <3>1, <3>2, WriteStep
    <2>7. ASSUME NEW tx \in TxOps, TxBegin(tx) PROVE Good'
        BY <2>0, <2>7, TxBeginStep
    <2>8. CASE TxWrite
        BY <2>0, <2>8, TxWriteStep
    <2>9. CASE TxCommit
        BY <2>0, <2>9, TxCommitStep
    <2>10. ASSUME NEW b \in BOOLEAN, TxFail(b) \/ TxRollback(b) PROVE Good'
        BY <2>0, <2>10, TxFailStep, TxRollbackStep
    <2>11. CASE CompactWrite
        BY <2>0, <2>11, CompactWriteStep
    <2>12. CASE CompactRename
        BY <2>0, <2>12, CompactRenameOne, CompactRenameMany
    <2>13. CASE CompactRemove
        BY <2>0, <2>13, CompactRemoveStep
    <2>14. CASE CompactEnd
        BY <2>0, <2>14, CompactEndStep
    <2> QED
        BY <1>2, <2>1, <2>2, <2>3, <2>4, <2>5, <2>6, <2>7, <2>8, <2>9, <2>10, <2>11, <2>12, <2>13, <2>14
        DEF Next
<1> QED BY <1>1, <1>2

\* Until something is damaged, the log, the index and the acknowledged documents go
\* together, through writes, transactions, faults, restarts and compactions.
THEOREM Invariance == Spec => []Inv
BY InitInv, StepInv, PTL DEF Spec

\* The engine recovers exactly the acknowledged documents, whenever it crashes, as long
\* as nothing is damaged and no compaction into several segments is under way.
THEOREM Recovers == Spec => []RecoversAcknowledged
<1>1. Inv => RecoversAcknowledged
    BY DEF Inv, Good, RecoversAcknowledged, State, Log, Recovered
<1> QED BY <1>1, Invariance, PTL

\* Readers find exactly the acknowledged documents, as long as nothing is damaged.
THEOREM Reads == Spec => []ReadsAcknowledged
<1>1. Inv => ReadsAcknowledged
    BY DEF Inv, Good, ReadsAcknowledged
<1> QED BY <1>1, Invariance, PTL

----------------------------------------------------------------------------
\* Writes are whole or leave nothing behind; and if there are compactions, then no
\* transactions, and the documents fit in a segment.
Harmless ==
    /\ Faults \subseteq {"fail"}
    /\ Compacts => TxOps = {} /\ Cardinality(Ids) <= SegCap

\* Then no segment has a torn entry, and a compaction meets no transaction and makes one
\* segment.
Whole ==
    /\ \A n \in DOMAIN files : \A i \in 1 .. Len(files[n]) :
          files[n][i] # Torn /\ (Compacts => files[n][i].tx = 0)
    /\ Compacts => lock \notin {"commit", "rollback"}
    /\ lock \in {"rename", "remove"} => Compacts /\ Len(newSegs) = 1
Intact == ~damaged /\ Whole

\* An entry that is not torn, put where none is torn, damages nothing.
LEMMA PutIntact ==
    ASSUME Good, Intact, NEW e, e # Torn, Compacts => e.tx = 0, Put(e)
    PROVE  /\ ~damaged'
           /\ \A n \in DOMAIN files' : \A i \in 1 .. Len(files'[n]) :
                 files'[n][i] # Torn /\ (Compacts => files'[n][i].tx = 0)
<1> DEFINE B == Bytes(Target)
           Fine(x) == x # Torn /\ (Compacts => x.tx = 0)
<1>1. \A n \in DOMAIN files : /\ files[n] \in Seq(Records \cup {Torn})
                              /\ \A i \in 1 .. Len(files[n]) : Fine(files[n][i])
    BY DEF Good, Segments, IsSegment, Intact, Whole
<1>2. B \in Seq(Records \cup {Torn}) /\ \A i \in 1 .. Len(B) : Fine(B[i])
    <2> HIDE DEF Fine
    <2>1. CASE Target \in DOMAIN files
        BY <1>1, <2>1 DEF Bytes
    <2>2. CASE Target \notin DOMAIN files
        <3>1. B = <<>>
            BY <2>2 DEF Bytes
        <3> QED BY <3>1
    <2> QED BY <2>1, <2>2
<1>3. /\ DOMAIN files' = DOMAIN files \cup {Target}
      /\ files'[Target] = Append(B, e)
      /\ \A k \in DOMAIN files : k # Target => files'[k] = files[k]
      /\ damaged' = (damaged \/ Torn \in Range(B))
    BY DEF Put
<1> HIDE DEF B
<1>4. Torn \notin Range(B)
    <2>1. Range(B) = {B[i] : i \in 1 .. Len(B)}
        BY <1>2 DEF Range
    <2> QED BY <1>2, <2>1
<1>5. Fine(e)
    OBVIOUS
<1> HIDE DEF Fine
<1>6. \A i \in 1 .. Len(Append(B, e)) : Fine(Append(B, e)[i])
    <2> SUFFICES ASSUME NEW i \in 1 .. Len(Append(B, e)) PROVE Fine(Append(B, e)[i])
        OBVIOUS
    <2>1. CASE i \in 1 .. Len(B)
        <3>1. Append(B, e)[i] = B[i]
            BY <1>2, <2>1
        <3> QED BY <1>2, <2>1, <3>1
    <2>2. CASE i \notin 1 .. Len(B)
        <3>1. i = Len(B) + 1 /\ Append(B, e)[Len(B) + 1] = e
            BY <1>2, <2>2
        <3> QED BY <1>5, <3>1
    <2> QED BY <2>1, <2>2
<1>7. ~damaged'
    BY <1>3, <1>4 DEF Intact
<1>8. \A n \in DOMAIN files' : \A i \in 1 .. Len(files'[n]) : Fine(files'[n][i])
    BY <1>1, <1>3, <1>6
<1> QED BY <1>7, <1>8 DEF Fine

\* The compaction of what fits in a segment, without transactions.
LEMMA CompactWriteIntact ==
    ASSUME Harmless, Good, Intact, CompactWrite
    PROVE  Intact'
<1> DEFINE log == Scanned(Known, segs)
<1>0. /\ Compacts /\ up /\ lock = "free" /\ lock' = "rename" /\ files' = files
      /\ damaged' = (damaged \/ \E r \in Range(log) : r.tx # 0)
    BY DEF CompactWrite
<1>1. /\ Loaded /\ Segments /\ Log(files) \in Seq(Records)
    BY <1>0, GoodLoaded
<1>2. log = Scanned(files, segs) /\ log \in Seq(Records)
    BY <1>1, KnownLog, LoadedLog
<1>3. segs \in Seq(Nat) /\ \A i \in 1 .. Len(segs) : segs[i] \in DOMAIN files
    BY <1>1 DEF Loaded, Ascending
<1>4. \A i \in 1 .. Len(segs) : IsSegment(files[segs[i]])
    BY <1>1, <1>3 DEF Segments
<1>5. \A x : x \in El(log) <=> \E i \in 1 .. Len(segs) : x \in El(Readable(files[segs[i]]))
    BY <1>2, <1>3, <1>4, ScannedRecords
<1> HIDE DEF log
<1>6. ASSUME NEW n \in DOMAIN files PROVE \A x \in El(Readable(files[n])) : x.tx = 0
    <2> DEFINE s == files[n]
    <2>1. IsSegment(s) /\ \A i \in 1 .. Len(s) : s[i] # Torn /\ s[i].tx = 0
        BY <1>0, <1>1 DEF Segments, Intact, Whole
    <2> HIDE DEF s
    <2>2. s \in Seq(Records)
        <3>1. ASSUME NEW t \in Seq(Records), s = Append(t, Torn) PROVE FALSE
            <4>1. Len(t) + 1 \in 1 .. Len(s) /\ s[Len(t) + 1] = Torn
                BY <3>1
            <4> QED BY <2>1, <4>1
        <3> QED BY <2>1, <3>1, SegmentShape
    <2>3. Readable(s) = s
        BY <2>2, ReadableWhole
    <2> QED BY <2>1, <2>3 DEF El, s
<1>7. \A r \in Range(log) : r.tx = 0
    <2>1. Range(log) = El(log)
        BY <1>2 DEF Range, El
    <2> QED BY <1>3, <1>5, <1>6, <2>1
<1>8. ~damaged'
    BY <1>0, <1>7 DEF Intact
<1>9. Len(newSegs') = 1
    <2> DEFINE m == Compactable(log)
               S == {id \in Ids : m[id] # NoDoc}
    <2>1. PICK order \in SetToSeqs(S) : newSegs' = Chunks(m, order)
        BY DEF CompactWrite, log
    <2> DEFINE N == Cardinality(S)
               c == SegCap
    <2>2. S \subseteq Ids
        OBVIOUS
    <2> HIDE DEF S, m
    <2>3. IsFiniteSet(S) /\ Cardinality(S) <= Cardinality(Ids)
        BY <2>2, EngineAssumption, FS_Subset
    <2>4. N \in Nat /\ Cardinality(Ids) \in Nat
        BY <2>3, EngineAssumption, FS_CardinalityType
    <2>5. c \in Nat /\ c # 0 /\ N <= c
        BY <1>0, <2>3, <2>4, EngineAssumption DEF Harmless
    <2>6. order \in [1 .. N -> S]
        BY DEF SetToSeqs
    <2>7. Len(order) = N
        BY <2>4, <2>6
    <2> HIDE DEF N, c
    <2> DEFINE a == N + c - 1
               q == a \div c
    <2>8. a \in Nat /\ a < c + c
        BY <2>4, <2>5
    <2> HIDE DEF a
    <2>9. q \in Nat /\ q * c <= a
        BY <2>5, <2>8
    <2> HIDE DEF q
    <2>10. q = 0 \/ q = 1
        <3> SUFFICES ASSUME q >= 2 PROVE FALSE
            BY <2>9
        <3>1. q * c >= 2 * c
            BY <2>5, <2>9
        <3>2. 2 * c = c + c /\ q * c \in Nat
            BY <2>5, <2>9
        <3> QED BY <2>5, <2>8, <2>9, <3>1, <3>2
    <2>11. DOMAIN Chunks(m, order) = 1 .. (IF q = 0 THEN 1 ELSE q)
        BY <2>7 DEF Chunks, q, a, c
    <2>12. DOMAIN Chunks(m, order) = 1 .. 1
        BY <2>10, <2>11
    <2>13. Len(Chunks(m, order)) = 1
        BY <2>12
    <2> QED BY <2>1, <2>13
<1> QED BY <1>0, <1>8, <1>9 DEF Intact, Whole

\* The end of such a compaction: no old segment is left.
LEMMA CompactEndIntact ==
    ASSUME Good, Intact, CompactEnd
    PROVE  Intact'
<1> DEFINE ids == [k \in DOMAIN newSegs |-> k - 1]
<1>0. /\ lock = "remove" /\ moved >= Len(segs) /\ lock' = "free" /\ files' = files
      /\ damaged' = (damaged \/ DOMAIN files # Range(segs')) /\ segs' = ids
    BY DEF CompactEnd
<1>1. Len(newSegs) = 1
    BY <1>0 DEF Intact, Whole
<1>2. /\ segs \in Seq(Nat) /\ newSegs \in Seq(Seq(DocRecords)) /\ moved \in Nat
      /\ moved <= Len(segs)
      /\ Ascending(<< 0 >> \o SubSeq(segs, moved + 1, Len(segs)), DOMAIN files)
    BY <1>0, <1>1 DEF Good, Compacting
<1>3. moved = Len(segs) /\ Len(segs) \in Nat
    BY <1>0, <1>2
<1>4. SubSeq(segs, moved + 1, Len(segs)) = <<>>
    <2>1. moved + 1 \in Int /\ Len(segs) \in Int /\ Len(segs) < moved + 1
        BY <1>3
    <2> QED BY <2>1, SubSeqEmpty
<1>5. DOMAIN files = {0}
    <2> DEFINE z == << 0 >> \o <<>>
    <2>1. Ascending(z, DOMAIN files)
        BY <1>2, <1>4
    <2>2. Len(z) = 1 /\ z[1] = 0
        <3>1. <<>> \in Seq(Nat) /\ Len(<<>>) = 0
            OBVIOUS
        <3>2. Len(z) = Len(<<>>) + 1 /\ z[1] = 0
            BY <3>1, ZeroFirst
        <3> QED BY <3>1, <3>2
    <2> HIDE DEF z
    <2>3. DOMAIN files = {z[i] : i \in 1 .. Len(z)}
        BY <2>1 DEF Ascending
    <2> QED BY <2>2, <2>3
<1>6. Range(ids) = {0}
    <2>1. DOMAIN newSegs = 1 .. 1
        BY <1>1, <1>2
    <2>2. DOMAIN ids = {1} /\ ids[1] = 0
        BY <2>1
    <2> HIDE DEF ids
    <2> QED BY <2>2 DEF Range
<1> HIDE DEF ids
<1>7. ~damaged'
    BY <1>0, <1>5, <1>6 DEF Intact
<1> QED BY <1>0, <1>7 DEF Intact, Whole

\* Under these conditions no step makes an entry unreadable, or loses one.
LEMMA IntactStep ==
    ASSUME Harmless, Inv, Intact, [Next]_vars
    PROVE  Intact'
<1> DEFINE Fine(x) == x # Torn /\ (Compacts => x.tx = 0)
           Calm(k) == k \in {"free", "commit", "rollback"} /\ (Compacts => k = "free")
<1>0. /\ Good /\ ~damaged /\ ~Exposed
      /\ Faults \subseteq {"fail"} /\ (Compacts => TxOps = {})
      /\ lock \in {"free", "commit", "rollback"} => Calm(lock)
      /\ lock \in {"commit", "rollback"} => ~Compacts
    BY DEF Inv, Intact, Whole, Exposed, Harmless
<1>1. \A n \in DOMAIN files : \A i \in 1 .. Len(files[n]) : Fine(files[n][i])
    BY DEF Intact, Whole
<1>2. /\ \A tx, id, v : DocRecord(tx, id, v) # Torn
      /\ \A kind, tx : kind \in {"begin", "commit", "rollback"} => Mark(kind, tx) # Torn
    <2>1. Torn.kind = "torn"
        BY DEF Torn
    <2>2. \A tx, id, v : DocRecord(tx, id, v).kind = "doc"
        BY DEF DocRecord
    <2>3. \A kind, tx : Mark(kind, tx).kind = kind
        BY DEF Mark
    <2> QED BY <2>1, <2>2, <2>3
<1>3. ASSUME NEW e, Fine(e), AppendEntry(e), Calm(lock')
      PROVE  Intact'
    <2>1. Put(e)
        BY <1>3 DEF AppendEntry
    <2>2. ~damaged' /\ \A n \in DOMAIN files' : \A i \in 1 .. Len(files'[n]) : Fine(files'[n][i])
        BY <1>0, <1>3, <2>1, PutIntact
    <2> QED BY <1>3, <2>2 DEF Intact, Whole
<1>4. ASSUME files' = files, ~damaged', Calm(lock')
      PROVE  Intact'
    BY <1>0, <1>1, <1>4 DEF Intact, Whole
<1>5. CASE UNCHANGED vars
    BY <1>5 DEF vars, compaction, Intact, Whole
<1>6. CASE Open
    <2> DEFINE old == SegsOf(files)
               n == IF old = <<>> THEN 0 ELSE old[Len(old)] + 1
    <2>1. /\ ~damaged' /\ lock' = lock /\ newSegs' = newSegs
          /\ \/ files' = files
             \/ files' = [m \in DOMAIN files \cup {n} |-> IF m = n THEN <<>> ELSE files[m]]
        BY <1>0, <1>6 DEF Open, compaction
    <2> HIDE DEF n
    <2>2. CASE files' = files
        BY <2>1, <2>2 DEF Intact, Whole
    <2>3. CASE files' = [m \in DOMAIN files \cup {n} |-> IF m = n THEN <<>> ELSE files[m]]
        <3>1. ASSUME NEW m \in DOMAIN files' PROVE \A i \in 1 .. Len(files'[m]) : Fine(files'[m][i])
            <4>1. CASE m = n
                <5>1. files'[m] = <<>>
                    BY <2>3, <4>1
                <5> QED BY <5>1
            <4>2. CASE m # n
                <5>1. files'[m] = files[m] /\ m \in DOMAIN files
                    BY <2>3, <4>2
                <5> QED BY <1>1, <5>1
            <4> QED BY <4>1, <4>2
        <3> QED BY <2>1, <3>1 DEF Intact, Whole
    <2> QED BY <2>1, <2>2, <2>3
<1>7. CASE Crash
    <2>1. files' = files /\ ~damaged' /\ lock' = "free"
        BY <1>0, <1>7 DEF Crash, Lost
    <2> QED BY <1>4, <2>1
<1>8. CASE TornWrite \/ FailedWrite
    BY <1>0, <1>8 DEF TornWrite, FailedWrite
<1>9. ASSUME NEW id, NEW v, Write(id, v), lock = "free" PROVE Intact'
    <2>1. AppendEntry(DocRecord(0, id, v)) /\ lock' = lock
        BY <1>9 DEF Write
    <2>2. DocRecord(0, id, v).tx = 0
        BY DEF DocRecord
    <2> QED BY <1>2, <1>3, <1>9, <2>1, <2>2
<1>10. ASSUME NEW id \in Ids, NEW v \in Vals, Create(id, v) \/ UpdateByID(id, v) PROVE Intact'
    BY <1>9, <1>10 DEF Create, UpdateByID
<1>11. ASSUME NEW id \in Ids, DeleteByID(id) PROVE Intact'
    BY <1>9, <1>11 DEF DeleteByID
<1>12. ASSUME NEW tx \in TxOps, TxBegin(tx) PROVE Intact'
    <2>1. AppendEntry(Mark("begin", txCounter')) /\ lock' = "commit"
        BY <1>12 DEF TxBegin
    <2>2. ~Compacts
        BY <1>0, <1>12
    <2> QED BY <1>2, <1>3, <2>1, <2>2
<1>13. CASE TxWrite
    <2>1. AppendEntry(DocRecord(txCounter, Head(todo)[1], Head(todo)[2])) /\ lock' = lock
          /\ lock = "commit"
        BY <1>13 DEF TxWrite
    <2> QED BY <1>0, <1>2, <1>3, <2>1
<1>14. CASE TxCommit
    <2>1. AppendEntry(Mark("commit", txCounter)) /\ lock' = "free" /\ lock = "commit"
        BY <1>14 DEF TxCommit
    <2> QED BY <1>0, <1>2, <1>3, <2>1
<1>15. ASSUME NEW b \in BOOLEAN, TxFail(b) PROVE Intact'
    <2>1. ~b
        BY <1>0, <1>15 DEF TxFail
    <2>2. files' = files /\ ~damaged' /\ lock' = "rollback" /\ ~Compacts
        BY <1>0, <1>15, <2>1 DEF TxFail
    <2> QED BY <1>4, <2>2
<1>16. ASSUME NEW b \in BOOLEAN, TxRollback(b) PROVE Intact'
    <2>1. CASE b
        <3>1. AppendEntry(Mark("rollback", txCounter)) /\ lock' = "free" /\ ~Compacts
            BY <1>0, <1>16, <2>1 DEF TxRollback
        <3> QED BY <1>2, <1>3, <3>1
    <2>2. CASE ~b
        <3>1. files' = files /\ ~damaged' /\ lock' = "free"
            BY <1>0, <1>16, <2>2 DEF TxRollback
        <3> QED BY <1>4, <3>1
    <2> QED BY <2>1, <2>2
<1>17. CASE CompactWrite
    BY <1>0, <1>17, CompactWriteIntact
<1>18. CASE CompactRename
    <2> DEFINE s == newSegs[moved + 1]
    <2>1. /\ moved \in Nat /\ moved < Len(newSegs)
          /\ DOMAIN files' = DOMAIN files \cup {moved} /\ files'[moved] = s
          /\ \A n \in DOMAIN files : n # moved => files'[n] = files[n]
        BY <1>0, <1>18, RenamedFiles
    <2>2. lock = "rename" /\ lock' \in {"rename", "remove"} /\ newSegs' = newSegs /\ damaged' = damaged
        BY <1>18 DEF CompactRename
    <2>3. /\ newSegs \in Seq(Seq(DocRecords))
          /\ \A k \in 1 .. Len(newSegs) : \A i \in 1 .. Len(newSegs[k]) : newSegs[k][i].tx = 0
        BY <1>0, <2>2 DEF Good, Compacting
    <2>4. moved + 1 \in 1 .. Len(newSegs)
        BY <2>1, <2>3
    <2>5. s \in Seq(DocRecords) /\ \A i \in 1 .. Len(s) : s[i].tx = 0
        BY <2>3, <2>4
    <2> HIDE DEF s
    <2>6. \A i \in 1 .. Len(s) : Fine(s[i])
        BY <2>5, TornIsNone DEF Records
    <2>7. \A n \in DOMAIN files' : \A i \in 1 .. Len(files'[n]) : Fine(files'[n][i])
        BY <1>1, <2>1, <2>6
    <2> QED BY <2>2, <2>7 DEF Intact, Whole
<1>19. CASE CompactRemove
    <2>1. /\ DOMAIN files' = DOMAIN files \ {segs[moved + 1]}
          /\ \A n \in DOMAIN files : n # segs[moved + 1] => files'[n] = files[n]
        BY <1>0, <1>19, RemovedFiles
    <2>2. lock' = lock /\ newSegs' = newSegs /\ damaged' = damaged
        BY <1>19 DEF CompactRemove
    <2>3. \A n \in DOMAIN files' : \A i \in 1 .. Len(files'[n]) : Fine(files'[n][i])
        BY <1>1, <2>1
    <2> QED BY <2>2, <2>3 DEF Intact, Whole
<1>20. CASE CompactEnd
    BY <1>0, <1>20, CompactEndIntact
<1> QED
    BY <1>5, <1>6, <1>7, <1>8, <1>10, <1>11, <1>12, <1>13, <1>14, <1>15, <1>16, <1>17, <1>18,
       <1>19, <1>20 DEF Next

\* Under these conditions the hedge is not needed: whenever the process dies, within a
\* transaction or at any step of a compaction, the next Open finds exactly what was
\* acknowledged.
THEOREM RecoversUnharmed ==
    ASSUME Harmless
    PROVE  Spec => [](Recovered(files, SegsOf(files)) = docs)
<1>1. Init => Intact
    <2> SUFFICES ASSUME Init PROVE Intact
        OBVIOUS
    <2>1. DOMAIN files = {} /\ ~damaged /\ lock = "free"
        BY DEF Init
    <2> QED BY <2>1 DEF Intact, Whole
<1>2. Inv /\ Intact /\ [Next]_vars => Intact'
    BY IntactStep
<1>3. Inv /\ Intact => Recovered(files, SegsOf(files)) = docs
    <2> SUFFICES ASSUME Inv, Intact PROVE Recovered(files, SegsOf(files)) = docs
        OBVIOUS
    <2>1. Good /\ (lock \in {"rename", "remove"} => Len(newSegs) = 1)
        BY DEF Inv, Intact, Whole
    <2>2. ~(1 > 1)
        OBVIOUS
    <2>3. ~Exposed
        BY <2>1, <2>2, Zenon DEF Exposed
    <2> QED BY <2>1, <2>3 DEF Good, State, Log, Recovered
<1> QED BY <1>1, <1>2, <1>3, Invariance, PTL DEF Spec
=============================================================================
