------------------------- MODULE FilePipelineProofs -------------------------
(***************************************************************************)
(* Proofs about the file pipeline: for any files, limits and faults, and   *)
(* rotations at any moment, also between the check for one and the read.   *)
(***************************************************************************)
EXTENDS FilePipeline, SequenceTheorems, FiniteSetTheorems, TLAPS

-----------------------------------------------------------------------------
(* Sequences.                                                              *)

LEMMA RangeIs ==
    ASSUME NEW S, NEW s \in Seq(S)
    PROVE  /\ Range(s) \subseteq S
           /\ DOMAIN s = 1 .. Len(s) /\ Len(s) \in Nat
           /\ \A x : x \in Range(s) <=> \E k \in 1 .. Len(s) : s[k] = x
           /\ Range(s) = {} <=> s = <<>>
<1>1. DOMAIN s = 1 .. Len(s) /\ Len(s) \in Nat /\ \A k \in 1 .. Len(s) : s[k] \in S
  BY LenProperties
<1>2. s # <<>> => 1 \in 1 .. Len(s)
  BY <1>1, EmptySeq
<1>3. s = <<>> => Len(s) = 0
  BY EmptySeq
<1>4. Range(s) = {s[k] : k \in 1 .. Len(s)}
  BY <1>1 DEF Range
<1>5. /\ Range(s) \subseteq S
      /\ \A x : x \in Range(s) <=> \E k \in 1 .. Len(s) : s[k] = x
  BY <1>1, <1>4
<1>6. s # <<>> => s[1] \in Range(s)
  BY <1>2, <1>5
<1>7. s = <<>> => \A x : x \notin Range(s)
  BY <1>3, <1>5
<1> QED BY <1>1, <1>5, <1>6, <1>7

LEMMA PrefixProperties ==
    ASSUME NEW S, NEW s \in Seq(S), NEW n \in Nat
    PROVE  /\ Prefix(s, n) \in Seq(S)
           /\ Len(Prefix(s, n)) = IF n < Len(s) THEN n ELSE Len(s)
           /\ \A k \in 1 .. Len(Prefix(s, n)) : Prefix(s, n)[k] = s[k]
           /\ \A x : x \in Range(Prefix(s, n)) <=> \E k \in 1 .. Len(s) : k <= n /\ s[k] = x
<1> DEFINE m == IF n < Len(s) THEN n ELSE Len(s)
<1>1. m \in Nat /\ m <= Len(s) /\ Len(s) \in Nat
  OBVIOUS
<1>2. \A i \in 1 .. m : s[i] \in S
  BY <1>1
<1>3. /\ SubSeq(s, 1, m) \in Seq(S) /\ Len(SubSeq(s, 1, m)) = m
      /\ \A k \in 1 .. m : SubSeq(s, 1, m)[k] = s[k]
  <2> HIDE DEF m
  <2> QED BY <1>1, <1>2, SubSeqProperties
<1>4. Prefix(s, n) = SubSeq(s, 1, m)
  BY DEF Prefix
<1>5. \A x : (\E k \in 1 .. m : s[k] = x) <=> \E k \in 1 .. Len(s) : k <= n /\ s[k] = x
  <2>1. \A k : k \in 1 .. m <=> k \in 1 .. Len(s) /\ k <= n
    BY <1>1
  <2> QED BY <2>1
<1> HIDE DEF m
<1>6. \A x : x \in Range(Prefix(s, n)) <=> \E k \in 1 .. m : s[k] = x
  <2>1. \A x : x \in Range(Prefix(s, n)) <=> \E k \in 1 .. m : Prefix(s, n)[k] = x
    <3> DEFINE t == Prefix(s, n)
    <3>1. t \in Seq(S) /\ Len(t) = m
      BY <1>3, <1>4
    <3> HIDE DEF t
    <3>2. \A x : x \in Range(t) <=> \E k \in 1 .. m : t[k] = x
      BY <3>1, RangeIs
    <3> QED BY <3>2 DEF t
  <2> QED BY <1>3, <1>4, <2>1
<1> QED BY <1>3, <1>4, <1>5, <1>6 DEF m

LEMMA SuffixProperties ==
    ASSUME NEW S, NEW s \in Seq(S), NEW n \in Nat
    PROVE  /\ SubSeq(s, n + 1, Len(s)) \in Seq(S)
           /\ Len(SubSeq(s, n + 1, Len(s))) = IF n < Len(s) THEN Len(s) - n ELSE 0
           /\ \A k \in 1 .. Len(SubSeq(s, n + 1, Len(s))) : SubSeq(s, n + 1, Len(s))[k] = s[n + k]
           /\ \A x : x \in Range(SubSeq(s, n + 1, Len(s))) <=> \E k \in 1 .. Len(s) : k > n /\ s[k] = x
<1> DEFINE t == SubSeq(s, n + 1, Len(s))
<1>1. \A i \in n + 1 .. Len(s) : s[i] \in S
  OBVIOUS
<1>2. /\ t \in Seq(S) /\ Len(t) = IF n < Len(s) THEN Len(s) - n ELSE 0
      /\ \A k \in 1 .. Len(t) : t[k] = s[n + k]
  <2>1. n + 1 \in Int /\ Len(s) \in Int
    OBVIOUS
  <2> QED BY <1>1, <2>1, SubSeqProperties
<1>3. \A x : (\E k \in 1 .. Len(t) : t[k] = x) <=> \E k \in 1 .. Len(s) : k > n /\ s[k] = x
  <2>1. ASSUME NEW x, NEW k \in 1 .. Len(s), k > n, s[k] = x
        PROVE  \E j \in 1 .. Len(t) : t[j] = x
    <3>1. k - n \in 1 .. Len(t) /\ t[k - n] = x
      BY <1>2, <2>1
    <3> QED BY <3>1
  <2>2. ASSUME NEW x, NEW k \in 1 .. Len(t), t[k] = x
        PROVE  \E j \in 1 .. Len(s) : j > n /\ s[j] = x
    <3>1. n + k \in 1 .. Len(s) /\ n + k > n /\ s[n + k] = x
      BY <1>2, <2>2
    <3> QED BY <3>1
  <2> QED BY <2>1, <2>2
<1> HIDE DEF t
<1>4. \A x : x \in Range(t) <=> \E k \in 1 .. Len(t) : t[k] = x
  BY <1>2, RangeIs
<1> QED BY <1>2, <1>3, <1>4 DEF t

\* A prefix is at the head of what it is taken from.
LEMMA PrefixIsPrefix ==
    ASSUME NEW S, NEW s \in Seq(S), NEW n \in Nat
    PROVE  IsPrefix(Prefix(s, n), s)
<1> DEFINE m == IF n < Len(s) THEN n ELSE Len(s)
           p == Prefix(s, n)
<1>1. p = SubSeq(s, 1, m) /\ p \in Seq(S) /\ Len(p) = m /\ m <= Len(s)
  BY PrefixProperties DEF Prefix
<1>2. SubSeq(p, 1, Len(p)) = p
  BY <1>1, SubSeqFull
<1> QED BY <1>1, <1>2 DEF IsPrefix

LEMMA IsPrefixMeans ==
    ASSUME NEW S, NEW s \in Seq(S), NEW t \in Seq(S), IsPrefix(s, t)
    PROVE  Len(s) <= Len(t) /\ \A k \in 1 .. Len(s) : s[k] = t[k]
<1>1. Len(s) \in Nat /\ Len(t) \in Nat /\ Len(s) <= Len(t)
  BY DEF IsPrefix
<1>2. SubSeq(s, 1, Len(s)) = s /\ s = SubSeq(t, 1, Len(s))
  BY SubSeqFull DEF IsPrefix
<1>3. \A i \in 1 .. Len(s) : t[i] \in S
  BY <1>1
<1>4. \A k \in 1 .. Len(s) : SubSeq(t, 1, Len(s))[k] = t[k]
  BY <1>1, <1>3, SubSeqProperties
<1> QED BY <1>1, <1>2, <1>4

\* More lines behind a buffer leave its head where it is.
LEMMA PrefixOfMore ==
    ASSUME NEW S, NEW s \in Seq(S), NEW t \in Seq(S), NEW u \in Seq(S), IsPrefix(s, t)
    PROVE  IsPrefix(s, t \o u)
<1> DEFINE v == t \o u
<1>1. v \in Seq(S) /\ Len(v) = Len(t) + Len(u) /\ \A i \in 1 .. Len(t) : v[i] = t[i]
  BY ConcatProperties
<1>2. Len(s) <= Len(t) /\ Len(s) \in Nat /\ \A k \in 1 .. Len(s) : s[k] = t[k]
  BY IsPrefixMeans
<1> HIDE DEF v
<1>3. /\ SubSeq(v, 1, Len(s)) \in Seq(S) /\ Len(SubSeq(v, 1, Len(s))) = Len(s)
      /\ \A k \in 1 .. Len(s) : SubSeq(v, 1, Len(s))[k] = v[k]
  <2>1. \A i \in 1 .. Len(s) : v[i] \in S
    BY <1>1, <1>2
  <2> QED BY <1>2, <2>1, SubSeqProperties
<1>4. SubSeq(v, 1, Len(s)) = s
  BY <1>1, <1>2, <1>3, SeqEqual
<1>5. SubSeq(s, 1, Len(s)) = s /\ Len(s) <= Len(v)
  BY <1>1, <1>2, SubSeqFull
<1> QED BY <1>4, <1>5 DEF IsPrefix, v

LEMMA RangeOfConcat ==
    ASSUME NEW S, NEW s \in Seq(S), NEW t \in Seq(S)
    PROVE  \A x : x \in Range(s \o t) <=> x \in Range(s) \/ x \in Range(t)
<1> DEFINE u == s \o t
<1>1. /\ u \in Seq(S) /\ Len(u) = Len(s) + Len(t) /\ Len(s) \in Nat /\ Len(t) \in Nat
      /\ \A i \in 1 .. Len(u) : u[i] = IF i <= Len(s) THEN s[i] ELSE t[i - Len(s)]
  BY ConcatProperties
<1> HIDE DEF u
<1>2. /\ \A x : x \in Range(u) <=> \E k \in 1 .. Len(u) : u[k] = x
      /\ \A x : x \in Range(s) <=> \E k \in 1 .. Len(s) : s[k] = x
      /\ \A x : x \in Range(t) <=> \E k \in 1 .. Len(t) : t[k] = x
  BY <1>1, RangeIs
<1>3. \A k \in 1 .. Len(s) : k \in 1 .. Len(u) /\ u[k] = s[k]
  BY <1>1
<1>4. \A k \in 1 .. Len(t) : Len(s) + k \in 1 .. Len(u) /\ u[Len(s) + k] = t[k]
  <2>1. \A k \in 1 .. Len(t) :
           Len(s) + k \in 1 .. Len(u) /\ ~(Len(s) + k <= Len(s)) /\ (Len(s) + k) - Len(s) = k
    BY <1>1
  <2> QED BY <1>1, <2>1
<1>5. \A i \in 1 .. Len(u) : i \in 1 .. Len(s) \/ (i - Len(s) \in 1 .. Len(t) /\ u[i] = t[i - Len(s)])
  BY <1>1
<1>6. \A x \in Range(u) : x \in Range(s) \/ x \in Range(t)
  BY <1>2, <1>3, <1>5
<1> QED BY <1>2, <1>3, <1>4, <1>6 DEF u

\* Lines in the order of writing.
Ascending(s) == \A j, k \in DOMAIN s : j < k => s[j] < s[k]

LEMMA AscendingConcat ==
    ASSUME NEW S, NEW s \in Seq(S), NEW t \in Seq(S)
    PROVE  Ascending(s \o t) <=>
           Ascending(s) /\ Ascending(t) /\ \A x \in Range(s), y \in Range(t) : x < y
<1> DEFINE u == s \o t
<1>1. /\ u \in Seq(S) /\ Len(u) = Len(s) + Len(t) /\ Len(s) \in Nat /\ Len(t) \in Nat
      /\ \A i \in 1 .. Len(u) : u[i] = IF i <= Len(s) THEN s[i] ELSE t[i - Len(s)]
  BY ConcatProperties
<1> HIDE DEF u
<1>2. /\ DOMAIN u = 1 .. Len(u) /\ DOMAIN s = 1 .. Len(s) /\ DOMAIN t = 1 .. Len(t)
      /\ \A x : x \in Range(s) <=> \E k \in 1 .. Len(s) : s[k] = x
      /\ \A x : x \in Range(t) <=> \E k \in 1 .. Len(t) : t[k] = x
  BY <1>1, RangeIs
<1>3. \A k \in 1 .. Len(s) : k \in 1 .. Len(u) /\ u[k] = s[k]
  BY <1>1
<1>4. \A k \in 1 .. Len(t) : Len(s) + k \in 1 .. Len(u) /\ u[Len(s) + k] = t[k]
  <2>1. \A k \in 1 .. Len(t) :
           Len(s) + k \in 1 .. Len(u) /\ ~(Len(s) + k <= Len(s)) /\ (Len(s) + k) - Len(s) = k
    BY <1>1
  <2> QED BY <1>1, <2>1
<1>5. \A i \in 1 .. Len(u) : i \in 1 .. Len(s) \/ (i - Len(s) \in 1 .. Len(t) /\ u[i] = t[i - Len(s)])
  BY <1>1
<1>6. ASSUME Ascending(u)
      PROVE  Ascending(s) /\ Ascending(t) /\ \A x \in Range(s), y \in Range(t) : x < y
  <2>1. Ascending(s)
    BY <1>2, <1>3, <1>6 DEF Ascending
  <2>2. \A j, k \in 1 .. Len(t) : j < k => Len(s) + j < Len(s) + k
    BY <1>1
  <2>3. Ascending(t)
    BY <1>2, <1>4, <1>6, <2>2 DEF Ascending
  <2>4. \A j \in 1 .. Len(s), k \in 1 .. Len(t) : j < Len(s) + k
    BY <1>1
  <2>5. \A x \in Range(s), y \in Range(t) : x < y
    BY <1>2, <1>3, <1>4, <1>6, <2>4 DEF Ascending
  <2> QED BY <2>1, <2>3, <2>5
<1>7. ASSUME Ascending(s), Ascending(t), \A x \in Range(s), y \in Range(t) : x < y
      PROVE  Ascending(u)
  <2> SUFFICES ASSUME NEW j \in 1 .. Len(u), NEW k \in 1 .. Len(u), j < k PROVE u[j] < u[k]
    BY <1>2 DEF Ascending
  <2>1. CASE k \in 1 .. Len(s)
    <3>1. j \in 1 .. Len(s)
      BY <1>1, <2>1
    <3> QED BY <1>2, <1>3, <1>7, <2>1, <3>1 DEF Ascending
  <2>2. CASE j \notin 1 .. Len(s)
    <3>1. k \notin 1 .. Len(s)
      BY <1>1, <2>2
    <3>2. j - Len(s) < k - Len(s)
      BY <1>1
    <3>3. /\ j - Len(s) \in DOMAIN t /\ u[j] = t[j - Len(s)]
          /\ k - Len(s) \in DOMAIN t /\ u[k] = t[k - Len(s)]
      BY <1>2, <1>5, <2>2, <3>1
    <3> QED BY <1>7, <3>2, <3>3 DEF Ascending
  <2>3. CASE j \in 1 .. Len(s) /\ k \notin 1 .. Len(s)
    BY <1>2, <1>3, <1>5, <1>7, <2>3
  <2> QED BY <2>1, <2>2, <2>3
<1> QED BY <1>6, <1>7 DEF u

LEMMA AscendingSuffix ==
    ASSUME NEW S, NEW s \in Seq(S), NEW n \in Nat
    PROVE  /\ Range(SubSeq(s, n + 1, Len(s))) \subseteq Range(s)
           /\ Ascending(s) => Ascending(SubSeq(s, n + 1, Len(s)))
<1> DEFINE t == SubSeq(s, n + 1, Len(s))
<1>1. /\ t \in Seq(S) /\ Len(t) = IF n < Len(s) THEN Len(s) - n ELSE 0
      /\ \A k \in 1 .. Len(t) : t[k] = s[n + k]
  BY SuffixProperties
<1>2. \A x : x \in Range(t) <=> \E k \in 1 .. Len(s) : k > n /\ s[k] = x
  BY SuffixProperties
<1> HIDE DEF t
<1>3. Range(t) \subseteq Range(s)
  BY <1>2, RangeIs
<1>4. DOMAIN t = 1 .. Len(t) /\ DOMAIN s = 1 .. Len(s) /\ Len(t) \in Nat /\ Len(s) \in Nat
  BY <1>1, RangeIs
<1>5. \A k \in 1 .. Len(t) : n + k \in 1 .. Len(s)
  <2> DEFINE a == Len(s)
             b == Len(t)
  <2>1. a \in Nat /\ b \in Nat /\ b = IF n < a THEN a - n ELSE 0
    BY <1>1, <1>4
  <2> HIDE DEF a, b
  <2>2. \A k \in 1 .. b : n + k \in 1 .. a
    BY <2>1
  <2> QED BY <2>2 DEF a, b
<1>6. \A j, k \in 1 .. Len(t) : j < k => n + j < n + k
  BY <1>4
<1>7. Ascending(s) => Ascending(t)
  BY <1>1, <1>4, <1>5, <1>6 DEF Ascending
<1> QED BY <1>3, <1>7 DEF t

-----------------------------------------------------------------------------
(* Readers.                                                                *)

GoodQueue(q) ==
    /\ q \in Seq(Reader) /\ Len(q) <= MaxReaders
    /\ \A j, k \in 1 .. Len(q) : j < k => q[j].ino < q[k].ino /\ q[j].deleted

\* A queue that lost some of its readers.
Keeps(q, p) ==
    /\ GoodQueue(q) /\ Range(q) \subseteq Range(p)
    /\ q # <<>> => p # <<>> /\ Head(p).ino <= Head(q).ino

LEMMA Limits ==
    /\ \A n \in {MaxReaders, ReadLines, SigLines, HighWatermark, MaxBuffer, SliceLines,
                MaxAttempts} : n \in Nat /\ n > 0
    /\ {MaxLines, MaxFaults, MaxStarts} \subseteq Nat
BY FileAssumption

LEMMA InodesAreNumbers == Inodes \subseteq Nat \ {0} /\ 1 \in Inodes /\ NoFile \notin Inodes
<1>1. Cardinality(Inodes) \in Nat
  BY FileAssumption, FS_CardinalityType
<1> QED BY <1>1, FileAssumption DEF NoFile

LEMMA ReaderFields ==
    ASSUME NEW r \in Reader
    PROVE  /\ r.ino \in Inodes /\ r.ino \in Nat /\ r.off \in Nat /\ r.deleted \in BOOLEAN
           /\ r.sig \in Seq(Lines)
BY InodesAreNumbers DEF Reader

LEMMA AdvancedReader ==
    ASSUME NEW r \in Reader, NEW n \in Nat
    PROVE  LET h == [r EXCEPT !.off = @ + n] IN
           h \in Reader /\ h.ino = r.ino /\ h.deleted = r.deleted /\ h.off = r.off + n
<1>1. r.off + n \in Nat
  BY ReaderFields
<1> QED BY <1>1 DEF Reader

LEMMA Ends ==
    ASSUME NEW p, GoodQueue(p), p # <<>>
    PROVE  /\ Len(p) \in Nat /\ Len(p) >= 1
           /\ Head(p) = p[1] /\ Head(p) \in Range(p) /\ Head(p) \in Reader
           /\ Last(p) = p[Len(p)] /\ Last(p) \in Range(p) /\ Last(p) \in Reader
           /\ Range(p) \subseteq Reader
           /\ \A x : x \in Range(p) <=> \E k \in 1 .. Len(p) : p[k] = x
           /\ \A r \in Range(p) :
                 /\ Head(p).ino <= r.ino /\ r.ino <= Last(p).ino
                 /\ r # Last(p) => r.deleted
                 /\ \A q \in Range(p) : q.ino = r.ino => q = r
<1>1. p \in Seq(Reader) /\ \A j, k \in 1 .. Len(p) : j < k => p[j].ino < p[k].ino /\ p[j].deleted
  BY DEF GoodQueue
<1>2. /\ Len(p) \in Nat /\ Len(p) >= 1 /\ \A x : x \in Range(p) <=> \E k \in 1 .. Len(p) : p[k] = x
      /\ Range(p) \subseteq Reader
  BY <1>1, RangeIs, EmptySeq
<1>3. /\ Head(p) = p[1] /\ Head(p) \in Range(p) /\ Last(p) = p[Len(p)] /\ Last(p) \in Range(p)
  BY <1>1, <1>2 DEF Last
<1>4. \A k \in 1 .. Len(p) : p[k].ino \in Nat
  BY <1>2, ReaderFields
<1>5. ASSUME NEW r \in Range(p)
      PROVE  /\ Head(p).ino <= r.ino /\ r.ino <= Last(p).ino
             /\ r # Last(p) => r.deleted
             /\ \A q \in Range(p) : q.ino = r.ino => q = r
  <2>1. PICK k \in 1 .. Len(p) : p[k] = r
    BY <1>2
  <2>2. k = 1 \/ p[1].ino < p[k].ino
    BY <1>1, <1>2
  <2>3. k = Len(p) \/ (p[k].ino < p[Len(p)].ino /\ p[k].deleted)
    BY <1>1, <1>2
  <2>4. ASSUME NEW q \in Range(p), q.ino = r.ino PROVE q = r
    <3>1. PICK j \in 1 .. Len(p) : p[j] = q
      BY <1>2
    <3>2. ~(j < k) /\ ~(k < j)
      BY <1>1, <1>4, <2>1, <2>4, <3>1
    <3> QED BY <2>1, <3>1, <3>2
  <2>5. Head(p).ino <= r.ino
    BY <1>2, <1>3, <1>4, <2>1, <2>2
  <2>6. r.ino <= Last(p).ino /\ (r # Last(p) => r.deleted)
    <3>1. CASE k = Len(p)
      BY <1>3, <1>4, <2>1, <3>1
    <3>2. CASE p[k].ino < p[Len(p)].ino /\ p[k].deleted
      <4>1. p[k].ino \in Nat /\ p[Len(p)].ino \in Nat
        BY <1>2, <1>4
      <4> QED BY <1>3, <2>1, <3>2, <4>1
    <3> QED BY <2>3, <3>1, <3>2
  <2> QED BY <2>4, <2>5, <2>6
<1> QED BY <1>2, <1>3, <1>5

LEMMA EmptyKeeps == \A p : Keeps(<<>>, p) /\ Range(<<>>) = {} /\ GoodQueue(<<>>)
<1>1. <<>> \in Seq(Reader) /\ Len(<<>>) = 0
  BY EmptySeq
<1>2. Range(<<>>) = {}
  BY <1>1, RangeIs
<1> QED BY <1>1, <1>2, Limits DEF Keeps, GoodQueue

LEMMA SelfKeeps == \A p : GoodQueue(p) => Keeps(p, p)
<1> SUFFICES ASSUME NEW p, GoodQueue(p) PROVE Keeps(p, p)
  OBVIOUS
<1>1. p # <<>> => Head(p).ino \in Nat
  BY Ends, ReaderFields
<1> QED BY <1>1 DEF Keeps

LEMMA KeepsKeeps ==
    ASSUME NEW q, NEW p, NEW o, GoodQueue(p), GoodQueue(o), Keeps(q, p), Keeps(p, o)
    PROVE  Keeps(q, o)
<1>1. q # <<>> => /\ Head(q).ino \in Nat /\ Head(p).ino \in Nat /\ Head(o).ino \in Nat
                  /\ Head(o).ino <= Head(p).ino /\ Head(p).ino <= Head(q).ino
  BY Ends, ReaderFields DEF Keeps
<1> QED BY <1>1 DEF Keeps

\* What is left of a queue, wherever its readers stood.
LEMMA EmbeddedKeeps ==
    ASSUME NEW p, GoodQueue(p), NEW q \in Seq(Reader), NEW at,
           Len(q) <= Len(p),
           \A j \in 1 .. Len(q) : at[j] \in 1 .. Len(p) /\ q[j] = p[at[j]],
           \A j, k \in 1 .. Len(q) : j < k => at[j] < at[k]
    PROVE  Keeps(q, p)
<1>1. Len(p) \in Nat /\ Len(q) \in Nat /\ p \in Seq(Reader) /\ Len(p) <= MaxReaders
  BY DEF GoodQueue
<1>2. \A j, k \in 1 .. Len(q) : j < k => q[j].ino < q[k].ino /\ q[j].deleted
  BY DEF GoodQueue
<1>3. Range(q) \subseteq Range(p)
  BY <1>1, RangeIs
<1>4. q # <<>> => p # <<>> /\ Head(q) \in Range(p)
  <2>1. q # <<>> => 1 \in 1 .. Len(q) /\ Head(q) = q[1]
    BY <1>1, EmptySeq
  <2>2. q # <<>> => Head(q) \in Range(p)
    BY <1>1, <1>3, <2>1, RangeIs
  <2>3. p = <<>> => Range(p) = {}
    BY <1>1, RangeIs
  <2> QED BY <2>2, <2>3
<1>5. Len(q) <= MaxReaders
  BY <1>1, Limits
<1> QED BY <1>2, <1>3, <1>4, <1>5, Ends DEF Keeps, GoodQueue

LEMMA TailKeeps ==
    ASSUME NEW p, GoodQueue(p), p # <<>>
    PROVE  /\ Keeps(Tail(p), p) /\ Len(Tail(p)) = Len(p) - 1
           /\ Tail(p) # <<>> => Head(p).ino < Head(Tail(p)).ino
           /\ \A r \in Range(p) : r = Head(p) \/ r \in Range(Tail(p))
           /\ \A r \in Range(Tail(p)) : Head(p).ino < r.ino
<1>1. /\ p \in Seq(Reader) /\ Tail(p) \in Seq(Reader) /\ Len(p) \in Nat /\ Len(p) >= 1
      /\ Len(Tail(p)) = Len(p) - 1 /\ \A j \in 1 .. Len(Tail(p)) : Tail(p)[j] = p[j + 1]
  BY HeadTailProperties, Ends DEF GoodQueue
<1>2. Keeps(Tail(p), p)
  <2> DEFINE at == [j \in 1 .. Len(Tail(p)) |-> j + 1]
             q == Tail(p)
  <2>1. \A j \in 1 .. Len(q) : at[j] \in 1 .. Len(p) /\ q[j] = p[at[j]]
    BY <1>1
  <2>2. \A j, k \in 1 .. Len(q) : j < k => at[j] < at[k]
    BY <1>1
  <2>3. Len(q) <= Len(p) /\ q \in Seq(Reader)
    BY <1>1
  <2> HIDE DEF at, q
  <2>4. Keeps(q, p)
    BY <2>1, <2>2, <2>3, EmbeddedKeeps
  <2> QED BY <2>4 DEF q
<1>3. \A r \in Range(Tail(p)) : Head(p).ino < r.ino
  <2>1. ASSUME NEW r \in Range(Tail(p)) PROVE Head(p).ino < r.ino
    <3>1. PICK j \in 1 .. Len(Tail(p)) : Tail(p)[j] = r
      BY <1>1, RangeIs
    <3>2. r = p[j + 1] /\ j + 1 \in 1 .. Len(p) /\ 1 < j + 1 /\ 1 \in 1 .. Len(p)
      BY <1>1, <3>1
    <3> QED BY <1>1, <3>2, Ends DEF GoodQueue
  <2> QED BY <2>1
<1>4. Tail(p) # <<>> => Head(Tail(p)) \in Range(Tail(p))
  BY <1>2, Ends DEF Keeps
<1>5. \A r \in Range(p) : r = Head(p) \/ r \in Range(Tail(p))
  <2>1. ASSUME NEW r \in Range(p), r # Head(p) PROVE r \in Range(Tail(p))
    <3>1. PICK k \in 1 .. Len(p) : p[k] = r
      BY Ends
    <3>2. k # 1 /\ k - 1 \in 1 .. Len(Tail(p)) /\ Tail(p)[k - 1] = r
      BY <1>1, <2>1, <3>1, Ends
    <3> DEFINE t == Tail(p)
    <3>3. t \in Seq(Reader) /\ \E j \in 1 .. Len(t) : t[j] = r
      BY <1>1, <3>2
    <3> HIDE DEF t
    <3>4. r \in Range(t)
      BY <3>3, RangeIs
    <3> QED BY <3>4 DEF t
  <2> QED BY <2>1
<1> QED BY <1>1, <1>2, <1>3, <1>4, <1>5

LEMMA RemoveKeeps ==
    ASSUME NEW p, GoodQueue(p), NEW n \in DOMAIN p
    PROVE  Keeps(RemoveAt(p, n), p)
<1>1. p \in Seq(Reader) /\ Len(p) \in Nat /\ n \in 1 .. Len(p)
  BY RangeIs DEF GoodQueue
<1> DEFINE a == SubSeq(p, 1, n - 1)
           b == SubSeq(p, n + 1, Len(p))
           at == [j \in 1 .. Len(p) - 1 |-> IF j < n THEN j ELSE j + 1]
           q == RemoveAt(p, n)
<1> HIDE DEF at, q
<1>2. a \in Seq(Reader) /\ Len(a) = n - 1 /\ \A j \in 1 .. n - 1 : a[j] = p[j]
  <2>1. \A i \in 1 .. n - 1 : p[i] \in Reader
    BY <1>1
  <2>2. 1 \in Int /\ n - 1 \in Int
    BY <1>1
  <2> QED BY <1>1, <2>1, <2>2, SubSeqProperties
<1>3. b \in Seq(Reader) /\ Len(b) = Len(p) - n /\ \A j \in 1 .. Len(p) - n : b[j] = p[n + j]
  <2>1. n \in Nat /\ n <= Len(p)
    BY <1>1
  <2>2. /\ b \in Seq(Reader) /\ Len(b) = IF n < Len(p) THEN Len(p) - n ELSE 0
        /\ \A j \in 1 .. Len(b) : b[j] = p[n + j]
    <3> HIDE DEF a
    <3> QED BY <1>1, <2>1, SuffixProperties
  <2>3. Len(b) = Len(p) - n
    BY <1>1, <2>1, <2>2
  <2> QED BY <2>2, <2>3
<1>4. /\ q \in Seq(Reader) /\ Len(q) = Len(p) - 1
      /\ \A j \in 1 .. Len(p) - 1 : q[j] = IF j < n THEN p[j] ELSE p[j + 1]
  <2> HIDE DEF a, b
  <2>1. q = a \o b
    BY DEF RemoveAt, a, b, q
  <2>2. /\ a \o b \in Seq(Reader) /\ Len(a \o b) = Len(a) + Len(b)
        /\ \A i \in 1 .. Len(a) + Len(b) : (a \o b)[i] = IF i <= Len(a) THEN a[i] ELSE b[i - Len(a)]
    BY <1>2, <1>3, ConcatProperties
  <2> DEFINE c == a \o b
  <2>3. Len(a) = n - 1 /\ Len(b) = Len(p) - n /\ n \in 1 .. Len(p) /\ Len(p) \in Nat
    BY <1>1, <1>2, <1>3
  <2>4. /\ c \in Seq(Reader) /\ Len(c) = Len(p) - 1
        /\ \A i \in 1 .. Len(p) - 1 : c[i] = IF i <= n - 1 THEN a[i] ELSE b[i - (n - 1)]
    <3>1. Len(a) + Len(b) = Len(p) - 1
      BY <2>3
    <3> HIDE DEF c
    <3> QED BY <2>2, <2>3, <3>1 DEF c
  <2> HIDE DEF c
  <2>5. ASSUME NEW j \in 1 .. Len(p) - 1
        PROVE  c[j] = IF j < n THEN p[j] ELSE p[j + 1]
    <3>1. CASE j < n
      <4>1. j \in 1 .. n - 1 /\ j <= n - 1
        BY <2>3, <3>1
      <4> QED BY <1>2, <2>4, <3>1, <4>1
    <3>2. CASE ~(j < n)
      <4>1. j - (n - 1) \in 1 .. Len(p) - n /\ n + (j - (n - 1)) = j + 1 /\ ~(j <= n - 1)
        <5>1. j \in Int /\ n \in Int /\ Len(p) \in Int /\ j <= Len(p) - 1 /\ n <= j
          BY <2>3, <3>2
        <5> QED BY <5>1
      <4> QED BY <1>3, <2>4, <3>2, <4>1
    <3> QED BY <3>1, <3>2
  <2> QED BY <2>1, <2>4, <2>5 DEF c
<1>5. \A j \in 1 .. Len(q) : at[j] \in 1 .. Len(p) /\ q[j] = p[at[j]]
  <2> HIDE DEF a, b
  <2> QED BY <1>1, <1>4 DEF at
<1>6. \A j, k \in 1 .. Len(q) : j < k => at[j] < at[k]
  <2> HIDE DEF a, b
  <2> QED BY <1>1, <1>4 DEF at
<1>7. Len(q) <= Len(p)
  BY <1>1, <1>4
<1> HIDE DEF a, b
<1>8. Keeps(q, p)
  BY <1>4, <1>5, <1>6, <1>7, EmbeddedKeeps
<1> QED BY <1>8 DEF q

\* The first reader goes on; the others stay.
LEMMA AdvanceKeeps ==
    ASSUME NEW p, GoodQueue(p), p # <<>>, NEW n \in Nat
    PROVE  LET q == [p EXCEPT ![1].off = @ + n] IN
           /\ GoodQueue(q) /\ q # <<>> /\ Len(q) = Len(p)
           /\ Head(q) = [Head(p) EXCEPT !.off = @ + n]
           /\ \A x \in Range(q) : x = Head(q) \/ x \in Range(Tail(p))
           /\ \A r \in Range(p) : r = Head(p) \/ r \in Range(q)
<1> DEFINE h == [Head(p) EXCEPT !.off = @ + n]
           q == [p EXCEPT ![1] = h]
<1>1. p \in Seq(Reader) /\ Len(p) \in Nat /\ 1 \in 1 .. Len(p) /\ p[1] = Head(p) /\ Head(p) \in Reader
  BY Ends DEF GoodQueue
<1>2. h \in Reader /\ h.ino = Head(p).ino /\ h.deleted = Head(p).deleted /\ h.off = Head(p).off + n
  BY <1>1, AdvancedReader
<1>3. [p EXCEPT ![1].off = @ + n] = q
  BY <1>1
<1> HIDE DEF h
<1>4. q \in Seq(Reader) /\ Len(q) = Len(p) /\ \A j \in 1 .. Len(p) : q[j] = IF j = 1 THEN h ELSE p[j]
  BY <1>1, <1>2, ExceptSeq
<1> HIDE DEF q
<1>5. GoodQueue(q)
  BY <1>1, <1>2, <1>4 DEF GoodQueue
<1>6. q # <<>> /\ Head(q) = h
  BY <1>1, <1>4, Ends, <1>5, EmptySeq
<1>7. \A x : x \in Range(q) <=> \E k \in 1 .. Len(p) : q[k] = x
  BY <1>4, RangeIs
<1>8. /\ Tail(p) \in Seq(Reader) /\ Len(Tail(p)) = Len(p) - 1
      /\ \A j \in 1 .. Len(p) - 1 : Tail(p)[j] = p[j + 1]
  BY <1>1, HeadTailProperties
<1>9. ASSUME NEW x \in Range(q), x # h PROVE x \in Range(Tail(p))
  <2>1. PICK k \in 1 .. Len(p) : q[k] = x
    BY <1>7
  <2>2. k - 1 \in 1 .. Len(p) - 1 /\ Tail(p)[k - 1] = x
    BY <1>1, <1>4, <1>8, <1>9, <2>1
  <2> DEFINE t == Tail(p)
  <2>3. t \in Seq(Reader) /\ \E j \in 1 .. Len(t) : t[j] = x
    BY <1>8, <2>2
  <2> HIDE DEF t
  <2>4. x \in Range(t)
    BY <2>3, RangeIs
  <2> QED BY <2>4 DEF t
<1>10. ASSUME NEW r \in Range(p), r # Head(p) PROVE r \in Range(q)
  <2>1. PICK k \in 1 .. Len(p) : p[k] = r
    BY <1>1, RangeIs
  <2>2. k # 1
    BY <1>1, <1>10, <2>1
  <2> QED BY <1>4, <1>7, <2>1, <2>2
<1> QED BY <1>3, <1>4, <1>5, <1>6, <1>9, <1>10 DEF h

\* What a detection does to the readers there are.
LEMMA MarkDeletedProperties ==
    ASSUME NEW p, GoodQueue(p), p # <<>>
    PROVE  LET m == MarkDeleted(p) IN
           /\ GoodQueue(m) /\ m # <<>> /\ Len(m) = Len(p) /\ Head(m).ino = Head(p).ino
           /\ \A x \in Range(m) :
                 x.deleted /\ \E r \in Range(p) : r.ino = x.ino /\ r.off = x.off
           /\ \A r \in Range(p) : \E x \in Range(m) : x.ino = r.ino
<1> DEFINE n == Len(p)
           h == [p[n] EXCEPT !.deleted = TRUE]
           m == [p EXCEPT ![n] = h]
<1>1. p \in Seq(Reader) /\ n \in Nat /\ n >= 1 /\ p[n] \in Reader
  BY Ends DEF GoodQueue
<1>2. h \in Reader /\ h.ino = p[n].ino /\ h.off = p[n].off /\ h.deleted
  BY <1>1 DEF Reader
<1>3. MarkDeleted(p) = m
  BY <1>1 DEF MarkDeleted
<1> HIDE DEF h
<1>4. m \in Seq(Reader) /\ Len(m) = n /\ \A j \in 1 .. n : m[j] = IF j = n THEN h ELSE p[j]
  BY <1>1, <1>2, ExceptSeq
<1> HIDE DEF m
<1>5. \A j \in 1 .. n : /\ m[j].ino = p[j].ino /\ m[j].off = p[j].off
                        /\ m[j].deleted <=> p[j].deleted \/ j = n
  BY <1>1, <1>2, <1>4, ReaderFields
<1>6. GoodQueue(m)
  BY <1>1, <1>4, <1>5 DEF GoodQueue
<1>7. m # <<>> /\ Head(m) = m[1]
  BY <1>1, <1>4, <1>6, EmptySeq, Ends
<1>8. \A x : x \in Range(m) <=> \E k \in 1 .. n : m[k] = x
  BY <1>4, RangeIs
<1>9. \A x : x \in Range(p) <=> \E k \in 1 .. n : p[k] = x
  BY <1>1, RangeIs
<1>10. \A j \in 1 .. n : m[j].deleted
  BY <1>1, <1>5 DEF GoodQueue
<1>11. Head(p) = p[1] /\ 1 \in 1 .. n
  BY <1>1, Ends
<1>12. \A x \in Range(m) : x.deleted /\ \E r \in Range(p) : r.ino = x.ino /\ r.off = x.off
  BY <1>5, <1>8, <1>9, <1>10
<1>13. \A r \in Range(p) : \E x \in Range(m) : x.ino = r.ino
  BY <1>5, <1>8, <1>9
<1> QED BY <1>3, <1>4, <1>5, <1>6, <1>7, <1>11, <1>12, <1>13

LEMMA EvictedProperties ==
    ASSUME NEW p, GoodQueue(p), p # <<>>, \A r \in Range(p) : r.deleted,
           NEW x \in Reader, \A r \in Range(p) : r.ino < x.ino
    PROVE  LET e == Evicted(Append(p, x)) IN
           /\ GoodQueue(e) /\ e # <<>> /\ Head(p).ino <= Head(e).ino
           /\ Range(e) \subseteq Range(p) \cup {x}
           /\ Range(p) \subseteq Range(e) \/ Len(e) = MaxReaders
<1> DEFINE a == Append(p, x)
<1>1. p \in Seq(Reader) /\ Len(p) \in Nat /\ Len(p) >= 1 /\ Len(p) <= MaxReaders /\ MaxReaders \in Nat
  BY Ends, Limits DEF GoodQueue
<1>2. /\ a \in Seq(Reader) /\ a # <<>> /\ Len(a) = Len(p) + 1
      /\ \A i \in 1 .. Len(p) : a[i] = p[i]
      /\ a[Len(p) + 1] = x
  BY <1>1, AppendProperties
<1> HIDE DEF a
<1>3. \A y : y \in Range(a) <=> y \in Range(p) \/ y = x
  <2>1. \A y : y \in Range(a) <=> \E k \in 1 .. Len(p) + 1 : a[k] = y
    BY <1>2, RangeIs
  <2>2. \A y : y \in Range(p) <=> \E k \in 1 .. Len(p) : p[k] = y
    BY <1>1, RangeIs
  <2>3. \A k \in 1 .. Len(p) + 1 : k \in 1 .. Len(p) \/ k = Len(p) + 1
    BY <1>1
  <2>4. \A k \in 1 .. Len(p) : k \in 1 .. Len(p) + 1
    BY <1>1
  <2>5. Len(p) + 1 \in 1 .. Len(p) + 1
    BY <1>1
  <2> QED BY <1>2, <2>1, <2>2, <2>3, <2>4, <2>5
<1>4. \A j, k \in 1 .. Len(p) + 1 : j < k => a[j].ino < a[k].ino /\ a[j].deleted
  <2> SUFFICES ASSUME NEW j \in 1 .. Len(p) + 1, NEW k \in 1 .. Len(p) + 1, j < k
               PROVE  a[j].ino < a[k].ino /\ a[j].deleted
    OBVIOUS
  <2>1. j \in 1 .. Len(p) /\ a[j] = p[j] /\ p[j] \in Range(p)
    BY <1>1, <1>2, Ends
  <2>2. CASE k \in 1 .. Len(p)
    BY <1>2, <2>1, <2>2 DEF GoodQueue
  <2>3. CASE k = Len(p) + 1
    BY <1>2, <2>1, <2>3
  <2> QED BY <1>1, <2>2, <2>3
<1>5. Head(a) = Head(p)
  BY <1>1, HeadTailAppend DEF a
<1>6. CASE Len(p) < MaxReaders
  <2>1. Evicted(a) = a /\ GoodQueue(a)
    BY <1>1, <1>2, <1>4, <1>6 DEF Evicted, GoodQueue
  <2>2. Head(p).ino \in Nat
    BY Ends, ReaderFields
  <2> QED BY <1>2, <1>3, <1>5, <2>1, <2>2 DEF a
<1>7. CASE Len(p) = MaxReaders
  <2> DEFINE t == Tail(a)
  <2>1. Evicted(a) = t
    BY <1>1, <1>2, <1>7 DEF Evicted
  <2>2. t \in Seq(Reader) /\ Len(t) = Len(p) /\ \A i \in 1 .. Len(p) : t[i] = a[i + 1]
    <3>1. t \in Seq(Reader) /\ Len(t) = Len(a) - 1 /\ \A i \in 1 .. Len(t) : t[i] = a[i + 1]
      BY <1>2, HeadTailProperties
    <3>2. Len(a) - 1 = Len(p)
      BY <1>1, <1>2
    <3> HIDE DEF t
    <3> QED BY <3>1, <3>2
  <2> HIDE DEF t
  <2>3. GoodQueue(t)
    <3>1. \A i \in 1 .. Len(p) : i + 1 \in 1 .. Len(p) + 1
      BY <1>1
    <3>2. \A j, k \in 1 .. Len(p) : j < k => j + 1 < k + 1
      BY <1>1
    <3>3. \A j, k \in 1 .. Len(t) : j < k => t[j].ino < t[k].ino /\ t[j].deleted
      BY <1>4, <2>2, <3>1, <3>2
    <3> QED BY <1>1, <2>2, <3>3 DEF GoodQueue
  <2>4. Range(t) \subseteq Range(a)
    <3>1. \A i \in 1 .. Len(p) : i + 1 \in 1 .. Len(a)
      BY <1>1, <1>2
    <3>2. \A y : y \in Range(t) => \E k \in 1 .. Len(p) : t[k] = y
      BY <2>2, RangeIs
    <3>3. \A y : (\E k \in 1 .. Len(a) : a[k] = y) => y \in Range(a)
      BY <1>2, RangeIs
    <3> QED BY <2>2, <3>1, <3>2, <3>3
  <2>5. t # <<>>
    BY <1>1, <2>2, EmptySeq
  <2>6. Head(t) \in Range(a) /\ Head(p).ino \in Nat
    BY <2>3, <2>4, <2>5, Ends, ReaderFields
  <2>7. Head(p).ino <= Head(t).ino
    <3>1. CASE Head(t) \in Range(p)
      BY <3>1, Ends
    <3>2. CASE Head(t) = x
      BY <2>6, <3>2, Ends, ReaderFields
    <3> QED BY <1>3, <2>6, <3>1, <3>2
  <2> QED BY <1>3, <1>7, <2>1, <2>2, <2>3, <2>4, <2>5, <2>7 DEF a
<1> QED BY <1>1, <1>6, <1>7

LEMMA NewReaderProperties ==
    ASSUME FileTypeOK, NEW i \in Inodes
    PROVE  /\ NewReader(i) \in Reader /\ NewReader(i).ino = i /\ NewReader(i).off = 0
           /\ ~NewReader(i).deleted /\ Signature(i) \in Seq(Lines)
<1>1. content[i] \in Seq(Lines) /\ SigLines \in Nat
  BY Limits DEF FileTypeOK
<1>2. Signature(i) \in Seq(Lines)
  BY <1>1, PrefixProperties DEF Signature
<1>3. 0 \in Nat
  OBVIOUS
<1> QED BY <1>2, <1>3 DEF NewReader, Reader

\* detectRotation() keeps the readers in order. The one of the file at the path
\* is the last, and alone not marked as deleted.
LEMMA DetectedProperties ==
    ASSUME FileTypeOK, cur \in {NoFile, Newest}, NEW p, GoodQueue(p), p # <<>>,
           \A r \in Range(p) : r.ino <= Newest /\ (r.deleted => r.ino # cur)
    PROVE  LET d == Detected(p) IN
           /\ GoodQueue(d) /\ d # <<>> /\ Head(p).ino <= Head(d).ino
           /\ \A x \in Range(d) :
                 /\ x.deleted <=> x.ino # cur
                 /\ x.ino # cur => \E r \in Range(p) : r.ino = x.ino /\ r.off = x.off
                 /\ x.ino = cur => x.off <= Len(content[cur])
                 /\ x.ino = cur =>
                       \/ x.off = 0 /\ \A r \in Range(p) : r.ino # cur
                       \/ \E r \in Range(p) :
                             r.ino = cur /\ (x.off = r.off \/ (x.off = 0 /\ Len(content[cur]) < r.off))
           /\ \A r \in Range(p) : (\E x \in Range(d) : x.ino = r.ino) \/ Len(d) = MaxReaders
<1> DEFINE m == MarkDeleted(p)
           d == Detected(p)
<1>1. /\ GoodQueue(m) /\ m # <<>> /\ Head(m).ino = Head(p).ino
      /\ \A x \in Range(m) : x.deleted /\ \E r \in Range(p) : r.ino = x.ino /\ r.off = x.off
      /\ \A r \in Range(p) : \E x \in Range(m) : x.ino = r.ino
  BY MarkDeletedProperties
<1>2. /\ \A r \in Range(p) : /\ r \in Reader /\ r.ino \in Nat \ {NoFile} /\ r.ino <= Last(p).ino
                             /\ r # Last(p) => r.deleted
                             /\ \A q \in Range(p) : q.ino = r.ino => q = r
      /\ Last(p) \in Range(p) /\ Head(p) \in Range(p)
  BY Ends, ReaderFields, InodesAreNumbers
<1> HIDE DEF m
<1>3. CASE cur = NoFile
  <2>1. d = m
    BY <1>3 DEF Detected, m
  <2>2. \A x \in Range(m) : x.ino # cur
    BY <1>1, <1>2, <1>3
  <2> HIDE DEF d
  <2> QED BY <1>1, <1>2, <2>1, <2>2 DEF d
<1>4. CASE cur # NoFile /\ Last(p).ino # cur
  <2>1. d = Evicted(Append(m, NewReader(cur)))
    BY <1>4 DEF Detected, m
  <2>2. cur \in Inodes /\ cur = Newest
    BY <1>4 DEF FileTypeOK
  <2>3. NewReader(cur) \in Reader /\ NewReader(cur).ino = cur /\ NewReader(cur).off = 0 /\ ~NewReader(cur).deleted
    BY <2>2, NewReaderProperties
  <2>4. \A r \in Range(p) : r.ino < cur
    BY <1>2, <1>4, <2>2, InodesAreNumbers
  <2>5. \A x \in Range(m) : x.ino < NewReader(cur).ino /\ x.deleted
    BY <1>1, <2>3, <2>4
  <2>6. /\ GoodQueue(d) /\ d # <<>> /\ Head(m).ino <= Head(d).ino
        /\ Range(d) \subseteq Range(m) \cup {NewReader(cur)}
        /\ Range(m) \subseteq Range(d) \/ Len(d) = MaxReaders
    BY <1>1, <2>1, <2>3, <2>5, EvictedProperties
  <2>7. \A r \in Range(p) : r.ino # cur
    BY <1>2, <2>2, <2>4, InodesAreNumbers
  <2>8. Len(content[cur]) \in Nat
    BY <2>2 DEF FileTypeOK
  <2> HIDE DEF d
  <2>9. ASSUME NEW x \in Range(d)
        PROVE  /\ x.deleted <=> x.ino # cur
               /\ x.ino # cur => \E r \in Range(p) : r.ino = x.ino /\ r.off = x.off
               /\ x.ino = cur => x.off <= Len(content[cur])
               /\ x.ino = cur => x.off = 0
    <3>1. CASE x = NewReader(cur)
      BY <2>3, <2>8, <3>1
    <3>2. CASE x \in Range(m)
      BY <1>1, <2>7, <3>2
    <3> QED BY <2>6, <3>1, <3>2
  <2>10. \A r \in Range(p) : (\E x \in Range(d) : x.ino = r.ino) \/ Len(d) = MaxReaders
    BY <1>1, <2>6
  <2> QED BY <1>1, <2>6, <2>7, <2>9, <2>10 DEF d
<1>5. CASE cur # NoFile /\ Last(p).ino = cur
  <2> DEFINE l == Last(p)
  <2>1. ~l.deleted /\ \A r \in Range(p) : r.ino = cur => r = l
    BY <1>2, <1>5
  <2>2. \A r \in Range(p) : r.deleted <=> r.ino # cur
    BY <1>2, <1>5, <2>1
  <2>3. Len(content[cur]) \in Nat /\ Head(p).ino \in Nat /\ l.off \in Nat /\ l \in Reader
    BY <1>2, <1>5, ReaderFields DEF FileTypeOK
  <2>4. CASE ~(Len(content[cur]) < l.off)
    <3>1. d = p
      BY <1>5, <2>4 DEF Detected
    <3>2. ASSUME NEW x \in Range(p)
          PROVE  /\ x.ino # cur => \E r \in Range(p) : r.ino = x.ino /\ r.off = x.off
                 /\ x.ino = cur => x.off <= Len(content[cur])
                 /\ x.ino = cur => \E r \in Range(p) : r.ino = cur /\ x.off = r.off
      BY <2>1, <2>3, <2>4
    <3> HIDE DEF d
    <3> QED BY <2>2, <2>3, <3>1, <3>2 DEF d
  <2>5. CASE Len(content[cur]) < l.off
    <3> DEFINE n == Len(p)
               h == [l EXCEPT !.off = 0, !.sig = Signature(cur)]
               q == [p EXCEPT ![n] = h]
    <3>1. p \in Seq(Reader) /\ n \in Nat /\ n >= 1 /\ p[n] = l
      BY Ends DEF GoodQueue
    <3>2. h \in Reader /\ h.ino = cur /\ h.off = 0 /\ ~h.deleted
      <4>1. Signature(cur) \in Seq(Lines) /\ 0 \in Nat
        BY <1>2, <1>5, ReaderFields, NewReaderProperties
      <4> HIDE DEF l
      <4> QED BY <1>5, <2>1, <2>3, <4>1 DEF Reader, l
    <3>3. d = q
      BY <1>5, <2>5, <3>1 DEF Detected
    <3> HIDE DEF h, l, d
    <3>4. q \in Seq(Reader) /\ Len(q) = n /\ \A j \in 1 .. n : q[j] = IF j = n THEN h ELSE p[j]
      BY <3>1, <3>2, ExceptSeq
    <3> HIDE DEF q
    <3>5. \A j \in 1 .. n : q[j].ino = p[j].ino
      BY <1>5, <3>1, <3>2, <3>4 DEF l
    <3>6. GoodQueue(q)
      BY <3>1, <3>4, <3>5 DEF GoodQueue
    <3>7. q # <<>> /\ Head(q).ino = Head(p).ino
      BY <3>1, <3>4, <3>5, <3>6, EmptySeq, Ends
    <3>8. /\ \A x : x \in Range(q) <=> \E k \in 1 .. n : q[k] = x
          /\ \A x : x \in Range(p) <=> \E k \in 1 .. n : p[k] = x
      BY <3>1, <3>4, RangeIs
    <3>9. ASSUME NEW x \in Range(q)
          PROVE  /\ x.deleted <=> x.ino # cur
                 /\ x.ino # cur => \E r \in Range(p) : r.ino = x.ino /\ r.off = x.off
                 /\ x.ino = cur => x.off = 0 /\ l.ino = cur
      <4>1. PICK k \in 1 .. n : q[k] = x
        BY <3>8
      <4>2. CASE k = n
        BY <1>5, <3>2, <3>4, <4>1, <4>2 DEF l
      <4>3. CASE k # n
        <5>1. x = p[k] /\ x \in Range(p) /\ k < n
          BY <3>1, <3>4, <3>8, <4>1, <4>3
        <5>2. x.deleted
          BY <3>1, <5>1 DEF GoodQueue
        <5> QED BY <2>2, <5>1, <5>2
      <4> QED BY <4>2, <4>3
    <3>10. \A r \in Range(p) : \E x \in Range(q) : x.ino = r.ino
      BY <3>5, <3>8
    <3>11. l \in Range(p) /\ Head(p).ino <= Head(q).ino
      BY <1>2, <2>3, <3>7 DEF l
    <3> QED BY <2>3, <2>5, <3>3, <3>6, <3>7, <3>9, <3>10, <3>11 DEF d
  <2> QED BY <2>4, <2>5
<1> QED BY <1>3, <1>4, <1>5

LEMMA CheckpointsProperties ==
    ASSUME NEW q, GoodQueue(q)
    PROVE  /\ Checkpoints(q) \subseteq Checkpoint
           /\ \A c \in Checkpoints(q) : \E r \in Range(q) : c.ino = r.ino /\ c.off = r.off
           /\ \A c, d \in Checkpoints(q) : c.ino = d.ino => c = d
<1>1. Range(q) \subseteq Reader
  BY RangeIs DEF GoodQueue
<1>2. \A r, s \in Range(q) : r.ino = s.ino => r = s
  BY Ends, EmptyKeeps
<1>3. Checkpoints(q) \subseteq Checkpoint
  BY <1>1 DEF Checkpoints, Checkpoint, Reader
<1>4. \A c \in Checkpoints(q) : \E r \in Range(q) : c = [ino |-> r.ino, off |-> r.off, sig |-> r.sig]
  BY DEF Checkpoints
<1> QED BY <1>2, <1>3, <1>4

LEMMA FaultIs ==
    ASSUME faults \in [FaultKinds -> Nat], NEW kind \in FaultKinds, Fault(kind)
    PROVE  /\ faults' \in [FaultKinds -> Nat]
           /\ faults'[kind] = faults[kind] + 1
           /\ \A k \in FaultKinds \ {kind} : faults'[k] = faults[k]
<1>1. faults' = [faults EXCEPT ![kind] = @ + 1]
  BY DEF Fault
<1>2. faults[kind] + 1 \in Nat
  OBVIOUS
<1> QED BY <1>1, <1>2

\* The faults that count in the invariant.
SameFiles == /\ faults' \in [FaultKinds -> Nat]
             /\ faults'.rotation = faults.rotation /\ faults'.removal = faults.removal
             /\ faults'.crash = faults.crash

LEMMA CycleEndsProperties ==
    ASSUME faults \in [FaultKinds -> Nat], NEW q, GoodQueue(q), CycleEnds(q)
    PROVE  /\ Keeps(queue', q) /\ disk' = Checkpoints(queue') /\ poll' = "idle"
           /\ SameFiles
           /\ faults' = faults => queue' = q
<1>1. disk' = Checkpoints(queue') /\ poll' = "idle"
  BY DEF CycleEnds, Checkpoints
<1>2. CASE queue' = q /\ faults' = faults
  BY <1>1, <1>2, SelfKeeps DEF SameFiles
<1>3. CASE Fault("idle") /\ \E k \in DOMAIN q : queue' = RemoveAt(q, k)
  <2>1. Keeps(queue', q)
    BY <1>3, RemoveKeeps
  <2>2. "idle" \in FaultKinds /\ "rotation" \in FaultKinds \ {"idle"}
        /\ "removal" \in FaultKinds \ {"idle"} /\ "crash" \in FaultKinds \ {"idle"}
    BY DEF FaultKinds
  <2>3. SameFiles /\ faults'["idle"] = faults["idle"] + 1
    BY <1>3, <2>2, FaultIs DEF SameFiles
  <2>4. faults["idle"] \in Nat
    BY <2>2
  <2>5. faults' # faults
    BY <2>3, <2>4
  <2> QED BY <1>1, <2>1, <2>3, <2>5
<1> QED BY <1>1, <1>2, <1>3 DEF CycleEnds

\* A set of at most one element as a sequence.
LEMMA AtMostOneSeq ==
    ASSUME NEW S, NEW x, S \subseteq {x}
    PROVE  SetToSeq(S) \in Seq(S) /\ Len(SetToSeq(S)) <= 1
<1> DEFINE n == Cardinality(S)
<1>1. n \in {0, 1} /\ (n = 1 => S = {x}) /\ (n = 0 => S = {})
  <2>1. CASE S = {}
    BY <2>1, FS_EmptySet
  <2>2. CASE S = {x}
    BY <2>2, FS_Singleton
  <2> QED BY <2>1, <2>2
<1>2. \E f \in [1 .. n -> S] : IsInjective(f)
  <2>1. CASE n = 0
    <3>1. [i \in 1 .. 0 |-> x] \in [1 .. n -> S] /\ IsInjective([i \in 1 .. 0 |-> x])
      BY <2>1 DEF IsInjective
    <3> QED BY <3>1
  <2>2. CASE n = 1
    <3>1. [i \in 1 .. 1 |-> x] \in [1 .. n -> S] /\ IsInjective([i \in 1 .. 1 |-> x])
      BY <1>1, <2>2 DEF IsInjective
    <3> QED BY <3>1
  <2> QED BY <1>1, <2>1, <2>2
<1>3. SetToSeq(S) \in [1 .. n -> S]
  BY <1>2 DEF SetToSeq
<1>4. n \in Nat /\ n <= 1
  BY <1>1
<1> HIDE DEF n
<1>5. \A f \in [1 .. n -> S] : f \in Seq(S) /\ Len(f) = n
  BY <1>4, SeqDef
<1> QED BY <1>3, <1>4, <1>5

\* initReaderFromCheckpoint(): at most one reader, for the file at the path.
LEMMA RestoredProperties ==
    ASSUME FileTypeOK, \A c, d \in disk : c.ino = d.ino => c = d
    PROVE  /\ GoodQueue(RestoredReaders)
           /\ \A r \in Range(RestoredReaders) :
                 /\ r.ino = cur /\ ~r.deleted
                 /\ \E c \in disk : c.ino = r.ino /\ c.off = r.off
<1> DEFINE F(c) == [ino |-> c.ino, off |-> c.off, deleted |-> FALSE, sig |-> c.sig]
           D == {d \in disk : Restorable(d)}
           S == {F(c) : c \in D}
<1>1. disk \subseteq Checkpoint
  BY DEF FileTypeOK
<1>2. \A c \in D : c.ino = cur /\ c \in disk /\ F(c) \in Reader
  BY <1>1 DEF Restorable, Checkpoint, Reader
<1>3. \E x : S \subseteq {x}
  <2>1. CASE D = {}
    BY <2>1
  <2>2. ASSUME NEW c \in D PROVE S \subseteq {F(c)}
    BY <1>2, <2>2
  <2> QED BY <2>1, <2>2
<1>4. S \subseteq Reader /\ \A r \in S : r.ino = cur /\ ~r.deleted /\ \E c \in disk : c.ino = r.ino /\ c.off = r.off
  BY <1>2
<1>5. RestoredReaders = SetToSeq(S)
  BY DEF RestoredReaders
<1> HIDE DEF S
<1> DEFINE q == SetToSeq(S)
<1>6. q \in Seq(S) /\ Len(q) <= 1
  BY <1>3, AtMostOneSeq
<1> HIDE DEF q
<1>7. q \in Seq(Reader) /\ Len(q) \in Nat /\ Range(q) \subseteq S
  BY <1>4, <1>6, SeqMonotonic, RangeIs
<1>8. GoodQueue(q)
  BY <1>6, <1>7, Limits DEF GoodQueue
<1> QED BY <1>4, <1>5, <1>7, <1>8 DEF q

-----------------------------------------------------------------------------
(* Steps of the poll cycle.                                                *)

LEMMA QueueIsGood ==
    ASSUME FileTypeOK, ReadersInOrder
    PROVE  /\ GoodQueue(queue) /\ DOMAIN queue = 1 .. Len(queue)
           /\ \A r \in Range(queue) : r \in Reader /\ r.ino <= Newest /\ (r.deleted => r.ino # cur)
           /\ queue # <<>> => Head(queue) \in Range(queue)
<1>1. queue \in Seq(Reader) /\ Len(queue) <= MaxReaders /\ DOMAIN queue = 1 .. Len(queue)
  BY RangeIs DEF FileTypeOK
<1>2. GoodQueue(queue)
  BY <1>1 DEF ReadersInOrder, GoodQueue
<1>3. Range(queue) \subseteq Reader
  BY <1>1, RangeIs
<1> QED BY <1>1, <1>2, <1>3, Ends DEF ReadersInOrder

\* The cycle looks for a rotation and drops readers, without reading a line.
FollowsOnly ==
    /\ UNCHANGED <<files, misread, pending, dirty, sender, life>>
    /\ GoodQueue(queue')
    /\ \A x \in Range(queue') :
          /\ x.deleted => x.ino # cur
          /\ \/ \E r \in Range(queue) : r.ino = x.ino /\ r.off = x.off
             \/ /\ x.ino = cur /\ x.off = 0
                /\ \/ \E r \in Range(queue) : r.ino = cur /\ Len(content[cur]) < r.off
                   \/ Meets(queue) /\ \A r \in Range(queue) : r.ino # cur
    /\ queue # <<>> /\ queue' # <<>> => Head(queue).ino <= Head(queue').ino
    /\ UNCHANGED history \/ Meets(queue)
    /\ SameFiles
    /\ poll' \in {"idle", "read"}
    /\ poll' = "read" => poll \in {"look", "read"}
    /\ disk' = disk \/ disk' = Checkpoints(queue')
    /\ pipe # "running" /\ poll \in {"idle", "check"} => disk' = Checkpoints(queue')

\* A detection that is followed by dropping readers, or by none.
LEMMA DetectionFollows ==
    ASSUME FileTypeOK, FilesInOrder, ReadersInOrder, Meets(queue),
           NEW p, p = queue \/ (queue = <<>> /\ cur # NoFile /\ p = <<NewReader(cur)>>),
           p # <<>>, GoodQueue(queue'), Keeps(queue', Detected(p))
    PROVE  /\ GoodQueue(Detected(p))
           /\ \A x \in Range(queue') :
                 /\ x.deleted <=> x.ino # cur
                 /\ \/ \E r \in Range(queue) : r.ino = x.ino /\ r.off = x.off
                    \/ /\ x.ino = cur /\ x.off = 0
                       /\ \/ \E r \in Range(queue) : r.ino = cur /\ Len(content[cur]) < r.off
                          \/ Meets(queue) /\ \A r \in Range(queue) : r.ino # cur
           /\ queue # <<>> /\ queue' # <<>> => Head(queue).ino <= Head(queue').ino
<1>1. cur \in {NoFile, Newest}
  BY DEF FilesInOrder
<1>2. CASE p = queue
  <2>1. /\ GoodQueue(queue) /\ \A r \in Range(queue) : r.ino <= Newest /\ (r.deleted => r.ino # cur)
    BY QueueIsGood
  <2> DEFINE d == Detected(queue)
  <2>2. /\ GoodQueue(d) /\ d # <<>> /\ Head(queue).ino <= Head(d).ino
        /\ \A x \in Range(d) :
              /\ x.deleted <=> x.ino # cur
              /\ x.ino # cur => \E r \in Range(queue) : r.ino = x.ino /\ r.off = x.off
              /\ x.ino = cur =>
                    \/ x.off = 0 /\ \A r \in Range(queue) : r.ino # cur
                    \/ \E r \in Range(queue) :
                          r.ino = cur /\ (x.off = r.off \/ (x.off = 0 /\ Len(content[cur]) < r.off))
    BY <1>1, <1>2, <2>1, DetectedProperties
  <2> HIDE DEF d
  <2>3. Range(queue') \subseteq Range(d)
    BY <1>2 DEF Keeps, d
  <2>4. queue' # <<>> => Head(d).ino <= Head(queue').ino
    BY <1>2 DEF Keeps, d
  <2>5. queue' # <<>> => Head(queue).ino <= Head(queue').ino
    <3>1. queue' # <<>> => Head(queue').ino \in Nat
      BY Ends, ReaderFields
    <3>2. Head(d).ino \in Nat /\ Head(queue).ino \in Nat
      BY <1>2, <2>1, <2>2, Ends, ReaderFields
    <3> QED BY <2>2, <2>4, <3>1, <3>2
  <2>6. ASSUME NEW x \in Range(queue')
        PROVE  /\ x.deleted <=> x.ino # cur
               /\ \/ \E r \in Range(queue) : r.ino = x.ino /\ r.off = x.off
                  \/ /\ x.ino = cur /\ x.off = 0
                     /\ \/ \E r \in Range(queue) : r.ino = cur /\ Len(content[cur]) < r.off
                        \/ Meets(queue) /\ \A r \in Range(queue) : r.ino # cur
    <3>1. x \in Range(d)
      BY <2>3
    <3>2. CASE x.ino # cur
      BY <2>2, <3>1, <3>2
    <3>3. CASE x.ino = cur
      BY <2>2, <3>1, <3>3
    <3> QED BY <3>2, <3>3
  <2> QED BY <1>2, <2>2, <2>5, <2>6 DEF d
<1>3. CASE queue = <<>> /\ cur # NoFile /\ p = <<NewReader(cur)>>
  <2> DEFINE n == NewReader(cur)
  <2>1. cur \in Inodes /\ cur = Newest
    BY <1>1, <1>3 DEF FileTypeOK
  <2>2. n \in Reader /\ n.ino = cur /\ n.off = 0 /\ ~n.deleted
    BY <2>1, NewReaderProperties
  <2> HIDE DEF n
  <2>3. p = <<n>>
    BY <1>3 DEF n
  <2>4. GoodQueue(p) /\ Range(p) = {n}
    <3>1. p \in Seq(Reader) /\ Len(p) = 1 /\ p[1] = n
      BY <2>2, <2>3
    <3>2. \A x : x \in Range(p) <=> x = n
      BY <3>1, RangeIs
    <3> QED BY <3>1, <3>2, Limits DEF GoodQueue
  <2>5. cur \in Nat /\ cur <= Newest
    BY <2>1, InodesAreNumbers
  <2> DEFINE d == Detected(p)
  <2>6. /\ GoodQueue(d)
        /\ \A x \in Range(d) :
              /\ x.deleted <=> x.ino # cur
              /\ x.ino # cur => \E r \in Range(p) : r.ino = x.ino /\ r.off = x.off
              /\ x.ino = cur =>
                    \/ x.off = 0 /\ \A r \in Range(p) : r.ino # cur
                    \/ \E r \in Range(p) :
                          r.ino = cur /\ (x.off = r.off \/ (x.off = 0 /\ Len(content[cur]) < r.off))
    <3>1. p # <<>> /\ \A r \in Range(p) : r.ino <= Newest /\ (r.deleted => r.ino # cur)
      BY <2>2, <2>4, <2>5
    <3> QED BY <1>1, <2>4, <3>1, DetectedProperties
  <2> HIDE DEF d
  <2>7. Range(queue') \subseteq Range(d)
    BY DEF Keeps, d
  <2>8. \A r \in Range(queue) : r.ino # cur
    BY <1>3, EmptyKeeps
  <2>9. \A x \in Range(d) : x.ino = cur /\ x.off = 0 /\ ~x.deleted
    BY <2>2, <2>4, <2>6
  <2> QED BY <1>3, <2>6, <2>7, <2>8, <2>9 DEF d
<1> QED BY <1>2, <1>3

LEMMA FollowsStep ==
    ASSUME FileTypeOK, FilesInOrder, ReadersInOrder,
           \/ ChecksRotation \/ LooksForRotation \/ ReadsNothing \/ DropsReader
           \/ LosesReaders \/ ReadFails
           \/ pipe = "running" /\ poll = "idle" /\ queue = <<>> /\ CycleEnds(queue)
                /\ UNCHANGED <<files, pending, dirty, sender, history, misread, life>>
    PROVE  FollowsOnly
<1>1. GoodQueue(queue) /\ \A r \in Range(queue) : r \in Reader /\ (r.deleted => r.ino # cur)
  BY QueueIsGood
<1>2. faults \in [FaultKinds -> Nat]
  BY DEF FileTypeOK
<1>3. ASSUME Keeps(queue', queue), UNCHANGED <<files, pending, dirty, sender, history, misread, life>>,
             SameFiles, poll' = "idle" \/ (poll' = "read" /\ poll = "read"),
             disk' = Checkpoints(queue') \/ (disk' = disk /\ poll = "read")
      PROVE  FollowsOnly
  <2>1. GoodQueue(queue') /\ Range(queue') \subseteq Range(queue)
    BY <1>3 DEF Keeps
  <2>3. queue' # <<>> => Head(queue).ino <= Head(queue').ino
    BY <1>3 DEF Keeps
  <2>4. poll' \in {"idle", "read"} /\ (poll' = "read" => poll \in {"look", "read"})
    BY <1>3
  <2>5. pipe # "running" /\ poll \in {"idle", "check"} => disk' = Checkpoints(queue')
    BY <1>3
  <2> QED BY <1>1, <1>3, <2>1, <2>3, <2>4, <2>5 DEF FollowsOnly
<1>4. ASSUME CycleEnds(queue), UNCHANGED <<files, pending, dirty, sender, history, misread, life>>
      PROVE  FollowsOnly
  BY <1>1, <1>2, <1>3, <1>4, CycleEndsProperties
<1>5. CASE ReadsNothing
  BY <1>4, <1>5 DEF ReadsNothing, cycle, sender, life, files, history
<1>6. CASE ReadFails
  <2>1. poll = "read" /\ poll' = "idle" /\ disk' = Checkpoints(queue')
        /\ (Fault("error") \/ UNCHANGED faults)
        /\ UNCHANGED <<files, pending, dirty, sender, history, misread, life>> /\ queue' = queue
    BY <1>6 DEF ReadFails, Checkpoints
  <2>2. "error" \in FaultKinds /\ {"rotation", "removal", "crash"} \subseteq FaultKinds \ {"error"}
    BY DEF FaultKinds
  <2>3. SameFiles
    BY <1>2, <2>1, <2>2, FaultIs DEF SameFiles
  <2> QED BY <1>1, <1>3, <2>1, <2>3, SelfKeeps
<1>7. CASE LosesReaders \/ DropsReader
  <2>1. UNCHANGED <<files, pending, dirty, sender, history, misread, life>> /\ poll = "read" /\ queue # <<>>
    BY <1>7 DEF LosesReaders, DropsReader
  <2>2. CASE CycleEnds(<<>>)
    <3>1. /\ Keeps(queue', <<>>) /\ disk' = Checkpoints(queue') /\ poll' = "idle" /\ SameFiles
      BY <1>2, <2>2, EmptyKeeps, CycleEndsProperties
    <3>2. Keeps(queue', queue)
      BY <1>1, <3>1, EmptyKeeps, KeepsKeeps
    <3> QED BY <1>3, <2>1, <3>1, <3>2
  <2>3. CASE queue' = Tail(queue) /\ UNCHANGED <<poll, disk, faults>>
    <3>2. SameFiles
      BY <1>2, <2>3 DEF SameFiles
    <3>3. Keeps(queue', queue)
      BY <1>1, <2>1, <2>3, TailKeeps
    <3> QED BY <1>3, <2>1, <2>3, <3>2, <3>3
  <2> QED BY <1>7, <2>2, <2>3 DEF LosesReaders, DropsReader
<1>8. CASE ChecksRotation
  <2>1. CASE queue = <<>>
    BY <1>4, <1>8, <2>1 DEF ChecksRotation
  <2>2. CASE queue # <<>>
    <3>1. CycleEnds(Detected(queue)) /\ Meets(queue) /\ UNCHANGED <<files, misread, pending, dirty, sender, life>>
      BY <1>8, <2>2 DEF ChecksRotation
    <3>2. GoodQueue(Detected(queue))
      BY <1>1, <2>2, QueueIsGood, DetectedProperties DEF FilesInOrder
    <3>3. Keeps(queue', Detected(queue)) /\ disk' = Checkpoints(queue') /\ poll' = "idle" /\ SameFiles
      BY <1>2, <3>1, <3>2, CycleEndsProperties
    <3>4. GoodQueue(queue')
      BY <3>3 DEF Keeps
    <3>5. /\ \A x \in Range(queue') :
                /\ x.deleted <=> x.ino # cur
                /\ \/ \E r \in Range(queue) : r.ino = x.ino /\ r.off = x.off
                   \/ /\ x.ino = cur /\ x.off = 0
                      /\ \/ \E r \in Range(queue) : r.ino = cur /\ Len(content[cur]) < r.off
                         \/ Meets(queue) /\ \A r \in Range(queue) : r.ino # cur
          /\ queue # <<>> /\ queue' # <<>> => Head(queue).ino <= Head(queue').ino
      BY <2>2, <3>1, <3>3, <3>4, DetectionFollows
    <3> QED BY <3>1, <3>3, <3>4, <3>5 DEF FollowsOnly
  <2> QED BY <2>1, <2>2
<1>9. CASE LooksForRotation
  <2>1. CASE queue = <<>> /\ cur = NoFile
    BY <1>4, <1>9, <2>1 DEF LooksForRotation
  <2>2. CASE ~(queue = <<>> /\ cur = NoFile)
    <3> DEFINE p == IF queue = <<>> THEN <<NewReader(cur)>> ELSE queue
    <3>1. /\ poll = "look" /\ poll' = "read" /\ queue' = Detected(p) /\ Meets(queue)
          /\ UNCHANGED <<disk, faults>> /\ UNCHANGED <<files, misread, pending, dirty, sender, life>>
      BY <1>9, <2>2 DEF LooksForRotation
    <3>2. (p = queue \/ (queue = <<>> /\ cur # NoFile /\ p = <<NewReader(cur)>>)) /\ p # <<>>
      BY <2>2
    <3> HIDE DEF p
    <3>3. GoodQueue(p) /\ \A r \in Range(p) : r.ino <= Newest /\ (r.deleted => r.ino # cur)
      <4>1. CASE p = queue
        BY <4>1, QueueIsGood
      <4>2. CASE queue = <<>> /\ cur # NoFile /\ p = <<NewReader(cur)>>
        <5>1. cur \in Inodes /\ cur \in Nat /\ cur = Newest
          BY <4>2, InodesAreNumbers DEF FileTypeOK, FilesInOrder
        <5> DEFINE n == NewReader(cur)
        <5>2. n \in Reader /\ n.ino = cur /\ ~n.deleted
          BY <5>1, NewReaderProperties
        <5> HIDE DEF n
        <5>3. p \in Seq(Reader) /\ Len(p) = 1 /\ p[1] = n
          BY <4>2, <5>2 DEF n
        <5>4. \A x \in Range(p) : x = n
          BY <5>3, RangeIs
        <5> QED BY <5>1, <5>2, <5>3, <5>4, Limits DEF GoodQueue
      <4> QED BY <3>2, <4>1, <4>2
    <3>4. GoodQueue(queue') /\ Keeps(queue', Detected(p))
      BY <3>1, <3>2, <3>3, DetectedProperties, SelfKeeps DEF FilesInOrder
    <3>5. /\ \A x \in Range(queue') :
                /\ x.deleted <=> x.ino # cur
                /\ \/ \E r \in Range(queue) : r.ino = x.ino /\ r.off = x.off
                   \/ /\ x.ino = cur /\ x.off = 0
                      /\ \/ \E r \in Range(queue) : r.ino = cur /\ Len(content[cur]) < r.off
                         \/ Meets(queue) /\ \A r \in Range(queue) : r.ino # cur
          /\ queue # <<>> /\ queue' # <<>> => Head(queue).ino <= Head(queue').ino
      BY <3>1, <3>2, <3>4, DetectionFollows
    <3>6. SameFiles
      BY <1>2, <3>1 DEF SameFiles
    <3>7. \A x \in Range(queue') : x.deleted \in BOOLEAN
      BY <3>4, RangeIs, ReaderFields DEF GoodQueue
    <3> QED BY <3>1, <3>4, <3>5, <3>6, <3>7 DEF FollowsOnly
  <2> QED BY <2>1, <2>2
<1>10. CASE /\ pipe = "running" /\ poll = "idle" /\ queue = <<>> /\ CycleEnds(queue)
            /\ UNCHANGED <<files, pending, dirty, sender, history, misread, life>>
  BY <1>4, <1>10
<1> QED BY <1>5, <1>6, <1>7, <1>8, <1>9, <1>10

\* Lines enter the buffer, and are counted.
Takes(lines) == Enqueue(lines) /\ Counted(lines)

\* What the end of a read does to the queue and the path.
Ending(q) ==
    /\ GoodQueue(queue') /\ Keeps(queue', q) /\ SameFiles
    /\ faults' = faults => queue' = q
    /\ disk' = disk \/ disk' = Checkpoints(queue')
    /\ dirty' \in BOOLEAN

LEMMA HandOverProperties ==
    ASSUME FileTypeOK, NEW q, GoodQueue(q), NEW lines, NEW b \in BOOLEAN, HandOver(q, lines, b)
    PROVE  /\ Ending(q)
           /\ \/ lines # <<>> /\ Full /\ pending' = lines /\ bucket' = bucket /\ poll' = "idle"
              \/ /\ ~(lines # <<>> /\ Full) /\ Enqueue(lines) /\ UNCHANGED pending
                 /\ poll' \in {"idle", "look"}
<1>1. faults \in [FaultKinds -> Nat] /\ dirty \in BOOLEAN
  BY DEF FileTypeOK
<1>2. ASSUME CycleEnds(q), dirty' \in BOOLEAN
      PROVE  Ending(q) /\ poll' = "idle"
  BY <1>1, <1>2, CycleEndsProperties DEF Ending, Keeps
<1>3. ASSUME queue' = q, UNCHANGED <<disk, faults>>, dirty' \in BOOLEAN
      PROVE  Ending(q)
  BY <1>1, <1>3, SelfKeeps DEF Ending, SameFiles
<1>4. CASE lines # <<>> /\ Full
  BY <1>2, <1>4 DEF HandOver
<1>5. CASE ~(lines # <<>> /\ Full)
  BY <1>1, <1>2, <1>3, <1>5 DEF HandOver
<1> QED BY <1>4, <1>5

\* The cycle reads lines of the first reader's file, behind its offset.
TakesLines(lines) ==
    LET r == Head(queue)
        n == Len(lines)
    IN
    /\ queue # <<>> /\ poll = "read"
    /\ lines \in Seq(Lines) /\ n >= 1 /\ r.off + n <= Len(content[r.ino])
    /\ \A k \in 1 .. n : lines[k] = content[r.ino][r.off + k]
    /\ GoodQueue(queue')
    /\ \A x \in Range(queue') :
          \/ x \in Range(Tail(queue))
          \/ x.ino = r.ino /\ x.off = r.off + n /\ x.deleted = r.deleted
    /\ queue' # <<>> => r.ino <= Head(queue').ino
    /\ faults' = faults => \A q \in Range(queue) :
          \/ \E x \in Range(queue') : x.ino = q.ino
          \/ q = r /\ r.off + n = Len(content[r.ino])
    /\ UNCHANGED <<files, flight, tries, gaveUp, settled, misread, life>>
    /\ \/ pending' = lines /\ UNCHANGED <<bucket, history>> /\ poll' = "idle"
       \/ Takes(lines) /\ UNCHANGED pending /\ poll' \in {"idle", "look"}
    /\ dirty' \in BOOLEAN
    /\ SameFiles
    /\ disk' = disk \/ disk' = Checkpoints(queue')

\* The cycle reads lines of the file that replaced the one of the first reader.
TakesOthers(lines) ==
    LET h == Head(queue) IN
    /\ queue # <<>> /\ poll = "read" /\ lines \in Seq(Lines)
    /\ GoodQueue(queue')
    /\ \A x \in Range(queue') :
          \/ x \in Range(Tail(queue))
          \/ x.ino = h.ino /\ x.deleted = h.deleted
    /\ faults' = faults => \A q \in Range(queue) : \E x \in Range(queue') : x.ino = q.ino
    /\ UNCHANGED <<files, flight, tries, gaveUp, settled, life>>
    /\ \/ pending' = lines /\ bucket' = bucket /\ poll' = "idle"
       \/ Enqueue(lines) /\ UNCHANGED pending /\ poll' \in {"idle", "look"}
    /\ dirty' \in BOOLEAN
    /\ SameFiles
    /\ disk' = disk \/ disk' = Checkpoints(queue')
    /\ misread' = misread \cup {h.ino}
    /\ met' = {} /\ again' = TRUE /\ taken' = NotTaken

LEMMA UnreadIs ==
    ASSUME FileTypeOK, ReadersInOrder, poll = "read", queue # <<>>, Unread # <<>>,
           Source = Head(queue).ino
    PROVE  LET r == Head(queue) IN
           /\ Unread = SubSeq(content[r.ino], r.off + 1, Len(content[r.ino]))
           /\ r \in Reader /\ content[r.ino] \in Seq(Lines)
           /\ Unread \in Seq(Lines) /\ Len(Unread) \in Nat /\ Len(Unread) >= 1
           /\ Len(Unread) = Len(content[r.ino]) - r.off
           /\ \A k \in 1 .. Len(Unread) : Unread[k] = content[r.ino][r.off + k]
<1> DEFINE r == Head(queue)
<1>1. r \in Range(queue) /\ r \in Reader /\ r.ino \in Inodes /\ r.off \in Nat
  BY QueueIsGood, ReaderFields
<1>2. Source = r.ino
  OBVIOUS
<1>3. r.ino # NoFile
  BY <1>1, InodesAreNumbers
<1>4. Unread = SubSeq(content[r.ino], r.off + 1, Len(content[r.ino]))
  BY <1>2, <1>3 DEF Unread
<1>5. content[r.ino] \in Seq(Lines)
  BY <1>1 DEF FileTypeOK
<1> DEFINE c == content[r.ino]
           o == r.off
<1>6. c \in Seq(Lines) /\ o \in Nat /\ Len(c) \in Nat
  BY <1>1, <1>5
<1> HIDE DEF c, o
<1>7. /\ SubSeq(c, o + 1, Len(c)) \in Seq(Lines)
      /\ Len(SubSeq(c, o + 1, Len(c))) = IF o < Len(c) THEN Len(c) - o ELSE 0
      /\ \A k \in 1 .. Len(SubSeq(c, o + 1, Len(c))) : SubSeq(c, o + 1, Len(c))[k] = c[o + k]
  BY <1>6, SuffixProperties
<1>8. Unread = SubSeq(c, o + 1, Len(c))
  BY <1>4 DEF c, o
<1>9. Len(Unread) # 0
  BY <1>7, <1>8, EmptySeq
<1>10. o < Len(c) /\ Len(Unread) = Len(c) - o
  BY <1>6, <1>7, <1>8, <1>9
<1>11. /\ Unread \in Seq(Lines) /\ Len(Unread) \in Nat /\ Len(Unread) >= 1
       /\ Len(Unread) = Len(c) - o
  BY <1>6, <1>7, <1>8, <1>10
<1>12. \A k \in 1 .. Len(Unread) : Unread[k] = c[o + k]
  BY <1>7, <1>8
<1> HIDE DEF r
<1>13. /\ Unread = SubSeq(c, o + 1, Len(c)) /\ r \in Reader /\ c \in Seq(Lines)
  BY <1>1, <1>6, <1>8
<1> QED BY <1>11, <1>12, <1>13 DEF c, o, r

LEMMA ReadsStep ==
    ASSUME FileTypeOK, ReadersInOrder, ReadsLines
    PROVE  \E lines : TakesLines(lines)
<1> DEFINE r == Head(queue)
           lines == Prefix(Unread, ReadLines)
           n == Len(lines)
           more == Len(lines) < Len(Unread)
           c == content[r.ino]
<1>1. poll = "read" /\ queue # <<>> /\ Unread # <<>> /\ Source = Head(queue).ino
  BY DEF ReadsLines
<1>2. GoodQueue(queue) /\ r \in Reader /\ r.off \in Nat /\ r \in Range(queue)
  BY <1>1, QueueIsGood, ReaderFields
<1>3. /\ Unread \in Seq(Lines) /\ Len(Unread) \in Nat /\ Len(Unread) >= 1
      /\ Len(Unread) = Len(c) - r.off /\ c \in Seq(Lines) /\ Len(c) \in Nat
      /\ \A k \in 1 .. Len(Unread) : Unread[k] = c[r.off + k]
  BY <1>1, UnreadIs
<1>4. /\ lines \in Seq(Lines) /\ n \in Nat /\ n >= 1 /\ n <= Len(Unread)
      /\ \A k \in 1 .. n : lines[k] = Unread[k]
  <2>1. ReadLines \in Nat /\ ReadLines >= 1
    BY Limits
  <2>2. /\ lines \in Seq(Lines) /\ n = IF ReadLines < Len(Unread) THEN ReadLines ELSE Len(Unread)
        /\ \A k \in 1 .. n : lines[k] = Unread[k]
    BY <1>3, <2>1, PrefixProperties
  <2> HIDE DEF lines
  <2> QED BY <1>3, <2>1, <2>2
<1> HIDE DEF lines, c
<1>5. r.off + n <= Len(c) /\ (~more => r.off + n = Len(c)) /\ \A k \in 1 .. n : lines[k] = c[r.off + k]
  <2>1. \A k \in 1 .. n : k \in 1 .. Len(Unread)
    BY <1>3, <1>4
  <2>2. \A k \in 1 .. n : lines[k] = c[r.off + k]
    BY <1>3, <1>4, <2>1
  <2> DEFINE o == r.off
             u == Len(Unread)
             m == Len(c)
             t == Len(lines)
  <2>3. o \in Nat /\ u \in Nat /\ m \in Nat /\ t \in Nat /\ u = m - o /\ t <= u
    BY <1>2, <1>3, <1>4
  <2> HIDE DEF o, u, m, t
  <2>4. o + t <= m /\ (~(t < u) => o + t = m)
    BY <2>3
  <2> QED BY <2>2, <2>4 DEF o, u, m, t
<1> DEFINE advanced == [queue EXCEPT ![1].off = @ + n]
<1>6. /\ UNCHANGED <<files, flight, tries, gaveUp, settled, misread, life>>
      /\ IF Full THEN UNCHANGED history ELSE Counted(lines)
  BY DEF ReadsLines, lines
<1>7. \/ HandOver(Tail(queue), lines, Len(queue) > 1) /\ r.deleted /\ ~more
      \/ HandOver(advanced, lines, more \/ Len(queue) > 1)
  BY DEF ReadsLines, lines
<1> DEFINE HandsOver(q, b) ==
             /\ HandOver(q, lines, b)
             /\ GoodQueue(q)
             /\ \A x \in Range(q) :
                   \/ x \in Range(Tail(queue))
                   \/ x.ino = r.ino /\ x.off = r.off + n /\ x.deleted = r.deleted
             /\ q # <<>> => r.ino <= Head(q).ino
             /\ \A s \in Range(queue) :
                   \/ \E x \in Range(q) : x.ino = s.ino
                   \/ s = r /\ r.off + n = Len(c)
<1>8. PICK q : \E hasMore \in BOOLEAN : HandsOver(q, hasMore)
  <2>1. CASE HandOver(Tail(queue), lines, Len(queue) > 1) /\ r.deleted /\ ~more
    <3>1. /\ Keeps(Tail(queue), queue)
          /\ \A s \in Range(queue) : s = r \/ s \in Range(Tail(queue))
      BY <1>1, <1>2, TailKeeps
    <3>2. GoodQueue(Tail(queue)) /\ (Tail(queue) # <<>> => r.ino <= Head(Tail(queue)).ino)
      BY <3>1 DEF Keeps
    <3>3. \A s \in Range(queue) : (\E x \in Range(Tail(queue)) : x.ino = s.ino) \/ (s = r /\ r.off + n = Len(c))
      BY <1>5, <2>1, <3>1
    <3>4. HandsOver(Tail(queue), Len(queue) > 1)
      BY <2>1, <3>2, <3>3
    <3>5. (Len(queue) > 1) \in BOOLEAN
      OBVIOUS
    <3> HIDE DEF HandsOver
    <3> QED BY <3>4, <3>5
  <2>2. CASE HandOver(advanced, lines, more \/ Len(queue) > 1)
    <3> DEFINE h == [r EXCEPT !.off = @ + n]
               a == advanced
    <3>1. /\ GoodQueue(a) /\ Head(a) = h
          /\ \A x \in Range(a) : x = Head(a) \/ x \in Range(Tail(queue))
          /\ \A s \in Range(queue) : s = r \/ s \in Range(a)
          /\ a # <<>>
      BY <1>1, <1>2, <1>4, AdvanceKeeps
    <3>2. h.ino = r.ino /\ h.off = r.off + n /\ h.deleted = r.deleted /\ r.ino \in Nat
      BY <1>2, <1>4, AdvancedReader, ReaderFields
    <3> HIDE DEF a, h
    <3>3. Head(a) \in Range(a)
      BY <3>1, Ends
    <3>4. \A s \in Range(queue) : \E x \in Range(a) : x.ino = s.ino
      BY <3>1, <3>2, <3>3
    <3>5. HandOver(a, lines, more \/ Len(queue) > 1)
      BY <2>2 DEF a
    <3>6. HandsOver(a, more \/ Len(queue) > 1)
      BY <3>1, <3>2, <3>4, <3>5
    <3>7. (more \/ Len(queue) > 1) \in BOOLEAN
      OBVIOUS
    <3> HIDE DEF HandsOver
    <3> QED BY <3>6, <3>7
  <2> QED BY <1>7, <2>1, <2>2
<1>9. /\ Ending(q)
      /\ \/ Full /\ pending' = lines /\ bucket' = bucket /\ poll' = "idle"
         \/ ~Full /\ Enqueue(lines) /\ UNCHANGED pending /\ poll' \in {"idle", "look"}
  <2>1. lines # <<>>
    BY <1>4
  <2>2. PICK b \in BOOLEAN : HandsOver(q, b)
    BY <1>8
  <2> QED BY <2>1, <2>2, HandOverProperties
<1>10. \/ pending' = lines /\ UNCHANGED <<bucket, history>> /\ poll' = "idle"
       \/ Takes(lines) /\ UNCHANGED pending /\ poll' \in {"idle", "look"}
  BY <1>6, <1>9 DEF Takes
<1>11. /\ Keeps(queue', q) /\ SameFiles /\ (faults' = faults => queue' = q)
       /\ disk' = disk \/ disk' = Checkpoints(queue')
       /\ dirty' \in BOOLEAN
  BY <1>9 DEF Ending
<1>12. /\ GoodQueue(queue') /\ Range(queue') \subseteq Range(q)
       /\ queue' # <<>> => r.ino <= Head(queue').ino
  <2>1. queue' # <<>> => /\ r.ino \in Nat /\ Head(q).ino \in Nat /\ Head(queue').ino \in Nat
                         /\ Head(q).ino <= Head(queue').ino /\ q # <<>>
    BY <1>2, <1>8, <1>11, Ends, ReaderFields DEF Keeps
  <2> QED BY <1>8, <1>11, <2>1 DEF Keeps
<1>13. faults' = faults => \A s \in Range(queue) :
          (\E x \in Range(queue') : x.ino = s.ino) \/ (s = r /\ r.off + n = Len(c))
  BY <1>8, <1>11
<1>14. TakesLines(lines)
  BY <1>1, <1>4, <1>5, <1>6, <1>8, <1>10, <1>11, <1>12, <1>13 DEF TakesLines, c
<1> QED BY <1>14

LEMMA ReadsAnotherStep ==
    ASSUME FileTypeOK, ReadersInOrder, ReadsAnother
    PROVE  \E lines : TakesOthers(lines)
<1> DEFINE r == Head(queue)
<1>1. /\ poll = "read" /\ queue # <<>> /\ Source # NoFile /\ Source = cur
      /\ misread' = misread \cup {r.ino} /\ met' = {} /\ again' = TRUE /\ taken' = NotTaken
      /\ UNCHANGED <<files, flight, tries, gaveUp, settled, life>>
  BY DEF ReadsAnother, Source
<1>2. GoodQueue(queue) /\ r \in Reader /\ r.off \in Nat /\ r \in Range(queue)
  BY <1>1, QueueIsGood, ReaderFields
<1>3. Unread \in Seq(Lines)
  <2>1. content[cur] \in Seq(Lines) /\ r.off + 1 \in Nat
    BY <1>1, <1>2 DEF FileTypeOK
  <2>2. Unread = SubSeq(content[cur], r.off + 1, Len(content[cur]))
    BY <1>1 DEF Unread
  <2> DEFINE d == content[cur]
             o == r.off
  <2>3. d \in Seq(Lines) /\ o \in Nat /\ Unread = SubSeq(d, o + 1, Len(d))
    BY <1>2, <2>1, <2>2
  <2> HIDE DEF d, o
  <2> QED BY <2>3, SuffixProperties
<1>4. PICK size \in Lines :
         LET n == IF size - r.off < ReadLines THEN size - r.off ELSE ReadLines IN
         /\ r.off < size
         /\ HandOver([queue EXCEPT ![1].off = @ + n], Prefix(Unread, n),
                     r.off + n < size \/ Len(queue) > 1)
  BY DEF ReadsAnother
<1> DEFINE n == IF size - r.off < ReadLines THEN size - r.off ELSE ReadLines
           q == [queue EXCEPT ![1].off = @ + n]
           lines == Prefix(Unread, n)
           b == r.off + n < size \/ Len(queue) > 1
<1>5. n \in Nat
  <2>1. size \in Nat /\ ReadLines \in Nat
    BY Limits DEF Lines
  <2> QED BY <1>2, <1>4, <2>1
<1>6. HandOver(q, lines, b) /\ b \in BOOLEAN
  BY <1>4
<1> HIDE DEF n
<1>7. /\ GoodQueue(q) /\ q # <<>> /\ Head(q) = [r EXCEPT !.off = @ + n]
      /\ \A x \in Range(q) : x = Head(q) \/ x \in Range(Tail(queue))
      /\ \A x \in Range(queue) : x = r \/ x \in Range(q)
  BY <1>1, <1>2, <1>5, AdvanceKeeps
<1>8. Head(q).ino = r.ino /\ Head(q).deleted = r.deleted
  BY <1>2, <1>5, <1>7, AdvancedReader
<1>9. lines \in Seq(Lines)
  BY <1>3, <1>5, PrefixProperties
<1> HIDE DEF q, lines, b
<1>10. /\ Ending(q)
       /\ \/ pending' = lines /\ bucket' = bucket /\ poll' = "idle"
          \/ Enqueue(lines) /\ UNCHANGED pending /\ poll' \in {"idle", "look"}
  BY <1>6, <1>7, HandOverProperties
<1>11. \A x \in Range(queue') : x \in Range(Tail(queue)) \/ (x.ino = r.ino /\ x.deleted = r.deleted)
  BY <1>7, <1>8, <1>10 DEF Ending, Keeps
<1>12. faults' = faults => \A s \in Range(queue) : \E x \in Range(queue') : x.ino = s.ino
  <2>1. Head(q) \in Range(q)
    BY <1>7, Ends
  <2> QED BY <1>7, <1>8, <1>10, <2>1 DEF Ending
<1>13. TakesOthers(lines)
  BY <1>1, <1>9, <1>10, <1>11, <1>12 DEF TakesOthers, Ending
<1> QED BY <1>13

\* A path whose pending lines wait is not read on.
PendingWaits ==
    /\ pipe = "running" /\ poll = "idle" /\ pending # <<>>
    /\ dirty' = TRUE /\ poll' = "check"
    /\ UNCHANGED <<files, queue, pending, sender, history, misread, disk, life, faults>>

PendingGoes ==
    /\ pipe = "running" /\ poll = "idle"
    /\ Takes(pending) /\ pending' = <<>>
    /\ dirty' \in BOOLEAN /\ poll' \in {"check", "look"}
    /\ UNCHANGED <<files, queue, flight, tries, gaveUp, settled, misread, disk, life, faults>>

\* The steps there are, those of the poll cycle by what they do.
Moves ==
    \/ Writes \/ RenamesAway \/ Creates \/ Truncates \/ Removes
    \/ FollowsOnly \/ (\E lines : TakesLines(lines)) \/ (\E lines : TakesOthers(lines))
    \/ PendingWaits \/ PendingGoes
    \/ Wakes \/ Starts \/ Stops \/ Drains \/ GivesUp
    \/ FlushStarts \/ Crash \/ (\E ok \in BOOLEAN : SliceDone(ok))

LEMMA NextMoves ==
    ASSUME FileTypeOK, FilesInOrder, ReadersInOrder, FileNext
    PROVE  Moves
<1>1. CASE ChecksRotation \/ LooksForRotation \/ ReadsNothing \/ DropsReader \/ LosesReaders \/ ReadFails
  BY <1>1, FollowsStep DEF Moves
<1>2. CASE ReadsLines \/ ReadsAnother
  BY <1>2, ReadsStep, ReadsAnotherStep DEF Moves
<1>3. CASE PollStarts
  <2>1. CASE ~dirty /\ queue = <<>> /\ CycleEnds(queue) /\ UNCHANGED <<pending, dirty, bucket, history>>
    <3>1. /\ pipe = "running" /\ poll = "idle" /\ queue = <<>> /\ CycleEnds(queue)
          /\ UNCHANGED <<files, pending, dirty, sender, history, misread, life>>
      BY <1>3, <2>1 DEF PollStarts, sender
    <3> QED BY <3>1, FollowsStep DEF Moves
  <2>2. CASE /\ pending # <<>> /\ dirty' = TRUE /\ poll' = "check"
             /\ UNCHANGED <<queue, pending, bucket, history, disk, faults>>
    BY <1>3, <2>2 DEF PollStarts, Moves, PendingWaits, sender
  <2>3. CASE /\ Enqueue(pending) /\ Counted(pending) /\ pending' = <<>>
             /\ dirty' = IsBackpressured(bucket')
             /\ poll' = IF IsBackpressured(bucket') THEN "check" ELSE "look"
             /\ UNCHANGED <<queue, disk, faults>>
    <3>1. dirty' \in BOOLEAN /\ poll' \in {"check", "look"}
      BY <2>3 DEF IsBackpressured
    <3> QED BY <1>3, <2>3, <3>1 DEF PollStarts, Moves, PendingGoes, Takes
  <2> QED BY <1>3, <2>1, <2>2, <2>3 DEF PollStarts
<1>4. CASE \/ Writes \/ RenamesAway \/ Creates \/ Truncates \/ Removes
           \/ Wakes \/ Starts \/ Stops \/ Drains \/ GivesUp
           \/ FlushStarts \/ Crash \/ (\E ok \in BOOLEAN : SliceDone(ok))
  BY <1>4 DEF Moves
<1> QED BY <1>1, <1>2, <1>3, <1>4 DEF FileNext, Owner, Tailer, Pipeline

LEMMA QueueType ==
    ASSUME NEW q, GoodQueue(q)
    PROVE  /\ q \in Seq(Reader) /\ Len(q) <= MaxReaders
           /\ \A j, k \in DOMAIN q : j < k => q[j].ino < q[k].ino /\ q[j].deleted
           /\ \A j, k \in DOMAIN q : q[j].ino = q[k].ino => j = k
<1>1. q \in Seq(Reader) /\ Len(q) <= MaxReaders /\ DOMAIN q = 1 .. Len(q) /\ Len(q) \in Nat
  BY RangeIs DEF GoodQueue
<1>2. \A j, k \in DOMAIN q : j < k => q[j].ino < q[k].ino /\ q[j].deleted
  BY <1>1 DEF GoodQueue
<1>3. \A j \in DOMAIN q : q[j].ino \in Nat /\ j \in Nat
  BY <1>1, ReaderFields
<1>4. \A j, k \in DOMAIN q : q[j].ino = q[k].ino => j = k
  <2>1. ASSUME NEW j \in DOMAIN q, NEW k \in DOMAIN q, q[j].ino = q[k].ino PROVE j = k
    <3>1. ~(j < k) /\ ~(k < j)
      BY <1>2, <1>3, <2>1
    <3> QED BY <1>3, <3>1
  <2> QED BY <2>1
<1> QED BY <1>1, <1>2, <1>4

LEMMA EnqueueProperties ==
    ASSUME FileTypeOK, NEW lines \in Seq(Lines), Takes(lines)
    PROVE  /\ bucket' \in Seq(Lines) /\ bucket' = bucket \o lines
           /\ gaveUp \/ IsPrefix(flight, bucket')
           /\ \A x : x \in Range(bucket') <=> x \in Range(bucket) \/ x \in Range(lines)
           /\ taken' \in [Lines -> Nat] /\ UNCHANGED <<met, again>>
           /\ again \/ \A l \in Lines :
                 taken'[l] = IF l \in Range(lines) THEN taken[l] + 1 ELSE taken[l]
<1>1. bucket \in Seq(Lines) /\ flight \in Seq(Lines) /\ taken \in [Lines -> Nat]
      /\ (gaveUp \/ IsPrefix(flight, bucket))
  BY DEF FileTypeOK
<1>2. bucket' = bucket \o lines /\ UNCHANGED <<met, again>>
  BY DEF Takes, Enqueue, Counted
<1>3. bucket \o lines \in Seq(Lines)
  BY <1>1, ConcatProperties
<1>4. gaveUp \/ IsPrefix(flight, bucket')
  BY <1>1, <1>2, PrefixOfMore
<1>5. \A x : x \in Range(bucket') <=> x \in Range(bucket) \/ x \in Range(lines)
  BY <1>1, <1>2, RangeOfConcat
<1>6. taken' \in [Lines -> Nat]
  BY <1>1 DEF Takes, Enqueue, Counted
<1>7. again \/ \A l \in Lines :
                 taken'[l] = IF l \in Range(lines) THEN taken[l] + 1 ELSE taken[l]
  BY <1>1 DEF Takes, Enqueue, Counted
<1> QED BY <1>2, <1>3, <1>4, <1>5, <1>6, <1>7

LEMMA MeetsProperties ==
    ASSUME FileTypeOK, Meets(queue)
    PROVE  /\ met' \subseteq Inodes /\ again' \in BOOLEAN /\ taken' \in [Lines -> Nat]
           /\ \/ again'
              \/ UNCHANGED history /\ (cur = NoFile \/ (queue # <<>> /\ Last(queue).ino = cur))
              \/ UNCHANGED <<again, taken>> /\ cur \in Inodes /\ cur \notin met /\ met' = met \cup {cur}
<1>1. met \subseteq Inodes /\ again \in BOOLEAN /\ taken \in [Lines -> Nat] /\ cur \in Inodes \cup {NoFile}
  BY DEF FileTypeOK
<1>2. NotTaken \in [Lines -> Nat]
  BY DEF NotTaken
<1>3. \/ UNCHANGED history /\ (cur = NoFile \/ (queue # <<>> /\ Last(queue).ino = cur))
      \/ met' = {} /\ again' = TRUE /\ taken' = NotTaken
      \/ UNCHANGED <<again, taken>> /\ cur # NoFile /\ cur \notin met /\ met' = met \cup {cur}
  BY DEF Meets
<1> QED BY <1>1, <1>2, <1>3 DEF history

-----------------------------------------------------------------------------
(* Every step keeps the types, and the order of files and readers.         *)

LEMMA TypeStep ==
    ASSUME FileTypeOK, FilesInOrder, ReadersInOrder, StoppedIsSettled, Moves
    PROVE  FileTypeOK'
<1> USE DEF files, cycle, sender, history, life
<1>1. GoodQueue(queue) /\ faults \in [FaultKinds -> Nat]
  BY QueueIsGood DEF FileTypeOK
<1>2. \A kind \in FaultKinds : Fault(kind) => faults' \in [FaultKinds -> Nat]
  BY <1>1, FaultIs
<1>3. {"rotation", "truncation", "removal", "crash"} \subseteq FaultKinds
  BY DEF FaultKinds
<1>4. ASSUME GoodQueue(queue')
      PROVE  /\ queue' \in Seq(Reader) /\ Len(queue') <= MaxReaders
             /\ \A j, k \in DOMAIN queue' : queue'[j].ino = queue'[k].ino => j = k
             /\ Checkpoints(queue') \subseteq Checkpoint
  BY <1>4, QueueType, CheckpointsProperties
<1>5. /\ queue \in Seq(Reader) /\ Len(queue) <= MaxReaders
      /\ \A j, k \in DOMAIN queue : queue[j].ino = queue[k].ino => j = k
      /\ Checkpoints(queue) \subseteq Checkpoint
  BY <1>1, QueueType, CheckpointsProperties
<1>6. <<>> \in Seq(Lines) /\ Range(<<>>) = {}
  BY EmptyKeeps
<1>7. CASE Writes
  <2>1. /\ cur \in Inodes /\ Len(owner) \in Nat /\ Len(owner) + 1 \in Lines
        /\ owner' = Append(owner, cur) /\ content' = [content EXCEPT ![cur] = Append(@, Len(owner) + 1)]
        /\ UNCHANGED <<cur, linked, queue, cycle, sender, history, misread, disk, life, faults>>
    <3>1. /\ cur \in Inodes /\ owner \in Seq(Inodes)
      BY <1>7 DEF Writes, FileTypeOK
    <3>2. Len(owner) \in Nat /\ Len(owner) < MaxLines /\ MaxLines \in Nat
      BY <1>7, <3>1, Limits DEF Writes
    <3>3. Len(owner) + 1 \in Lines
      BY <3>2 DEF Lines
    <3> QED BY <1>7, <3>1, <3>2, <3>3 DEF Writes
  <2>2. owner' \in Seq(Inodes) /\ Append(content[cur], Len(owner) + 1) \in Seq(Lines)
    BY <2>1, AppendProperties DEF FileTypeOK
  <2>3. content' \in [Inodes -> Seq(Lines)]
    BY <2>1, <2>2 DEF FileTypeOK
  <2> QED BY <2>1, <2>2, <2>3 DEF FileTypeOK
<1>8. CASE RenamesAway
  <2>1. faults' \in [FaultKinds -> Nat]
    BY <1>1, <1>2, <1>8 DEF RenamesAway, FaultKinds
  <2> QED BY <1>8, <2>1 DEF RenamesAway, FileTypeOK
<1>9. CASE Creates
  <2>1. /\ Fault("rotation") /\ faults.rotation \in Nat /\ faults.rotation + 1 < Cardinality(Inodes)
        /\ cur' = faults'.rotation + 1 /\ linked' = linked \cup {cur'}
        /\ UNCHANGED <<content, owner, queue, cycle, sender, history, misread, disk, life>>
    BY <1>1, <1>3, <1>9 DEF Creates
  <2>2. faults'.rotation = faults.rotation + 1 /\ faults' \in [FaultKinds -> Nat]
    BY <1>1, <1>3, <2>1, FaultIs
  <2>3. Cardinality(Inodes) \in Nat /\ Inodes = 1 .. Cardinality(Inodes)
    BY FileAssumption, FS_CardinalityType
  <2>4. cur' \in Inodes
    BY <2>1, <2>2, <2>3
  <2> QED BY <2>1, <2>2, <2>4 DEF FileTypeOK
<1>10. CASE Truncates
  <2>1. /\ faults' \in [FaultKinds -> Nat] /\ content' = [content EXCEPT ![cur] = <<>>]
        /\ UNCHANGED <<owner, cur, linked, queue, cycle, sender, history, misread, disk, life>>
    BY <1>2, <1>3, <1>10 DEF Truncates
  <2>2. content' \in [Inodes -> Seq(Lines)]
    BY <1>6, <2>1 DEF FileTypeOK
  <2> QED BY <2>1, <2>2 DEF FileTypeOK
<1>11. CASE Removes
  <2>1. /\ faults' \in [FaultKinds -> Nat] /\ linked' \subseteq linked
        /\ UNCHANGED <<content, owner, cur, queue, cycle, sender, history, misread, disk, life>>
    BY <1>2, <1>3, <1>11 DEF Removes
  <2> QED BY <2>1 DEF FileTypeOK
<1>12. CASE FollowsOnly
  <2>1. /\ UNCHANGED <<files, misread, pending, dirty, sender, life>> /\ GoodQueue(queue')
        /\ faults' \in [FaultKinds -> Nat] /\ poll' \in {"idle", "read"}
        /\ disk' = disk \/ disk' = Checkpoints(queue')
    BY <1>12 DEF FollowsOnly, SameFiles
  <2>2. met' \subseteq Inodes /\ again' \in BOOLEAN /\ taken' \in [Lines -> Nat]
    BY <1>12, MeetsProperties DEF FollowsOnly, FileTypeOK
  <2> QED BY <1>4, <2>1, <2>2 DEF FileTypeOK
<1>13. ASSUME NEW lines, TakesLines(lines)
       PROVE  FileTypeOK'
  <2>1. /\ UNCHANGED <<files, misread, flight, tries, gaveUp, settled, life>> /\ GoodQueue(queue')
        /\ faults' \in [FaultKinds -> Nat] /\ poll' \in {"idle", "look"} /\ dirty' \in BOOLEAN
        /\ disk' = disk \/ disk' = Checkpoints(queue')
        /\ lines \in Seq(Lines)
    BY <1>13 DEF TakesLines, SameFiles
  <2>2. CASE pending' = lines /\ UNCHANGED <<bucket, history>>
    BY <1>4, <2>1, <2>2 DEF FileTypeOK
  <2>3. CASE Takes(lines) /\ UNCHANGED pending
    <3>1. /\ bucket' \in Seq(Lines) /\ (gaveUp \/ IsPrefix(flight, bucket'))
          /\ taken' \in [Lines -> Nat] /\ UNCHANGED <<met, again>>
      BY <2>1, <2>3, EnqueueProperties
    <3> QED BY <1>4, <2>1, <2>3, <3>1 DEF FileTypeOK
  <2> QED BY <1>13, <2>2, <2>3 DEF TakesLines
<1>14. CASE PendingWaits
  BY <1>14 DEF PendingWaits, FileTypeOK
<1>15. CASE PendingGoes
  <2>1. pending \in Seq(Lines) /\ Takes(pending)
    BY <1>15 DEF PendingGoes, FileTypeOK
  <2>2. /\ bucket' \in Seq(Lines) /\ (gaveUp \/ IsPrefix(flight, bucket'))
        /\ taken' \in [Lines -> Nat] /\ UNCHANGED <<met, again>>
    BY <2>1, EnqueueProperties
  <2> QED BY <1>6, <1>15, <2>2 DEF PendingGoes, FileTypeOK
<1>16. CASE Wakes
  BY <1>5, <1>16 DEF Wakes, FileTypeOK
<1>17. CASE Starts
  <2>1. GoodQueue(RestoredReaders)
    BY RestoredProperties DEF ReadersInOrder
  <2>2. GoodQueue(queue')
    BY <1>17, <2>1 DEF Starts
  <2>3. again' \in BOOLEAN /\ met' \subseteq Inodes /\ taken' \in [Lines -> Nat]
    BY <1>17 DEF Starts, FileTypeOK, NotTaken
  <2>4. IsPrefix(flight', bucket')
    <3>1. Prefix(<<>>, 0) = <<>>
      BY DEF Prefix
    <3> QED BY <1>6, <1>17, <3>1, PrefixIsPrefix DEF Starts
  <2>5. starts' \in 0 .. MaxStarts /\ pipe' = "running" /\ 0 \in 0 .. MaxAttempts
    <3>1. /\ starts \in 0 .. MaxStarts /\ starts < MaxStarts /\ starts' = starts + 1
          /\ pipe' = "running"
      BY <1>17 DEF Starts, FileTypeOK
    <3>2. MaxStarts \in Nat /\ 0 \in 0 .. MaxAttempts
      BY Limits
    <3> QED BY <3>1, <3>2
  <2> QED BY <1>4, <1>6, <1>17, <2>2, <2>3, <2>4, <2>5 DEF Starts, FileTypeOK
<1>18. CASE Stops
  <2>1. /\ pending \in Seq(Lines) /\ pipe' = "draining" /\ dirty' = FALSE /\ pending' = <<>>
        /\ lossy' \in BOOLEAN
        /\ UNCHANGED <<files, misread, queue, poll, flight, tries, gaveUp, settled, disk, starts,
                       faults>>
        /\ UNCHANGED <<bucket, history>> \/ Takes(pending)
    BY <1>18 DEF Stops, Takes, FileTypeOK
  <2>2. /\ bucket' \in Seq(Lines) /\ (gaveUp \/ IsPrefix(flight, bucket'))
        /\ met' \subseteq Inodes /\ again' \in BOOLEAN /\ taken' \in [Lines -> Nat]
    BY <2>1, EnqueueProperties DEF FileTypeOK
  <2> QED BY <1>6, <2>1, <2>2 DEF FileTypeOK
<1>19. CASE Drains
  BY <1>5, <1>19 DEF Drains, FileTypeOK
<1>20. CASE GivesUp
  <2>1. Range(bucket) \subseteq Lines
    BY RangeIs DEF FileTypeOK
  <2> QED BY <1>5, <1>6, <1>20, <2>1 DEF GivesUp, FileTypeOK
<1>21. CASE FlushStarts
  <2>1. /\ flight' = Prefix(bucket, SliceLines)
        /\ UNCHANGED <<files, queue, cycle, bucket, gaveUp, settled, history, misread, disk, life,
                       faults>>
        /\ UNCHANGED tries \/ (tries < MaxAttempts /\ tries' = tries + 1)
    BY <1>21 DEF FlushStarts
  <2>2. flight' \in Seq(Lines) /\ IsPrefix(flight', bucket)
    BY <2>1, Limits, PrefixProperties, PrefixIsPrefix DEF FileTypeOK
  <2>3. tries' \in 0 .. MaxAttempts
    <3>1. tries \in 0 .. MaxAttempts /\ MaxAttempts \in Nat
      BY Limits DEF FileTypeOK
    <3> QED BY <2>1, <3>1
  <2> QED BY <2>1, <2>2, <2>3 DEF FileTypeOK
<1>22. CASE Crash
  <2>1. /\ pipe' = "off" /\ queue' = <<>> /\ pending' = <<>> /\ dirty' = FALSE /\ poll' = "idle"
        /\ bucket' = <<>> /\ flight' = <<>> /\ tries' = 0 /\ gaveUp' = FALSE
        /\ UNCHANGED <<files, settled, history, misread, disk, starts>> /\ lossy' \in BOOLEAN
        /\ faults' \in [FaultKinds -> Nat]
    BY <1>2, <1>3, <1>22 DEF Crash, FileTypeOK
  <2>2. IsPrefix(flight', bucket') /\ 0 \in 0 .. MaxAttempts
    <3>1. Prefix(<<>>, 0) = <<>>
      BY DEF Prefix
    <3>2. IsPrefix(<<>>, <<>>)
      BY <1>6, <3>1, PrefixIsPrefix
    <3>3. 0 \in 0 .. MaxAttempts
      BY Limits
    <3> QED BY <2>1, <3>2, <3>3
  <2>3. GoodQueue(queue')
    BY <2>1, EmptyKeeps
  <2> QED BY <1>4, <1>6, <2>1, <2>2, <2>3 DEF FileTypeOK
<1>23. ASSUME NEW ok \in BOOLEAN, SliceDone(ok)
       PROVE  FileTypeOK'
  <2>1. /\ settled' = settled \cup Range(flight)
        /\ bucket' = IF gaveUp THEN bucket ELSE SubSeq(bucket, Len(flight) + 1, Len(bucket))
        /\ flight' = IF ok /\ ~gaveUp THEN Prefix(bucket', SliceLines) ELSE <<>>
        /\ UNCHANGED <<files, queue, cycle, tries, gaveUp, history, misread, disk, life, faults>>
    BY <1>23 DEF SliceDone
  <2>2. Range(flight) \subseteq Lines /\ Len(flight) \in Nat
    BY RangeIs DEF FileTypeOK
  <2>3. bucket' \in Seq(Lines)
    BY <2>1, <2>2, SuffixProperties DEF FileTypeOK
  <2>4. flight' \in Seq(Lines) /\ (gaveUp \/ IsPrefix(flight', bucket'))
    <3> DEFINE b == bucket'
    <3>1. SliceLines \in Nat /\ 0 \in Nat /\ b \in Seq(Lines)
      BY <2>3, Limits
    <3> HIDE DEF b
    <3>2. Prefix(b, SliceLines) \in Seq(Lines) /\ IsPrefix(Prefix(b, SliceLines), b)
      BY <3>1, PrefixProperties, PrefixIsPrefix
    <3>3. <<>> \in Seq(Lines) /\ IsPrefix(<<>>, b)
      <4>1. Prefix(b, 0) = <<>>
        BY <3>1 DEF Prefix
      <4>2. IsPrefix(Prefix(b, 0), b)
        BY <3>1, PrefixIsPrefix
      <4> QED BY <1>6, <4>1, <4>2
    <3> QED BY <2>1, <3>2, <3>3 DEF b
  <2> QED BY <2>1, <2>2, <2>3, <2>4 DEF FileTypeOK
<1>24. ASSUME NEW lines, TakesOthers(lines)
       PROVE  FileTypeOK'
  <2>1. /\ UNCHANGED <<files, flight, tries, gaveUp, settled, life>> /\ GoodQueue(queue')
        /\ faults' \in [FaultKinds -> Nat] /\ poll' \in {"idle", "look"} /\ dirty' \in BOOLEAN
        /\ disk' = disk \/ disk' = Checkpoints(queue')
        /\ lines \in Seq(Lines) /\ met' = {} /\ again' = TRUE /\ taken' = NotTaken
    BY <1>24 DEF TakesOthers, SameFiles
  <2>2. misread' \subseteq Inodes
    <3>1. misread' = misread \cup {Head(queue).ino} /\ queue # <<>>
      BY <1>24 DEF TakesOthers
    <3>2. Head(queue).ino \in Inodes
      BY <1>1, <3>1, Ends, ReaderFields
    <3> QED BY <3>1, <3>2 DEF FileTypeOK
  <2>3. taken' \in [Lines -> Nat]
    BY <2>1 DEF NotTaken
  <2>4. /\ bucket' \in Seq(Lines) /\ pending' \in Seq(Lines)
        /\ (gaveUp \/ IsPrefix(flight, bucket'))
    <3>1. \/ pending' = lines /\ bucket' = bucket
          \/ bucket' = bucket \o lines /\ pending' = pending
      BY <1>24 DEF TakesOthers, Enqueue
    <3>2. /\ bucket \in Seq(Lines) /\ flight \in Seq(Lines) /\ pending \in Seq(Lines)
          /\ (gaveUp \/ IsPrefix(flight, bucket))
      BY DEF FileTypeOK
    <3>3. bucket \o lines \in Seq(Lines)
      BY <2>1, <3>2, ConcatProperties
    <3>4. gaveUp \/ IsPrefix(flight, bucket \o lines)
      BY <2>1, <3>2, PrefixOfMore
    <3> QED BY <2>1, <3>1, <3>2, <3>3, <3>4
  <2> QED BY <1>4, <2>1, <2>2, <2>3, <2>4 DEF FileTypeOK
<1> QED BY <1>24, <1>7, <1>8, <1>9, <1>10, <1>11, <1>12, <1>13, <1>14, <1>15, <1>16, <1>17, <1>18,
           <1>19, <1>20, <1>21, <1>22, <1>23 DEF Moves

LEMMA FilesStep ==
    ASSUME FileTypeOK, FilesInOrder, ReadersInOrder, Moves
    PROVE  FilesInOrder'
<1>1. faults \in [FaultKinds -> Nat] /\ {"rotation", "truncation", "removal", "crash"} \subseteq FaultKinds
  BY DEF FileTypeOK, FaultKinds
<1>2. /\ faults.rotation \in Nat /\ faults.removal \in Nat
      /\ cur \in Inodes \cup {NoFile} /\ content \in [Inodes -> Seq(Lines)] /\ owner \in Seq(Inodes)
      /\ DOMAIN owner = 1 .. Len(owner) /\ Len(owner) \in Nat
      /\ \A i \in Inodes : DOMAIN content[i] = 1 .. Len(content[i]) /\ Len(content[i]) \in Nat
      /\ \A l \in DOMAIN owner : owner[l] \in Nat
  <2>1. cur \in Inodes \cup {NoFile} /\ content \in [Inodes -> Seq(Lines)] /\ owner \in Seq(Inodes)
    BY DEF FileTypeOK
  <2>2. \A i \in Inodes : DOMAIN content[i] = 1 .. Len(content[i]) /\ Len(content[i]) \in Nat
    BY <2>1
  <2>3. DOMAIN owner = 1 .. Len(owner) /\ Len(owner) \in Nat /\ \A l \in DOMAIN owner : owner[l] \in Inodes
    BY <2>1
  <2>4. faults.rotation \in Nat /\ faults.removal \in Nat
    BY <1>1
  <2> QED BY <2>1, <2>2, <2>3, <2>4, InodesAreNumbers
<1>3. ASSUME UNCHANGED files, SameFiles
      PROVE  FilesInOrder'
  BY <1>3 DEF files, SameFiles, FilesInOrder, Newest
<1>4. CASE Writes
  <2>1. /\ cur \in Inodes /\ cur = Newest
        /\ owner' = Append(owner, cur) /\ content' = [content EXCEPT ![cur] = Append(@, Len(owner) + 1)]
        /\ UNCHANGED <<cur, linked, faults>>
    BY <1>4 DEF Writes, FileTypeOK, FilesInOrder
  <2>2. /\ DOMAIN owner' = 1 .. Len(owner) + 1
        /\ \A l \in 1 .. Len(owner) + 1 : owner'[l] = IF l \in DOMAIN owner THEN owner[l] ELSE cur
    BY <1>2, <2>1
  <2>3. \A l \in DOMAIN owner' : owner'[l] <= Newest
    BY <1>2, <2>1, <2>2 DEF FilesInOrder, Newest
  <2>4. ASSUME NEW l \in DOMAIN owner', NEW m \in DOMAIN owner', l <= m
        PROVE  owner'[l] <= owner'[m]
    <3>1. CASE m \in DOMAIN owner
      <4>1. l \in DOMAIN owner
        BY <1>2, <2>2, <2>4, <3>1
      <4> QED BY <2>2, <2>4, <3>1, <4>1 DEF FilesInOrder
    <3>2. CASE m \notin DOMAIN owner
      BY <2>1, <2>2, <2>3, <3>2
    <3> QED BY <3>1, <3>2
  <2> DEFINE c == content[cur]
  <2>5. c \in Seq(Lines) /\ content'[cur] = Append(c, Len(owner) + 1)
        /\ \A i \in Inodes : i # cur => content'[i] = content[i]
    BY <1>2, <2>1
  <2>6. /\ DOMAIN c = 1 .. Len(c) /\ Len(c) \in Nat /\ DOMAIN content'[cur] = 1 .. Len(c) + 1
        /\ \A k \in 1 .. Len(c) + 1 : content'[cur][k] = IF k \in DOMAIN c THEN c[k] ELSE Len(owner) + 1
    BY <2>5
  <2>7. ASSUME NEW i \in Inodes
        PROVE  /\ \A k \in DOMAIN content'[i] :
                     content'[i][k] \in DOMAIN owner' /\ owner'[content'[i][k]] = i
               /\ \A j, k \in DOMAIN content'[i] : j < k => content'[i][j] < content'[i][k]
    <3>1. /\ \A k \in DOMAIN content[i] : content[i][k] \in DOMAIN owner /\ owner[content[i][k]] = i
          /\ \A j, k \in DOMAIN content[i] : j < k => content[i][j] < content[i][k]
      BY DEF FilesInOrder
    <3>2. CASE i # cur
      BY <1>2, <2>2, <2>5, <3>1, <3>2
    <3>3. CASE i = cur
      <4>1. /\ \A k \in DOMAIN c : c[k] \in DOMAIN owner /\ owner[c[k]] = cur
            /\ \A j, k \in DOMAIN c : j < k => c[j] < c[k]
        BY <3>1, <3>3
      <4> HIDE DEF c
      <4>2. \A k \in DOMAIN c : c[k] \in 1 .. Len(owner) + 1 /\ c[k] < Len(owner) + 1
        BY <1>2, <4>1
      <4>3. Len(owner) + 1 \in DOMAIN owner' /\ owner'[Len(owner) + 1] = cur
        BY <1>2, <2>2
      <4>4. \A k \in 1 .. Len(c) + 1 :
               content'[cur][k] \in DOMAIN owner' /\ owner'[content'[cur][k]] = cur
        BY <2>2, <2>6, <4>1, <4>2, <4>3
      <4>5. \A j, k \in 1 .. Len(c) + 1 : j < k => content'[cur][j] < content'[cur][k]
        <5>1. \A j, k \in 1 .. Len(c) + 1 : j < k => j \in DOMAIN c
          BY <2>6
        <5> QED BY <2>6, <4>1, <4>2, <5>1
      <4> QED BY <2>6, <3>3, <4>4, <4>5
    <3> QED BY <3>2, <3>3
  <2>8. cur' \in {NoFile, Newest'} /\ (faults'.removal = 0 => linked' = 1 .. Newest')
        /\ \A l \in DOMAIN owner' : owner'[l] <= Newest'
    BY <2>1, <2>3 DEF FilesInOrder, Newest
  <2> QED BY <2>4, <2>7, <2>8 DEF FilesInOrder
<1>5. CASE RenamesAway
  <2>1. faults'.rotation = faults.rotation /\ faults'.removal = faults.removal
    <3>1. "race" \in FaultKinds /\ {"rotation", "removal"} \subseteq FaultKinds \ {"race"}
      BY DEF FaultKinds
    <3> QED BY <1>1, <1>5, <3>1, FaultIs DEF RenamesAway
  <2> QED BY <1>5, <2>1 DEF RenamesAway, FilesInOrder, Newest
<1>6. CASE Creates
  <2>1. /\ cur' = Newest' /\ linked' = linked \cup {cur'} /\ UNCHANGED <<content, owner>>
        /\ Fault("rotation")
    BY <1>6 DEF Creates, Newest
  <2>2. Newest' = Newest + 1 /\ faults'.removal = faults.removal /\ Newest \in Nat /\ Newest >= 1
    <3>1. "removal" \in FaultKinds \ {"rotation"}
      BY DEF FaultKinds
    <3> QED BY <1>1, <2>1, <3>1, FaultIs DEF Newest
  <2>3. faults'.removal = 0 => linked' = 1 .. Newest'
    <3>1. ASSUME faults'.removal = 0
          PROVE  linked' = 1 .. Newest'
      <4>1. linked = 1 .. Newest
        BY <2>2, <3>1 DEF FilesInOrder
      <4>2. linked' = (1 .. Newest) \cup {Newest + 1}
        BY <2>1, <2>2, <4>1
      <4> HIDE DEF Newest
      <4> QED BY <2>2, <4>2
    <3> QED BY <3>1
  <2>4. \A l \in DOMAIN owner : owner[l] <= Newest'
    <3>1. \A l \in DOMAIN owner : owner[l] <= Newest /\ owner[l] \in Nat
      BY <1>2 DEF FilesInOrder
    <3> HIDE DEF Newest
    <3> QED BY <2>2, <3>1
  <2> QED BY <2>1, <2>3, <2>4 DEF FilesInOrder
<1>7. CASE Truncates
  <2>1. /\ content' = [content EXCEPT ![cur] = <<>>] /\ UNCHANGED <<owner, cur, linked>>
        /\ Fault("truncation") /\ cur \in Inodes
    BY <1>7 DEF Truncates, FileTypeOK
  <2>2. faults'.rotation = faults.rotation /\ faults'.removal = faults.removal
    <3>1. {"rotation", "removal"} \subseteq FaultKinds \ {"truncation"}
      BY DEF FaultKinds
    <3> QED BY <1>1, <2>1, <3>1, FaultIs
  <2>3. \A i \in Inodes : content'[i] = content[i] \/ (content'[i] = <<>> /\ DOMAIN content'[i] = {})
    BY <1>2, <2>1
  <2> QED BY <2>1, <2>2, <2>3 DEF FilesInOrder, Newest
<1>8. CASE Removes
  <2>1. UNCHANGED <<content, owner, cur>> /\ Fault("removal")
    BY <1>8 DEF Removes
  <2>2. faults'.rotation = faults.rotation /\ faults'.removal = faults.removal + 1
    <3>1. "rotation" \in FaultKinds \ {"removal"}
      BY DEF FaultKinds
    <3> QED BY <1>1, <2>1, <3>1, FaultIs
  <2>3. faults'.removal # 0
    BY <1>2, <2>2
  <2> QED BY <2>1, <2>2, <2>3 DEF FilesInOrder, Newest
<1>9. CASE FollowsOnly
  BY <1>3, <1>9 DEF FollowsOnly
<1>10. ASSUME NEW lines, TakesLines(lines)
       PROVE  FilesInOrder'
  BY <1>3, <1>10 DEF TakesLines
<1>11. CASE Crash
  <2>1. UNCHANGED files /\ Fault("crash")
    BY <1>11 DEF Crash
  <2>2. faults'.rotation = faults.rotation /\ faults'.removal = faults.removal
    <3>1. {"rotation", "removal"} \subseteq FaultKinds \ {"crash"}
      BY DEF FaultKinds
    <3> QED BY <1>1, <2>1, <3>1, FaultIs
  <2> QED BY <2>1, <2>2 DEF files, FilesInOrder, Newest
<1>12. CASE \/ PendingWaits \/ PendingGoes \/ Wakes \/ Starts \/ Stops \/ Drains \/ GivesUp
            \/ FlushStarts \/ (\E ok \in BOOLEAN : SliceDone(ok))
  <2>1. UNCHANGED <<files, faults>>
    BY <1>12 DEF PendingWaits, PendingGoes, Wakes, Starts, Stops, Drains, GivesUp, FlushStarts, SliceDone
  <2> QED BY <1>1, <1>3, <2>1 DEF SameFiles
<1>13. ASSUME NEW lines, TakesOthers(lines)
       PROVE  FilesInOrder'
  BY <1>3, <1>13 DEF TakesOthers
<1> QED BY <1>13, <1>4, <1>5, <1>6, <1>7, <1>8, <1>9, <1>10, <1>11, <1>12 DEF Moves

\* The part of the readers' order that is about the files.
ReaderFits(r) ==
    /\ r.ino <= Newest
    /\ r.deleted => r.ino # cur
    /\ pipe # "off" /\ r.ino # cur =>
          \/ r.off <= Len(content[r.ino]) \/ content[r.ino] = <<>>
          \/ r.ino \in misread

LEMMA MisreadGrows ==
    ASSUME Moves
    PROVE  misread \subseteq misread'
BY DEF Moves, Writes, RenamesAway, Creates, Truncates, Removes, FollowsOnly, TakesLines, TakesOthers,
       PendingWaits, PendingGoes, Wakes, Starts, Stops, Drains, GivesUp, FlushStarts, Crash, SliceDone

LEMMA ReadersStep ==
    ASSUME FileTypeOK, FilesInOrder, ReadersInOrder, Moves
    PROVE  ReadersInOrder'
<1> USE DEF files, cycle, sender, history, life
<1>1. /\ GoodQueue(queue) /\ faults \in [FaultKinds -> Nat] /\ faults.rotation \in Nat
      /\ cur \in Inodes \cup {NoFile} /\ content \in [Inodes -> Seq(Lines)]
      /\ cur \in {NoFile, Newest} /\ Newest \in Nat
  <2>1. faults \in [FaultKinds -> Nat] /\ "rotation" \in FaultKinds
    BY DEF FileTypeOK, FaultKinds
  <2>2. faults.rotation \in Nat
    BY <2>1
  <2> QED BY <2>1, <2>2, QueueIsGood DEF FileTypeOK, FilesInOrder, Newest
<1>2. \A r \in Range(queue) : r \in Reader /\ r.ino \in Inodes /\ r.ino \in Nat \ {NoFile} /\ r.off \in Nat
                              /\ ReaderFits(r)
  BY QueueIsGood, ReaderFields, InodesAreNumbers DEF ReadersInOrder, ReaderFits
<1>3. \A r, q \in Range(queue) : r.ino = q.ino => r = q
  BY <1>1, Ends, EmptyKeeps
<1>0. misread \subseteq misread'
  BY MisreadGrows
<1>4. ASSUME GoodQueue(queue'), \A r \in Range(queue') : ReaderFits(r)',
             disk' = disk \/ disk' = Checkpoints(queue')
      PROVE  ReadersInOrder'
  <2>1. \A j, k \in DOMAIN queue' : j < k => queue'[j].ino < queue'[k].ino /\ queue'[j].deleted
    BY <1>4, QueueType
  <2>2. \A c, d \in disk' : c.ino = d.ino => c = d
    BY <1>4, CheckpointsProperties DEF ReadersInOrder
  <2> QED BY <1>4, <2>1, <2>2 DEF ReadersInOrder, ReaderFits
<1>5. ASSUME UNCHANGED <<queue, content, cur>>, Newest' = Newest,
             pipe = "off" => pipe' = "off",
             disk' = disk \/ disk' = Checkpoints(queue)
      PROVE  ReadersInOrder'
  <2>1. GoodQueue(queue') /\ (disk' = disk \/ disk' = Checkpoints(queue'))
    BY <1>1, <1>5
  <2>2. \A r \in Range(queue') : ReaderFits(r)'
    BY <1>0, <1>2, <1>5 DEF ReaderFits
  <2> QED BY <1>4, <2>1, <2>2
<1>6. CASE Writes
  <2>1. /\ content' = [content EXCEPT ![cur] = Append(@, Len(owner) + 1)]
        /\ UNCHANGED <<cur, queue, poll, pipe, disk, faults>>
    BY <1>6 DEF Writes
  <2>2. \A i \in Inodes : i # cur => content'[i] = content[i]
    BY <1>1, <2>1
  <2>3. \A r \in Range(queue') : ReaderFits(r)'
    BY <1>0, <1>2, <2>1, <2>2 DEF ReaderFits, Newest
  <2> QED BY <1>1, <1>4, <2>1, <2>3
<1>7. CASE RenamesAway
  <2>1. /\ cur' = NoFile /\ cur \in Inodes
        /\ UNCHANGED <<content, queue, poll, pipe, disk>>
        /\ \/ pipe = "off" \/ content[cur] = <<>>
           \/ \E r \in Range(queue) : r.ino = cur /\ r.off <= Len(content[cur])
    BY <1>1, <1>7 DEF RenamesAway
  <2>2. Newest' = Newest
    <3>1. "race" \in FaultKinds /\ "rotation" \in FaultKinds \ {"race"}
      BY DEF FaultKinds
    <3> QED BY <1>1, <1>7, <3>1, FaultIs DEF RenamesAway, Newest
  <2>3. \A r \in Range(queue') : ReaderFits(r)'
    BY <1>0, <1>2, <1>3, <2>1, <2>2 DEF ReaderFits
  <2> QED BY <1>1, <1>4, <2>1, <2>3
<1>8. CASE Creates
  <2>1. /\ cur = NoFile /\ cur' = Newest' /\ UNCHANGED <<content, queue, poll, pipe, disk>>
        /\ Fault("rotation")
    BY <1>8 DEF Creates, Newest
  <2>2. Newest' = Newest + 1
    <3>1. "rotation" \in FaultKinds
      BY DEF FaultKinds
    <3> QED BY <1>1, <2>1, <3>1, FaultIs DEF Newest
  <2>3. \A r \in Range(queue) : r.ino <= Newest' /\ r.ino # cur'
    <3> HIDE DEF Newest
    <3> QED BY <1>0, <1>1, <1>2, <2>1, <2>2 DEF ReaderFits
  <2>4. \A r \in Range(queue') : ReaderFits(r)'
    BY <1>0, <1>2, <2>1, <2>3 DEF ReaderFits
  <2> QED BY <1>1, <1>4, <2>1, <2>4
<1>9. CASE Truncates
  <2>1. /\ cur # NoFile /\ content' = [content EXCEPT ![cur] = <<>>]
        /\ UNCHANGED <<cur, queue, poll, pipe, disk>> /\ Fault("truncation")
    BY <1>9 DEF Truncates
  <2>2. \A i \in Inodes : i # cur => content'[i] = content[i]
    BY <1>1, <2>1
  <2>3. Newest' = Newest
    <3>1. "truncation" \in FaultKinds /\ "rotation" \in FaultKinds \ {"truncation"}
      BY DEF FaultKinds
    <3> QED BY <1>1, <2>1, <3>1, FaultIs DEF Newest
  <2>4. \A r \in Range(queue') : ReaderFits(r)'
    BY <1>0, <1>2, <2>1, <2>2, <2>3 DEF ReaderFits
  <2> QED BY <1>1, <1>4, <2>1, <2>4
<1>10. CASE Removes
  <2>1. UNCHANGED <<content, cur, queue, poll, pipe, disk>> /\ Fault("removal")
    BY <1>10 DEF Removes
  <2>2. Newest' = Newest
    <3>1. "removal" \in FaultKinds /\ "rotation" \in FaultKinds \ {"removal"}
      BY DEF FaultKinds
    <3> QED BY <1>1, <2>1, <3>1, FaultIs DEF Newest
  <2> QED BY <1>5, <2>1, <2>2
<1>11. CASE FollowsOnly
  <2>1. /\ UNCHANGED <<content, cur, pipe>> /\ GoodQueue(queue') /\ Newest' = Newest
        /\ disk' = disk \/ disk' = Checkpoints(queue')
    BY <1>11 DEF FollowsOnly, SameFiles, Newest
  <2>2. ASSUME NEW x \in Range(queue')
        PROVE  ReaderFits(x)'
    <3>1. /\ x.deleted => x.ino # cur
          /\ (\E r \in Range(queue) : r.ino = x.ino /\ r.off = x.off) \/ x.ino = cur
      BY <1>11 DEF FollowsOnly
    <3>2. x \in Reader /\ x.ino \in Inodes
      BY <2>1, RangeIs, ReaderFields DEF GoodQueue
    <3>3. CASE x.ino = cur
      <4>1. cur = Newest /\ cur <= Newest
        BY <1>1, <3>2, <3>3, InodesAreNumbers
      <4> HIDE DEF Newest
      <4> QED BY <1>0, <2>1, <3>1, <3>3, <4>1 DEF ReaderFits
    <3>4. CASE \E r \in Range(queue) : r.ino = x.ino /\ r.off = x.off
      BY <1>0, <1>2, <2>1, <3>1, <3>4 DEF ReaderFits
    <3> QED BY <3>1, <3>3, <3>4
  <2> QED BY <1>4, <2>1, <2>2
<1>12. ASSUME NEW lines, TakesLines(lines)
       PROVE  ReadersInOrder'
  <2> DEFINE h == Head(queue)
  <2>1. /\ UNCHANGED <<content, cur, pipe>> /\ GoodQueue(queue') /\ Newest' = Newest /\ poll' # "read"
        /\ disk' = disk \/ disk' = Checkpoints(queue')
        /\ queue # <<>> /\ h.off + Len(lines) <= Len(content[h.ino])
        /\ \A x \in Range(queue') :
              \/ x \in Range(Tail(queue))
              \/ x.ino = h.ino /\ x.off = h.off + Len(lines) /\ x.deleted = h.deleted
    BY <1>12 DEF TakesLines, SameFiles, Newest
  <2>2. h \in Range(queue) /\ Range(Tail(queue)) \subseteq Range(queue)
    BY <1>1, <2>1, Ends, TailKeeps DEF Keeps
  <2> HIDE DEF h
  <2>3. ASSUME NEW x \in Range(queue')
        PROVE  ReaderFits(x)'
    <3>1. CASE x \in Range(Tail(queue))
      BY <1>0, <1>2, <2>1, <2>2, <3>1 DEF ReaderFits
    <3>2. CASE x.ino = h.ino /\ x.off = h.off + Len(lines) /\ x.deleted = h.deleted
      <4>1. ReaderFits(h)
        BY <1>2, <2>2
      <4> QED BY <1>0, <2>1, <3>2, <4>1 DEF ReaderFits
    <3> QED BY <2>1, <3>1, <3>2
  <2> QED BY <1>4, <2>1, <2>3
<1>13. CASE PendingWaits \/ PendingGoes
  <2>1. poll' # "read" /\ UNCHANGED <<content, cur, pipe, queue, disk, faults>>
    BY <1>13 DEF PendingWaits, PendingGoes
  <2> QED BY <1>5, <2>1 DEF Newest
<1>14. CASE Starts
  <2>1. /\ queue' = RestoredReaders /\ poll' = "idle" /\ UNCHANGED <<content, cur, disk, faults>>
    BY <1>14 DEF Starts
  <2>2. GoodQueue(queue') /\ \A r \in Range(queue') : r.ino = cur /\ ~r.deleted
    BY <2>1, RestoredProperties DEF ReadersInOrder
  <2>3. \A r \in Range(queue') : r.ino \in Inodes
    BY <2>2, RangeIs, ReaderFields DEF GoodQueue
  <2>4. \A r \in Range(queue') : r.ino <= Newest
    <3> HIDE DEF Newest
    <3> QED BY <1>1, <2>2, <2>3, InodesAreNumbers
  <2>5. \A r \in Range(queue') : ReaderFits(r)'
    BY <1>0, <2>1, <2>2, <2>4 DEF ReaderFits, Newest
  <2> QED BY <1>4, <2>1, <2>2, <2>5
<1>15. CASE Crash
  <2>1. queue' = <<>> /\ disk' = disk
    BY <1>15 DEF Crash
  <2> QED BY <1>4, <2>1, EmptyKeeps
<1>16. CASE Wakes \/ Stops \/ Drains \/ GivesUp
  <2>1. /\ UNCHANGED <<content, cur, queue, poll, faults>> /\ pipe # "off"
        /\ disk' = disk \/ disk' = Checkpoints(queue)
    BY <1>16 DEF Wakes, Stops, Drains, GivesUp
  <2> QED BY <1>5, <2>1 DEF Newest
<1>17. CASE FlushStarts \/ (\E ok \in BOOLEAN : SliceDone(ok))
  <2>1. UNCHANGED <<content, cur, queue, poll, pipe, disk, faults>>
    BY <1>17 DEF FlushStarts, SliceDone
  <2> QED BY <1>5, <2>1 DEF Newest
<1>18. ASSUME NEW lines, TakesOthers(lines)
       PROVE  ReadersInOrder'
  <2> DEFINE h == Head(queue)
  <2>1. /\ UNCHANGED <<content, cur, pipe>> /\ GoodQueue(queue') /\ Newest' = Newest
        /\ disk' = disk \/ disk' = Checkpoints(queue')
        /\ queue # <<>> /\ misread' = misread \cup {h.ino}
        /\ \A x \in Range(queue') :
              \/ x \in Range(Tail(queue))
              \/ x.ino = h.ino /\ x.deleted = h.deleted
    BY <1>18 DEF TakesOthers, SameFiles, Newest
  <2>2. h \in Range(queue) /\ Range(Tail(queue)) \subseteq Range(queue)
    BY <1>1, <2>1, Ends, TailKeeps DEF Keeps
  <2> HIDE DEF h
  <2>3. ASSUME NEW x \in Range(queue')
        PROVE  ReaderFits(x)'
    <3>1. CASE x \in Range(Tail(queue))
      BY <1>0, <1>2, <2>1, <2>2, <3>1 DEF ReaderFits
    <3>2. CASE x.ino = h.ino /\ x.deleted = h.deleted
      BY <1>2, <2>1, <2>2, <3>2 DEF ReaderFits
    <3> QED BY <2>1, <3>1, <3>2
  <2> QED BY <1>4, <2>1, <2>3
<1> QED BY <1>18, <1>6, <1>7, <1>8, <1>9, <1>10, <1>11, <1>12, <1>13, <1>14, <1>15, <1>16, <1>17 DEF Moves

LEMMA FlushedIsBuffered ==
    ASSUME FileTypeOK, ~gaveUp
    PROVE  Range(flight) \subseteq Range(bucket)
<1>1. bucket \in Seq(Lines) /\ flight \in Seq(Lines) /\ IsPrefix(flight, bucket)
  BY DEF FileTypeOK
<1>2. Len(flight) <= Len(bucket) /\ \A k \in 1 .. Len(flight) : flight[k] = bucket[k]
  BY <1>1, IsPrefixMeans
<1>3. /\ \A x : x \in Range(flight) <=> \E k \in 1 .. Len(flight) : flight[k] = x
      /\ \A x : x \in Range(bucket) <=> \E k \in 1 .. Len(bucket) : bucket[k] = x
      /\ Len(flight) \in Nat /\ Len(bucket) \in Nat
  BY <1>1, RangeIs
<1>4. \A k \in 1 .. Len(flight) : k \in 1 .. Len(bucket)
  BY <1>2, <1>3
<1> QED BY <1>2, <1>3, <1>4

LEMMA StoppedStep ==
    ASSUME FileTypeOK, FilesInOrder, ReadersInOrder, StoppedIsSettled, Moves
    PROVE  StoppedIsSettled'
<1> USE DEF files, cycle, sender, history, life
<1>1. /\ faults \in [FaultKinds -> Nat] /\ gaveUp \in BOOLEAN
      /\ pipe \in {"off", "running", "draining"} /\ poll \in {"idle", "check", "look", "read"}
      /\ flight \in Seq(Lines) /\ bucket \in Seq(Lines) /\ (gaveUp \/ IsPrefix(flight, bucket))
  BY DEF FileTypeOK
<1>2. Range(<<>>) = {}
  BY EmptyKeeps
<1>3. CASE \/ Writes \/ RenamesAway \/ Creates \/ Truncates \/ Removes
  <2>1. \A kind \in FaultKinds \ {"crash"} : Fault(kind) => faults'.crash = faults.crash
    BY <1>1, FaultIs DEF FaultKinds
  <2>2. {"rotation", "race", "truncation", "removal"} \subseteq FaultKinds \ {"crash"}
    BY DEF FaultKinds
  <2>3. UNCHANGED <<queue, cycle, sender, disk, life>> /\ faults'.crash = faults.crash
    BY <1>3, <2>1, <2>2 DEF Writes, RenamesAway, Creates, Truncates, Removes
  <2> QED BY <2>3 DEF StoppedIsSettled, Checkpoints
<1>4. CASE FollowsOnly
  <2>1. /\ UNCHANGED <<pending, sender, life>> /\ faults'.crash = faults.crash
        /\ poll' \in {"idle", "read"} /\ (poll' = "read" => poll \in {"look", "read"})
        /\ pipe # "running" /\ poll \in {"idle", "check"} => disk' = Checkpoints(queue')
    BY <1>4 DEF FollowsOnly, SameFiles
  <2>2. pipe # "running" /\ ~lossy => poll' = "idle" /\ pending = <<>> /\ poll \in {"idle", "check"}
    BY <2>1 DEF StoppedIsSettled
  <2> QED BY <2>1, <2>2 DEF StoppedIsSettled, Checkpoints
<1>5. ASSUME NEW lines, TakesLines(lines)
      PROVE  StoppedIsSettled'
  <2>1. /\ poll = "read" /\ UNCHANGED <<flight, gaveUp, settled, life>> /\ faults'.crash = faults.crash
        /\ \/ poll' = "idle"
           \/ UNCHANGED pending /\ poll' \in {"idle", "look"}
    BY <1>5 DEF TakesLines, SameFiles
  <2>2. pipe = "running" \/ lossy
    BY <2>1 DEF StoppedIsSettled
  <2> QED BY <2>1, <2>2 DEF StoppedIsSettled
<1>6. CASE PendingWaits \/ PendingGoes
  <2>1. /\ pipe = "running" /\ poll' \in {"check", "look"} /\ UNCHANGED <<flight, gaveUp, settled, life>>
        /\ pending' = <<>> \/ poll' = "check"
    BY <1>6 DEF PendingWaits, PendingGoes
  <2> QED BY <2>1 DEF StoppedIsSettled
<1>7. CASE Wakes \/ FlushStarts
  <2>1. /\ pipe # "off" /\ UNCHANGED <<queue, cycle, bucket, gaveUp, settled, life, faults>>
        /\ pipe = "running" \/ disk' = disk
    BY <1>7 DEF Wakes, FlushStarts
  <2> QED BY <2>1 DEF StoppedIsSettled
<1>8. CASE Starts
  <2>1. pipe' = "running" /\ gaveUp' = FALSE /\ poll' = "idle"
    BY <1>8 DEF Starts
  <2> QED BY <2>1 DEF StoppedIsSettled
<1>9. CASE Stops
  <2>1. /\ pipe = "running" /\ pipe' = "draining" /\ pending' = <<>>
        /\ lossy' = (lossy \/ poll \in {"look", "read"} \/ (Full /\ pending # <<>>))
        /\ UNCHANGED <<queue, poll, flight, gaveUp, settled, faults>>
    BY <1>9 DEF Stops
  <2> QED BY <1>1, <2>1 DEF StoppedIsSettled
<1>10. CASE Drains
  <2>1. /\ pipe = "draining" /\ pipe' = "off" /\ bucket = <<>> /\ flight = <<>>
        /\ disk' = Checkpoints(queue)
        /\ UNCHANGED <<queue, cycle, sender, lossy, faults>>
    BY <1>10 DEF Drains
  <2> QED BY <2>1 DEF StoppedIsSettled, Checkpoints
<1>11. CASE GivesUp
  <2>1. /\ pipe = "draining" /\ pipe' = "off" /\ settled' = settled \cup Range(bucket)
        /\ bucket' = <<>> /\ gaveUp' = TRUE /\ disk' = Checkpoints(queue)
        /\ UNCHANGED <<queue, cycle, flight, lossy, faults>>
    BY <1>11 DEF GivesUp
  <2>2. Range(flight) \subseteq Range(bucket)
    BY <1>1, <2>1, FlushedIsBuffered DEF StoppedIsSettled
  <2> QED BY <2>1, <2>2 DEF StoppedIsSettled, Checkpoints
<1>12. CASE Crash
  <2>1. /\ pipe' = "off" /\ pending' = <<>> /\ poll' = "idle" /\ bucket' = <<>> /\ flight' = <<>>
        /\ gaveUp' = FALSE
    BY <1>12 DEF Crash
  <2>2. faults'.crash = faults.crash + 1 /\ faults.crash \in Nat
    BY <1>1, <1>12, FaultIs DEF Crash, FaultKinds
  <2>3. faults'.crash # 0
    BY <2>2
  <2> QED BY <2>1, <2>3 DEF StoppedIsSettled
<1>13. ASSUME NEW ok \in BOOLEAN, SliceDone(ok)
       PROVE  StoppedIsSettled'
  <2>1. /\ flight # <<>> /\ (gaveUp => flight' = <<>> /\ bucket' = bucket)
        /\ settled' = settled \cup Range(flight)
        /\ UNCHANGED <<queue, cycle, gaveUp, disk, life, faults>>
    BY <1>13 DEF SliceDone
  <2>2. pipe = "off" => gaveUp
    BY <2>1 DEF StoppedIsSettled
  <2> QED BY <1>2, <2>1, <2>2 DEF StoppedIsSettled, Checkpoints
<1>14. ASSUME NEW lines, TakesOthers(lines)
       PROVE  StoppedIsSettled'
  <2>1. /\ poll = "read" /\ UNCHANGED <<flight, gaveUp, settled, life>> /\ faults'.crash = faults.crash
        /\ \/ poll' = "idle"
           \/ UNCHANGED pending /\ poll' \in {"idle", "look"}
    BY <1>14 DEF TakesOthers, SameFiles
  <2>2. pipe = "running" \/ lossy
    BY <2>1 DEF StoppedIsSettled
  <2> QED BY <2>1, <2>2 DEF StoppedIsSettled
<1> QED BY <1>14, <1>3, <1>4, <1>5, <1>6, <1>7, <1>8, <1>9, <1>10, <1>11, <1>12, <1>13 DEF Moves

-----------------------------------------------------------------------------
(* No offset passes a line that is not handled.                            *)

LEMMA PrefixHandled ==
    ASSUME NEW S, NEW s \in Seq(S), NEW n \in Nat, n <= Len(s), NEW H
    PROVE  Range(Prefix(s, n)) \subseteq H <=> \A k \in 1 .. n : s[k] \in H
<1>1. \A x : x \in Range(Prefix(s, n)) <=> \E k \in 1 .. Len(s) : k <= n /\ s[k] = x
  BY PrefixProperties
<1>2. \A k : k \in 1 .. n <=> k \in 1 .. Len(s) /\ k <= n
  OBVIOUS
<1> QED BY <1>1, <1>2

\* The lines up to an offset, in a file that reaches it, are handled.
Covers(r) ==
    r.off <= Len(content[r.ino]) /\ r.ino \notin misread =>
        \A k \in 1 .. r.off : content[r.ino][k] \in Handled

LEMMA SkippedMeans ==
    ASSUME FileTypeOK
    PROVE  NothingSkipped <=> (~lossy => \A r \in Range(queue) \cup disk : Covers(r))
<1>1. Range(queue) \subseteq Reader /\ disk \subseteq Checkpoint /\ content \in [Inodes -> Seq(Lines)]
  BY RangeIs DEF FileTypeOK
<1>2. \A r \in Range(queue) \cup disk : content[r.ino] \in Seq(Lines) /\ r.off \in Nat
  BY <1>1 DEF Reader, Checkpoint
<1>3. ASSUME NEW r \in Range(queue) \cup disk
      PROVE  Covers(r) <=> (r.off <= Len(content[r.ino]) /\ r.ino \notin misread
                            => Range(Prefix(content[r.ino], r.off)) \subseteq Handled)
  BY <1>2, PrefixHandled DEF Covers
<1> QED BY <1>3 DEF NothingSkipped

\* What is read is in the memory from then on.
LEMMA ReadIsHandled ==
    ASSUME FileTypeOK, StoppedIsSettled, NEW lines, TakesLines(lines)
    PROVE  Handled \cup Range(lines) \subseteq Handled'
<1>1. /\ UNCHANGED <<flight, settled>> /\ poll = "read" /\ lines \in Seq(Lines)
      /\ \/ pending' = lines /\ bucket' = bucket
         \/ Takes(lines) /\ UNCHANGED pending
  BY DEF TakesLines
<1>2. Range(pending) = {}
  BY <1>1, EmptyKeeps DEF StoppedIsSettled
<1>3. Takes(lines) => \A x : x \in Range(bucket') <=> x \in Range(bucket) \/ x \in Range(lines)
  BY <1>1, EnqueueProperties
<1> QED BY <1>1, <1>2, <1>3 DEF Handled

LEMMA SkipStep ==
    ASSUME FileTypeOK, FilesInOrder, ReadersInOrder, StoppedIsSettled, NothingSkipped,
           FileTypeOK', Moves
    PROVE  NothingSkipped'
<1> USE DEF files, cycle, sender, history, life
<1>0. misread \subseteq misread'
  BY MisreadGrows
<1>1. /\ GoodQueue(queue) /\ disk \subseteq Checkpoint /\ content \in [Inodes -> Seq(Lines)]
      /\ bucket \in Seq(Lines) /\ pending \in Seq(Lines) /\ flight \in Seq(Lines)
      /\ (gaveUp \/ IsPrefix(flight, bucket)) /\ lossy \in BOOLEAN
      /\ cur \in Inodes \cup {NoFile}
  BY QueueIsGood DEF FileTypeOK
<1>2. ~lossy => \A r \in Range(queue) \cup disk : Covers(r)
  BY SkippedMeans
<1>3. ASSUME ~lossy' => \A r \in Range(queue') \cup disk' : Covers(r)'
      PROVE  NothingSkipped'
  <2>1. Range(queue') \subseteq Reader /\ disk' \subseteq Checkpoint /\ content' \in [Inodes -> Seq(Lines)]
    BY RangeIs DEF FileTypeOK
  <2>2. \A r \in Range(queue') \cup disk' : content'[r.ino] \in Seq(Lines) /\ r.off \in Nat
    BY <2>1 DEF Reader, Checkpoint
  <2>3. ASSUME NEW r \in Range(queue') \cup disk'
        PROVE  Covers(r)' <=> (r.off <= Len(content'[r.ino]) /\ r.ino \notin misread'
                               => Range(Prefix(content'[r.ino], r.off)) \subseteq Handled')
    BY <2>2, PrefixHandled DEF Covers
  <2> QED BY <1>3, <2>3 DEF NothingSkipped, Prefix
<1>4. \A r \in Range(queue) \cup disk : /\ r.ino \in Inodes /\ r.off \in Nat
                                        /\ content[r.ino] \in Seq(Lines) /\ Len(content[r.ino]) \in Nat
  <2>1. Range(queue) \subseteq Reader
    BY <1>1, RangeIs DEF GoodQueue
  <2> QED BY <1>1, <2>1 DEF Reader, Checkpoint
<1>5. \A c \in Checkpoints(queue) : \E r \in Range(queue) : c.ino = r.ino /\ c.off = r.off
  BY <1>1, CheckpointsProperties
<1>6. Range(<<>>) = {}
  BY EmptyKeeps
<1>7. ~gaveUp => Range(flight) \subseteq Range(bucket)
  BY FlushedIsBuffered
<1>8. ASSUME lossy => lossy', content' = content, ~lossy' => Handled \subseteq Handled',
             \A x \in Range(queue') \cup disk' :
                x.off = 0 \/ \E r \in Range(queue) \cup disk : r.ino = x.ino /\ r.off = x.off
      PROVE  NothingSkipped'
  <2>1. ASSUME ~lossy', NEW x \in Range(queue') \cup disk'
        PROVE  Covers(x)'
    <3>1. CASE x.off = 0
      BY <1>0, <3>1 DEF Covers
    <3>2. CASE \E r \in Range(queue) \cup disk : r.ino = x.ino /\ r.off = x.off
      BY <1>0, <1>2, <1>8, <2>1, <3>2 DEF Covers
    <3> QED BY <1>8, <3>1, <3>2
  <2> QED BY <1>3, <2>1
<1>9. CASE Writes
  <2>1. /\ cur \in Inodes /\ Noticeable(cur)
        /\ content' = [content EXCEPT ![cur] = Append(@, Len(owner) + 1)]
        /\ UNCHANGED <<queue, disk, lossy, pending, sender>>
    BY <1>1, <1>9 DEF Writes
  <2>2. ASSUME ~lossy', NEW r \in Range(queue) \cup disk
        PROVE  Covers(r)'
    <3>1. CASE r.ino # cur
      BY <1>0, <1>2, <1>4, <2>1, <2>2, <3>1 DEF Covers, Handled
    <3>2. CASE r.ino = cur
      <4> DEFINE c == content[cur]
      <4>1. /\ c \in Seq(Lines) /\ Len(c) \in Nat /\ r.off \in Nat
            /\ Len(content'[cur]) = Len(c) + 1
            /\ \A k \in 1 .. Len(c) : content'[cur][k] = c[k]
        BY <1>1, <1>4, <2>1, <3>2
      <4>2. Len(c) < r.off => Len(c) + 1 < r.off
        BY <2>1, <3>2 DEF Noticeable
      <4>3. r.off <= Len(content'[cur]) => r.off <= Len(c)
        BY <4>1, <4>2
      <4>4. r.ino \notin misread /\ r.off <= Len(c) => \A k \in 1 .. r.off : c[k] \in Handled
        BY <1>2, <2>1, <2>2, <3>2 DEF Covers
      <4> HIDE DEF c
      <4>5. r.off <= Len(c) => \A k \in 1 .. r.off : k \in 1 .. Len(c)
        BY <4>1
      <4>6. r.ino \notin misread /\ r.off <= Len(content'[cur]) =>
              \A k \in 1 .. r.off : content'[cur][k] \in Handled'
        BY <2>1, <4>1, <4>3, <4>4, <4>5 DEF Handled
      <4> QED BY <1>0, <3>2, <4>6 DEF Covers
    <3> QED BY <3>1, <3>2
  <2> QED BY <1>3, <2>1, <2>2
<1>10. CASE RenamesAway \/ Creates \/ Removes
  <2>1. UNCHANGED <<content, queue, disk, lossy, pending, sender>>
    BY <1>10 DEF RenamesAway, Creates, Removes
  <2> QED BY <1>8, <2>1 DEF Handled
<1>11. CASE Truncates
  <2>1. /\ cur \in Inodes /\ content' = [content EXCEPT ![cur] = <<>>]
        /\ UNCHANGED <<queue, disk, lossy, pending, sender>>
    BY <1>1, <1>11 DEF Truncates
  <2>2. ASSUME ~lossy', NEW r \in Range(queue) \cup disk
        PROVE  Covers(r)'
    <3>1. CASE r.ino # cur
      BY <1>0, <1>2, <1>4, <2>1, <2>2, <3>1 DEF Covers, Handled
    <3>2. CASE r.ino = cur
      <4>1. Len(content'[cur]) = 0 /\ r.off \in Nat
        BY <1>1, <1>4, <2>1
      <4> QED BY <1>0, <3>2, <4>1 DEF Covers
    <3> QED BY <3>1, <3>2
  <2> QED BY <1>3, <2>1, <2>2
<1>12. CASE FollowsOnly
  <2>1. /\ UNCHANGED <<content, lossy, pending, sender>> /\ GoodQueue(queue')
        /\ disk' = disk \/ disk' = Checkpoints(queue')
        /\ \A x \in Range(queue') : x.off = 0 \/ \E r \in Range(queue) : r.ino = x.ino /\ r.off = x.off
    BY <1>12 DEF FollowsOnly
  <2>2. \A c \in Checkpoints(queue') : \E x \in Range(queue') : c.ino = x.ino /\ c.off = x.off
    BY <2>1, CheckpointsProperties
  <2> QED BY <1>8, <2>1, <2>2 DEF Handled
<1>13. ASSUME NEW lines, TakesLines(lines)
       PROVE  NothingSkipped'
  <2> DEFINE h == Head(queue)
             n == Len(lines)
  <2>1. /\ UNCHANGED <<content, flight, settled, lossy>> /\ GoodQueue(queue') /\ poll = "read"
        /\ disk' = disk \/ disk' = Checkpoints(queue')
        /\ queue # <<>> /\ lines \in Seq(Lines) /\ h.off + n <= Len(content[h.ino])
        /\ \A k \in 1 .. n : lines[k] = content[h.ino][h.off + k]
        /\ \A x \in Range(queue') :
              \/ x \in Range(Tail(queue))
              \/ x.ino = h.ino /\ x.off = h.off + n
    BY <1>13 DEF TakesLines
  <2>2. h \in Range(queue) /\ Range(Tail(queue)) \subseteq Range(queue)
    BY <1>1, <2>1, Ends, TailKeeps DEF Keeps
  <2>3. Handled \cup Range(lines) \subseteq Handled'
    BY <1>13, ReadIsHandled
  <2>4. ASSUME ~lossy', h.ino \notin misread' PROVE h.off + n <= Len(content[h.ino])
               /\ \A k \in 1 .. h.off + n : content[h.ino][k] \in Handled'
    <3>0. h.ino \notin misread
      BY <1>0, <2>4
    <3>1. Covers(h) /\ h.off \in Nat /\ Len(content[h.ino]) \in Nat /\ n \in Nat
      BY <1>2, <1>4, <2>1, <2>2, <2>4
    <3>2. \A k \in 1 .. h.off : content[h.ino][k] \in Handled
      BY <2>1, <3>0, <3>1 DEF Covers
    <3>3. \A k \in 1 .. h.off + n : k \in 1 .. h.off \/ (k - h.off \in 1 .. n /\ k = h.off + (k - h.off))
      BY <3>1
    <3>4. \A k \in 1 .. n : lines[k] \in Range(lines)
      BY <2>1, RangeIs
    <3> QED BY <2>1, <2>3, <3>2, <3>3, <3>4
  <2> HIDE DEF h, n
  <2>5. ASSUME ~lossy', NEW x \in Range(queue')
        PROVE  Covers(x)'
    <3>1. CASE x \in Range(Tail(queue))
      BY <1>0, <1>2, <2>1, <2>2, <2>3, <2>5, <3>1 DEF Covers
    <3>2. CASE x.ino = h.ino /\ x.off = h.off + n
      BY <1>0, <2>1, <2>4, <2>5, <3>2 DEF Covers
    <3> QED BY <2>1, <3>1, <3>2
  <2>6. ASSUME ~lossy', NEW c \in disk'
        PROVE  Covers(c)'
    <3>1. CASE disk' = disk
      BY <1>0, <1>2, <2>1, <2>3, <2>6, <3>1 DEF Covers
    <3>2. CASE disk' = Checkpoints(queue')
      <4>1. PICK x \in Range(queue') : c.ino = x.ino /\ c.off = x.off
        BY <2>1, <2>6, <3>2, CheckpointsProperties
      <4> QED BY <1>0, <2>5, <2>6, <4>1 DEF Covers
    <3> QED BY <2>1, <3>1, <3>2
  <2> QED BY <1>3, <2>5, <2>6
<1>14. CASE PendingWaits \/ Wakes
  <2>1. /\ UNCHANGED <<content, queue, lossy, pending, sender>>
        /\ disk' = disk \/ disk' = Checkpoints(queue)
    BY <1>14 DEF PendingWaits, Wakes
  <2> QED BY <1>5, <1>8, <2>1 DEF Handled
<1>15. CASE PendingGoes
  <2>1. /\ UNCHANGED <<content, queue, disk, lossy, flight, settled>>
        /\ Takes(pending) /\ pending' = <<>>
    BY <1>15 DEF PendingGoes
  <2>2. \A x : x \in Range(bucket') <=> x \in Range(bucket) \/ x \in Range(pending)
    BY <1>1, <2>1, EnqueueProperties
  <2> QED BY <1>8, <2>1, <2>2 DEF Handled
<1>16. CASE Starts
  <2>1. /\ pipe = "off" /\ queue' = RestoredReaders /\ UNCHANGED <<content, disk, lossy, settled>>
    BY <1>16 DEF Starts
  <2>2. ~lossy => Handled \subseteq settled
    <3>1. ~lossy => bucket = <<>> /\ pending = <<>> /\ (flight = <<>> \/ Range(flight) \subseteq settled)
      BY <1>1, <2>1 DEF StoppedIsSettled
    <3> QED BY <1>6, <3>1 DEF Handled
  <2>3. \A r \in Range(queue') : \E c \in disk : c.ino = r.ino /\ c.off = r.off
    BY <2>1, RestoredProperties DEF ReadersInOrder
  <2> QED BY <1>8, <2>1, <2>2, <2>3 DEF Handled
<1>17. CASE Stops
  <2>1. /\ lossy' = (lossy \/ poll \in {"look", "read"} \/ (Full /\ pending # <<>>))
        /\ pending' = <<>>
        /\ IF Full THEN UNCHANGED <<bucket, history>> ELSE Takes(pending)
        /\ UNCHANGED <<content, queue, disk, flight, settled>>
    BY <1>17 DEF Stops, Takes
  <2>2. Takes(pending) => \A x : x \in Range(bucket') <=> x \in Range(bucket) \/ x \in Range(pending)
    BY <1>1, EnqueueProperties
  <2>3. ~lossy' => Handled \subseteq Handled'
    <3>1. CASE Full
      BY <1>6, <2>1, <3>1 DEF Handled
    <3>2. CASE ~Full
      BY <2>1, <2>2, <3>2 DEF Handled
    <3> QED BY <3>1, <3>2
  <2> QED BY <1>8, <2>1, <2>3
<1>18. CASE Drains \/ GivesUp
  <2>1. /\ UNCHANGED <<content, queue, lossy, pending, flight>> /\ disk' = Checkpoints(queue)
        /\ \/ UNCHANGED <<bucket, settled>>
           \/ settled' = settled \cup Range(bucket)
    BY <1>18 DEF Drains, GivesUp
  <2>2. Handled \subseteq Handled'
    BY <2>1 DEF Handled
  <2> QED BY <1>5, <1>8, <2>1, <2>2
<1>19. CASE FlushStarts
  <2>1. /\ flight = <<>> /\ UNCHANGED <<content, queue, disk, lossy, bucket, pending, settled>>
    BY <1>19 DEF FlushStarts
  <2>2. Handled \subseteq Handled'
    BY <1>6, <2>1 DEF Handled
  <2> QED BY <1>8, <2>1, <2>2
<1>20. CASE Crash
  <2>1. /\ lossy' = (lossy \/ bucket \o flight \o pending # <<>>)
        /\ queue' = <<>> /\ UNCHANGED <<content, disk, settled>>
    BY <1>20 DEF Crash
  <2>2. ~lossy' => Range(bucket) = {} /\ Range(flight) = {} /\ Range(pending) = {}
    <3> DEFINE a == bucket \o flight
    <3>1. a \in Seq(Lines) /\ \A x : x \in Range(a) <=> x \in Range(bucket) \/ x \in Range(flight)
      BY <1>1, RangeOfConcat, ConcatProperties
    <3> HIDE DEF a
    <3>2. \A x : x \in Range(a \o pending) <=> x \in Range(a) \/ x \in Range(pending)
      BY <1>1, <3>1, RangeOfConcat
    <3>3. ~lossy' => a \o pending = <<>>
      BY <2>1 DEF a
    <3> QED BY <1>6, <3>1, <3>2, <3>3
  <2>3. ~lossy' => Handled \subseteq Handled'
    BY <2>1, <2>2 DEF Handled
  <2>4. Range(queue') = {}
    BY <1>6, <2>1
  <2> QED BY <1>8, <2>1, <2>3, <2>4
<1>21. ASSUME NEW ok \in BOOLEAN, SliceDone(ok)
       PROVE  NothingSkipped'
  <2>1. /\ settled' = settled \cup Range(flight)
        /\ bucket' = IF gaveUp THEN bucket ELSE SubSeq(bucket, Len(flight) + 1, Len(bucket))
        /\ UNCHANGED <<content, queue, disk, lossy, pending>>
    BY <1>21 DEF SliceDone
  <2>2. Range(bucket) \subseteq Range(bucket') \cup Range(flight)
    <3>1. CASE gaveUp
      BY <2>1, <3>1
    <3>2. CASE ~gaveUp
      <4>1. Len(flight) <= Len(bucket) /\ \A k \in 1 .. Len(flight) : flight[k] = bucket[k]
        BY <1>1, <3>2, IsPrefixMeans
      <4>2. /\ Len(flight) \in Nat /\ Len(bucket) \in Nat
            /\ \A k \in 1 .. Len(flight) : flight[k] \in Range(flight)
            /\ \A x : x \in Range(bucket) <=> \E k \in 1 .. Len(bucket) : bucket[k] = x
        BY <1>1, RangeIs
      <4>3. \A x : x \in Range(bucket') <=> \E k \in 1 .. Len(bucket) : k > Len(flight) /\ bucket[k] = x
        <5> DEFINE f == Len(flight)
        <5>1. f \in Nat /\ bucket' = SubSeq(bucket, f + 1, Len(bucket))
          BY <2>1, <3>2, <4>2
        <5> HIDE DEF f
        <5>2. \A x : x \in Range(bucket') <=> \E k \in 1 .. Len(bucket) : k > f /\ bucket[k] = x
          BY <1>1, <5>1, SuffixProperties
        <5> QED BY <5>2 DEF f
      <4>4. \A k \in 1 .. Len(bucket) : k > Len(flight) \/ k \in 1 .. Len(flight)
        BY <4>2
      <4> QED BY <4>1, <4>2, <4>3, <4>4
    <3> QED BY <3>1, <3>2
  <2>3. Handled \subseteq Handled'
    BY <2>1, <2>2 DEF Handled
  <2> QED BY <1>8, <2>1, <2>3
<1>22. ASSUME NEW lines, TakesOthers(lines)
       PROVE  NothingSkipped'
  <2> DEFINE h == Head(queue)
  <2>1. /\ UNCHANGED <<content, flight, settled, lossy>> /\ GoodQueue(queue') /\ poll = "read"
        /\ disk' = disk \/ disk' = Checkpoints(queue')
        /\ queue # <<>> /\ misread' = misread \cup {h.ino} /\ lines \in Seq(Lines)
        /\ \A x \in Range(queue') : x \in Range(Tail(queue)) \/ x.ino = h.ino
        /\ \/ pending' = lines /\ bucket' = bucket
           \/ bucket' = bucket \o lines /\ pending' = pending
    BY <1>22 DEF TakesOthers, Enqueue
  <2>2. Range(Tail(queue)) \subseteq Range(queue)
    BY <1>1, <2>1, TailKeeps DEF Keeps
  <2> HIDE DEF h
  <2>3. Handled \subseteq Handled'
    <3>1. Range(pending) = {}
      BY <1>6, <2>1 DEF StoppedIsSettled
    <3>2. \A x : x \in Range(bucket \o lines) <=> x \in Range(bucket) \/ x \in Range(lines)
      BY <1>1, <2>1, RangeOfConcat
    <3> QED BY <2>1, <3>1, <3>2 DEF Handled
  <2>4. ASSUME ~lossy', NEW x \in Range(queue')
        PROVE  Covers(x)'
    <3>1. CASE x \in Range(Tail(queue))
      BY <1>0, <1>2, <2>1, <2>2, <2>3, <2>4, <3>1 DEF Covers
    <3>2. CASE x.ino = h.ino
      BY <2>1, <3>2 DEF Covers
    <3> QED BY <2>1, <3>1, <3>2
  <2>5. ASSUME ~lossy', NEW c \in disk'
        PROVE  Covers(c)'
    <3>1. CASE disk' = disk
      BY <1>0, <1>2, <2>1, <2>3, <2>5, <3>1 DEF Covers
    <3>2. CASE disk' = Checkpoints(queue')
      <4>1. PICK x \in Range(queue') : c.ino = x.ino /\ c.off = x.off
        BY <2>1, <2>5, <3>2, CheckpointsProperties
      <4> QED BY <2>4, <2>5, <4>1 DEF Covers
    <3> QED BY <2>1, <3>1, <3>2
  <2> QED BY <1>3, <2>4, <2>5
<1> QED BY <1>22, <1>9, <1>10, <1>11, <1>12, <1>13, <1>14, <1>15, <1>16, <1>17, <1>18, <1>19, <1>20,
           <1>21 DEF Moves

-----------------------------------------------------------------------------
(* What a reader has not read is later than all that was received.         *)

LEMMA FreshMeans ==
    /\ \A r, l : l \in Fresh(r) <=>
          \E k \in DOMAIN content[r.ino] :
             (k > r.off \/ Len(content[r.ino]) < r.off) /\ l = content[r.ino][k]
    /\ \A r, l : l \in Fresh(r)' <=>
          \E k \in DOMAIN content'[r.ino] :
             (k > r.off \/ Len(content'[r.ino]) < r.off) /\ l = content'[r.ino][k]
<1>1. \A r, l : l \in Fresh(r) <=>
          \E k \in DOMAIN content[r.ino] :
             (k > r.off \/ Len(content[r.ino]) < r.off) /\ l = content[r.ino][k]
  BY DEF Fresh
<1>2. \A r, l : l \in Fresh(r)' <=>
          \E k \in DOMAIN content'[r.ino] :
             (k > r.off \/ Len(content'[r.ino]) < r.off) /\ l = content'[r.ino][k]
  BY DEF Fresh
<1> QED BY <1>1, <1>2

\* A line a reader has not read is in the reader's file.
LEMMA FreshIsOwned ==
    ASSUME FileTypeOK, FilesInOrder, NEW r \in Reader, NEW l \in Fresh(r)
    PROVE  l \in Lines /\ l \in DOMAIN owner /\ owner[l] = r.ino
<1>1. r.ino \in Inodes /\ content[r.ino] \in Seq(Lines)
  BY DEF FileTypeOK, Reader
<1>2. PICK k \in DOMAIN content[r.ino] : l = content[r.ino][k]
  BY FreshMeans
<1> QED BY <1>1, <1>2 DEF FilesInOrder

\* Lines that leave the memory, and readers that go or were set up before.
LEMMA FreshFrame ==
    ASSUME FreshIsLater,
           UNCHANGED <<content, owner, again, taken>>,
           Range(bucket') \subseteq Range(bucket), Range(pending') \subseteq Range(pending),
           met \subseteq met',
           ~again => \A x \in Range(queue') :
              \/ \E r \in Range(queue) : r.ino = x.ino /\ Fresh(x) \subseteq Fresh(r)
              \/ x.ino \in met' /\ \A l \in Fresh(x), m \in Lines : Received(m) => m < l,
           ~again /\ queue' # <<>> =>
              \A m \in Lines : Received(m) => owner[m] <= Head(queue').ino
    PROVE  FreshIsLater'
<1> SUFFICES ASSUME ~again
             PROVE  FreshIsLater'
  BY DEF FreshIsLater
<1>1. /\ \A l \in Range(bucket) : taken[l] > 0
      /\ \A l \in Range(pending) : taken[l] = 0
      /\ \A r \in Range(queue) :
            /\ r.ino \in met
            /\ \A l \in Fresh(r), m \in Lines : Received(m) => m < l
      /\ \A m \in Lines : Received(m) => m \in DOMAIN owner /\ owner[m] \in met
  BY DEF FreshIsLater
<1>2. \A m : Received(m)' => Received(m)
  BY DEF Received
<1>3. \A x : Fresh(x)' = Fresh(x)
  BY DEF Fresh
<1>4. \A l \in Range(bucket') : taken'[l] > 0
  BY <1>1
<1>5. \A l \in Range(pending') : taken'[l] = 0
  BY <1>1
<1>6. \A x \in Range(queue') :
         /\ x.ino \in met'
         /\ \A l \in Fresh(x)', m \in Lines : Received(m)' => m < l
  BY <1>1, <1>2, <1>3
<1>7. \A m \in Lines : Received(m)' =>
         /\ m \in DOMAIN owner' /\ owner'[m] \in met'
         /\ queue' # <<>> => owner'[m] <= Head(queue').ino
  BY <1>1, <1>2
<1> QED BY <1>4, <1>5, <1>6, <1>7 DEF FreshIsLater

\* The lines that waited as pending are taken.
LEMMA FreshWhenTaken ==
    ASSUME FileTypeOK, FreshIsLater, Takes(pending), pending' = <<>>,
           UNCHANGED <<content, owner, queue>>
    PROVE  FreshIsLater'
<1>1. pending \in Seq(Lines) /\ taken \in [Lines -> Nat] /\ Range(pending) \subseteq Lines
      /\ Range(bucket) \subseteq Lines
  BY RangeIs DEF FileTypeOK
<1>2. /\ \A x : x \in Range(bucket') <=> x \in Range(bucket) \/ x \in Range(pending)
      /\ UNCHANGED <<met, again>>
      /\ again \/ \A l \in Lines :
                 taken'[l] = IF l \in Range(pending) THEN taken[l] + 1 ELSE taken[l]
  BY <1>1, EnqueueProperties
<1> SUFFICES ASSUME ~again
             PROVE  FreshIsLater'
  BY <1>2 DEF FreshIsLater
<1>3. /\ \A l \in Range(bucket) : taken[l] > 0
      /\ \A r \in Range(queue) :
            /\ r.ino \in met
            /\ \A l \in Fresh(r), m \in Lines : Received(m) => m < l
      /\ \A m \in Lines : Received(m) =>
            /\ m \in DOMAIN owner /\ owner[m] \in met
            /\ queue # <<>> => owner[m] <= Head(queue).ino
  BY DEF FreshIsLater
<1>4. \A m \in Lines : taken[m] \in Nat /\ (Received(m)' <=> Received(m))
  <2>1. Range(pending') = {}
    BY EmptyKeeps
  <2>2. \A m \in Lines : taken[m] \in Nat
    BY <1>1
  <2>3. \A m \in Lines : taken'[m] > 0 <=> taken[m] > 0 \/ m \in Range(pending)
    BY <1>2, <2>2
  <2> QED BY <2>1, <2>2, <2>3 DEF Received
<1>5. \A l \in Range(bucket') : taken'[l] > 0
  BY <1>1, <1>2, <1>3, <1>4
<1>6. \A l \in Range(pending') : taken'[l] = 0
  BY EmptyKeeps
<1>7. \A x : Fresh(x)' = Fresh(x)
  BY DEF Fresh
<1> QED BY <1>2, <1>3, <1>4, <1>5, <1>6, <1>7 DEF FreshIsLater

\* Lines a reader took are those it had not read, oldest first.
LEMMA FreshWhenRead ==
    ASSUME FileTypeOK, FilesInOrder, ReadersInOrder, StoppedIsSettled, FreshIsLater,
           NEW lines, TakesLines(lines)
    PROVE  /\ FreshIsLater'
           /\ pending = <<>>
           /\ again \/ /\ \A l \in Range(lines) : taken[l] = 0
                       /\ \A l \in Range(bucket), m \in Range(lines) : l < m
           /\ Ascending(lines)
<1> DEFINE h == Head(queue)
           n == Len(lines)
           c == content[h.ino]
<1>1. /\ UNCHANGED <<content, owner>> /\ GoodQueue(queue') /\ poll = "read"
      /\ queue # <<>> /\ lines \in Seq(Lines) /\ n >= 1 /\ h.off + n <= Len(c)
      /\ \A k \in 1 .. n : lines[k] = c[h.off + k]
      /\ \A x \in Range(queue') :
            \/ x \in Range(Tail(queue))
            \/ x.ino = h.ino /\ x.off = h.off + n
      /\ queue' # <<>> => h.ino <= Head(queue').ino
      /\ \/ pending' = lines /\ UNCHANGED <<bucket, met, again, taken>>
         \/ Takes(lines) /\ UNCHANGED pending
  BY DEF TakesLines, files, history
<1>2. /\ GoodQueue(queue) /\ h \in Range(queue) /\ h \in Reader /\ h.off \in Nat /\ h.ino \in Nat
      /\ c \in Seq(Lines) /\ Len(c) \in Nat /\ DOMAIN c = 1 .. Len(c) /\ n \in Nat
      /\ \A r \in Range(Tail(queue)) : r \in Range(queue) /\ h.ino < r.ino /\ r \in Reader
      /\ bucket \in Seq(Lines) /\ taken \in [Lines -> Nat] /\ Range(bucket) \subseteq Lines
      /\ h.ino \in Inodes
  <2>1. GoodQueue(queue) /\ h \in Range(queue) /\ h \in Reader /\ Range(queue) \subseteq Reader
    BY <1>1, QueueIsGood, Ends
  <2>2. h.off \in Nat /\ h.ino \in Nat /\ h.ino \in Inodes
    BY <2>1, ReaderFields
  <2>3. c \in Seq(Lines)
    BY <2>2 DEF FileTypeOK
  <2>4. \A r \in Range(Tail(queue)) : r \in Range(queue) /\ h.ino < r.ino
    BY <1>1, <2>1, TailKeeps DEF Keeps
  <2>5. bucket \in Seq(Lines) /\ taken \in [Lines -> Nat] /\ Range(bucket) \subseteq Lines
    BY RangeIs DEF FileTypeOK
  <2>6. Len(c) \in Nat /\ DOMAIN c = 1 .. Len(c) /\ n \in Nat
    <3> HIDE DEF c
    <3> QED BY <1>1, <2>3
  <2> QED BY <2>1, <2>2, <2>3, <2>4, <2>5, <2>6
<1>3. pending = <<>> /\ Range(pending) = {}
  BY <1>1, EmptyKeeps DEF StoppedIsSettled
<1>4. /\ \A k \in DOMAIN c : c[k] \in DOMAIN owner /\ owner[c[k]] = h.ino
      /\ \A j, k \in DOMAIN c : j < k => c[j] < c[k]
  BY <1>2 DEF FilesInOrder
<1> HIDE DEF h, c
<1>5. \A k \in 1 .. n : h.off + k \in 1 .. Len(c)
  BY <1>1, <1>2
<1>6. \A l : l \in Range(lines) <=> \E k \in 1 .. n : lines[k] = l
  BY <1>1, RangeIs
<1>7. \A l \in Range(lines) : l \in Lines /\ l \in Fresh(h) /\ l \in DOMAIN owner /\ owner[l] = h.ino
  <2> SUFFICES ASSUME NEW l \in Range(lines)
               PROVE  l \in Lines /\ l \in Fresh(h) /\ l \in DOMAIN owner /\ owner[l] = h.ino
    OBVIOUS
  <2>1. PICK k \in 1 .. n : lines[k] = l
    BY <1>6
  <2>2. h.off + k \in DOMAIN c /\ c[h.off + k] = l /\ h.off + k > h.off
    BY <1>1, <1>2, <1>5, <2>1
  <2>3. l \in Fresh(h)
    BY <2>2, FreshMeans DEF c
  <2> QED BY <1>2, <1>4, <2>2, <2>3
<1>8. Ascending(lines)
  <2>1. \A j, k \in 1 .. n : j < k => h.off + j < h.off + k
    BY <1>2
  <2>2. DOMAIN lines = 1 .. n
    BY <1>1, RangeIs
  <2>3. \A k \in 1 .. n : h.off + k \in DOMAIN c /\ lines[k] = c[h.off + k]
    BY <1>1, <1>2, <1>5
  <2> QED BY <1>4, <2>1, <2>2, <2>3 DEF Ascending
<1>9. again' = again
  BY <1>1 DEF Takes, Enqueue, Counted
<1>10. CASE again
  BY <1>3, <1>8, <1>9, <1>10 DEF FreshIsLater
<1>11. CASE ~again
  <2>1. /\ \A l \in Range(bucket) : taken[l] > 0
        /\ \A r \in Range(queue) :
              /\ r.ino \in met
              /\ \A l \in Fresh(r), m \in Lines : Received(m) => m < l
        /\ \A m \in Lines : Received(m) =>
              m \in DOMAIN owner /\ owner[m] \in met /\ owner[m] <= h.ino
    BY <1>1, <1>11 DEF FreshIsLater, h
  <2>2. \A m \in Lines : m \in Nat /\ taken[m] \in Nat
    <3>1. \A m \in Lines : m \in Nat
      BY Limits DEF Lines
    <3> QED BY <1>2, <3>1
  <2>3. \A l \in Range(lines) : taken[l] = 0
    <3>1. \A l \in Range(lines) : ~Received(l)
      BY <1>2, <1>7, <2>1, <2>2
    <3> QED BY <1>7, <2>2, <3>1 DEF Received
  <2>4. \A l \in Range(bucket), m \in Range(lines) : l < m
    BY <1>2, <1>7, <2>1 DEF Received
  <2>5. /\ UNCHANGED <<met, again>>
        /\ \A m \in Lines : Received(m)' <=> Received(m) \/ m \in Range(lines)
        /\ \A l \in Range(bucket') : taken'[l] > 0
        /\ \A l \in Range(pending') : taken'[l] = 0
    <3>1. CASE pending' = lines /\ UNCHANGED <<bucket, met, again, taken>>
      BY <1>3, <2>1, <2>3, <3>1 DEF Received
    <3>2. CASE Takes(lines) /\ UNCHANGED pending
      <4>1. /\ \A x : x \in Range(bucket') <=> x \in Range(bucket) \/ x \in Range(lines)
            /\ UNCHANGED <<met, again>>
            /\ \A l \in Lines : taken'[l] = IF l \in Range(lines) THEN taken[l] + 1 ELSE taken[l]
        BY <1>1, <1>11, <3>2, EnqueueProperties
      <4>2. \A l \in Lines : taken'[l] > 0 <=> taken[l] > 0 \/ l \in Range(lines)
        BY <2>2, <4>1
      <4>3. \A m \in Lines : Received(m)' <=> Received(m) \/ m \in Range(lines)
        BY <1>3, <3>2, <4>2 DEF Received
      <4>4. \A l \in Range(bucket') : taken'[l] > 0
        BY <1>2, <1>7, <2>1, <4>1, <4>2
      <4>5. \A l \in Range(pending') : taken'[l] = 0
        BY <1>3, <3>2
      <4> QED BY <4>1, <4>3, <4>4, <4>5
    <3> QED BY <1>1, <3>1, <3>2
  <2>6. \A x : Fresh(x)' = Fresh(x)
    BY <1>1 DEF Fresh
  <2>7. ASSUME NEW x \in Range(queue')
        PROVE  /\ x.ino \in met'
               /\ \A l \in Fresh(x)', m \in Lines : Received(m)' => m < l
    <3>1. CASE x \in Range(Tail(queue))
      <4>1. x \in Range(queue) /\ x \in Reader /\ h.ino < x.ino
        BY <1>2, <3>1
      <4>2. ASSUME NEW l \in Fresh(x), NEW m \in Range(lines)
            PROVE  m < l
        <5>1. l \in Lines /\ l \in DOMAIN owner /\ owner[l] = x.ino
          BY <4>1, FreshIsOwned
        <5>2. m \in Lines /\ m \in DOMAIN owner /\ owner[m] = h.ino
          BY <1>7
        <5>3. x.ino \in Nat /\ h.ino \in Nat
          BY <1>2, <4>1, ReaderFields
        <5>4. ~(l <= m)
          BY <4>1, <5>1, <5>2, <5>3 DEF FilesInOrder
        <5> QED BY <2>2, <5>1, <5>2, <5>4
      <4> QED BY <2>1, <2>5, <2>6, <4>1, <4>2
    <3>2. CASE x.ino = h.ino /\ x.off = h.off + n
      <4>1. ASSUME NEW l \in Fresh(x)
            PROVE  l \in Fresh(h) /\ \A m \in Range(lines) : m < l
        <5>1. PICK k \in DOMAIN c : (k > h.off + n \/ Len(c) < h.off + n) /\ l = c[k]
          BY <3>2, FreshMeans DEF c
        <5>2. k > h.off + n /\ k > h.off
          BY <1>1, <1>2, <5>1
        <5>3. l \in Fresh(h)
          BY <5>1, <5>2, FreshMeans DEF c
        <5>4. \A j \in 1 .. n : h.off + j < k
          BY <1>2, <5>2
        <5>5. \A j \in 1 .. n : lines[j] < l
          BY <1>1, <1>2, <1>4, <1>5, <5>1, <5>4
        <5> QED BY <1>6, <5>3, <5>5
      <4> QED BY <1>2, <2>1, <2>5, <2>6, <3>2, <4>1
    <3> QED BY <1>1, <3>1, <3>2
  <2>8. ASSUME NEW m \in Lines, Received(m)'
        PROVE  /\ m \in DOMAIN owner' /\ owner'[m] \in met'
               /\ queue' # <<>> => owner'[m] <= Head(queue').ino
    <3>1. m \in DOMAIN owner /\ owner[m] \in met /\ owner[m] <= h.ino
      BY <1>2, <1>7, <2>1, <2>5, <2>8
    <3>2. owner[m] \in Nat
      BY <3>1, InodesAreNumbers DEF FileTypeOK
    <3>3. queue' # <<>> => Head(queue').ino \in Nat
      BY <1>1, Ends, ReaderFields
    <3> QED BY <1>1, <1>2, <2>5, <3>1, <3>2, <3>3
  <2>9. FreshIsLater'
    BY <2>5, <2>7, <2>8 DEF FreshIsLater
  <2> QED BY <1>3, <1>8, <2>3, <2>4, <2>9
<1> QED BY <1>10, <1>11

LEMMA FreshStep ==
    ASSUME FileTypeOK, FilesInOrder, ReadersInOrder, StoppedIsSettled, FreshIsLater, Moves
    PROVE  FreshIsLater'
<1> USE DEF files, cycle, sender, history, life
<1>1. /\ GoodQueue(queue) /\ Range(queue) \subseteq Reader
      /\ content \in [Inodes -> Seq(Lines)] /\ owner \in Seq(Inodes)
      /\ cur \in Inodes \cup {NoFile} /\ cur \in {NoFile, Newest} /\ met \subseteq Inodes
      /\ bucket \in Seq(Lines) /\ flight \in Seq(Lines) /\ pending \in Seq(Lines)
  BY QueueIsGood, RangeIs DEF FileTypeOK, FilesInOrder
<1>2. Range(<<>>) = {}
  BY EmptyKeeps
<1>3. ~again =>
        /\ \A r \in Range(queue) :
              /\ r.ino \in met
              /\ \A l \in Fresh(r), m \in Lines : Received(m) => m < l
        /\ \A m \in Lines : Received(m) =>
              /\ m \in DOMAIN owner /\ owner[m] \in met
              /\ queue # <<>> => owner[m] <= Head(queue).ino
  BY DEF FreshIsLater
<1>4. ASSUME UNCHANGED <<content, owner, queue, history>>,
             Range(bucket') \subseteq Range(bucket), Range(pending') \subseteq Range(pending)
      PROVE  FreshIsLater'
  BY <1>3, <1>4, FreshFrame
<1>5. CASE Writes
  <2> DEFINE c == content[cur]
             w == Len(owner) + 1
  <2>1. /\ cur \in Inodes /\ Noticeable(cur)
        /\ owner' = Append(owner, cur) /\ content' = [content EXCEPT ![cur] = Append(c, w)]
        /\ UNCHANGED <<queue, pending, sender, history>>
    BY <1>1, <1>5 DEF Writes
  <2>2. /\ Len(owner) \in Nat /\ DOMAIN owner = 1 .. Len(owner) /\ DOMAIN owner' = 1 .. w
        /\ \A m \in DOMAIN owner : m \in DOMAIN owner' /\ owner'[m] = owner[m] /\ m < w
    BY <1>1, <2>1
  <2>3. /\ c \in Seq(Lines) /\ Len(c) \in Nat /\ DOMAIN c = 1 .. Len(c)
        /\ content'[cur] = Append(c, w)
        /\ Len(content'[cur]) = Len(c) + 1 /\ DOMAIN content'[cur] = 1 .. Len(c) + 1
        /\ \A k \in 1 .. Len(c) + 1 : content'[cur][k] = IF k \in DOMAIN c THEN c[k] ELSE w
        /\ \A i \in Inodes : i # cur => content'[i] = content[i]
    BY <1>1, <2>1
  <2>4. ASSUME NEW r \in Range(queue), NEW l \in Fresh(r)'
        PROVE  l \in Fresh(r) \/ l = w
    <3>1. r.ino \in Inodes /\ r.off \in Nat
      BY <1>1, ReaderFields
    <3>2. CASE r.ino # cur
      BY <2>3, <3>1, <3>2, FreshMeans
    <3>3. CASE r.ino = cur
      <4>1. PICK k \in 1 .. Len(c) + 1 : (k > r.off \/ Len(c) + 1 < r.off) /\ l = content'[cur][k]
        <5>1. \E k \in DOMAIN content'[cur] :
                 (k > r.off \/ Len(content'[cur]) < r.off) /\ l = content'[cur][k]
          BY <2>4, <3>3, FreshMeans
        <5> HIDE DEF c
        <5> QED BY <2>3, <5>1
      <4>2. CASE k \in DOMAIN c
        <5>1. l = c[k] /\ (k > r.off \/ Len(c) < r.off)
          BY <2>3, <3>1, <4>1, <4>2
        <5> QED BY <3>3, <4>2, <5>1, FreshMeans
      <4>3. CASE k \notin DOMAIN c
        BY <2>3, <4>1, <4>3
      <4> QED BY <4>2, <4>3
    <3> QED BY <3>2, <3>3
  <2>5. \A m : Received(m)' <=> Received(m)
    BY <2>1 DEF Received
  <2> SUFFICES ASSUME ~again
               PROVE  FreshIsLater'
    BY <2>1 DEF FreshIsLater
  <2>6. \A r \in Range(queue') : /\ r.ino \in met'
                                 /\ \A l \in Fresh(r)', m \in Lines : Received(m)' => m < l
    BY <1>3, <2>1, <2>2, <2>4, <2>5
  <2>7. \A m \in Lines : Received(m)' =>
          /\ m \in DOMAIN owner' /\ owner'[m] \in met'
          /\ queue' # <<>> => owner'[m] <= Head(queue').ino
    BY <1>3, <2>1, <2>2, <2>5
  <2>8. (\A l \in Range(bucket') : taken'[l] > 0) /\ (\A l \in Range(pending') : taken'[l] = 0)
    BY <2>1 DEF FreshIsLater
  <2> QED BY <2>6, <2>7, <2>8 DEF FreshIsLater
<1>6. CASE Truncates
  <2>1. /\ cur \in Inodes /\ content' = [content EXCEPT ![cur] = <<>>]
        /\ UNCHANGED <<owner, queue, pending, sender, history>>
    BY <1>1, <1>6 DEF Truncates
  <2>2. ASSUME NEW r \in Range(queue), NEW l \in Fresh(r)'
        PROVE  l \in Fresh(r)
    <3>1. r.ino \in Inodes /\ r.off \in Nat
      BY <1>1, ReaderFields
    <3>2. r.ino # cur
      <4>1. content'[cur] = <<>> /\ DOMAIN content'[cur] = {}
        BY <1>1, <2>1
      <4> QED BY <2>2, <4>1, FreshMeans
    <3> QED BY <1>1, <2>1, <2>2, <3>1, <3>2, FreshMeans
  <2>3. \A m : Received(m)' <=> Received(m)
    BY <2>1 DEF Received
  <2> QED BY <2>1, <2>2, <2>3 DEF FreshIsLater
<1>7. CASE RenamesAway \/ Creates \/ Removes \/ PendingWaits \/ Wakes \/ Drains \/ FlushStarts
  <2>1. UNCHANGED <<content, owner, queue, history, bucket, pending>>
    BY <1>7 DEF RenamesAway, Creates, Removes, PendingWaits, Wakes, Drains, FlushStarts
  <2> QED BY <1>4, <2>1
<1>8. CASE GivesUp
  <2>1. UNCHANGED <<content, owner, queue, history, pending>> /\ bucket' = <<>>
    BY <1>8 DEF GivesUp
  <2> QED BY <1>2, <1>4, <2>1
<1>9. ASSUME NEW ok \in BOOLEAN, SliceDone(ok)
      PROVE  FreshIsLater'
  <2>1. /\ UNCHANGED <<content, owner, queue, history, pending>>
        /\ bucket' = bucket \/ bucket' = SubSeq(bucket, Len(flight) + 1, Len(bucket))
    BY <1>9 DEF SliceDone
  <2>2. Range(bucket') \subseteq Range(bucket)
    <3> DEFINE n == Len(flight)
    <3>1. n \in Nat /\ (bucket' = bucket \/ bucket' = SubSeq(bucket, n + 1, Len(bucket)))
      BY <1>1, <2>1, RangeIs
    <3> HIDE DEF n
    <3> QED BY <1>1, <3>1, AscendingSuffix
  <2> QED BY <1>4, <2>1, <2>2
<1>10. CASE PendingGoes
  BY <1>10, FreshWhenTaken DEF PendingGoes
<1>11. CASE Stops
  <2>1. CASE Full
    <3>1. UNCHANGED <<content, owner, queue, history, bucket>> /\ pending' = <<>>
      BY <1>11, <2>1 DEF Stops
    <3> QED BY <1>2, <1>4, <3>1
  <2>2. CASE ~Full
    BY <1>11, <2>2, FreshWhenTaken DEF Stops, Takes
  <2> QED BY <2>1, <2>2
<1>12. CASE Crash
  <2>1. UNCHANGED <<content, owner, history>> /\ queue' = <<>> /\ pending' = <<>> /\ bucket' = <<>>
    BY <1>12 DEF Crash
  <2> QED BY <1>2, <2>1, FreshFrame
<1>13. ASSUME NEW lines, TakesLines(lines)
       PROVE  FreshIsLater'
  BY <1>13, FreshWhenRead
<1>14. CASE Starts
  <2>1. /\ pipe = "off" /\ queue' = RestoredReaders
        /\ again' = (again \/ lossy \/ faults.crash > 0)
        /\ ~again' => UNCHANGED <<met, taken>>
        /\ pending' = <<>> /\ bucket' = <<>> /\ UNCHANGED <<content, owner>>
    BY <1>14 DEF Starts
  <2>2. CASE again'
    BY <2>2 DEF FreshIsLater
  <2>3. CASE ~again'
    <3>1. /\ ~again /\ ~lossy /\ ~(faults.crash > 0) /\ faults.crash \in Nat
      BY <2>1, <2>3 DEF FileTypeOK, FaultKinds
    <3>2. disk = Checkpoints(queue)
      <4>1. faults.crash = 0
        BY <3>1
      <4> QED BY <2>1, <3>1, <4>1 DEF StoppedIsSettled
    <3>3. GoodQueue(queue') /\ \A x \in Range(queue') : \E d \in disk : d.ino = x.ino /\ d.off = x.off
      BY <2>1, RestoredProperties DEF ReadersInOrder
    <3>4. \A x \in Range(queue') : \E r \in Range(queue) : r.ino = x.ino /\ r.off = x.off
      <4>1. \A d \in disk : \E r \in Range(queue) : d.ino = r.ino /\ d.off = r.off
        BY <1>1, <3>2, CheckpointsProperties
      <4> QED BY <3>3, <4>1
    <3>5. \A x \in Range(queue') : \E r \in Range(queue) : r.ino = x.ino /\ Fresh(x) \subseteq Fresh(r)
      BY <3>4 DEF Fresh
    <3>6. queue' # <<>> => \A m \in Lines : Received(m) => owner[m] <= Head(queue').ino
      <4> SUFFICES ASSUME queue' # <<>>, NEW m \in Lines, Received(m)
                   PROVE  owner[m] <= Head(queue').ino
        OBVIOUS
      <4>1. PICK r \in Range(queue) : r.ino = Head(queue').ino
        BY <3>3, <3>4, Ends
      <4>2. queue # <<>>
        BY <1>2, <4>1
      <4>3. Head(queue).ino <= r.ino /\ Head(queue).ino \in Nat /\ r.ino \in Nat
        BY <1>1, <4>2, Ends, ReaderFields
      <4>4. owner[m] <= Head(queue).ino /\ owner[m] \in Nat
        BY <1>1, <1>3, <3>1, <4>2, InodesAreNumbers
      <4> QED BY <4>1, <4>3, <4>4
    <3>7. UNCHANGED <<content, owner, again, taken, met>>
      BY <2>1, <2>3, <3>1 DEF FileTypeOK
    <3> QED BY <1>2, <2>1, <3>5, <3>6, <3>7, FreshFrame
  <2> QED BY <2>2, <2>3
<1>15. CASE FollowsOnly
  <2>1. /\ UNCHANGED <<content, owner, cur, pending, bucket>> /\ GoodQueue(queue')
        /\ \A x \in Range(queue') :
              \/ \E r \in Range(queue) : r.ino = x.ino /\ r.off = x.off
              \/ /\ x.ino = cur /\ x.off = 0
                 /\ \/ \E r \in Range(queue) : r.ino = cur /\ Len(content[cur]) < r.off
                    \/ Meets(queue) /\ \A r \in Range(queue) : r.ino # cur
        /\ queue # <<>> /\ queue' # <<>> => Head(queue).ino <= Head(queue').ino
        /\ UNCHANGED history \/ Meets(queue)
    BY <1>15 DEF FollowsOnly
  <2>2. CASE again'
    BY <2>2 DEF FreshIsLater
  <2>3. CASE ~again'
    <3>1. /\ Meets(queue) =>
               \/ UNCHANGED history /\ (cur = NoFile \/ (queue # <<>> /\ Last(queue).ino = cur))
               \/ UNCHANGED <<again, taken>> /\ cur \in Inodes /\ cur \notin met /\ met' = met \cup {cur}
          /\ UNCHANGED <<again, taken>> /\ met \subseteq met'
      BY <2>1, <2>3, MeetsProperties
    <3>2. ~again
      BY <2>3, <3>1 DEF FileTypeOK
    <3>3. \A m \in Lines : Received(m) => owner[m] \in Nat /\ owner[m] <= Newest
      BY <1>1, <1>3, <3>2, InodesAreNumbers DEF FilesInOrder
    <3>4. ASSUME NEW x \in Range(queue')
          PROVE  \/ \E r \in Range(queue) : r.ino = x.ino /\ Fresh(x) \subseteq Fresh(r)
                 \/ x.ino \in met' /\ \A l \in Fresh(x), m \in Lines : Received(m) => m < l
      <4>1. CASE \E r \in Range(queue) : r.ino = x.ino /\ r.off = x.off
        BY <4>1 DEF Fresh
      <4>2. CASE x.ino = cur /\ x.off = 0 /\ \E r \in Range(queue) : r.ino = cur /\ Len(content[cur]) < r.off
        BY <4>2 DEF Fresh
      <4>3. CASE x.ino = cur /\ x.off = 0 /\ Meets(queue) /\ \A r \in Range(queue) : r.ino # cur
        <5>1. x \in Reader /\ cur \in Inodes /\ cur = Newest /\ cur \in Nat
          <6>1. x \in Reader
            BY <2>1, RangeIs DEF GoodQueue
          <6> QED BY <1>1, <4>3, <6>1, ReaderFields, InodesAreNumbers
        <5>2. queue # <<>> => Last(queue).ino # cur
          BY <1>1, <4>3, Ends
        <5>3. cur \notin met /\ met' = met \cup {cur}
          BY <3>1, <4>3, <5>1, <5>2, InodesAreNumbers
        <5>4. ASSUME NEW l \in Fresh(x), NEW m \in Lines, Received(m)
              PROVE  m < l
          <6>1. l \in Lines /\ l \in DOMAIN owner /\ owner[l] = cur
            BY <4>3, <5>1, FreshIsOwned
          <6>2. m \in DOMAIN owner /\ owner[m] # cur /\ owner[m] \in Nat /\ owner[m] <= cur
            BY <1>3, <3>2, <3>3, <5>1, <5>3, <5>4
          <6>3. ~(l <= m)
            <7>1. ~(owner[l] <= owner[m])
              BY <5>1, <6>1, <6>2
            <7> QED BY <6>1, <6>2, <7>1 DEF FilesInOrder
          <6>4. l \in Nat /\ m \in Nat
            BY <6>1, Limits DEF Lines
          <6> QED BY <6>3, <6>4
        <5> QED BY <4>3, <5>3, <5>4
      <4> QED BY <2>1, <4>1, <4>2, <4>3
    <3>5. queue' # <<>> => \A m \in Lines : Received(m) => owner[m] <= Head(queue').ino
      <4> SUFFICES ASSUME queue' # <<>>, NEW m \in Lines, Received(m)
                   PROVE  owner[m] <= Head(queue').ino
        OBVIOUS
      <4>1. Head(queue') \in Range(queue') /\ Head(queue').ino \in Nat /\ Head(queue').ino \in Inodes
        BY <2>1, Ends, ReaderFields
      <4>2. CASE queue # <<>>
        <5>1. Head(queue).ino \in Nat /\ owner[m] <= Head(queue).ino /\ owner[m] \in Nat
          BY <1>1, <1>3, <3>2, <3>3, <4>2, Ends, ReaderFields
        <5> QED BY <2>1, <4>1, <4>2, <5>1
      <4>3. CASE queue = <<>>
        <5>1. Head(queue').ino = cur
          BY <1>2, <2>1, <4>1, <4>3
        <5>2. cur = Newest
          BY <1>1, <4>1, <5>1, InodesAreNumbers
        <5> QED BY <3>3, <5>1, <5>2
      <4> QED BY <4>2, <4>3
    <3> QED BY <2>1, <3>1, <3>4, <3>5, FreshFrame
  <2> QED BY <2>2, <2>3
<1>16. ASSUME NEW lines, TakesOthers(lines)
       PROVE  FreshIsLater'
  BY <1>16 DEF TakesOthers, FreshIsLater
<1> QED BY <1>16, <1>5, <1>6, <1>7, <1>8, <1>9, <1>10, <1>11, <1>12, <1>13, <1>14, <1>15 DEF Moves

-----------------------------------------------------------------------------
(* Lines wait in the order of writing, and are taken once.                 *)

LEMMA WaitingMeans ==
    /\ FileTypeOK =>
         (WaitingInOrder <=>
            (again \/ /\ Ascending(bucket) /\ Ascending(pending)
                      /\ \A x \in Range(bucket), y \in Range(pending) : x < y))
    /\ FileTypeOK' =>
         (WaitingInOrder' <=>
            (again' \/ /\ Ascending(bucket') /\ Ascending(pending')
                       /\ \A x \in Range(bucket'), y \in Range(pending') : x < y))
<1>1. ASSUME NEW a \in Seq(Lines), NEW b \in Seq(Lines)
      PROVE  (\A j, k \in DOMAIN (a \o b) : j < k => (a \o b)[j] < (a \o b)[k]) <=>
             Ascending(a) /\ Ascending(b) /\ \A x \in Range(a), y \in Range(b) : x < y
  <2>1. Ascending(a \o b) <=>
        Ascending(a) /\ Ascending(b) /\ \A x \in Range(a), y \in Range(b) : x < y
    BY AscendingConcat
  <2> QED BY <2>1 DEF Ascending
<1>2. ASSUME FileTypeOK
      PROVE  WaitingInOrder <=>
             (again \/ /\ Ascending(bucket) /\ Ascending(pending)
                       /\ \A x \in Range(bucket), y \in Range(pending) : x < y)
  BY <1>1, <1>2 DEF FileTypeOK, WaitingInOrder
<1>3. ASSUME FileTypeOK'
      PROVE  WaitingInOrder' <=>
             (again' \/ /\ Ascending(bucket') /\ Ascending(pending')
                        /\ \A x \in Range(bucket'), y \in Range(pending') : x < y)
  BY <1>1, <1>3 DEF FileTypeOK, WaitingInOrder
<1> QED BY <1>2, <1>3

LEMMA NoneAscends ==
    Range(<<>>) = {} /\ Ascending(<<>>)
<1>1. Range(<<>>) = {}
  BY EmptyKeeps
<1>2. DOMAIN <<>> = {}
  OBVIOUS
<1> QED BY <1>1, <1>2 DEF Ascending

LEMMA WaitingStep ==
    ASSUME FileTypeOK, FilesInOrder, ReadersInOrder, StoppedIsSettled, FreshIsLater,
           WaitingInOrder, FileTypeOK', Moves
    PROVE  WaitingInOrder'
<1> USE DEF files, cycle, sender, history, life
<1>1. /\ bucket \in Seq(Lines) /\ flight \in Seq(Lines) /\ pending \in Seq(Lines)
      /\ again \in BOOLEAN
  BY DEF FileTypeOK
<1>2. again \/ /\ Ascending(bucket) /\ Ascending(pending)
               /\ \A x \in Range(bucket), y \in Range(pending) : x < y
  BY WaitingMeans
<1>3. ASSUME \/ again'
             \/ /\ Ascending(bucket') /\ Ascending(pending')
                /\ \A x \in Range(bucket'), y \in Range(pending') : x < y
      PROVE  WaitingInOrder'
  BY <1>3, WaitingMeans
<1>4. ASSUME again => again', bucket' = bucket \/ bucket' = <<>>, pending' = pending \/ pending' = <<>>
      PROVE  WaitingInOrder'
  BY <1>2, <1>3, <1>4, NoneAscends
<1>5. ASSUME again' = again, Takes(pending), pending' = <<>>
      PROVE  WaitingInOrder'
  <2>1. bucket' = bucket \o pending
    BY <1>5 DEF Takes, Enqueue, Counted
  <2>2. again \/ Ascending(bucket')
    BY <1>1, <1>2, <2>1, AscendingConcat
  <2> QED BY <1>3, <1>5, <2>2, NoneAscends
<1>6. CASE \/ Writes \/ RenamesAway \/ Creates \/ Truncates \/ Removes \/ PendingWaits \/ Wakes
           \/ Drains \/ GivesUp \/ FlushStarts \/ Crash
  <2>1. /\ again' = again /\ (bucket' = bucket \/ bucket' = <<>>) /\ (pending' = pending \/ pending' = <<>>)
    BY <1>6 DEF Writes, RenamesAway, Creates, Truncates, Removes, PendingWaits, Wakes,
                Drains, GivesUp, FlushStarts, Crash
  <2> QED BY <1>4, <2>1
<1>7. CASE Starts
  <2>1. pending' = <<>> /\ bucket' = <<>>
    BY <1>7 DEF Starts
  <2> QED BY <1>3, <2>1, NoneAscends
<1>8. CASE FollowsOnly
  <2>1. UNCHANGED <<bucket, pending>> /\ (again => again')
    BY <1>8 DEF FollowsOnly, Meets
  <2> QED BY <1>4, <2>1
<1>9. ASSUME NEW lines, TakesLines(lines)
      PROVE  WaitingInOrder'
  <2>1. /\ pending = <<>> /\ Ascending(lines) /\ lines \in Seq(Lines)
        /\ again \/ \A l \in Range(bucket), m \in Range(lines) : l < m
    BY <1>9, FreshWhenRead DEF TakesLines
  <2>2. CASE pending' = lines /\ UNCHANGED <<bucket, history>>
    BY <1>2, <1>3, <2>1, <2>2
  <2>3. CASE Takes(lines) /\ UNCHANGED pending
    <3>1. bucket' = bucket \o lines /\ again' = again /\ pending' = <<>>
      BY <2>1, <2>3 DEF Takes, Enqueue, Counted
    <3>2. again \/ Ascending(bucket')
      BY <1>1, <1>2, <2>1, <3>1, AscendingConcat
    <3> QED BY <1>3, <3>1, <3>2, NoneAscends
  <2> QED BY <1>9, <2>2, <2>3 DEF TakesLines
<1>10. CASE PendingGoes
  <2>1. Takes(pending) /\ pending' = <<>> /\ again' = again
    BY <1>10 DEF PendingGoes, Takes, Enqueue, Counted
  <2> QED BY <1>5, <2>1
<1>11. CASE Stops
  <2>1. CASE Full
    <3>1. UNCHANGED <<again, bucket>> /\ pending' = <<>>
      BY <1>11, <2>1 DEF Stops
    <3> QED BY <1>4, <3>1
  <2>2. CASE ~Full
    <3>1. Takes(pending) /\ pending' = <<>> /\ again' = again
      BY <1>11, <2>2 DEF Stops, Takes, Enqueue, Counted
    <3> QED BY <1>5, <3>1
  <2> QED BY <2>1, <2>2
<1>12. ASSUME NEW ok \in BOOLEAN, SliceDone(ok)
       PROVE  WaitingInOrder'
  <2> DEFINE n == Len(flight)
             s == SubSeq(bucket, n + 1, Len(bucket))
  <2>1. UNCHANGED <<again, pending>> /\ (bucket' = bucket \/ bucket' = s)
    BY <1>12 DEF SliceDone
  <2>2. n \in Nat
    BY <1>1, RangeIs
  <2> HIDE DEF n
  <2>3. Range(s) \subseteq Range(bucket) /\ (Ascending(bucket) => Ascending(s))
    BY <1>1, <2>2, AscendingSuffix
  <2> HIDE DEF s
  <2>4. CASE bucket' = bucket
    BY <1>4, <2>1, <2>4
  <2>5. CASE bucket' = s
    BY <1>2, <1>3, <2>1, <2>3, <2>5
  <2> QED BY <2>1, <2>4, <2>5
<1>13. ASSUME NEW lines, TakesOthers(lines)
       PROVE  WaitingInOrder'
  BY <1>3, <1>13 DEF TakesOthers
<1> QED BY <1>13, <1>6, <1>7, <1>8, <1>9, <1>10, <1>11, <1>12 DEF Moves

LEMMA TakenStep ==
    ASSUME FileTypeOK, FilesInOrder, ReadersInOrder, StoppedIsSettled, FreshIsLater, TakenOnce, Moves
    PROVE  TakenOnce'
<1> USE DEF files, cycle, sender, history, life
<1>1. taken \in [Lines -> Nat] /\ again \in BOOLEAN /\ pending \in Seq(Lines)
  BY DEF FileTypeOK
<1>2. ASSUME NEW lines \in Seq(Lines), Takes(lines), again \/ \A l \in Range(lines) : taken[l] = 0
      PROVE  TakenOnce'
  <2>1. UNCHANGED <<met, again>>
        /\ (again \/ \A l \in Lines : taken'[l] = IF l \in Range(lines) THEN taken[l] + 1 ELSE taken[l])
    BY <1>2, EnqueueProperties
  <2> QED BY <1>1, <1>2, <2>1 DEF TakenOnce
<1>3. ASSUME again' \/ UNCHANGED <<again, taken>>
      PROVE  TakenOnce'
  BY <1>3 DEF TakenOnce
<1>4. again \/ \A l \in Range(pending) : taken[l] = 0
  BY DEF FreshIsLater
<1>5. CASE \/ Writes \/ RenamesAway \/ Creates \/ Truncates \/ Removes \/ PendingWaits \/ Wakes
           \/ Drains \/ GivesUp \/ FlushStarts \/ Crash \/ (\E ok \in BOOLEAN : SliceDone(ok))
  <2>1. UNCHANGED <<again, taken>>
    BY <1>5 DEF Writes, RenamesAway, Creates, Truncates, Removes, PendingWaits, Wakes,
                Drains, GivesUp, FlushStarts, Crash, SliceDone
  <2> QED BY <1>3, <2>1
<1>6. CASE Starts
  <2>1. again' = (again \/ lossy \/ faults.crash > 0) /\ taken' = (IF again' THEN NotTaken ELSE taken)
    BY <1>6 DEF Starts
  <2>2. again' \/ UNCHANGED <<again, taken>>
    BY <1>1, <2>1
  <2> QED BY <1>3, <2>2
<1>7. CASE FollowsOnly
  <2>1. UNCHANGED history \/ Meets(queue)
    BY <1>7 DEF FollowsOnly
  <2>2. again' \/ UNCHANGED <<again, taken>>
    BY <2>1 DEF Meets
  <2> QED BY <1>3, <2>2
<1>8. ASSUME NEW lines, TakesLines(lines)
      PROVE  TakenOnce'
  <2>1. lines \in Seq(Lines) /\ (again \/ \A l \in Range(lines) : taken[l] = 0)
    BY <1>8, FreshWhenRead DEF TakesLines
  <2>2. UNCHANGED <<again, taken>> \/ Takes(lines)
    BY <1>8 DEF TakesLines
  <2> QED BY <1>2, <1>3, <2>1, <2>2
<1>9. CASE PendingGoes
  BY <1>1, <1>2, <1>4, <1>9 DEF PendingGoes
<1>10. CASE Stops
  <2>1. UNCHANGED <<again, taken>> \/ Takes(pending)
    BY <1>10 DEF Stops, Takes
  <2> QED BY <1>1, <1>2, <1>3, <1>4, <2>1
<1>11. ASSUME NEW lines, TakesOthers(lines)
       PROVE  TakenOnce'
  BY <1>3, <1>11 DEF TakesOthers
<1> QED BY <1>11, <1>5, <1>6, <1>7, <1>8, <1>9, <1>10 DEF Moves

\* A reader that leaves the queue without a fault has read its file.
LEMMA DropStep ==
    ASSUME FileInv, NothingSkipped, FileNext, NEW r \in Range(queue),
           \A q \in Range(queue') : q.ino # r.ino,
           pipe # "off", pipe' # "off", ~lossy',
           faults' = faults, faults.removal = 0, r.ino \notin misread', Len(queue') < MaxReaders
    PROVE  Range(content[r.ino]) \subseteq Handled'
<1> USE DEF files, cycle, sender, history, life
<1>1. FileTypeOK /\ FilesInOrder /\ ReadersInOrder /\ StoppedIsSettled
  BY DEF FileInv
<1>2. /\ GoodQueue(queue) /\ r \in Reader /\ r.ino \in Inodes /\ r.off \in Nat
      /\ r.ino <= Newest /\ (r.deleted => r.ino # cur) /\ queue # <<>>
      /\ \A q \in Range(queue) : q.ino <= Newest /\ (q.deleted => q.ino # cur)
  BY <1>1, QueueIsGood, ReaderFields, EmptyKeeps
<1> DEFINE c == content[r.ino]
<1>3. c \in Seq(Lines) /\ Len(c) \in Nat /\ \A x : x \in Range(c) <=> \E k \in 1 .. Len(c) : c[k] = x
  <2>1. c \in Seq(Lines)
    BY <1>1, <1>2 DEF FileTypeOK
  <2> HIDE DEF c
  <2> QED BY <2>1, RangeIs
<1>0. r.ino \notin misread
  <2>1. Moves
    BY <1>1, NextMoves
  <2> QED BY <2>1, MisreadGrows
<1>4. ASSUME ~lossy, r.off <= Len(c)
      PROVE  \A k \in 1 .. r.off : c[k] \in Handled
  BY <1>0, <1>1, <1>4, SkippedMeans DEF Covers
<1>5. \A k \in FaultKinds : ~Fault(k)
  <2> SUFFICES ASSUME NEW k \in FaultKinds, Fault(k)
               PROVE  FALSE
    OBVIOUS
  <2>1. faults'[k] = faults[k] + 1 /\ faults[k] \in Nat
    BY <1>1, FaultIs DEF FileTypeOK
  <2> QED BY <2>1
<1>6. \A q : CycleEnds(q) => queue' = q
  BY <1>5 DEF CycleEnds, FaultKinds
<1>7. queue' # queue
  BY <1>2
<1>8. CASE ChecksRotation \/ LooksForRotation
  <2>1. queue' = Detected(queue)
    BY <1>2, <1>6, <1>8 DEF ChecksRotation, LooksForRotation
  <2>2. (\E x \in Range(queue') : x.ino = r.ino) \/ Len(queue') = MaxReaders
    BY <1>1, <1>2, <2>1, DetectedProperties DEF FilesInOrder
  <2>3. Len(queue') # MaxReaders
    BY <2>1, <1>1, <1>2, DetectedProperties, Limits DEF FilesInOrder, GoodQueue
  <2> QED BY <2>2, <2>3
<1>9. CASE ReadsLines
  <2>1. PICK lines : TakesLines(lines)
    BY <1>1, <1>9, ReadsStep
  <2>2. /\ r = Head(queue) /\ r.off + Len(lines) = Len(c) /\ lines \in Seq(Lines)
        /\ \A k \in 1 .. Len(lines) : lines[k] = c[r.off + k]
        /\ lossy' = lossy
    <3>1. r = Head(queue) /\ r.off + Len(lines) = Len(c)
      BY <2>1 DEF TakesLines
    <3> QED BY <2>1, <3>1 DEF TakesLines
  <2>3. Handled \cup Range(lines) \subseteq Handled'
    BY <1>1, <2>1, ReadIsHandled
  <2>4. Len(lines) \in Nat /\ \A k \in 1 .. Len(lines) : lines[k] \in Range(lines)
    BY <2>2, RangeIs
  <2> HIDE DEF c
  <2>5. \A k \in 1 .. Len(c) : k \in 1 .. r.off \/ (k - r.off \in 1 .. Len(lines) /\ k = r.off + (k - r.off))
    BY <1>2, <2>2, <2>4
  <2>6. r.off <= Len(c)
    BY <1>2, <2>2, <2>4
  <2>7. \A k \in 1 .. Len(c) : c[k] \in Handled'
    BY <1>4, <2>2, <2>3, <2>4, <2>5, <2>6
  <2> QED BY <1>3, <2>7 DEF c
<1>13. CASE ReadsAnother
  <2>1. PICK lines : TakesOthers(lines)
    BY <1>1, <1>13, ReadsAnotherStep
  <2>2. \E x \in Range(queue') : x.ino = r.ino
    BY <2>1 DEF TakesOthers
  <2> QED BY <2>2
<1>10. CASE DropsReader \/ LosesReaders
  <2> DEFINE h == Head(queue)
  <2>1. /\ h.deleted /\ lossy' = lossy /\ UNCHANGED <<pending, sender>>
    BY <1>10 DEF DropsReader, LosesReaders
  <2>2. h \in Range(queue) /\ h \in Reader /\ h.ino \in Inodes /\ h.off \in Nat
    BY <1>2, Ends, ReaderFields
  <2>3. Source = h.ino /\ h.ino # NoFile
    <3>1. h.ino \in linked
      <4>1. linked = 1 .. Newest /\ Newest \in Nat
        BY <1>1 DEF FilesInOrder, FileTypeOK, FaultKinds, Newest
      <4>2. h.ino \in Nat \ {0} /\ h.ino <= Newest
        BY <1>2, <2>2, InodesAreNumbers
      <4> HIDE DEF Newest
      <4> QED BY <4>1, <4>2
    <3> QED BY <2>1, <2>2, <3>1, InodesAreNumbers DEF Source
  <2>4. DropsReader /\ Unread = <<>>
    BY <1>10, <2>3 DEF LosesReaders, DropsReader
  <2>5. r = h
    <3>1. Len(queue) = 1 => Range(queue) \subseteq {h}
      BY <1>2, Ends
    <3>2. Len(queue) # 1 => queue' = Tail(queue)
      BY <2>4 DEF DropsReader
    <3>3. \A q \in Range(queue) : q = h \/ q \in Range(Tail(queue))
      BY <1>2, TailKeeps
    <3> QED BY <3>1, <3>2, <3>3
  <2>6. Len(c) <= r.off
    <3>1. Unread = SubSeq(c, r.off + 1, Len(c))
      BY <2>3, <2>5 DEF Unread
    <3> HIDE DEF c
    <3>2. Len(SubSeq(c, r.off + 1, Len(c))) = IF r.off < Len(c) THEN Len(c) - r.off ELSE 0
      BY <1>2, <1>3, SuffixProperties
    <3>3. Len(SubSeq(c, r.off + 1, Len(c))) = 0
      <4>1. SubSeq(c, r.off + 1, Len(c)) = <<>>
        BY <2>4, <3>1
      <4> HIDE DEF h
      <4> QED BY <4>1, EmptySeq
    <3> QED BY <1>2, <1>3, <3>2, <3>3
  <2>7. r.off <= Len(c) \/ c = <<>>
    BY <1>0, <1>1, <1>2, <2>1, <2>5 DEF ReadersInOrder
  <2>8. Handled' = Handled
    BY <2>1 DEF Handled
  <2>9. CASE c = <<>>
    BY <2>9, EmptyKeeps
  <2>10. CASE r.off <= Len(c)
    <3> HIDE DEF c
    <3>1. r.off = Len(c)
      BY <1>2, <1>3, <2>6, <2>10
    <3>2. \A k \in 1 .. Len(c) : c[k] \in Handled
      BY <1>4, <2>1, <2>10, <3>1
    <3> QED BY <1>3, <2>8, <3>2 DEF c
  <2> QED BY <2>7, <2>9, <2>10
<1>11. CASE \/ Writes \/ RenamesAway \/ Creates \/ Truncates \/ Removes
            \/ ReadsNothing \/ ReadFails \/ PollStarts \/ Wakes
            \/ Stops \/ Drains \/ GivesUp \/ FlushStarts \/ (\E ok \in BOOLEAN : SliceDone(ok))
  <2>1. queue' = queue
    BY <1>6, <1>11 DEF Writes, RenamesAway, Creates, Truncates, Removes, ReadsNothing, ReadFails,
                       PollStarts, Wakes, Stops, Drains, GivesUp, FlushStarts, SliceDone
  <2> QED BY <1>7, <2>1
<1>12. CASE Starts \/ Crash
  BY <1>12 DEF Starts, Crash
<1> QED BY <1>13, <1>8, <1>9, <1>10, <1>11, <1>12 DEF FileNext, Owner, Tailer, Pipeline

-----------------------------------------------------------------------------
(* The results.                                                            *)

LEMMA InitSound == FileInit => FileInv /\ NothingSkipped
<1> SUFFICES ASSUME FileInit
             PROVE  FileInv /\ NothingSkipped
  OBVIOUS
<1> USE DEF FileInit
<1>1. /\ <<>> \in Seq(Lines) /\ <<>> \in Seq(Inodes) /\ <<>> \in Seq(Reader) /\ Len(<<>>) = 0
      /\ DOMAIN <<>> = {} /\ Range(<<>>) = {}
  BY EmptySeq, EmptyKeeps
<1>2. IsPrefix(<<>>, <<>>)
  <2>1. Prefix(<<>>, 0) = <<>>
    BY DEF Prefix
  <2>2. IsPrefix(Prefix(<<>>, 0), <<>>)
    BY <1>1, PrefixIsPrefix
  <2> QED BY <2>1, <2>2
<1>3. faults \in [FaultKinds -> Nat] /\ faults.rotation = 0 /\ faults.crash = 0 /\ Newest = 1
  BY DEF FaultKinds, Newest
<1>4. content \in [Inodes -> Seq(Lines)] /\ cur \in Inodes /\ linked \subseteq Inodes
  BY <1>1, InodesAreNumbers
<1>5. taken \in [Lines -> Nat] /\ \A l \in Lines : taken[l] = 0
  BY DEF NotTaken
<1>6. Len(queue) <= MaxReaders /\ tries \in 0 .. MaxAttempts /\ starts \in 0 .. MaxStarts
  BY <1>1, Limits
<1>7. FileTypeOK
  BY <1>1, <1>2, <1>3, <1>4, <1>5, <1>6 DEF FileTypeOK
<1>8. FilesInOrder
  <2>1. linked = 1 .. Newest
    BY <1>3
  <2>2. \A i \in Inodes : DOMAIN content[i] = {}
    BY <1>1
  <2>3. DOMAIN owner = {} /\ cur = Newest
    BY <1>1, <1>3
  <2> QED BY <2>1, <2>2, <2>3 DEF FilesInOrder
<1>9. ReadersInOrder
  BY <1>1 DEF ReadersInOrder
<1>10. StoppedIsSettled
  BY <1>1 DEF StoppedIsSettled, Checkpoints
<1>11. FreshIsLater
  <2>1. \A m \in Lines : ~Received(m)
    BY <1>1, <1>5 DEF Received
  <2> QED BY <1>1, <2>1 DEF FreshIsLater
<1>12. WaitingInOrder
  BY <1>1, <1>7, WaitingMeans, NoneAscends
<1>13. TakenOnce
  BY <1>5 DEF TakenOnce
<1>14. NothingSkipped
  BY <1>1 DEF NothingSkipped
<1> QED BY <1>7, <1>8, <1>9, <1>10, <1>11, <1>12, <1>13, <1>14 DEF FileInv

LEMMA StepSound ==
    ASSUME FileInv, NothingSkipped, [FileNext]_vars
    PROVE  FileInv' /\ NothingSkipped'
<1>1. /\ FileTypeOK /\ FilesInOrder /\ ReadersInOrder /\ StoppedIsSettled
      /\ FreshIsLater /\ WaitingInOrder /\ TakenOnce
  BY DEF FileInv
<1>2. CASE FileNext
  <2>1. Moves
    BY <1>1, <1>2, NextMoves
  <2>2. FileTypeOK' /\ FilesInOrder' /\ ReadersInOrder' /\ StoppedIsSettled' /\ FreshIsLater' /\ TakenOnce'
    BY <1>1, <2>1, TypeStep, FilesStep, ReadersStep, StoppedStep, FreshStep, TakenStep
  <2>3. WaitingInOrder' /\ NothingSkipped'
    BY <1>1, <2>1, <2>2, WaitingStep, SkipStep
  <2> QED BY <2>2, <2>3 DEF FileInv
<1>3. CASE UNCHANGED vars
  <2> USE <1>3 DEF vars, files, cycle, sender, history, life
  <2>1. FileTypeOK'
    BY <1>1 DEF FileTypeOK
  <2>2. FilesInOrder' /\ ReadersInOrder'
    BY <1>1 DEF FilesInOrder, ReadersInOrder, Newest
  <2>3. StoppedIsSettled'
    BY <1>1 DEF StoppedIsSettled, Checkpoints
  <2>4. FreshIsLater'
    BY <1>1 DEF FreshIsLater, Fresh, Received
  <2>5. WaitingInOrder' /\ TakenOnce'
    BY <1>1 DEF WaitingInOrder, TakenOnce
  <2>6. NothingSkipped'
    BY DEF NothingSkipped, Prefix, Handled
  <2> QED BY <2>1, <2>2, <2>3, <2>4, <2>5, <2>6 DEF FileInv
<1> QED BY <1>2, <1>3

\* FileInv: a pipeline's readers follow the files in order, each line is taken
\* once and waits in the order of writing, until a file is read a second time
\* (`again`), also by the reader of the file it replaced between a check and a
\* read; a stop leaves only what is settled (file-tailer.ts, file-sls-sender.ts,
\* file-pipeline.ts).
THEOREM PipelineSound == FileSpec => []FileInv
<1> DEFINE Inv == FileInv /\ NothingSkipped
<1>1. FileInit => Inv
  BY InitSound
<1>2. Inv /\ [FileNext]_vars => Inv'
  BY StepSound
<1>3. Inv => FileInv
  OBVIOUS
<1> QED BY <1>1, <1>2, <1>3, PTL DEF FileSpec

\* NothingSkipped: no offset, of a reader or of a saved checkpoint, passes a line that is not
\* sent, counted as failed, or in the memory of the pipeline -- until lines died with the memory
\* (`lossy`), and but for files whose reader read the file that replaced its own (`misread`).
THEOREM OffsetsPassOnlyHandledLines == FileSpec => []NothingSkipped
<1> DEFINE Inv == FileInv /\ NothingSkipped
<1>1. FileInit => Inv
  BY InitSound
<1>2. Inv /\ [FileNext]_vars => Inv'
  BY StepSound
<1>3. Inv => NothingSkipped
  OBVIOUS
<1> QED BY <1>1, <1>2, <1>3, PTL DEF FileSpec

\* RotatedIsRead: a reader leaves its path's queue only when each line of its
\* file is in the pipeline, sent or counted as failed -- unless a fault, an
\* overflow of the queue, a stop or a crash took it, or it had read the file that
\* replaced its own (`misread`, file-tailer.ts).
THEOREM RotatedFilesAreReadToTheEnd == FileSpec => RotatedIsRead
<1> DEFINE Inv == FileInv /\ NothingSkipped
           Step == \A r \in Range(queue) :
                      (/\ \A q \in Range(queue') : q.ino # r.ino
                       /\ pipe # "off" /\ pipe' # "off" /\ ~lossy'
                       /\ faults' = faults /\ faults.removal = 0 /\ r.ino \notin misread'
                       /\ Len(queue') < MaxReaders)
                      => Range(content[r.ino]) \subseteq Handled'
<1>1. FileInit => Inv
  BY InitSound
<1>2. Inv /\ [FileNext]_vars => Inv'
  BY StepSound
<1>3. Inv /\ [FileNext]_vars => [Step]_vars
  BY DropStep
<1> QED BY <1>1, <1>2, <1>3, PTL DEF FileSpec, RotatedIsRead
=============================================================================
