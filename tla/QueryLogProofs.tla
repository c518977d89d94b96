--------------------------- MODULE QueryLogProofs ---------------------------
(***************************************************************************)
(* Proofs about QueryLog, for any set of clients, any size of the ring, of *)
(* the queue and of the file, any number of reloads and crashes, and file  *)
(* operations that fail.                                                   *)
(* LogInv is inductive; CloseFlushes and IDsUnique follow from it, and, by *)
(* the lemmas on the loops of GetLogs, what the pages of a search show.    *)
(***************************************************************************)
EXTENDS QueryLog, BoundedSets, SequenceTheorems

-----------------------------------------------------------------------------
(* Sequences of entries: the queue and the file.                           *)

\* What a line of the file is: a whole entry, or one that does not parse.
LineSet == Entries \cup {Garbled}

\* What a channel or the file holds after one more entry.
LEMMA AppendedEntries ==
    ASSUME NEW S, NEW s \in Seq(S), NEW e \in S
    PROVE  /\ Append(s, e) \in Seq(S) /\ Len(Append(s, e)) = Len(s) + 1
           /\ Lines(Append(s, e)) = Lines(s) \cup {e}
           /\ IDsOf(Append(s, e)) = IDsOf(s) \cup ({e.id} \ {0})
           /\ Differ(s) /\ e.id \notin IDsOf(s) => Differ(Append(s, e))
<1> DEFINE t == Append(s, e)
           n == Len(s)
<1>1. /\ t \in Seq(S) /\ n \in Nat /\ Len(t) = n + 1
      /\ \A i \in 1 .. n : t[i] = s[i]
      /\ t[n + 1] = e
  BY AppendProperties, LenProperties
<1> HIDE DEF t
<1>2. 1 .. Len(t) = (1 .. n) \cup {n + 1}
  BY <1>1
<1>3. Lines(t) = Lines(s) \cup {e}
  BY <1>1, <1>2 DEF Lines
<1>4. IDsOf(t) = IDsOf(s) \cup ({e.id} \ {0})
  BY <1>1, <1>2 DEF IDsOf
<1>5. ASSUME Differ(s), e.id \notin IDsOf(s) PROVE Differ(t)
  <2>1. \A i \in 1 .. n : t[i].id = t[n + 1].id => t[i].id = 0
    BY <1>1, <1>5 DEF IDsOf
  <2> QED
    BY <1>1, <1>2, <1>5, <2>1 DEF Differ
<1> QED
  BY <1>1, <1>3, <1>4, <1>5 DEF t

\* What a receive takes from a channel, and what it leaves.
LEMMA TakenEntry ==
    ASSUME NEW s \in Seq(Entries), s # << >>
    PROVE  /\ Head(s) \in Entries
           /\ Tail(s) \in Seq(Entries) /\ Len(Tail(s)) = Len(s) - 1
           /\ Lines(s) = Lines(Tail(s)) \cup {Head(s)}
           /\ IDsOf(s) = IDsOf(Tail(s)) \cup {Head(s).id}
           /\ Differ(s) => Differ(Tail(s)) /\ Head(s).id \notin IDsOf(Tail(s))
<1> DEFINE t == Tail(s)
           n == Len(t)
<1>1. /\ t \in Seq(Entries) /\ n \in Nat /\ Len(s) = n + 1
      /\ \A i \in 1 .. n : t[i] = s[i + 1]
      /\ Head(s) = s[1] /\ Head(s) \in Entries
  BY HeadTailProperties, LenProperties, EmptySeq
<1> HIDE DEF t
<1>2. \A j \in 1 .. Len(s) : j = 1 \/ (j - 1 \in 1 .. n /\ s[j] = t[j - 1])
  BY <1>1
<1>3. \A i \in 1 .. n : i + 1 \in 1 .. Len(s) /\ i + 1 # 1
  BY <1>1
<1>4. 1 \in 1 .. Len(s)
  BY <1>1
<1>5. Lines(s) = Lines(t) \cup {Head(s)}
  <2>1. \A j \in 1 .. Len(s) : s[j] \in Lines(t) \cup {Head(s)}
    BY <1>1, <1>2 DEF Lines
  <2>2. \A i \in 1 .. n : t[i] \in Lines(s)
    BY <1>1, <1>3 DEF Lines
  <2>3. Head(s) \in Lines(s)
    BY <1>1, <1>4 DEF Lines
  <2> QED
    BY <2>1, <2>2, <2>3 DEF Lines
<1>a. \A i \in 1 .. Len(s) : s[i].id # 0
  <2>1. \A i \in 1 .. Len(s) : s[i] \in Entries
    BY ElementOfSeq
  <2>2. \A i \in 1 .. Len(s) : s[i].id \in 1 .. MaxLogs
    BY <2>1 DEF Entries
  <2>3. \A k \in 1 .. MaxLogs : k # 0
    BY QueryLogAssumption
  <2> QED
    BY <2>2, <2>3
<1>6. IDsOf(s) = IDsOf(t) \cup {Head(s).id}
  <2>1. \A i \in 1 .. Len(s) : s[i].id = Head(s).id \/ \E j \in 1 .. n : s[i].id = t[j].id
    BY <1>1, <1>2
  <2>2. \A j \in 1 .. n : \E i \in 1 .. Len(s) : t[j].id = s[i].id
    BY <1>1, <1>3
  <2>3. \E i \in 1 .. Len(s) : s[i].id = Head(s).id
    BY <1>1, <1>4
  <2>4. Head(s).id # 0 /\ n = Len(t)
    BY <1>1, <1>4, <1>a
  <2>5. IDsOf(s) \subseteq IDsOf(t) \cup {Head(s).id}
    BY <2>1, <2>4 DEF IDsOf
  <2>6. IDsOf(t) \cup {Head(s).id} \subseteq IDsOf(s)
    BY <2>2, <2>3, <2>4 DEF IDsOf
  <2> QED
    BY <2>5, <2>6
<1>7. ASSUME Differ(s) PROVE Differ(t) /\ Head(s).id \notin IDsOf(t)
  <2>1. \A i \in 1 .. n : t[i].id # Head(s).id
    BY <1>1, <1>3, <1>4, <1>7, <1>a DEF Differ
  <2>2. ASSUME NEW i \in 1 .. n, NEW j \in 1 .. n, t[i].id = t[j].id PROVE i = j
    <3> i + 1 \in 1 .. Len(s) /\ j + 1 \in 1 .. Len(s)
      BY <1>3
    <3> s[i + 1].id = s[j + 1].id
      BY <1>1, <2>2
    <3>1. i + 1 = j + 1
      BY <1>7, <1>a DEF Differ
    <3> QED
      BY <1>1, <3>1
  <2> QED
    BY <2>1, <2>2 DEF Differ, IDsOf
<1> QED
  BY <1>1, <1>5, <1>6, <1>7 DEF t

\* The last lines of the file.
LEMMA LastEntries ==
    ASSUME NEW S, NEW s \in Seq(S), NEW k \in 0 .. Len(s)
    PROVE  LET t == SubSeq(s, Len(s) - k + 1, Len(s)) IN
           /\ t \in Seq(S) /\ Len(t) = k
           /\ Lines(t) \subseteq Lines(s) /\ IDsOf(t) \subseteq IDsOf(s)
           /\ Differ(s) => Differ(t)
<1> DEFINE n == Len(s)
           m == n - k
           t == SubSeq(s, m + 1, n)
<1>1. n \in Nat /\ m \in Nat /\ m + 1 \in 1 .. n + 1
  BY LenProperties
<1>2. t \in Seq(S) /\ Len(t) = k
      /\ \A i \in 1 .. k : t[i] = s[m + i]
  <2>1. Len(t) = IF m + 1 <= n THEN n - (m + 1) + 1 ELSE 0
    BY <1>1, SubSeqProperties
  <2>2. \A i \in 1 .. n - (m + 1) + 1 : t[i] = s[(m + 1) + i - 1]
    BY <1>1, SubSeqProperties
  <2>3. t \in Seq(S)
    BY <1>1, SubSeqProperties
  <2>4. n - (m + 1) + 1 = k /\ \A i \in 1 .. k : (m + 1) + i - 1 = m + i
    BY <1>1
  <2> QED
    BY <1>1, <2>1, <2>2, <2>3, <2>4
<1>3. \A i \in 1 .. k : m + i \in 1 .. n
  BY <1>1
<1> HIDE DEF t, m
<1>4. Lines(t) \subseteq Lines(s) /\ IDsOf(t) \subseteq IDsOf(s)
  BY <1>2, <1>3 DEF Lines, IDsOf
<1>5. ASSUME Differ(s), NEW i \in 1 .. k, NEW j \in 1 .. k, t[i].id = t[j].id,
             t[i].id # 0
      PROVE  i = j
  <2>1. m + i = m + j
    BY <1>2, <1>3, <1>5 DEF Differ
  <2> QED
    BY <1>1, <2>1
<1>6. Differ(s) => Differ(t)
  BY <1>2, <1>5 DEF Differ
<1>7. t = SubSeq(s, Len(s) - k + 1, Len(s))
  BY DEF t, m
<1> QED
  BY <1>2, <1>4, <1>6, <1>7

\* The first lines of the file.
LEMMA FirstEntries ==
    ASSUME NEW S, NEW s \in Seq(S), NEW k \in 0 .. Len(s)
    PROVE  LET t == SubSeq(s, 1, k) IN
           /\ t \in Seq(S) /\ Len(t) = k
           /\ \A i \in 1 .. k : t[i] = s[i]
           /\ k = Len(s) => t = s
<1>1. Len(s) \in Nat /\ k \in Nat
  BY LenProperties
<1>2. /\ SubSeq(s, 1, k) \in Seq(S)
      /\ Len(SubSeq(s, 1, k)) = IF 1 <= k THEN k - 1 + 1 ELSE 0
      /\ \A i \in 1 .. k - 1 + 1 : SubSeq(s, 1, k)[i] = s[1 + i - 1]
  BY <1>1, SubSeqProperties
<1>3. /\ Len(SubSeq(s, 1, k)) = k
      /\ \A i \in 1 .. k : SubSeq(s, 1, k)[i] = s[i]
  BY <1>1, <1>2
<1>4. k = Len(s) => SubSeq(s, 1, k) = s
  BY <1>2, <1>3, SeqEqual
<1> QED
  BY <1>2, <1>3, <1>4

\* A line that does not parse, in front of others.
LEMMA GarbledFirst ==
    ASSUME NEW s \in Seq(LineSet)
    PROVE  LET t == <<Garbled>> \o s IN
           /\ t \in Seq(LineSet) /\ Len(t) = Len(s) + 1
           /\ IDsOf(t) \subseteq IDsOf(s)
           /\ Differ(s) => Differ(t)
<1> DEFINE t == <<Garbled>> \o s
           n == Len(s)
<1>1. Garbled \in LineSet /\ Garbled.id = 0 /\ n \in Nat
  BY LenProperties DEF LineSet, Garbled
<1>2. /\ t \in Seq(LineSet) /\ Len(t) = n + 1 /\ t[1] = Garbled
      /\ \A i \in 2 .. n + 1 : t[i] = s[i - 1]
  <2>1. <<Garbled>> \in Seq(LineSet) /\ Len(<<Garbled>>) = 1
    BY <1>1
  <2>2. t \in Seq(LineSet) /\ Len(t) = 1 + n
    BY <1>1, <2>1, ConcatProperties
  <2>3. \A i \in 1 .. 1 + n : t[i] = IF i <= 1 THEN <<Garbled>>[i] ELSE s[i - 1]
    BY <1>1, <2>1, ConcatProperties
  <2> QED
    BY <1>1, <2>2, <2>3
<1> HIDE DEF t
<1>3. \A i \in 1 .. n + 1 : i = 1 \/ (i \in 2 .. n + 1 /\ i - 1 \in 1 .. n)
  BY <1>1
<1>4. IDsOf(t) \subseteq IDsOf(s)
  BY <1>1, <1>2, <1>3 DEF IDsOf
<1>5. ASSUME Differ(s), NEW i \in 1 .. n + 1, NEW j \in 1 .. n + 1, t[i].id = t[j].id,
             t[i].id # 0
      PROVE  i = j
  <2>1. i - 1 \in 1 .. n /\ j - 1 \in 1 .. n /\ t[i] = s[i - 1] /\ t[j] = s[j - 1]
    BY <1>1, <1>2, <1>3, <1>5
  <2>2. i - 1 = j - 1
    BY <1>5, <2>1 DEF Differ
  <2> QED
    BY <1>1, <2>2
<1>6. Differ(s) => Differ(t)
  BY <1>2, <1>5 DEF Differ
<1>7. t = <<Garbled>> \o s
  BY DEF t
<1> QED
  BY <1>2, <1>4, <1>6, <1>7

\* An empty channel or file.
LEMMA NoEntries ==
    /\ << >> \in Seq(Entries) /\ << >> \in Seq(LineSet) /\ Len(<< >>) = 0
    /\ Lines(<< >>) = {} /\ IDsOf(<< >>) = {} /\ Differ(<< >>)
    BY EmptySeq DEF Lines, IDsOf, Differ

-----------------------------------------------------------------------------
(* The highest ID in the file.                                             *)

\* The ID that a new logger begins with is above all in the lines it has read.
LEMMA RestoredAbove ==
    ASSUME NEW f \in Seq(LineSet)
    PROVE  RestoredID(f) \in 1 .. MaxLogs + 1 /\ \A n \in IDsOf(f) : n < RestoredID(f)
<1> DEFINE P(n) == /\ \A e \in Lines(f) : e.id < n
                   /\ n = 1 \/ \E e \in Lines(f) : e.id = n - 1
<1>1. MaxLogs \in Nat /\ IDsOf(f) = {e.id : e \in Lines(f)} \ {0}
  BY QueryLogAssumption DEF IDsOf, Lines
<1>2. \A e \in Lines(f) : e.id \in 0 .. MaxLogs
  <2>1. \A i \in 1 .. Len(f) : f[i] \in LineSet
    BY ElementOfSeq
  <2>2. \A e \in Lines(f) : e \in LineSet
    BY <2>1 DEF Lines
  <2> QED
    BY <1>1, <2>2 DEF Entries, LineSet, Garbled
<1>3. \E n \in 1 .. MaxLogs + 1 : P(n)
  <2>1. CASE IDsOf(f) = {}
    <3>0. 1 \in 1 .. MaxLogs + 1
      BY <1>1
    <3>1. \A e \in Lines(f) : e.id = 0
      BY <1>1, <2>1, Zenon
    <3>2. P(1)
      BY <3>1
    <3> QED
      BY <3>0, <3>2
  <2>2. CASE IDsOf(f) # {}
    <3>1. IDsOf(f) \in SUBSET (0 .. MaxLogs)
      BY <1>1, <1>2
    <3>2. PICK m \in IDsOf(f) : \A x \in IDsOf(f) : x <= m
      BY <1>1, <2>2, <3>1, Highest
    <3>3. PICK d \in Lines(f) : d.id = m
      BY <1>1, <3>2
    <3>4. m \in 1 .. MaxLogs
      BY <1>1, <1>2, <3>2, <3>3
    <3>5. \A e \in Lines(f) : e.id < m + 1
      <4> TAKE e \in Lines(f)
      <4>1. CASE e.id = 0
        BY <3>4, <4>1
      <4>2. CASE e.id # 0
        <5>1. e.id \in IDsOf(f) /\ e.id \in 0 .. MaxLogs
          BY <1>1, <1>2, <4>2
        <5> QED
          BY <3>2, <3>4, <5>1
      <4> QED
        BY <4>1, <4>2
    <3>6. m + 1 \in 1 .. MaxLogs + 1 /\ (m + 1) - 1 = m
      BY <1>1, <3>4
    <3> QED
      BY <3>3, <3>5, <3>6
  <2> QED
    BY <2>1, <2>2
<1>4. RestoredID(f) = CHOOSE n \in 1 .. MaxLogs + 1 : P(n)
  BY DEF RestoredID
<1>5. RestoredID(f) \in 1 .. MaxLogs + 1 /\ P(RestoredID(f))
  <2> HIDE DEF P
  <2> QED
    BY <1>3, <1>4
<1>6. \A n \in IDsOf(f) : n < RestoredID(f)
  BY <1>1, <1>5
<1> QED
  BY <1>5, <1>6

-----------------------------------------------------------------------------
(* The ring.                                                               *)

\* Where logAt finds an entry, before and after the start moves on.
LEMMA RingIndex ==
    ASSUME NEW M \in Nat \ {0}, NEW s \in 0 .. M - 1, NEW i \in 0 .. M - 1
    PROVE  /\ (s + i) % M \in 0 .. M - 1 /\ (s + 1) % M \in 0 .. M - 1
           /\ (s + 0) % M = s
           /\ i # 0 => (s + i) % M # s
<1>1. \A x \in 0 .. M - 1 : x % M = x
  OBVIOUS
<1>2. \A x \in M .. 2 * M - 1 : x % M = x - M
  OBVIOUS
<1>3. \A x \in 0 .. 2 * M - 1 : x % M = IF x < M THEN x ELSE x - M
  BY <1>1, <1>2
<1>4. /\ s + i \in 0 .. 2 * M - 1 /\ s + 1 \in 0 .. 2 * M - 1
      /\ s + 0 \in 0 .. 2 * M - 1 /\ s + 0 = s /\ s < M
  OBVIOUS
<1>5. /\ (s + i) % M = IF s + i < M THEN s + i ELSE s + i - M
      /\ (s + 1) % M = IF s + 1 < M THEN s + 1 ELSE s + 1 - M
      /\ (s + 0) % M = s
  BY <1>3, <1>4
<1> QED
  BY <1>5

\* The entry number i, when the start has moved on.
LEMMA RingNext ==
    ASSUME NEW M \in Nat \ {0}, NEW s \in 0 .. M - 1, NEW i \in 0 .. M - 1
    PROVE  /\ i = M - 1 => (((s + 1) % M) + i) % M = s
           /\ i # M - 1 => (((s + 1) % M) + i) % M = (s + (i + 1)) % M
<1>1. \A x \in 0 .. M - 1 : x % M = x
  OBVIOUS
<1>2. \A x \in M .. 2 * M - 1 : x % M = x - M
  OBVIOUS
<1>3. \A x \in 0 .. 2 * M - 1 : x % M = IF x < M THEN x ELSE x - M
  BY <1>1, <1>2
<1>4. s + 1 \in 0 .. 2 * M - 1 /\ s < M
  OBVIOUS
<1>5. (s + 1) % M = IF s + 1 < M THEN s + 1 ELSE s + 1 - M
  BY <1>3, <1>4
<1>6. (s + 1) % M \in 0 .. M - 1
  BY <1>5
<1>8. /\ i = M - 1 => (((s + 1) % M) + i) % M = s
      /\ i # M - 1 => (((s + 1) % M) + i) % M = (s + (i + 1)) % M
  <2> DEFINE t == (s + 1) % M
  <2>1. t = IF s + 1 < M THEN s + 1 ELSE 0
    BY <1>5
  <2>2. t + i \in 0 .. 2 * M - 1 /\ t \in 0 .. M - 1
    BY <1>6
  <2> HIDE DEF t
  <2>3. (t + i) % M = IF t + i < M THEN t + i ELSE t + i - M
    BY <1>3, <2>2
  <2>4. CASE i = M - 1
    BY <2>1, <2>3, <2>4
  <2>5. CASE i # M - 1
    <3>1. s + (i + 1) \in 0 .. 2 * M - 1
      BY <2>5
    <3>2. (s + (i + 1)) % M = IF s + (i + 1) < M THEN s + (i + 1) ELSE s + (i + 1) - M
      BY <1>3, <3>1
    <3> QED
      BY <2>1, <2>3, <2>5, <3>2
  <2> QED
    BY <2>4, <2>5 DEF t
<1> QED
  BY <1>8

Ring == RingStart /\ RingHoldsNewest /\ TopMatchesRing

\* The types of what l.mu protects.
MemoryTypes ==
    /\ nextID \in 1 .. MaxLogs + 1
    /\ logs \in Seq(Records) /\ Len(logs) <= MaxHistory
    /\ logsStart \in 0 .. MaxHistory - 1
    /\ top \in [Clients -> Nat]

\* The entries of client c.
Of(c, s) == {i \in 1 .. Len(s) : s[i].client = c}

\* A number of entries is a natural number, and counts one more with one more.
LEMMA Counting ==
    ASSUME NEW s \in Seq(Records), NEW c \in Clients
    PROVE  /\ IsFiniteSet(Of(c, s)) /\ Cardinality(Of(c, s)) \in Nat
           /\ \A i : Cardinality(Of(c, s) \cup {i})
                     = Cardinality(Of(c, s)) + (IF i \in Of(c, s) THEN 0 ELSE 1)
           /\ \A i : /\ IsFiniteSet(Of(c, s) \ {i})
                     /\ Cardinality(Of(c, s) \ {i})
                        = Cardinality(Of(c, s)) - (IF i \in Of(c, s) THEN 1 ELSE 0)
<1>1. IsFiniteSet(1 .. Len(s))
  BY FS_Interval, LenProperties
<1>2. IsFiniteSet(Of(c, s))
  BY <1>1, FS_Subset DEF Of
<1>3. Cardinality(Of(c, s)) \in Nat
  BY <1>2, FS_CardinalityType
<1> DEFINE S == Of(c, s)
<1> HIDE DEF S
<1>4. \A i : Cardinality(S \cup {i}) = Cardinality(S) + (IF i \in S THEN 0 ELSE 1)
  <2> TAKE i
  <2>1. Cardinality(S \cup {i}) = IF i \in S THEN Cardinality(S) ELSE Cardinality(S) + 1
    BY <1>2, FS_AddElement DEF S
  <2> QED
    BY <1>3, <2>1 DEF S
<1>5. \A i : /\ IsFiniteSet(S \ {i})
             /\ Cardinality(S \ {i}) = Cardinality(S) - (IF i \in S THEN 1 ELSE 0)
  <2> TAKE i
  <2>1. /\ IsFiniteSet(S \ {i})
        /\ Cardinality(S \ {i}) = IF i \in S THEN Cardinality(S) - 1 ELSE Cardinality(S)
    BY <1>2, FS_RemoveElement DEF S
  <2> QED
    BY <1>3, <2>1 DEF S
<1> QED
  BY <1>2, <1>3, <1>4, <1>5 DEF S

\* A request adds its entry to a ring that is not full.
LEMMA GrowStep ==
    ASSUME MemoryTypes, Ring, nextID <= MaxLogs, NEW k \in Clients,
           AddToMemory([id |-> nextID, client |-> k]), nextID' = nextID + 1,
           Len(logs) < MaxHistory
    PROVE  MemoryTypes' /\ Ring'
<1> DEFINE r == [id |-> nextID, client |-> k]
           n == Len(logs)
<1>0. /\ MaxHistory \in Nat \ {0} /\ MaxLogs \in Nat
      /\ nextID \in Nat /\ nextID' \in 1 .. MaxLogs + 1
  BY QueryLogAssumption DEF MemoryTypes
<1>1. r \in Records /\ r.id = nextID /\ r.client = k
  BY DEF MemoryTypes, Records
<1>2. logs' = Append(logs, r) /\ logsStart' = logsStart /\ top' = Counted(r)
  BY DEF AddToMemory
<1>3. logsStart = 0 /\ logs \in Seq(Records) /\ n \in Nat /\ n < MaxHistory
  BY LenProperties DEF Ring, RingStart, MemoryTypes
<1> HIDE DEF r
<1>4. /\ logs' \in Seq(Records) /\ Len(logs') = n + 1
      /\ \A i \in 1 .. n : logs'[i] = logs[i]
      /\ logs'[n + 1] = r
  BY <1>1, <1>2, <1>3, AppendProperties
<1>5. RingStart'
  BY <1>2, <1>3 DEF RingStart
<1>6. RingHoldsNewest'
  <2> SUFFICES ASSUME NEW i \in 0 .. n
               PROVE  logs'[((logsStart' + i) % Len(logs')) + 1].id = nextID' - Len(logs') + i
    BY <1>3, <1>4 DEF RingHoldsNewest, LogAt
  <2>1. i % (n + 1) = i
    BY <1>3
  <2>2. logs'[((logsStart' + i) % Len(logs')) + 1] = logs'[i + 1]
    BY <1>2, <1>3, <1>4, <2>1
  <2>3. CASE i = n
    BY <1>0, <1>1, <1>3, <1>4, <2>2, <2>3
  <2>4. CASE i # n
    <3>1. i \in 0 .. n - 1 /\ i + 1 \in 1 .. n /\ i % n = i /\ 0 + i = i
      BY <1>3, <2>4
    <3>2. logs[i + 1].id = nextID - n + i
      BY <1>3, <3>1 DEF Ring, RingHoldsNewest, LogAt
    <3>3. nextID - n + i = nextID' - Len(logs') + i
      BY <1>0, <1>3, <1>4, <3>1
    <3> QED
      BY <1>4, <2>2, <3>1, <3>2, <3>3
  <2> QED
    BY <2>3, <2>4
<1>7. ASSUME NEW c \in Clients
      PROVE  top'[c] = Cardinality(Of(c, logs')) /\ top'[c] \in Nat
  <2>1. top'[c] = top[c] + (IF c = k THEN 1 ELSE 0)
    <3>1. top'[c] = top[c] + (IF c = k THEN 1 ELSE 0) - 0
      BY <1>1, <1>2, <1>3 DEF Counted
    <3>2. top[c] \in Nat
      BY DEF MemoryTypes
    <3> QED
      BY <3>1, <3>2
  <2>2. Of(c, logs') = IF c = k THEN Of(c, logs) \cup {n + 1} ELSE Of(c, logs)
    <3>1. 1 .. Len(logs') = (1 .. n) \cup {n + 1}
      BY <1>3, <1>4
    <3> QED
      BY <1>1, <1>4, <3>1 DEF Of
  <2>3. n + 1 \notin Of(c, logs)
    BY <1>3 DEF Of
  <2>4. top[c] = Cardinality(Of(c, logs))
    BY DEF Ring, TopMatchesRing, Of
  <2>5. Cardinality(Of(c, logs')) = top[c] + (IF c = k THEN 1 ELSE 0) /\ top[c] \in Nat
    BY <1>3, <2>2, <2>3, <2>4, Counting
  <2> QED
    BY <2>1, <2>5
<1>8. TopMatchesRing'
  BY <1>7 DEF TopMatchesRing, Of
<1>9. MemoryTypes'
  <2>1. top' \in [Clients -> Nat]
    <3>1. top' = [c \in Clients |-> top'[c]]
      BY <1>2 DEF Counted
    <3> QED
      BY <1>7, <3>1
  <2>2. Len(logs') <= MaxHistory
    BY <1>0, <1>3, <1>4
  <2> QED
    BY <1>0, <1>2, <1>4, <2>1, <2>2 DEF MemoryTypes
<1> QED
  BY <1>5, <1>6, <1>8, <1>9 DEF Ring

\* A request overwrites the oldest entry of a full ring.
LEMMA OverwriteStep ==
    ASSUME MemoryTypes, Ring, nextID <= MaxLogs, NEW k \in Clients,
           AddToMemory([id |-> nextID, client |-> k]), nextID' = nextID + 1,
           ~ (Len(logs) < MaxHistory)
    PROVE  MemoryTypes' /\ Ring'
<1> DEFINE r == [id |-> nextID, client |-> k]
           n == Len(logs)
           s == logsStart
<1>0. /\ MaxHistory \in Nat \ {0} /\ MaxLogs \in Nat
      /\ nextID \in Nat /\ nextID' \in 1 .. MaxLogs + 1
  BY QueryLogAssumption DEF MemoryTypes
<1>1. r \in Records /\ r.id = nextID /\ r.client = k
  BY DEF MemoryTypes, Records
<1>2. logs' = [logs EXCEPT ![s + 1] = r] /\ logsStart' = (s + 1) % n /\ top' = Counted(r)
  BY DEF AddToMemory
<1>3. logs \in Seq(Records) /\ n \in Nat \ {0} /\ n = MaxHistory /\ s \in 0 .. n - 1
  BY <1>0, LenProperties DEF MemoryTypes
<1> HIDE DEF r
<1>4. /\ logs' \in Seq(Records) /\ Len(logs') = n
      /\ \A i \in 1 .. n : logs'[i] = IF i = s + 1 THEN r ELSE logs[i]
  <2>1. s + 1 \in 1 .. n
    BY <1>3
  <2> QED
    BY <1>1, <1>2, <1>3, <2>1, ExceptSeq
<1>5. RingStart'
  BY <1>3, <1>4 DEF RingStart
<1>6. RingHoldsNewest'
  <2> SUFFICES ASSUME NEW i \in 0 .. n - 1
               PROVE  logs'[((logsStart' + i) % Len(logs')) + 1].id = nextID' - Len(logs') + i
    BY <1>3, <1>4 DEF RingHoldsNewest, LogAt
  <2>1. (logsStart' + i) % Len(logs') = IF i = n - 1 THEN s ELSE (s + (i + 1)) % n
    <3>1. /\ i = n - 1 => (((s + 1) % n) + i) % n = s
          /\ i # n - 1 => (((s + 1) % n) + i) % n = (s + (i + 1)) % n
      BY <1>3, RingNext
    <3> QED
      BY <1>2, <1>4, <3>1
  <2>2. CASE i = n - 1
    <3>1. logs'[s + 1] = r /\ nextID = nextID' - n + i
      BY <1>0, <1>3, <1>4, <2>2
    <3> QED
      BY <1>1, <1>4, <2>1, <2>2, <3>1
  <2>3. CASE i # n - 1
    <3> DEFINE j == (s + (i + 1)) % n
    <3>1. i + 1 \in 0 .. n - 1 /\ i + 1 # 0
      BY <1>3, <2>3
    <3>2. j \in 0 .. n - 1 /\ j # s
      BY <1>3, <3>1, RingIndex
    <3>3. logs[j + 1].id = nextID - n + (i + 1)
      BY <3>1 DEF Ring, RingHoldsNewest, LogAt
    <3> HIDE DEF j
    <3>4. logs'[j + 1] = logs[j + 1]
      <4>1. j + 1 \in 1 .. n /\ j + 1 # s + 1
        BY <1>3, <3>2
      <4> QED
        BY <1>4, <4>1
    <3>5. nextID - n + (i + 1) = nextID' - n + i
      BY <1>0, <1>3
    <3>6. (logsStart' + i) % Len(logs') = j
      BY <2>1, <2>3 DEF j
    <3> QED
      BY <1>4, <3>3, <3>4, <3>5, <3>6
  <2> QED
    BY <2>2, <2>3
<1>7. ASSUME NEW c \in Clients
      PROVE  top'[c] = Cardinality(Of(c, logs')) /\ top'[c] \in Nat
  <2> DEFINE old == logs[s + 1].client
             d   == Of(c, logs) \ {s + 1}
  <2>1. top'[c] = top[c] + (IF c = k THEN 1 ELSE 0) - (IF c = old THEN 1 ELSE 0)
    <3>1. LogAt(0) = logs[s + 1]
      BY <1>3, RingIndex DEF LogAt
    <3> QED
      BY <1>1, <1>2, <1>3, <3>1 DEF Counted
  <2>2. Of(c, logs') = IF c = k THEN d \cup {s + 1} ELSE d
    <3>1. s + 1 \in 1 .. n
      BY <1>3
    <3>2. Of(c, logs') = {i \in 1 .. n : (IF i = s + 1 THEN r ELSE logs[i]).client = c}
      BY <1>4 DEF Of
    <3> QED
      BY <1>1, <3>1, <3>2 DEF Of
  <2>3. s + 1 \in Of(c, logs) <=> c = old
    <3>1. s + 1 \in 1 .. n
      BY <1>3
    <3> QED
      BY <3>1 DEF Of
  <2>4. top[c] = Cardinality(Of(c, logs)) /\ top[c] \in Nat
    BY DEF Ring, TopMatchesRing, Of, MemoryTypes
  <2>5. /\ IsFiniteSet(d)
        /\ Cardinality(d) = top[c] - (IF c = old THEN 1 ELSE 0)
    BY <1>3, <2>3, <2>4, Counting
  <2>6. Cardinality(d \cup {s + 1}) = Cardinality(d) + 1
    BY <2>5, FS_AddElement
  <2>7. Cardinality(d) \in Nat
    BY <2>5, FS_CardinalityType
  <2> HIDE DEF d, old
  <2>8. CASE c = k
    BY <2>1, <2>2, <2>4, <2>5, <2>6, <2>7, <2>8
  <2>9. CASE c # k
    BY <2>1, <2>2, <2>4, <2>5, <2>7, <2>9
  <2> QED
    BY <2>8, <2>9
<1>8. TopMatchesRing'
  BY <1>7 DEF TopMatchesRing, Of
<1>9. MemoryTypes'
  <2>1. top' \in [Clients -> Nat]
    <3>1. top' = [c \in Clients |-> top'[c]]
      BY <1>2 DEF Counted
    <3> QED
      BY <1>7, <3>1
  <2>2. Len(logs') <= MaxHistory /\ logsStart' \in 0 .. MaxHistory - 1
    <3>1. 0 \in 0 .. n - 1
      BY <1>3
    <3>2. (s + 1) % n \in 0 .. n - 1
      BY <1>3, <3>1, RingIndex
    <3> QED
      BY <1>2, <1>3, <1>4, <3>2
  <2> QED
    BY <1>0, <1>4, <2>1, <2>2 DEF MemoryTypes
<1> QED
  BY <1>5, <1>6, <1>8, <1>9 DEF Ring

\* A cleared or new ring is empty.
LEMMA EmptyStep ==
    ASSUME nextID' \in 1 .. MaxLogs + 1, logs' = << >>, logsStart' = 0,
           top' = [c \in Clients |-> 0]
    PROVE  MemoryTypes' /\ Ring'
<1>1. /\ << >> \in Seq(Records) /\ Len(<< >>) = 0 /\ MaxHistory \in Nat \ {0}
  BY EmptySeq, QueryLogAssumption
<1>2. MemoryTypes'
  BY <1>1 DEF MemoryTypes
<1>3. RingStart' /\ RingHoldsNewest'
  BY <1>1 DEF RingStart, RingHoldsNewest
<1>4. TopMatchesRing'
  BY <1>1, FS_EmptySet DEF TopMatchesRing
<1> QED
  BY <1>2, <1>3, <1>4 DEF Ring

-----------------------------------------------------------------------------
(* Type correctness, and where the entries are.                            *)

Pcs    == {"idle", "check", "offer", "append"}
Adders == [pc : Pcs, entry : Entries \cup {NoEntry}]

\* The types of everything else.
RestTypes ==
    /\ gen \in Loggers /\ count \in Nat
    /\ queue \in [Loggers -> Seq(Entries)]
    /\ \A g \in Loggers : Len(queue[g]) <= QueueSize
    /\ writer \in {"select", "write", "drain", "flush", "ended"}
    /\ hand \in Entries \cup {NoEntry}
    /\ closer \in {"open", "closing", "closed"}
    /\ file \in Seq(LineSet) /\ torn \in BOOLEAN
    /\ torn => Len(file) > 0
    /\ adder \in [Clients -> Adders]
    /\ due \subseteq Entries /\ events \in 0 .. MaxEvents
    /\ counted \in BOOLEAN /\ mixed \in BOOLEAN

LEMMA TypeParts == TypeOK <=> MemoryTypes /\ RestTypes
  BY DEF TypeOK, MemoryTypes, RestTypes, Adders, Pcs, LineSet

\* The constants.
LEMMA Constants ==
    /\ QueueSize \in Nat \ {0} /\ MaxLines \in Nat /\ MaxLines >= 2
    /\ MaxLogs \in Nat /\ MaxLoggers \in Nat \ {0} /\ MaxEvents \in Nat
  BY QueryLogAssumption

\* An entry is not none.
LEMMA EntryFields ==
    /\ NoEntry.id = 0 /\ NoEntry \notin Entries
    /\ Garbled.id = 0 /\ Garbled \notin Entries /\ Entries \subseteq LineSet
    /\ \A e \in Entries : e.id \in 1 .. MaxLogs /\ e.gen \in Loggers
    /\ Idle \in Adders /\ Idle.pc = "idle" /\ Idle.entry = NoEntry
<1>1. \A e \in Entries : e.id \in 1 .. MaxLogs /\ e.gen \in Loggers
  BY DEF Entries
<1>2. NoEntry.id = 0
  BY DEF NoEntry
<1>3. Garbled.id = 0 /\ Entries \subseteq LineSet
  BY DEF Garbled, LineSet
<1> QED
  BY <1>1, <1>2, <1>3 DEF Idle, Adders, Pcs

\* A request goes on with its entry, or is back.
LEMMA AdderMoves ==
    ASSUME adder \in [Clients -> Adders], NEW c \in Clients
    PROVE  /\ adder[c].pc \in Pcs /\ adder[c].entry \in Entries \cup {NoEntry}
           /\ \A pc \in Pcs : Goto(c, pc) =>
                 /\ adder' \in [Clients -> Adders]
                 /\ adder'[c].pc = pc /\ adder'[c].entry = adder[c].entry
                 /\ \A d \in Clients : d # c => adder'[d] = adder[d]
           /\ Return(c) =>
                 /\ adder' \in [Clients -> Adders]
                 /\ adder'[c].pc = "idle" /\ adder'[c].entry = NoEntry
                 /\ \A d \in Clients : d # c => adder'[d] = adder[d]
<1>1. adder[c].pc \in Pcs /\ adder[c].entry \in Entries \cup {NoEntry}
  BY DEF Adders
<1>2. ASSUME NEW pc \in Pcs, Goto(c, pc)
      PROVE  /\ adder' \in [Clients -> Adders]
             /\ adder'[c].pc = pc /\ adder'[c].entry = adder[c].entry
             /\ \A d \in Clients : d # c => adder'[d] = adder[d]
  <2>1. [adder[c] EXCEPT !.pc = pc] = [pc |-> pc, entry |-> adder[c].entry]
    BY DEF Adders
  <2>2. adder' = [adder EXCEPT ![c] = [pc |-> pc, entry |-> adder[c].entry]]
    BY <1>2, <2>1 DEF Goto
  <2>3. [pc |-> pc, entry |-> adder[c].entry] \in Adders
    BY <1>1 DEF Adders
  <2>4. adder'[c] = [pc |-> pc, entry |-> adder[c].entry]
    BY <2>2
  <2> QED
    BY <2>2, <2>3, <2>4
<1>3. ASSUME Return(c)
      PROVE  /\ adder' \in [Clients -> Adders]
             /\ adder'[c].pc = "idle" /\ adder'[c].entry = NoEntry
             /\ \A d \in Clients : d # c => adder'[d] = adder[d]
  <2>1. adder' = [adder EXCEPT ![c] = Idle]
    BY <1>3 DEF Return
  <2>2. adder'[c] = Idle
    BY <2>1
  <2> QED
    BY <2>1, <2>2, EntryFields
<1> QED
  BY <1>1, <1>2, <1>3

\* What pruning keeps fits into a full file.
LEMMA KeptFits == Kept \in Nat \ {0} /\ Kept < MaxLines
<1>1. \A n \in Nat : n >= 2 => (4 * n + 4) \div 5 \in 2 .. n
  <2> TAKE n \in Nat
  <2> HAVE n >= 2
  <2> DEFINE q == (4 * n + 4) \div 5
             r == (4 * n + 4) % 5
  <2>1. q \in Int /\ r \in 0 .. 4 /\ 4 * n + 4 = 5 * q + r
    OBVIOUS
  <2> HIDE DEF q, r
  <2> QED
    BY <2>1 DEF q
<1> QED
  BY <1>1, Constants DEF Kept

\* What pruning leaves of the file, whatever is at its cut.
LEMMA PrunedLines ==
    ASSUME RestTypes, Len(file) + 1 > MaxLines, NEW f \in Pruned
    PROVE  /\ f \in Seq(LineSet) /\ Len(f) \in Nat
           /\ torn => Len(f) > 0
           /\ IDsOf(f) \subseteq IDsOf(file)
           /\ Differ(file) => Differ(f)
<1>0. file \in Seq(LineSet) /\ Len(file) \in Nat
  BY LenProperties DEF RestTypes
<1>1. /\ Kept \in 0 .. Len(file) /\ Kept + 1 \in 0 .. Len(file) /\ Kept > 0
  BY <1>0, KeptFits, Constants
<1>2. ASSUME NEW k \in 0 .. Len(file)
      PROVE  /\ LastLines(k) \in Seq(LineSet) /\ Len(LastLines(k)) = k
             /\ IDsOf(LastLines(k)) \subseteq IDsOf(file)
             /\ Differ(file) => Differ(LastLines(k))
  BY <1>0, <1>2, LastEntries DEF LastLines
<1>3. CASE f = LastLines(Kept)
  BY <1>1, <1>2, <1>3
<1>4. CASE f = <<Garbled>> \o LastLines(Kept)
  <2>1. /\ LastLines(Kept) \in Seq(LineSet) /\ Len(LastLines(Kept)) = Kept
        /\ IDsOf(LastLines(Kept)) \subseteq IDsOf(file)
        /\ Differ(file) => Differ(LastLines(Kept))
    BY <1>1, <1>2
  <2> QED
    BY <1>1, <1>4, <2>1, GarbledFirst
<1>5. CASE f = LastLines(Kept + 1)
  BY <1>1, <1>2, <1>5
<1> QED
  BY <1>3, <1>4, <1>5 DEF Pruned

\* What a write leaves of the lines f, with all or a part of a new one.
LEMMA ExtendedLines ==
    ASSUME NEW f \in Seq(LineSet), torn \in BOOLEAN, torn => Len(f) > 0,
           NEW line \in LineSet
    PROVE  LET t == Extended(f, line) IN
           /\ t \in Seq(LineSet) /\ Len(t) \in Nat
           /\ Len(t) = IF torn THEN Len(f) ELSE Len(f) + 1
           /\ Len(t) > 0
           /\ IDsOf(t) \subseteq IDsOf(f) \cup {line.id}
           /\ Differ(f) /\ line.id \notin IDsOf(f) => Differ(t)
           /\ ~ torn => line \in Lines(t)
<1> DEFINE n == Len(f)
<1>0. n \in Nat
  BY LenProperties
<1>1. CASE ~ torn
  <2>1. Extended(f, line) = Append(f, line)
    BY <1>1 DEF Extended
  <2>2. /\ Append(f, line) \in Seq(LineSet) /\ Len(Append(f, line)) = n + 1
        /\ line \in Lines(Append(f, line))
        /\ IDsOf(Append(f, line)) \subseteq IDsOf(f) \cup {line.id}
        /\ Differ(f) /\ line.id \notin IDsOf(f) => Differ(Append(f, line))
    BY AppendedEntries
  <2> QED
    BY <1>0, <1>1, <2>1, <2>2
<1>2. CASE torn
  <2> DEFINE t == [f EXCEPT ![n] = Garbled]
  <2>1. Extended(f, line) = t
    BY <1>2 DEF Extended
  <2>2. n \in 1 .. n /\ n > 0 /\ Garbled \in LineSet /\ Garbled.id = 0
    BY <1>0, <1>2 DEF LineSet, Garbled
  <2>3. /\ t \in Seq(LineSet) /\ Len(t) = n
        /\ \A i \in 1 .. n : t[i] = IF i = n THEN Garbled ELSE f[i]
    BY <2>2, ExceptSeq
  <2> HIDE DEF t
  <2>4. IDsOf(t) \subseteq IDsOf(f)
    BY <2>2, <2>3 DEF IDsOf
  <2>5. Differ(f) => Differ(t)
    BY <2>2, <2>3 DEF Differ
  <2> QED
    BY <1>0, <1>2, <2>1, <2>2, <2>3, <2>4, <2>5
<1> QED
  BY <1>1, <1>2

\* What a goroutine leaves behind that writes an entry to the file, or a part
\* of it, prunes the file or fails: only entries that are due and were pruned,
\* garbled or failed are not due any more.
LEMMA Written ==
    ASSUME RestTypes, NEW e \in Entries, NEW g \in Loggers, AppendToFile(e, g)
    PROVE  /\ file' \in Seq(LineSet) /\ count' \in Nat /\ events' \in 0 .. MaxEvents
           /\ torn' \in BOOLEAN /\ (torn' => Len(file') > 0) /\ counted' \in BOOLEAN
           /\ mixed' = (mixed \/ g # gen)
           /\ IDsOf(file') \subseteq IDsOf(file) \cup {e.id}
           /\ Differ(file) /\ e.id \notin IDsOf(file) => Differ(file')
           /\ due' \subseteq due
           /\ \A x \in due' : x \in Lines(file) \/ x = e => x \in Lines(file')
           /\ CountMatchesFile => CountMatchesFile'
<1> DEFINE full == Len(file) + 1 > MaxLines
<1>0. /\ file \in Seq(LineSet) /\ Len(file) \in Nat /\ count \in Nat /\ events \in Nat
      /\ torn \in BOOLEAN /\ (torn => Len(file) > 0) /\ counted \in BOOLEAN
      /\ MaxEvents \in Nat
  BY Constants, LenProperties DEF RestTypes
<1>1. PICK prunes \in {full, FALSE}, wrote \in {"all", "part", "none"} :
        \E base \in IF prunes THEN Pruned ELSE {file},
           line \in IF wrote = "part" THEN {e, Garbled} ELSE {e} :
        /\ events' = events + (IF full /\ ~prunes THEN 1 ELSE 0)
                            + (IF wrote = "all" THEN 0 ELSE 1)
        /\ events' <= MaxEvents
        /\ file' = IF wrote = "none" THEN base ELSE Extended(base, line)
        /\ torn' = IF wrote = "none" THEN torn ELSE wrote = "part"
        /\ count' = IF g # gen THEN count
                    ELSE IF wrote = "all"
                    THEN (IF prunes THEN Ended(base) ELSE count) + 1
                    ELSE (IF prunes THEN Ended(base) ELSE count)
        /\ due' = due \ ((Lines(file) \ Lines(file'))
                         \cup (IF wrote = "all" /\ ~torn THEN {} ELSE {e}))
        /\ counted' = (g = gen /\ (counted \/ prunes))
        /\ mixed' = (mixed \/ g # gen)
  BY DEF AppendToFile, AfterPruning
<1>2. PICK b \in IF prunes THEN Pruned ELSE {file},
           line \in IF wrote = "part" THEN {e, Garbled} ELSE {e} :
        /\ events' = events + (IF full /\ ~prunes THEN 1 ELSE 0)
                            + (IF wrote = "all" THEN 0 ELSE 1)
        /\ events' <= MaxEvents
        /\ file' = IF wrote = "none" THEN b ELSE Extended(b, line)
        /\ torn' = IF wrote = "none" THEN torn ELSE wrote = "part"
        /\ count' = IF g # gen THEN count
                    ELSE IF wrote = "all"
                    THEN (IF prunes THEN Ended(b) ELSE count) + 1
                    ELSE (IF prunes THEN Ended(b) ELSE count)
        /\ due' = due \ ((Lines(file) \ Lines(file'))
                         \cup (IF wrote = "all" /\ ~torn THEN {} ELSE {e}))
        /\ counted' = (g = gen /\ (counted \/ prunes))
        /\ mixed' = (mixed \/ g # gen)
  BY <1>1
<1>3. /\ b \in Seq(LineSet) /\ Len(b) \in Nat /\ (torn => Len(b) > 0)
      /\ IDsOf(b) \subseteq IDsOf(file)
      /\ Differ(file) => Differ(b)
      /\ ~ prunes => b = file
  <2>1. CASE prunes
    <3>1. Len(file) + 1 > MaxLines
      BY <2>1
    <3>2. b \in Pruned
      BY <2>1
    <3> QED
      BY <2>1, <3>1, <3>2, PrunedLines
  <2>2. CASE ~ prunes
    BY <1>0, <2>2
  <2> QED
    BY <2>1, <2>2
<1>4. /\ line \in LineSet /\ line.id \in {e.id, 0}
      /\ wrote # "part" => line = e
  <2>1. line \in {e, Garbled} /\ (wrote # "part" => line = e)
    OBVIOUS
  <2>2. Garbled \in LineSet /\ e \in LineSet /\ Garbled.id = 0
    BY EntryFields DEF LineSet
  <2> QED
    BY <2>1, <2>2
<1> DEFINE t == Extended(b, line)
<1>5. /\ t \in Seq(LineSet) /\ Len(t) \in Nat /\ Len(t) > 0
      /\ Len(t) = IF torn THEN Len(b) ELSE Len(b) + 1
      /\ IDsOf(t) \subseteq IDsOf(b) \cup {line.id}
      /\ Differ(b) /\ line.id \notin IDsOf(b) => Differ(t)
      /\ ~ torn => line \in Lines(t)
  BY <1>0, <1>3, <1>4, ExtendedLines
<1> HIDE DEF t
<1>6. file' = (IF wrote = "none" THEN b ELSE t)
  BY <1>2 DEF t
<1>7. 0 \notin IDsOf(file) /\ 0 \notin IDsOf(t)
  BY DEF IDsOf
<1>8. /\ IDsOf(file') \subseteq IDsOf(file) \cup {e.id}
      /\ Differ(file) /\ e.id \notin IDsOf(file) => Differ(file')
  <2>1. IDsOf(t) \subseteq IDsOf(file) \cup {e.id}
    BY <1>3, <1>4, <1>5, <1>7
  <2>2. Differ(file) /\ e.id \notin IDsOf(file) => Differ(t)
    BY <1>3, <1>4, <1>5, <1>7
  <2> QED
    BY <1>3, <1>6, <2>1, <2>2
<1>9. /\ due' \subseteq due
      /\ \A x \in due' : x \in Lines(file) \/ x = e => x \in Lines(file')
  <2>1. ASSUME e \in due' PROVE e \in Lines(file')
    <3>1. wrote = "all" /\ ~ torn
      BY <1>2, <2>1
    <3> QED
      BY <1>4, <1>5, <1>6, <3>1
  <2> QED
    BY <1>2, <2>1
<1>10. /\ torn' \in BOOLEAN /\ (torn' => Len(file') > 0) /\ counted' \in BOOLEAN
       /\ file' \in Seq(LineSet)
  <2>1. wrote = "none" => torn' = torn /\ file' = b
    BY <1>2, <1>6
  <2>2. wrote # "none" => torn' \in BOOLEAN /\ file' = t
    BY <1>2, <1>6
  <2>3. counted' \in BOOLEAN
    BY <1>2
  <2> QED
    BY <1>0, <1>3, <1>5, <2>1, <2>2, <2>3
<1>11. Ended(b) \in Nat /\ Ended(b) = Len(b) - (IF torn THEN 1 ELSE 0)
  BY <1>0, <1>3 DEF Ended
<1>12. count' \in Nat /\ events' \in 0 .. MaxEvents
  BY <1>0, <1>2, <1>11
<1>13. ASSUME CountMatchesFile, counted' PROVE count' = Ended(file)'
  <2>1. g = gen /\ (counted \/ prunes)
    BY <1>2, <1>13
  <2>2. (IF prunes THEN Ended(b) ELSE count) = Ended(b)
    BY <1>3, <1>13, <2>1 DEF CountMatchesFile
  <2>3. count' = IF wrote = "all" THEN Ended(b) + 1 ELSE Ended(b)
    BY <1>2, <2>1, <2>2
  <2>4. Ended(file)' = Len(file') - (IF torn' THEN 1 ELSE 0)
    BY DEF Ended
  <2>5. CASE wrote = "none"
    BY <1>2, <1>6, <1>11, <2>3, <2>4, <2>5
  <2>6. CASE wrote = "all"
    <3>1. torn' = FALSE /\ file' = t
      BY <1>2, <1>6, <2>6
    <3> QED
      BY <1>0, <1>3, <1>5, <1>11, <2>3, <2>4, <2>6, <3>1
  <2>7. CASE wrote = "part"
    <3>1. torn' = TRUE /\ file' = t
      BY <1>2, <1>6, <2>7
    <3> QED
      BY <1>0, <1>3, <1>5, <1>11, <2>3, <2>4, <2>7, <3>1
  <2> QED
    BY <2>5, <2>6, <2>7
<1>14. CountMatchesFile => CountMatchesFile'
  BY <1>13 DEF CountMatchesFile
<1> QED
  BY <1>2, <1>8, <1>9, <1>10, <1>12, <1>14

\* The entry of a request in AddLog, and of a writer that has taken one.
LEMMA HeldEntries ==
    ASSUME RestTypes, EntriesHeld
    PROVE  /\ \A c \in Clients : adder[c].pc # "idle" =>
                  /\ adder[c].entry \in Entries
                  /\ adder[c].entry.gen \in Loggers /\ adder[c].entry.gen <= gen
           /\ writer \in {"write", "flush"} => hand \in Entries
           /\ writer \notin {"write", "flush"} => hand = NoEntry
  BY EntryFields, AdderMoves DEF RestTypes, EntriesHeld

\* Every step preserves the types, but for what l.mu protects.
LEMMA RestTypesStep ==
    ASSUME TypeOK, EntriesHeld, [Next]_vars
    PROVE  RestTypes'
<1>0. RestTypes /\ MemoryTypes
  BY TypeParts
<1>1. ASSUME NEW c \in Clients, AddLog(c) PROVE RestTypes'
  <2> DEFINE e == [id |-> nextID, gen |-> gen]
  <2>1. e \in Entries
    BY <1>0, <1>1, Constants DEF AddLog, RestTypes, MemoryTypes, Entries
  <2>2. [pc |-> "check", entry |-> e] \in Adders
    BY <2>1 DEF Adders, Pcs
  <2> HIDE DEF e
  <2>3. adder' = [adder EXCEPT ![c] = [pc |-> "check", entry |-> e]] /\ due' = due \cup {e}
    BY <1>1 DEF AddLog, e
  <2>4. UNCHANGED <<gen, queue, writer, hand, closer, file, torn, count, events,
                  counted, mixed>>
    BY <1>1 DEF AddLog
  <2> QED
    BY <1>0, <2>1, <2>2, <2>3, <2>4 DEF RestTypes
<1>2. ASSUME NEW c \in Clients, Check(c) PROVE RestTypes'
  <2>1. adder' \in [Clients -> Adders]
    BY <1>0, <1>2, AdderMoves DEF Check, RestTypes, Pcs
  <2> QED
    BY <1>0, <1>2, <2>1 DEF Check, RestTypes, memory, disk
<1>3. ASSUME NEW c \in Clients, Offer(c) PROVE RestTypes'
  <2>1. adder' \in [Clients -> Adders]
    BY <1>0, <1>3, AdderMoves DEF Offer, RestTypes, Pcs
  <2>2. queue' \in [Loggers -> Seq(Entries)] /\ \A g \in Loggers : Len(queue'[g]) <= QueueSize
    <3> DEFINE e == adder[c].entry
    <3>1. e \in Entries /\ e.gen \in Loggers
      BY <1>0, <1>3, HeldEntries DEF Offer
    <3>2. queue[e.gen] \in Seq(Entries) /\ Len(queue[e.gen]) \in Nat
      BY <1>0, <3>1, LenProperties DEF RestTypes
    <3>3. CASE Len(queue[e.gen]) < QueueSize
      <4>1. queue' = [queue EXCEPT ![e.gen] = Append(queue[e.gen], e)]
        BY <1>3, <3>3 DEF Offer
      <4>2. /\ Append(queue[e.gen], e) \in Seq(Entries)
            /\ Len(Append(queue[e.gen], e)) <= QueueSize
        BY <3>1, <3>2, <3>3, Constants, AppendedEntries
      <4> QED
        BY <1>0, <3>1, <4>1, <4>2 DEF RestTypes
    <3>4. CASE ~ (Len(queue[e.gen]) < QueueSize)
      BY <1>0, <1>3, <3>4 DEF Offer, RestTypes
    <3> QED
      BY <3>3, <3>4
  <2> QED
    BY <1>0, <1>3, <2>1, <2>2 DEF Offer, RestTypes, memory, disk
<1>4. ASSUME NEW c \in Clients, WriteDirectly(c) PROVE RestTypes'
  <2> DEFINE e == adder[c].entry
  <2>1. e \in Entries /\ e.gen \in Loggers
    BY <1>0, <1>4, HeldEntries DEF WriteDirectly
  <2>2. adder' \in [Clients -> Adders]
    BY <1>0, <1>4, AdderMoves DEF WriteDirectly, RestTypes
  <2>3. AppendToFile(e, e.gen)
    BY <1>4 DEF WriteDirectly
  <2> HIDE DEF e
  <2>4. /\ file' \in Seq(LineSet) /\ count' \in Nat /\ events' \in 0 .. MaxEvents
        /\ torn' \in BOOLEAN /\ (torn' => Len(file') > 0) /\ counted' \in BOOLEAN
        /\ mixed' \in BOOLEAN /\ due' \subseteq due
    BY <1>0, <2>1, <2>3, Written DEF RestTypes
  <2> QED
    BY <1>0, <1>4, <2>2, <2>4 DEF WriteDirectly, RestTypes, memory
<1>5. CASE Take
  <2>1. gen \in Loggers /\ queue[gen] \in Seq(Entries) /\ queue[gen] # << >>
        /\ Len(queue[gen]) <= QueueSize /\ Len(queue[gen]) \in Nat
    BY <1>0, <1>5, LenProperties DEF Take, RestTypes
  <2>2. /\ hand' \in Entries
        /\ Tail(queue[gen]) \in Seq(Entries) /\ Len(Tail(queue[gen])) <= QueueSize
    BY <1>5, <2>1, Constants, TakenEntry DEF Take
  <2>3. queue' = [queue EXCEPT ![gen] = Tail(queue[gen])]
    BY <1>5 DEF Take
  <2> QED
    BY <1>0, <1>5, <2>1, <2>2, <2>3 DEF Take, RestTypes, memory, disk
<1>6. CASE Write
  <2>1. hand \in Entries /\ gen \in Loggers
    BY <1>0, <1>6, HeldEntries DEF Write, RestTypes
  <2>2. /\ file' \in Seq(LineSet) /\ count' \in Nat /\ events' \in 0 .. MaxEvents
        /\ torn' \in BOOLEAN /\ (torn' => Len(file') > 0) /\ counted' \in BOOLEAN
        /\ mixed' \in BOOLEAN /\ due' \subseteq due
    BY <1>0, <1>6, <2>1, Written DEF Write, RestTypes
  <2> QED
    BY <1>0, <1>6, <2>2 DEF Write, RestTypes, memory
<1>7. CASE HearStop \/ EndWriter
  BY <1>0, <1>7 DEF HearStop, EndWriter, RestTypes, memory, disk
<1>8. CASE Close \/ CloseReturns \/ UNCHANGED vars
  BY <1>0, <1>8 DEF Close, CloseReturns, RestTypes, memory, disk, vars
<1>a. CASE Clear
  <2>1. events' \in 0 .. MaxEvents
    BY <1>0, <1>a, Constants DEF Clear, RestTypes
  <2> QED
    BY <1>0, <1>a, <2>1 DEF Clear, RestTypes
<1>9. ASSUME NEW k \in {0, 1}, NewLogger(k), adder' \in [Clients -> Adders],
             queue' = queue \/ queue' = [g \in Loggers |-> << >>]
      PROVE  RestTypes'
  <2>1. gen' \in Loggers /\ count' \in Nat
    BY <1>0, <1>9, Constants, LenProperties DEF NewLogger, RestTypes, Loggers
  <2>2. events' \in 0 .. MaxEvents
    <3>1. PICK n \in 0 .. Len(file) :
              /\ events' = events + k + (IF n = Len(file) THEN 0 ELSE 1)
              /\ events' <= MaxEvents
      BY <1>9 DEF NewLogger
    <3>2. events \in Nat /\ MaxEvents \in Nat
      BY <1>0, Constants DEF RestTypes
    <3>3. CASE n = Len(file)
      <4>1. events' = events \/ events' = events + 1
        BY <1>9, <3>1, <3>2, <3>3
      <4> QED
        BY <3>1, <3>2, <4>1
    <3>4. CASE n # Len(file)
      <4>1. events' = events + 1 \/ events' = events + 2
        BY <1>9, <3>1, <3>2, <3>4
      <4> QED
        BY <3>1, <3>2, <4>1
    <3> QED
      BY <3>3, <3>4
  <2>3. queue' \in [Loggers -> Seq(Entries)] /\ \A g \in Loggers : Len(queue'[g]) <= QueueSize
    <3>1. CASE queue' = queue
      BY <1>0, <3>1 DEF RestTypes
    <3>2. CASE queue' = [g \in Loggers |-> << >>]
      <4>1. << >> \in Seq(Entries) /\ Len(<< >>) = 0 /\ 0 <= QueueSize
        BY Constants, EmptySeq
      <4>2. \A g \in Loggers : queue'[g] = << >>
        BY <3>2
      <4>3. queue' \in [Loggers -> Seq(Entries)]
        BY <3>2, <4>1
      <4> QED
        BY <4>1, <4>2, <4>3
    <3> QED
      BY <1>9, <3>1, <3>2
  <2>4. counted' \in BOOLEAN /\ mixed' \in BOOLEAN
    BY <1>9 DEF NewLogger
  <2> QED
    BY <1>0, <1>9, <2>1, <2>2, <2>3, <2>4 DEF NewLogger, RestTypes
<1>10. CASE Reopen
  BY <1>0, <1>9, <1>10 DEF Reopen, RestTypes
<1>11. CASE Crash
  <2>1. adder' \in [Clients -> Adders]
    BY <1>11, EntryFields DEF Crash
  <2> QED
    BY <1>9, <1>11, <2>1 DEF Crash
<1> QED
  BY <1>1, <1>2, <1>3, <1>4, <1>5, <1>6, <1>7, <1>8, <1>a, <1>10, <1>11
  DEF Next, AdderStep, WriterStep

\* Every step preserves the ring: AddLog adds to it under l.mu.
LEMMA RingStep ==
    ASSUME TypeOK, Ring, [Next]_vars
    PROVE  MemoryTypes' /\ Ring'
<1>0. RestTypes /\ MemoryTypes
  BY TypeParts
<1>1. ASSUME NEW c \in Clients, AddLog(c) PROVE MemoryTypes' /\ Ring'
  <2>1. /\ nextID <= MaxLogs /\ nextID' = nextID + 1
        /\ AddToMemory([id |-> nextID, client |-> c])
    BY <1>1 DEF AddLog
  <2> QED
    BY <1>0, <2>1, GrowStep, OverwriteStep
<1>2. CASE Clear
  BY <1>0, <1>2, EmptyStep DEF Clear, MemoryTypes
<1>3. ASSUME NEW k \in {0, 1}, NewLogger(k) PROVE MemoryTypes' /\ Ring'
  <2>1. PICK n \in 0 .. Len(file) : nextID' = RestoredID(SubSeq(file, 1, n))
    BY <1>3 DEF NewLogger
  <2>2. SubSeq(file, 1, n) \in Seq(LineSet)
    BY <1>0, FirstEntries DEF RestTypes
  <2>3. nextID' \in 1 .. MaxLogs + 1
    BY <2>1, <2>2, RestoredAbove
  <2> QED
    BY <1>3, <2>3, EmptyStep DEF NewLogger
<1>4. CASE UNCHANGED memory
  BY <1>0, <1>4
  DEF memory, MemoryTypes, Ring, RingStart, RingHoldsNewest, TopMatchesRing, LogAt
<1>5. ASSUME NEW c \in Clients, AdderStep(c) PROVE UNCHANGED memory
  BY <1>5 DEF AdderStep, Check, Offer, WriteDirectly
<1>6. WriterStep \/ Close \/ CloseReturns \/ UNCHANGED vars => UNCHANGED memory
  BY DEF WriterStep, Take, Write, HearStop, EndWriter, Close, CloseReturns, vars
<1> QED
  BY <1>1, <1>2, <1>3, <1>4, <1>5, <1>6 DEF Next, Reopen, Crash

\* Every step preserves where the entries are.
LEMMA EntriesHeldStep ==
    ASSUME TypeOK, EntriesHeld, [Next]_vars
    PROVE  EntriesHeld'
<1>0. /\ RestTypes /\ adder \in [Clients -> Adders] /\ gen \in Nat
      /\ queue \in [Loggers -> Seq(Entries)]
  BY TypeParts DEF RestTypes, Loggers
<1> DEFINE AddersHold ==
             \A c \in Clients : /\ adder[c].pc = "idle" <=> adder[c].entry = NoEntry
                                /\ adder[c].pc # "idle" => adder[c].entry.gen <= gen
           WriterHolds ==
             /\ writer \in {"write", "flush"} <=> hand # NoEntry
             /\ closer = "open" => writer \in {"select", "write"}
             /\ closer = "closed" => writer = "ended"
           NoneAhead == \A g \in Loggers : g > gen => queue[g] = << >>
<1>a. AddersHold /\ WriterHolds /\ NoneAhead
  BY DEF EntriesHeld
<1>b. (AddersHold /\ WriterHolds /\ NoneAhead)' => EntriesHeld'
  BY DEF EntriesHeld
<1>1. ASSUME NEW c \in Clients, AddLog(c) PROVE EntriesHeld'
  <2> DEFINE e == [id |-> nextID, gen |-> gen]
  <2>1. e \in Entries /\ e.gen = gen
    BY <1>0, <1>1, TypeParts, Constants DEF AddLog, RestTypes, MemoryTypes, Entries
  <2> HIDE DEF e
  <2>2. adder' = [adder EXCEPT ![c] = [pc |-> "check", entry |-> e]]
    BY <1>1 DEF AddLog, e
  <2>3. AddersHold'
    <3> SUFFICES ASSUME NEW d \in Clients
                 PROVE  /\ adder'[d].pc = "idle" <=> adder'[d].entry = NoEntry
                        /\ adder'[d].pc # "idle" => adder'[d].entry.gen <= gen'
      OBVIOUS
    <3>1. gen' = gen
      BY <1>1 DEF AddLog
    <3>2. CASE d = c
      BY <1>0, <2>1, <2>2, <3>1, <3>2, EntryFields
    <3>3. CASE d # c
      BY <1>0, <1>a, <2>2, <3>1, <3>3
    <3> QED
      BY <3>2, <3>3
  <2> QED
    BY <1>1, <1>a, <1>b, <2>3 DEF AddLog
<1>2. ASSUME NEW c \in Clients, gen' = gen, adder[c].pc # "idle",
             Return(c) \/ \E pc \in Pcs \ {"idle"} : Goto(c, pc)
      PROVE  AddersHold'
  <2> SUFFICES ASSUME NEW d \in Clients
               PROVE  /\ adder'[d].pc = "idle" <=> adder'[d].entry = NoEntry
                      /\ adder'[d].pc # "idle" => adder'[d].entry.gen <= gen'
    OBVIOUS
  <2>1. CASE d = c
    BY <1>0, <1>2, <1>a, <2>1, AdderMoves
  <2>2. CASE d # c
    BY <1>0, <1>2, <1>a, <2>2, AdderMoves
  <2> QED
    BY <2>1, <2>2
<1>3. ASSUME NEW c \in Clients, Check(c) PROVE EntriesHeld'
  BY <1>2, <1>3, <1>a, <1>b DEF Check, memory, disk, Pcs
<1>4. ASSUME NEW c \in Clients, Offer(c) PROVE EntriesHeld'
  <2>1. AddersHold'
    BY <1>2, <1>4 DEF Offer, Pcs
  <2>2. NoneAhead'
    <3> SUFFICES ASSUME NEW g \in Loggers, g > gen' PROVE queue'[g] = << >>
      OBVIOUS
    <3>1. gen' = gen /\ adder[c].entry.gen <= gen /\ adder[c].entry.gen \in Loggers
      BY <1>0, <1>4, HeldEntries DEF Offer
    <3>2. g # adder[c].entry.gen
      BY <1>0, <3>1 DEF Loggers
    <3>3. queue'[g] = queue[g]
      BY <1>0, <1>4, <3>2 DEF Offer
    <3> QED
      BY <1>a, <3>1, <3>3
  <2> QED
    BY <1>4, <1>a, <1>b, <2>1, <2>2 DEF Offer
<1>5. ASSUME NEW c \in Clients, WriteDirectly(c) PROVE EntriesHeld'
  BY <1>2, <1>5, <1>a, <1>b DEF WriteDirectly
<1>6. CASE Take
  <2>1. hand' # NoEntry
    <3>1. queue[gen] \in Seq(Entries) /\ queue[gen] # << >>
      BY <1>0, <1>6 DEF Take, RestTypes
    <3> QED
      BY <1>6, <3>1, TakenEntry, EntryFields DEF Take
  <2>2. WriterHolds'
    BY <1>6, <1>a, <2>1 DEF Take
  <2>3. NoneAhead'
    BY <1>0, <1>6, <1>a DEF Take
  <2> QED
    BY <1>6, <1>a, <1>b, <2>2, <2>3 DEF Take, memory, disk
<1>7. CASE Write
  <2>1. WriterHolds'
    BY <1>7, <1>a DEF Write
  <2> QED
    BY <1>7, <1>a, <1>b, <2>1 DEF Write
<1>8. CASE HearStop \/ EndWriter
  <2>1. WriterHolds'
    BY <1>8, <1>a DEF HearStop, EndWriter
  <2> QED
    BY <1>8, <1>a, <1>b, <2>1 DEF HearStop, EndWriter
<1>9. CASE Close \/ CloseReturns
  <2>1. WriterHolds'
    BY <1>9, <1>a DEF Close, CloseReturns
  <2> QED
    BY <1>9, <1>a, <1>b, <2>1 DEF Close, CloseReturns, disk
<1>10. CASE Clear \/ UNCHANGED vars
  BY <1>10, <1>a, <1>b DEF Clear, vars
<1>11. ASSUME NEW k \in {0, 1}, NewLogger(k), AddersHold',
              queue' = queue \/ queue' = [g \in Loggers |-> << >>]
       PROVE  EntriesHeld'
  <2>1. WriterHolds'
    BY <1>11 DEF NewLogger
  <2>2. NoneAhead'
    <3> SUFFICES ASSUME NEW g \in Loggers, g > gen' PROVE queue'[g] = << >>
      OBVIOUS
    <3>1. gen' = gen + 1
      BY <1>11 DEF NewLogger
    <3>2. g > gen
      BY <1>0, <3>1 DEF Loggers
    <3> QED
      BY <1>11, <1>a, <3>2
  <2> QED
    BY <1>11, <1>b, <2>1, <2>2
<1>12. CASE Reopen
  <2>1. AddersHold'
    <3> SUFFICES ASSUME NEW d \in Clients
                 PROVE  /\ adder'[d].pc = "idle" <=> adder'[d].entry = NoEntry
                        /\ adder'[d].pc # "idle" => adder'[d].entry.gen <= gen'
      OBVIOUS
    <3>1. gen' = gen + 1 /\ adder' = adder
      BY <1>12 DEF Reopen, NewLogger
    <3>2. adder[d].pc # "idle" => adder[d].entry.gen \in Nat /\ adder[d].entry.gen <= gen
      BY <1>0, HeldEntries DEF Loggers
    <3>3. adder[d].pc # "idle" => adder[d].entry.gen <= gen + 1
      BY <1>0, <3>2
    <3> QED
      BY <1>a, <3>1, <3>3
  <2> QED
    BY <1>11, <1>12, <2>1 DEF Reopen
<1>13. CASE Crash
  <2>1. AddersHold'
    BY <1>13, EntryFields DEF Crash
  <2> QED
    BY <1>11, <1>13, <2>1 DEF Crash
<1> QED
  BY <1>1, <1>3, <1>4, <1>5, <1>6, <1>7, <1>8, <1>9, <1>10, <1>12, <1>13
  DEF Next, AdderStep, WriterStep

\* Where an entry is that is due in the file.
OnItsWay(x) ==
    \/ x \in Lines(file) \/ x \in Lines(queue[gen]) \/ x = hand
    \/ closer = "open" /\ \E c \in Clients : adder[c].entry = x

LEMMA DueParts ==
    DueIsOnItsWay <=> \A x \in due : /\ x.gen = gen /\ OnItsWay(x)
                                     /\ writer = "ended" => x \in Lines(file)
  BY DEF DueIsOnItsWay, OnItsWay, InFlight

\* Every step preserves that what is due is on its way to the file.
LEMMA DueStep ==
    ASSUME TypeOK, EntriesHeld, DueIsOnItsWay, [Next]_vars
    PROVE  DueIsOnItsWay'
<1>0. /\ RestTypes /\ adder \in [Clients -> Adders]
      /\ gen \in Loggers /\ queue \in [Loggers -> Seq(Entries)]
      /\ queue[gen] \in Seq(Entries)
  BY TypeParts DEF RestTypes
<1>a. \A x \in due : /\ x \in Entries /\ x # NoEntry
                     /\ x.gen = gen /\ OnItsWay(x)
                     /\ writer = "ended" => x \in Lines(file)
  BY <1>0, DueParts, EntryFields DEF RestTypes
<1>b. ASSUME \A x \in due' : /\ x.gen = gen' /\ OnItsWay(x)'
                             /\ writer' = "ended" => x \in Lines(file')
      PROVE  DueIsOnItsWay'
  BY <1>b DEF DueIsOnItsWay, OnItsWay, InFlight
<1>1. ASSUME NEW c \in Clients, AddLog(c) PROVE DueIsOnItsWay'
  <2>0. PICK e : e = [id |-> nextID, gen |-> gen]
    OBVIOUS
  <2>1. /\ adder' = [adder EXCEPT ![c] = [pc |-> "check", entry |-> e]]
        /\ due' = due \cup {e} /\ closer = "open" /\ adder[c].pc = "idle"
        /\ UNCHANGED <<gen, queue, writer, hand, closer, file>>
    BY <1>1, <2>0 DEF AddLog
  <2>2. e.gen = gen /\ writer # "ended"
    BY <2>0, <2>1 DEF EntriesHeld
  <2>3. adder'[c].entry = e /\ \A d \in Clients : d # c => adder'[d] = adder[d]
    BY <1>0, <2>1
  <2>4. ASSUME NEW x \in due PROVE OnItsWay(x)'
    <3>1. adder[c].entry # x
      BY <1>a, <2>1 DEF EntriesHeld
    <3> QED
      BY <1>a, <2>1, <2>3, <3>1 DEF OnItsWay
  <2>5. OnItsWay(e)'
    BY <2>1, <2>3 DEF OnItsWay
  <2>6. ASSUME NEW x \in due'
        PROVE  x.gen = gen' /\ OnItsWay(x)' /\ writer' # "ended"
    <3>1. CASE x = e
      BY <2>1, <2>2, <2>5, <3>1
    <3>2. CASE x \in due
      BY <1>a, <2>1, <2>2, <2>4, <3>2
    <3> QED
      BY <2>1, <3>1, <3>2
  <2> QED
    BY <1>b, <2>6
<1>2. ASSUME NEW c \in Clients, Check(c) PROVE DueIsOnItsWay'
  <2>1. /\ adder[c].pc = "check"
        /\ UNCHANGED <<gen, queue, writer, hand, closer, file, due>>
    BY <1>2 DEF Check, disk
  <2>2. ASSUME NEW x \in due PROVE OnItsWay(x)'
    <3>1. CASE IsClosed(adder[c].entry.gen)
      <4>1. Return(c)
        BY <1>2, <3>1 DEF Check
      <4>2. closer = "open" => adder[c].entry # x
        <5>1. closer = "open" => adder[c].entry.gen < gen
          BY <3>1 DEF IsClosed
        <5> QED
          BY <1>0, <1>a, <5>1 DEF Loggers
      <4>3. \A d \in Clients : d # c => adder'[d] = adder[d]
        BY <1>0, <4>1, AdderMoves
      <4> QED
        BY <1>a, <2>1, <4>2, <4>3 DEF OnItsWay
    <3>2. CASE ~ IsClosed(adder[c].entry.gen)
      <4>1. Goto(c, "offer")
        BY <1>2, <3>2 DEF Check
      <4>2. \A d \in Clients : adder'[d].entry = adder[d].entry
        BY <1>0, <4>1, AdderMoves DEF Pcs
      <4> QED
        BY <1>a, <2>1, <4>2 DEF OnItsWay
    <3> QED
      BY <3>1, <3>2
  <2> QED
    BY <1>a, <1>b, <2>1, <2>2
<1>3. ASSUME NEW c \in Clients, Offer(c) PROVE DueIsOnItsWay'
  <2> DEFINE e == adder[c].entry
  <2>1. /\ adder[c].pc = "offer"
        /\ UNCHANGED <<gen, writer, hand, closer, file, due>>
    BY <1>3 DEF Offer, disk
  <2>2. e \in Entries /\ e.gen \in Loggers
    BY <1>0, <2>1, HeldEntries
  <2>3. ASSUME NEW x \in due PROVE OnItsWay(x)'
    <3>1. CASE Len(queue[e.gen]) < QueueSize
      <4>1. Return(c) /\ queue' = [queue EXCEPT ![e.gen] = Append(queue[e.gen], e)]
        BY <1>3, <3>1 DEF Offer
      <4>2. \A d \in Clients : d # c => adder'[d] = adder[d]
        BY <1>0, <4>1, AdderMoves
      <4>3. Lines(queue[gen]) \subseteq Lines(queue'[gen])
        BY <1>0, <2>2, <4>1, AppendedEntries
      <4>4. x = e => x \in Lines(queue'[gen])
        BY <1>0, <1>a, <2>2, <4>1, AppendedEntries
      <4> QED
        BY <1>a, <2>1, <4>2, <4>3, <4>4 DEF OnItsWay
    <3>2. CASE ~ (Len(queue[e.gen]) < QueueSize)
      <4>1. Goto(c, "append") /\ queue' = queue
        BY <1>3, <3>2 DEF Offer
      <4>2. \A d \in Clients : adder'[d].entry = adder[d].entry
        BY <1>0, <4>1, AdderMoves DEF Pcs
      <4> QED
        BY <1>a, <2>1, <4>1, <4>2 DEF OnItsWay
    <3> QED
      BY <3>1, <3>2
  <2> QED
    BY <1>a, <1>b, <2>1, <2>3
<1>4. ASSUME NEW c \in Clients, WriteDirectly(c) PROVE DueIsOnItsWay'
  <2> DEFINE e == adder[c].entry
  <2>1. /\ adder[c].pc = "append" /\ AppendToFile(e, e.gen) /\ Return(c)
        /\ UNCHANGED <<gen, queue, writer, hand, closer>>
    BY <1>4 DEF WriteDirectly
  <2>2. e \in Entries /\ e.gen \in Loggers
    BY <1>0, <2>1, HeldEntries
  <2>3. /\ due' \subseteq due
        /\ \A x \in due' : x \in Lines(file) \/ x = e => x \in Lines(file')
    BY <1>0, <2>1, <2>2, Written
  <2>4. \A d \in Clients : d # c => adder'[d] = adder[d]
    BY <1>0, <2>1, AdderMoves
  <2>5. ASSUME NEW x \in due' PROVE OnItsWay(x)'
    BY <1>a, <2>1, <2>3, <2>4 DEF OnItsWay
  <2> QED
    BY <1>a, <1>b, <2>1, <2>3, <2>5
<1>5. CASE Take
  <2>1. /\ writer' # "ended" /\ writer \in {"select", "drain"} /\ queue[gen] # << >>
        /\ hand' = Head(queue[gen]) /\ queue'[gen] = Tail(queue[gen])
        /\ UNCHANGED <<gen, closer, file, due, adder>>
    BY <1>0, <1>5 DEF Take, disk
  <2>2. hand = NoEntry
    BY <2>1 DEF EntriesHeld
  <2>3. Lines(queue[gen]) = Lines(queue'[gen]) \cup {hand'}
    BY <1>0, <2>1, TakenEntry
  <2>4. ASSUME NEW x \in due PROVE OnItsWay(x)'
    BY <1>a, <2>1, <2>2, <2>3 DEF OnItsWay
  <2> QED
    BY <1>a, <1>b, <2>1, <2>4
<1>6. CASE Write
  <2>1. /\ writer' # "ended" /\ AppendToFile(hand, gen)
        /\ UNCHANGED <<gen, queue, closer, adder>>
    BY <1>6 DEF Write
  <2>2. hand \in Entries
    BY <1>0, <1>6, HeldEntries DEF Write
  <2>3. /\ due' \subseteq due
        /\ \A x \in due' : x \in Lines(file) \/ x = hand => x \in Lines(file')
    BY <1>0, <2>1, <2>2, Written
  <2>4. ASSUME NEW x \in due' PROVE OnItsWay(x)'
    BY <1>a, <2>1, <2>3 DEF OnItsWay
  <2> QED
    BY <1>a, <1>b, <2>1, <2>3, <2>4
<1>7. CASE EndWriter
  <2>1. /\ writer = "drain" /\ queue[gen] = << >>
        /\ UNCHANGED <<gen, queue, hand, closer, file, due, adder>>
    BY <1>7 DEF EndWriter, disk
  <2>2. closer # "open" /\ hand = NoEntry
    BY <2>1 DEF EntriesHeld
  <2>3. ASSUME NEW x \in due PROVE x \in Lines(file) /\ OnItsWay(x)'
    BY <1>a, <2>1, <2>2, NoEntries DEF OnItsWay
  <2> QED
    BY <1>a, <1>b, <2>1, <2>3
<1>8. CASE HearStop \/ CloseReturns \/ Clear \/ UNCHANGED vars
  <2>1. /\ UNCHANGED <<gen, queue, hand, file, due, adder>>
        /\ closer' = "open" => closer = "open"
        /\ writer' = "ended" => writer = "ended"
        /\ closer = "open" => closer' = "open"
    BY <1>8 DEF HearStop, CloseReturns, Clear, vars, disk
  <2>2. ASSUME NEW x \in due PROVE OnItsWay(x)'
    BY <1>a, <2>1, <2>2 DEF OnItsWay
  <2> QED
    BY <1>a, <1>b, <2>1, <2>2
<1>9. CASE Close
  <2>1. /\ closer = "open" /\ due' = due \ InFlight
        /\ UNCHANGED <<gen, queue, hand, file, adder, writer>>
    BY <1>9 DEF Close
  <2>2. ASSUME NEW x \in due' PROVE OnItsWay(x)'
    BY <1>a, <2>1, <2>2 DEF OnItsWay, InFlight
  <2> QED
    BY <1>a, <1>b, <2>1, <2>2
<1>10. CASE Reopen \/ Crash
  <2>1. due' = {}
    BY <1>10 DEF Reopen, Crash, NewLogger
  <2> QED
    BY <1>b, <2>1
<1> QED
  BY <1>1, <1>2, <1>3, <1>4, <1>5, <1>6, <1>7, <1>8, <1>9, <1>10
  DEF Next, AdderStep, WriterStep

-----------------------------------------------------------------------------
(* The IDs.                                                                *)

\* What IDsDiffer says of the file, of the queue and of the hand of the writer,
FiledDiffer ==
    /\ \A n \in IDsOf(file) \cup IDsOf(queue[gen]) \cup {hand.id} : n < nextID
    /\ Differ(file) /\ Differ(queue[gen])
    /\ IDsOf(file) \cap IDsOf(queue[gen]) = {}
    /\ hand.id \notin IDsOf(file) \cup IDsOf(queue[gen])

\* and of the requests.
Given(n) == n \in IDsOf(file) \/ n \in IDsOf(queue[gen]) \/ n = hand.id

LiveDiffer ==
    \A c \in Clients : adder[c].pc # "idle" /\ adder[c].entry.gen = gen =>
        /\ adder[c].entry.id < nextID /\ ~ Given(adder[c].entry.id)
        /\ \A d \in Clients : /\ adder[d].pc # "idle" /\ adder[d].entry.gen = gen
                              /\ adder[d].entry.id = adder[c].entry.id
                              => d = c

LEMMA IDParts == IDsDiffer <=> mixed \/ (FiledDiffer /\ LiveDiffer)
<1>1. LiveDiffer <=>
        \A c \in Live :
          /\ LiveID(c) < nextID /\ LiveID(c) # hand.id
          /\ LiveID(c) \notin IDsOf(file) \cup IDsOf(queue[gen])
          /\ \A d \in Live : LiveID(c) = LiveID(d) => c = d
  BY DEF LiveDiffer, Live, LiveID, Given
<1> QED
  BY <1>1 DEF IDsDiffer, FiledDiffer

\* A step that gives no new ID, lets no request begin, and ends that with ID i.
LEMMA LiveStep ==
    ASSUME RestTypes, EntriesHeld, LiveDiffer, nextID' = nextID, gen' = gen, NEW i,
           IDsOf(file') \cup IDsOf(queue'[gen]) \cup {hand'.id}
               \subseteq IDsOf(file) \cup IDsOf(queue[gen]) \cup {hand.id, 0, i},
           \A c \in Clients : adder'[c].pc # "idle" =>
               /\ adder[c].pc # "idle" /\ adder'[c].entry = adder[c].entry
               /\ adder[c].entry.gen = gen => adder[c].entry.id # i
    PROVE  LiveDiffer'
<1>1. \A c \in Clients : adder[c].pc # "idle" => adder[c].entry.id # 0
  <2> TAKE c \in Clients
  <2> HAVE adder[c].pc # "idle"
  <2>1. adder[c].entry.id \in 1 .. MaxLogs
    BY HeldEntries, EntryFields
  <2> QED
    BY <2>1
<1>2. \A n : n # 0 /\ n # i /\ ~ Given(n) =>
             n \notin IDsOf(file') /\ n \notin IDsOf(queue'[gen]) /\ n # hand'.id
  BY DEF Given
<1> SUFFICES ASSUME NEW c \in Clients, adder'[c].pc # "idle", adder'[c].entry.gen = gen
             PROVE  /\ adder'[c].entry.id < nextID
                    /\ adder'[c].entry.id \notin IDsOf(file')
                    /\ adder'[c].entry.id \notin IDsOf(queue'[gen])
                    /\ adder'[c].entry.id # hand'.id
                    /\ \A d \in Clients : /\ adder'[d].pc # "idle"
                                          /\ adder'[d].entry.gen = gen
                                          /\ adder'[d].entry.id = adder'[c].entry.id
                                          => d = c
  BY DEF LiveDiffer, Given
<1>3. /\ adder[c].pc # "idle" /\ adder[c].entry.gen = gen
      /\ adder'[c].entry = adder[c].entry /\ adder[c].entry.id # i
  OBVIOUS
<1> QED
  BY <1>1, <1>2, <1>3 DEF LiveDiffer

\* Every step preserves that the IDs differ.
LEMMA IDsStep ==
    ASSUME TypeOK, EntriesHeld, IDsDiffer, [Next]_vars
    PROVE  IDsDiffer'
<1>0. /\ RestTypes /\ adder \in [Clients -> Adders]
      /\ gen \in Loggers /\ queue \in [Loggers -> Seq(Entries)]
      /\ queue[gen] \in Seq(Entries) /\ file \in Seq(LineSet)
      /\ nextID \in 1 .. MaxLogs + 1 /\ MaxLogs \in Nat
      /\ mixed \in BOOLEAN
  BY TypeParts, Constants DEF RestTypes, MemoryTypes
<1>a. mixed \/ (FiledDiffer /\ LiveDiffer)
  BY IDParts
<1>b. mixed' \/ (FiledDiffer' /\ LiveDiffer') => IDsDiffer'
  BY IDParts, PTL
<1>1. ASSUME NEW c \in Clients, AddLog(c) PROVE IDsDiffer'
  <2>0. PICK e : e = [id |-> nextID, gen |-> gen]
    OBVIOUS
  <2>1. /\ adder' = [adder EXCEPT ![c] = [pc |-> "check", entry |-> e]]
        /\ nextID' = nextID + 1
        /\ UNCHANGED <<gen, queue, hand, file, mixed>>
    BY <1>1, <2>0 DEF AddLog
  <2>2. e.id = nextID /\ e.gen = gen
    BY <2>0
  <2>3. /\ adder'[c].entry = e /\ \A d \in Clients : d # c => adder'[d] = adder[d]
    BY <1>0, <2>1
  <2> SUFFICES ASSUME FiledDiffer, LiveDiffer PROVE FiledDiffer' /\ LiveDiffer'
    BY <1>a, <1>b, <2>1
  <2>4. \A n \in IDsOf(file) \cup IDsOf(queue[gen]) \cup {hand.id} : n \in Nat /\ n < nextID
    <3>1. ASSUME NEW s, s \in Seq(Entries) \/ s \in Seq(LineSet) PROVE IDsOf(s) \subseteq Nat
      <4>1. \A i \in 1 .. Len(s) : s[i] \in LineSet
        BY <3>1, ElementOfSeq, EntryFields
      <4>2. \A i \in 1 .. Len(s) : s[i].id \in Nat
        BY <4>1, EntryFields DEF LineSet
      <4> QED
        BY <4>2 DEF IDsOf
    <3>2. hand.id \in Nat
      BY <1>0, EntryFields DEF RestTypes
    <3> QED
      BY <1>0, <3>1, <3>2 DEF FiledDiffer
  <2>5. FiledDiffer'
    <3>1. \A n \in IDsOf(file) \cup IDsOf(queue[gen]) \cup {hand.id} : n < nextID + 1
      BY <1>0, <2>4
    <3> QED
      BY <2>1, <3>1 DEF FiledDiffer
  <2>6. ~ Given(nextID)
    BY <1>0, <2>4 DEF Given
  <2>7. \A d \in Clients : adder[d].pc # "idle" /\ adder[d].entry.gen = gen =>
                           /\ adder[d].entry.id < nextID + 1 /\ adder[d].entry.id # nextID
    <3> TAKE d \in Clients
    <3> HAVE adder[d].pc # "idle" /\ adder[d].entry.gen = gen
    <3>1. adder[d].entry.id \in 1 .. MaxLogs
      BY <1>0, HeldEntries, EntryFields
    <3>2. adder[d].entry.id < nextID
      BY DEF LiveDiffer
    <3> QED
      BY <1>0, <3>1, <3>2
  <2>8. LiveDiffer'
    <3> SUFFICES ASSUME NEW d \in Clients, adder'[d].pc # "idle",
                        adder'[d].entry.gen = gen
                 PROVE  /\ adder'[d].entry.id < nextID + 1
                        /\ ~ Given(adder'[d].entry.id)
                        /\ \A f \in Clients : /\ adder'[f].pc # "idle"
                                              /\ adder'[f].entry.gen = gen
                                              /\ adder'[f].entry.id = adder'[d].entry.id
                                              => f = d
      BY <2>1 DEF LiveDiffer, Given
    <3>1. CASE d = c
      <4>1. adder'[d].entry.id = nextID /\ nextID < nextID + 1
        BY <1>0, <2>2, <2>3, <3>1
      <4> QED
        BY <2>3, <2>6, <2>7, <3>1, <4>1
    <3>2. CASE d # c
      <4>1. /\ adder'[d] = adder[d] /\ adder[d].entry.id # nextID
            /\ adder[d].entry.id < nextID + 1
        BY <2>3, <2>7, <3>2
      <4>2. \A f \in Clients : f = c => adder'[f].entry.id = nextID
        BY <2>2, <2>3
      <4> QED
        BY <2>3, <4>1, <4>2 DEF LiveDiffer
    <3> QED
      BY <3>1, <3>2
  <2> QED
    BY <2>5, <2>8
<1>2. ASSUME NEW c \in Clients, Check(c) PROVE IDsDiffer'
  <2>1. UNCHANGED <<gen, nextID, queue, hand, file, mixed>> /\ adder[c].pc # "idle"
    BY <1>2 DEF Check, memory, disk
  <2>2. \A d \in Clients : adder'[d].pc # "idle" =>
                               adder[d].pc # "idle" /\ adder'[d].entry = adder[d].entry
    BY <1>0, <1>2, <2>1, AdderMoves DEF Check, Pcs
  <2> SUFFICES ASSUME FiledDiffer, LiveDiffer PROVE FiledDiffer' /\ LiveDiffer'
    BY <1>a, <1>b, <2>1
  <2>3. \A d \in Clients : adder[d].pc # "idle" => adder[d].entry.id # 0
    BY <1>0, HeldEntries, EntryFields
  <2>4. LiveDiffer'
    BY <1>0, <2>1, <2>2, <2>3, LiveStep
  <2> QED
    BY <2>1, <2>4 DEF FiledDiffer
<1>3. ASSUME NEW c \in Clients, Offer(c) PROVE IDsDiffer'
  <2> DEFINE e == adder[c].entry
  <2>1. /\ adder[c].pc = "offer"
        /\ UNCHANGED <<gen, nextID, hand, file, mixed>>
    BY <1>3 DEF Offer, memory, disk
  <2>2. e \in Entries /\ e.gen \in Loggers
    BY <1>0, <2>1, HeldEntries
  <2> SUFFICES ASSUME FiledDiffer, LiveDiffer PROVE FiledDiffer' /\ LiveDiffer'
    BY <1>a, <1>b, <2>1
  <2>3. \A d \in Clients : adder[d].pc # "idle" => adder[d].entry.id # 0
    BY <1>0, HeldEntries, EntryFields
  <2>4. CASE queue'[gen] = queue[gen]
    <3>1. \A d \in Clients : adder'[d].pc # "idle" =>
                               adder[d].pc # "idle" /\ adder'[d].entry = adder[d].entry
      BY <1>0, <1>3, <2>1, AdderMoves DEF Offer, Pcs
    <3>2. LiveDiffer'
      BY <1>0, <2>1, <2>3, <2>4, <3>1, LiveStep
    <3> QED
      BY <2>1, <2>4, <3>2 DEF FiledDiffer
  <2>5. CASE queue'[gen] # queue[gen]
    <3>1. /\ Return(c) /\ e.gen = gen /\ queue'[gen] = Append(queue[gen], e)
      BY <1>0, <1>3, <2>2, <2>5 DEF Offer
    <3>2. /\ e.id < nextID /\ e.id \notin IDsOf(file)
          /\ e.id \notin IDsOf(queue[gen]) /\ e.id # hand.id
      BY <2>1, <3>1 DEF LiveDiffer, Given
    <3>3. /\ IDsOf(queue'[gen]) = IDsOf(queue[gen]) \cup {e.id}
          /\ Differ(queue[gen]) => Differ(queue'[gen])
      <4>1. e.id # 0
        BY <2>1, <2>3
      <4>2. /\ IDsOf(queue'[gen]) = IDsOf(queue[gen]) \cup ({e.id} \ {0})
            /\ Differ(queue[gen]) => Differ(queue'[gen])
        BY <1>0, <2>2, <3>1, <3>2, AppendedEntries
      <4> QED
        BY <4>1, <4>2
    <3>4. FiledDiffer'
      BY <2>1, <3>2, <3>3 DEF FiledDiffer
    <3>5. \A d \in Clients : adder'[d].pc # "idle" =>
            /\ adder[d].pc # "idle" /\ adder'[d].entry = adder[d].entry
            /\ adder[d].entry.gen = gen => adder[d].entry.id # e.id
      <4>1. \A d \in Clients : adder'[d].pc # "idle" => d # c /\ adder'[d] = adder[d]
        BY <1>0, <3>1, AdderMoves
      <4> QED
        BY <2>1, <3>1, <4>1 DEF LiveDiffer
    <3>6. PICK i : i = e.id
      OBVIOUS
    <3>7. IDsOf(file') \cup IDsOf(queue'[gen]) \cup {hand'.id}
             \subseteq IDsOf(file) \cup IDsOf(queue[gen]) \cup {hand.id, 0, i}
      BY <2>1, <3>3, <3>6
    <3>8. LiveDiffer'
      BY <1>0, <2>1, <3>5, <3>6, <3>7, LiveStep
    <3> QED
      BY <3>4, <3>8
  <2> QED
    BY <2>4, <2>5
<1>4. ASSUME NEW c \in Clients, WriteDirectly(c) PROVE IDsDiffer'
  <2> DEFINE e == adder[c].entry
  <2>1. /\ adder[c].pc = "append" /\ AppendToFile(e, e.gen) /\ Return(c)
        /\ UNCHANGED <<gen, nextID, queue, hand>>
    BY <1>4 DEF WriteDirectly, memory
  <2>2. e \in Entries /\ e.gen \in Loggers
    BY <1>0, <2>1, HeldEntries
  <2>3. /\ mixed' = (mixed \/ e.gen # gen)
        /\ IDsOf(file') \subseteq IDsOf(file) \cup {e.id}
        /\ Differ(file) /\ e.id \notin IDsOf(file) => Differ(file')
    BY <1>0, <2>1, <2>2, Written
  <2> SUFFICES ASSUME FiledDiffer, LiveDiffer, e.gen = gen
               PROVE  FiledDiffer' /\ LiveDiffer'
    BY <1>a, <1>b, <2>3
  <2>4. /\ e.id < nextID /\ e.id \notin IDsOf(file)
        /\ e.id \notin IDsOf(queue[gen]) /\ e.id # hand.id
    BY <2>1 DEF LiveDiffer, Given
  <2>5. FiledDiffer'
    BY <2>1, <2>3, <2>4 DEF FiledDiffer
  <2>6. \A d \in Clients : adder'[d].pc # "idle" =>
          /\ adder[d].pc # "idle" /\ adder'[d].entry = adder[d].entry
          /\ adder[d].entry.gen = gen => adder[d].entry.id # e.id
    <3>1. \A d \in Clients : adder'[d].pc # "idle" => d # c /\ adder'[d] = adder[d]
      BY <1>0, <2>1, AdderMoves
    <3> QED
      BY <2>1, <3>1 DEF LiveDiffer
  <2>7. PICK i : i = e.id
    OBVIOUS
  <2>8. IDsOf(file') \cup IDsOf(queue'[gen]) \cup {hand'.id}
           \subseteq IDsOf(file) \cup IDsOf(queue[gen]) \cup {hand.id, 0, i}
    BY <2>1, <2>3, <2>7
  <2>9. LiveDiffer'
    BY <1>0, <2>1, <2>6, <2>7, <2>8, LiveStep
  <2> QED
    BY <2>5, <2>9
<1>5. CASE Take
  <2>1. /\ writer \in {"select", "drain"} /\ queue[gen] # << >>
        /\ hand' = Head(queue[gen]) /\ queue'[gen] = Tail(queue[gen])
        /\ UNCHANGED <<gen, nextID, file, adder, mixed>>
    BY <1>0, <1>5 DEF Take, memory, disk
  <2>2. /\ IDsOf(queue[gen]) = IDsOf(queue'[gen]) \cup {hand'.id}
        /\ Differ(queue[gen]) => Differ(queue'[gen]) /\ hand'.id \notin IDsOf(queue'[gen])
    BY <1>0, <2>1, TakenEntry
  <2> SUFFICES ASSUME FiledDiffer, LiveDiffer PROVE FiledDiffer' /\ LiveDiffer'
    BY <1>a, <1>b, <2>1
  <2>3. FiledDiffer'
    BY <2>1, <2>2 DEF FiledDiffer
  <2>4. \A d \in Clients : adder[d].pc # "idle" => adder[d].entry.id # 0
    BY <1>0, HeldEntries, EntryFields
  <2>5. LiveDiffer'
    BY <1>0, <2>1, <2>2, <2>4, LiveStep
  <2> QED
    BY <2>3, <2>5
<1>6. CASE Write
  <2>1. /\ AppendToFile(hand, gen) /\ hand' = NoEntry
        /\ UNCHANGED <<gen, nextID, queue, adder>>
    BY <1>6 DEF Write, memory
  <2>2. hand \in Entries
    BY <1>0, <1>6, HeldEntries DEF Write
  <2>3. /\ mixed' = mixed
        /\ IDsOf(file') \subseteq IDsOf(file) \cup {hand.id}
        /\ Differ(file) /\ hand.id \notin IDsOf(file) => Differ(file')
    BY <1>0, <2>1, <2>2, Written
  <2> SUFFICES ASSUME FiledDiffer, LiveDiffer PROVE FiledDiffer' /\ LiveDiffer'
    BY <1>a, <1>b, <2>3
  <2>4. hand'.id = 0 /\ 0 \notin IDsOf(file') /\ 0 \notin IDsOf(queue[gen]) /\ 0 < nextID
    <3>1. \A s : 0 \notin IDsOf(s)
      BY DEF IDsOf
    <3> QED
      BY <1>0, <2>1, <3>1, EntryFields
  <2>5. FiledDiffer'
    BY <2>1, <2>3, <2>4 DEF FiledDiffer
  <2>6. \A d \in Clients : adder[d].pc # "idle" => adder[d].entry.id # 0
    BY <1>0, HeldEntries, EntryFields
  <2>7. LiveDiffer'
    BY <1>0, <2>1, <2>3, <2>4, <2>6, LiveStep
  <2> QED
    BY <2>5, <2>7
<1>7. CASE UNCHANGED <<gen, nextID, queue, hand, file, adder, mixed>>
  BY <1>7, <1>a, <1>b DEF FiledDiffer, LiveDiffer, Given
<1>8. HearStop \/ EndWriter \/ Clear \/ Close \/ CloseReturns \/ UNCHANGED vars
      => UNCHANGED <<gen, nextID, queue, hand, file, adder, mixed>>
  BY DEF HearStop, EndWriter, Clear, Close, CloseReturns, memory, disk, vars
<1>9. CASE Reopen \/ Crash
  <2>0. PICK k \in {0, 1} : NewLogger(k)
    BY <1>9 DEF Reopen, Crash
  <2>1. /\ gen' = gen + 1 /\ hand' = NoEntry
        /\ UNCHANGED file /\ gen' \in Loggers
    BY <1>0, <2>0, Constants DEF NewLogger, Loggers
  <2>2. queue'[gen'] = << >>
    <3>1. CASE queue' = queue
      BY <1>0, <2>1, <3>1 DEF EntriesHeld, Loggers
    <3>2. CASE queue' = [g \in Loggers |-> << >>]
      BY <2>1, <3>2
    <3> QED
      BY <1>9, <3>1, <3>2 DEF Reopen, Crash
  <2>3. \A c \in Clients : adder'[c].pc = "idle" \/ adder'[c].entry.gen # gen'
    <3>1. CASE adder' = adder
      <4>1. \A c \in Clients : adder[c].pc # "idle" =>
              adder[c].entry.gen \in Nat /\ adder[c].entry.gen <= gen
        BY <1>0, HeldEntries DEF Loggers
      <4> QED
        BY <1>0, <2>1, <3>1, <4>1 DEF Loggers
    <3>2. CASE adder' = [c \in Clients |-> Idle]
      BY <3>2, EntryFields
    <3> QED
      BY <1>9, <3>1, <3>2 DEF Reopen, Crash
  <2>4. PICK n \in 0 .. Len(file) :
            /\ nextID' = RestoredID(SubSeq(file, 1, n))
            /\ mixed' = (mixed \/ ~ (n = Len(file)))
    BY <2>0 DEF NewLogger
  <2> SUFFICES ASSUME FiledDiffer, n = Len(file) PROVE FiledDiffer' /\ LiveDiffer'
    BY <1>a, <1>b, <2>4
  <2>5. LiveDiffer'
    BY <2>3 DEF LiveDiffer
  <2>6. FiledDiffer'
    <3>1. nextID' = RestoredID(file)
      BY <1>0, <2>4, FirstEntries
    <3>2. nextID' \in 1 .. MaxLogs + 1 /\ \A m \in IDsOf(file) : m < nextID'
      BY <1>0, <3>1, RestoredAbove
    <3>3. 0 \notin IDsOf(file) /\ 0 < nextID'
      BY <1>0, <3>2 DEF IDsOf
    <3> QED
      BY <2>1, <2>2, <3>2, <3>3, NoEntries, EntryFields DEF FiledDiffer
  <2> QED
    BY <2>5, <2>6
<1> QED
  BY <1>1, <1>2, <1>3, <1>4, <1>5, <1>6, <1>7, <1>8, <1>9
  DEF Next, AdderStep, WriterStep

-----------------------------------------------------------------------------
(* The results.                                                            *)

\* The first logger has an empty log and an empty file.
LEMMA InitInv == Init => LogInv
<1> SUFFICES ASSUME Init PROVE LogInv
  OBVIOUS
<1>1. /\ << >> \in Seq(Records) /\ << >> \in Seq(Entries) /\ << >> \in Seq(LineSet)
      /\ Len(<< >>) = 0
      /\ MaxHistory \in Nat \ {0} /\ gen \in Loggers
  BY EmptySeq, QueryLogAssumption DEF Init, Loggers
<1>2. MemoryTypes
  BY <1>1, Constants DEF Init, MemoryTypes
<1>3. RestTypes
  <2>1. adder \in [Clients -> Adders]
    BY EntryFields DEF Init
  <2>2. queue \in [Loggers -> Seq(Entries)] /\ \A g \in Loggers : Len(queue[g]) <= QueueSize
    BY <1>1, Constants DEF Init
  <2>3. 0 \in 0 .. MaxEvents
    BY Constants
  <2> QED
    BY <1>1, <2>1, <2>2, <2>3 DEF Init, RestTypes
<1>4. Ring
  BY <1>1, FS_EmptySet DEF Init, Ring, RingStart, RingHoldsNewest, TopMatchesRing
<1>5. EntriesHeld
  BY EntryFields DEF Init, EntriesHeld
<1>6. DueIsOnItsWay
  BY DEF Init, DueIsOnItsWay
<1>7. FiledDiffer
  BY <1>1, NoEntries, EntryFields DEF Init, FiledDiffer
<1>8. LiveDiffer
  BY EntryFields DEF Init, LiveDiffer
<1> QED
  BY <1>2, <1>3, <1>4, <1>5, <1>6, <1>7, <1>8, TypeParts, IDParts DEF LogInv, Ring

\* The invariant of the query log: the ring holds the newest entries and the
\* counters count them, an entry that is due is on its way to the file, and no
\* ID is given twice (querylog.go:153-160, 205-360).
THEOREM LogInvariant == Spec => []LogInv
<1>1. ASSUME LogInv, [Next]_vars PROVE LogInv'
  <2>1. TypeOK /\ Ring /\ EntriesHeld /\ DueIsOnItsWay /\ IDsDiffer
    BY <1>1 DEF LogInv, Ring
  <2>2. RestTypes'
    BY <1>1, <2>1, RestTypesStep
  <2>3. MemoryTypes' /\ Ring'
    BY <1>1, <2>1, RingStep
  <2>4. TypeOK'
    BY <2>2, <2>3, TypeParts, PTL
  <2>5. EntriesHeld' /\ DueIsOnItsWay' /\ IDsDiffer'
    BY <1>1, <2>1, EntriesHeldStep, DueStep, IDsStep
  <2> QED
    BY <2>3, <2>4, <2>5 DEF LogInv, Ring
<1> QED
  BY <1>1, InitInv, PTL DEF Spec

\* The variables have their types in every reachable state.
THEOREM TypeCorrect == Spec => []TypeOK
<1>1. LogInv => TypeOK
  BY DEF LogInv
<1> QED
  BY <1>1, LogInvariant, PTL

\* Close flushes: what is due is in the file when it returns
\* (querylog.go:121-133, 231-240), whatever writes were cut short before.
THEOREM CloseFlushesHolds == Spec => []CloseFlushes
<1>1. LogInv => CloseFlushes
  BY DEF LogInv, EntriesHeld, DueIsOnItsWay, CloseFlushes
<1> QED
  BY <1>1, LogInvariant, PTL

\* No two lines that parse have the same ID, over reloads, crashes and writes
\* that are cut short, as long as each logger has read the whole file and no
\* request of an older one writes (querylog.go:148-170, 353-356).
THEOREM IDsUniqueHolds == Spec => []IDsUnique
<1>1. LogInv => IDsUnique
  BY DEF LogInv, IDsDiffer, IDsUnique
<1> QED
  BY <1>1, LogInvariant, PTL

\* The counter of lines is right, from the restoration of a whole file or from
\* a pruning on, through writes that fail or are cut short, until an older
\* logger writes (querylog.go:148-170, 343-358, 385).
THEOREM CountMatchesFileHolds == Spec => []CountMatchesFile
<1>1. Init => CountMatchesFile
  BY EmptySeq DEF Init, CountMatchesFile, Ended
<1>2. ASSUME LogInv, CountMatchesFile, [Next]_vars PROVE CountMatchesFile'
  <2>0. /\ RestTypes /\ EntriesHeld /\ gen \in Loggers
        /\ file \in Seq(LineSet) /\ Len(file) \in Nat
    BY <1>2, TypeParts, LenProperties DEF LogInv, RestTypes
  <2>1. ASSUME NEW e \in Entries, NEW g \in Loggers, AppendToFile(e, g)
        PROVE  CountMatchesFile'
    BY <1>2, <2>0, <2>1, Written
  <2>2. ASSUME NEW c \in Clients, WriteDirectly(c) PROVE CountMatchesFile'
    BY <2>0, <2>1, <2>2, HeldEntries DEF WriteDirectly
  <2>3. CASE Write
    BY <2>0, <2>1, <2>3, HeldEntries DEF Write
  <2>4. ASSUME NEW k \in {0, 1}, NewLogger(k) PROVE CountMatchesFile'
    <3>1. counted' => count' = Len(file) /\ ~ torn /\ UNCHANGED <<file, torn>>
      BY <2>4 DEF NewLogger
    <3> QED
      BY <2>0, <3>1 DEF CountMatchesFile, Ended
  <2>5. CASE UNCHANGED <<file, torn, count, counted>>
    BY <1>2, <2>5 DEF CountMatchesFile, Ended
  <2>6. ASSUME NEW c \in Clients, AddLog(c) \/ Check(c) \/ Offer(c)
        PROVE  UNCHANGED <<file, torn, count, counted>>
    BY <2>6 DEF AddLog, Check, Offer, disk
  <2>7. \/ Take \/ HearStop \/ EndWriter \/ Clear \/ Close \/ CloseReturns
        \/ UNCHANGED vars
        => UNCHANGED <<file, torn, count, counted>>
    BY DEF Take, HearStop, EndWriter, Clear, Close, CloseReturns, disk, vars
  <2> QED
    BY <1>2, <2>2, <2>3, <2>4, <2>5, <2>6, <2>7
    DEF Next, AdderStep, WriterStep, Reopen, Crash
<1> QED
  BY <1>1, <1>2, LogInvariant, PTL DEF Spec
-----------------------------------------------------------------------------
(* The pages.                                                              *)

\* Without a search the scan of the file may stop when it has a page: what
\* follows would not be on it (querylog.go:458-463).
THEOREM ScanMayStop ==
    ASSUME NEW S, NEW newest \in Seq(S), NEW offset \in Nat, NEW limit \in Nat
    PROVE  Cut(Cut(newest, 0, StopAfter(offset, limit)), offset, limit)
           = Cut(newest, offset, limit)
<1> DEFINE n == Len(newest)
           m == Least(offset + limit, n)
           s == Cut(newest, 0, StopAfter(offset, limit))
<1>1. n \in Nat /\ m \in 0 .. n /\ offset + limit \in Nat
  BY LenProperties DEF Least
<1>2. s = SubSeq(newest, 1, m)
  BY <1>1 DEF Cut, StopAfter, Least
<1>3. s \in Seq(S) /\ Len(s) = m /\ \A i \in 1 .. m : s[i] = newest[i]
  <2> HIDE DEF m
  <2> HIDE DEF m, s
  <2>1. m \in 0 .. Len(newest)
    BY <1>1
  <2> QED
    BY <1>2, <2>1, FirstEntries
<1> HIDE DEF s
<1>4. Least(offset + limit, Len(s)) = m
  BY <1>1, <1>3 DEF Least
<1>5. Cut(s, offset, limit) = SubSeq(s, offset + 1, m)
  BY <1>4 DEF Cut
<1>6. SubSeq(s, offset + 1, m) = SubSeq(newest, offset + 1, m)
  BY <1>1, <1>3
<1> QED
  BY <1>5, <1>6 DEF Cut, s

\* A page from memory shows the entries that its place in the view stands for,
\* newest first, with the number of all of them (querylog.go:471-505).
MemoryPage(offset, limit) ==
    LET view == FromMemory(offset, limit, Everything)
        size == IF offset >= Len(logs) THEN 0 ELSE Least(limit, Len(logs) - offset)
    IN /\ view.total = Len(logs) /\ DOMAIN view.page = 1 .. size
       /\ \A k \in 1 .. size : view.page[k].id = nextID - offset - k

\* Whatever the ring went through, its pages are right (querylog.go:471-505).
THEOREM MemoryPagesHold ==
    ASSUME NEW offset \in Nat, NEW limit \in Nat
    PROVE  Spec => []MemoryPage(offset, limit)
<1>1. LogInv => MemoryPage(offset, limit)
  <2> SUFFICES ASSUME LogInv PROVE MemoryPage(offset, limit)
    OBVIOUS
  <2> DEFINE n == Len(logs)
             page == IF offset >= n THEN << >>
                     ELSE [k \in 1 .. Least(limit, n - offset) |-> LogAt(n - offset - k)]
             size == IF offset >= n THEN 0 ELSE Least(limit, n - offset)
  <2>1. /\ FromMemory(offset, limit, Everything).page = page
        /\ FromMemory(offset, limit, Everything).total = n
    BY DEF FromMemory
  <2>2. n \in Nat /\ nextID \in Nat
    BY Constants, LenProperties, TypeParts DEF LogInv, MemoryTypes
  <2>3. size \in Nat /\ DOMAIN page = 1 .. size
    BY <2>2 DEF Least
  <2>4. ASSUME NEW k \in 1 .. size PROVE page[k].id = nextID - offset - k
    <3>1. /\ ~ (offset >= n) /\ k \in 1 .. Least(limit, n - offset)
          /\ k <= n - offset
      BY <2>2, <2>4 DEF Least
    <3>2. n - offset - k \in 0 .. n - 1
      BY <2>2, <3>1
    <3>3. page[k] = LogAt(n - offset - k)
      BY <3>1
    <3>4. LogAt(n - offset - k).id = nextID - n + (n - offset - k)
      BY <3>2 DEF LogInv, RingHoldsNewest
    <3>5. nextID - n + (n - offset - k) = nextID - offset - k
      BY <2>2, <3>2
    <3> QED
      BY <3>3, <3>4, <3>5
  <2> QED
    BY <2>1, <2>3, <2>4 DEF MemoryPage
<1> QED
  BY <1>1, LogInvariant, PTL

-----------------------------------------------------------------------------
(* The search: what the loop over the entries finds.                       *)

\* Those of the first k entries that the search matches.
Hits(s, search, k) == {j \in 1 .. k : s[j].id \in search}

\* One turn of the loop, from what was found before.
Turn(f, s, search, i) ==
    IF i = 0 THEN << >>
    ELSE IF s[i].id \in search THEN Append(f[i - 1], s[i]) ELSE f[i - 1]

\* The loop that Found describes has a run: every turn can be made.
LEMMA LoopRuns ==
    ASSUME NEW s, Len(s) \in Nat, NEW search
    PROVE  \E f : f = [i \in 0 .. Len(s) |-> Turn(f, s, search, i)]
<1> DEFINE n == Len(s)
           T == {k \in 0 .. n : \E f : f = [i \in 0 .. k |-> Turn(f, s, search, i)]}
<1>1. 0 \in T
  <2> DEFINE f == [i \in 0 .. 0 |-> << >>]
  <2>1. f = [i \in 0 .. 0 |-> Turn(f, s, search, i)]
    BY DEF Turn
  <2> QED
    BY <2>1
<1>2. ASSUME NEW k \in 0 .. n - 1, k \in T PROVE k + 1 \in T
  <2>1. PICK f : f = [i \in 0 .. k |-> Turn(f, s, search, i)]
    BY <1>2
  <2> DEFINE g == [i \in 0 .. k + 1 |-> IF i <= k THEN f[i] ELSE Turn(f, s, search, i)]
  <2>2. ASSUME NEW i \in 0 .. k + 1 PROVE g[i] = Turn(g, s, search, i)
    <3>1. g[i] = Turn(f, s, search, i)
      BY <2>1
    <3>2. i # 0 => g[i - 1] = f[i - 1]
      BY <1>2
    <3> HIDE DEF g
    <3> QED
      BY <3>1, <3>2 DEF Turn
  <2>3. g = [i \in 0 .. k + 1 |-> Turn(g, s, search, i)]
    <3> DEFINE h == [i \in 0 .. k + 1 |-> Turn(g, s, search, i)]
    <3>1. \A i \in 0 .. k + 1 : g[i] = h[i]
      BY <2>2
    <3> QED
      BY <3>1
  <2> HIDE DEF g
  <2> QED
    BY <1>2, <2>3
<1>3. n \in T
  <2> HIDE DEF n, T
  <2>1. n \in Nat
    BY DEF n
  <2>2. 0 .. n \subseteq T
    BY <1>1, <1>2, <2>1, BoundedInduction
  <2> QED
    BY <2>1, <2>2
<1> QED
  BY <1>3

\* One more entry that is matched, or not.
LEMMA HitsCount ==
    ASSUME NEW s, NEW search, NEW k \in Nat
    PROVE  /\ IsFiniteSet(Hits(s, search, k)) /\ Cardinality(Hits(s, search, k)) \in Nat
           /\ s[k + 1].id \notin search => Hits(s, search, k + 1) = Hits(s, search, k)
           /\ s[k + 1].id \in search =>
                 /\ Hits(s, search, k + 1) = Hits(s, search, k) \cup {k + 1}
                 /\ Cardinality(Hits(s, search, k + 1)) = Cardinality(Hits(s, search, k)) + 1
           /\ \A i \in Hits(s, search, k) :
                 Cardinality(Hits(s, search, i)) \in 1 .. Cardinality(Hits(s, search, k))
<1>1. ASSUME NEW i \in Nat PROVE IsFiniteSet(Hits(s, search, i))
                                 /\ Cardinality(Hits(s, search, i)) \in Nat
  <2>1. IsFiniteSet(1 .. i)
    BY FS_Interval
  <2>2. Hits(s, search, i) \subseteq 1 .. i
    BY DEF Hits
  <2> QED
    BY <2>1, <2>2, FS_Subset, FS_CardinalityType
<1>2. /\ s[k + 1].id \notin search => Hits(s, search, k + 1) = Hits(s, search, k)
      /\ s[k + 1].id \in search => Hits(s, search, k + 1) = Hits(s, search, k) \cup {k + 1}
  <2>1. 1 .. k + 1 = (1 .. k) \cup {k + 1}
    OBVIOUS
  <2> QED
    BY <2>1 DEF Hits
<1>3. k + 1 \notin Hits(s, search, k)
  BY DEF Hits
<1>4. Cardinality(Hits(s, search, k) \cup {k + 1}) = Cardinality(Hits(s, search, k)) + 1
  BY <1>1, <1>3, FS_AddElement
<1>5. ASSUME NEW i \in Hits(s, search, k)
      PROVE  Cardinality(Hits(s, search, i)) \in 1 .. Cardinality(Hits(s, search, k))
  <2>1. i \in 1 .. k /\ i \in Hits(s, search, i) /\ Hits(s, search, i) \subseteq Hits(s, search, k)
    BY DEF Hits
  <2>2. Cardinality(Hits(s, search, i)) <= Cardinality(Hits(s, search, k))
    BY <1>1, <2>1, FS_Subset
  <2>3. Cardinality(Hits(s, search, i)) # 0
    BY <1>1, <2>1, FS_EmptySet
  <2> QED
    BY <1>1, <2>1, <2>2, <2>3
<1> QED
  BY <1>1, <1>2, <1>4, <1>5

\* What Found returns is the last of the run.
LEMMA FoundRun ==
    ASSUME NEW s, Len(s) \in Nat, NEW search
    PROVE  \E f : /\ f = [i \in 0 .. Len(s) |-> Turn(f, s, search, i)]
                 /\ Found(s, search) = f[Len(s)]
<1> DEFINE F == CHOOSE f : f = [i \in 0 .. Len(s) |-> Turn(f, s, search, i)]
<1>1. F = [i \in 0 .. Len(s) |-> Turn(F, s, search, i)]
  BY LoopRuns
<1>2. Found(s, search) = F[Len(s)]
  BY DEF Found, Turn
<1> HIDE DEF F
<1> QED
  BY <1>1, <1>2

\* The loop finds the matches in the order of the list, and nothing else.
LEMMA FoundMatches ==
    ASSUME NEW S, NEW s \in Seq(S), NEW search
    PROVE  /\ Found(s, search) \in Seq({x \in S : x.id \in search})
           /\ Len(Found(s, search)) = Cardinality(Hits(s, search, Len(s)))
           /\ \A i \in Hits(s, search, Len(s)) :
                 Found(s, search)[Cardinality(Hits(s, search, i))] = s[i]
<1> DEFINE n == Len(s)
<1>0. n \in Nat /\ \A i \in 1 .. n : s[i] \in S
  BY LenProperties
<1>1. PICK f : /\ f = [i \in 0 .. n |-> Turn(f, s, search, i)]
               /\ Found(s, search) = f[n]
  BY <1>0, FoundRun
<1> DEFINE M == {x \in S : x.id \in search}
           Right(k) ==
             /\ f[k] \in Seq(M)
             /\ Len(f[k]) = Cardinality(Hits(s, search, k))
             /\ \A i \in Hits(s, search, k) : f[k][Cardinality(Hits(s, search, i))] = s[i]
           T == {k \in 0 .. n : Right(k)}
<1>2. 0 \in T
  <2>1. f[0] = << >>
    BY <1>0, <1>1 DEF Turn
  <2>2. Hits(s, search, 0) = {} /\ Cardinality({}) = 0
    BY FS_EmptySet DEF Hits
  <2>3. << >> \in Seq(M) /\ Len(<< >>) = 0
    BY EmptySeq
  <2>4. Right(0)
    BY <2>1, <2>2, <2>3
  <2> QED
    BY <1>0, <2>4
<1>3. ASSUME NEW k \in 0 .. n - 1, k \in T PROVE k + 1 \in T
  <2>1. k \in Nat /\ k + 1 \in 1 .. n /\ s[k + 1] \in S
    BY <1>0
  <2>2. Right(k)
    BY <1>3
  <2>3. f[k + 1] = IF s[k + 1].id \in search THEN Append(f[k], s[k + 1]) ELSE f[k]
    <3>1. f[k + 1] = Turn(f, s, search, k + 1)
      BY <1>1, <2>1
    <3>2. k + 1 # 0 /\ (k + 1) - 1 = k
      BY <2>1
    <3> QED
      BY <3>1, <3>2 DEF Turn
  <2>4. CASE s[k + 1].id \notin search
    <3>1. f[k + 1] = f[k]
      BY <2>3, <2>4
    <3>2. Hits(s, search, k + 1) = Hits(s, search, k)
      BY <2>1, <2>4, HitsCount
    <3>3. Right(k + 1)
      BY <2>2, <3>1, <3>2
    <3> QED
      BY <2>1, <3>3
  <2>5. CASE s[k + 1].id \in search
    <3> DEFINE h == Hits(s, search, k)
    <3>1. /\ f[k + 1] = Append(f[k], s[k + 1])
          /\ Hits(s, search, k + 1) = h \cup {k + 1}
          /\ Cardinality(Hits(s, search, k + 1)) = Cardinality(h) + 1
          /\ \A i \in h : Cardinality(Hits(s, search, i)) \in 1 .. Cardinality(h)
      BY <2>1, <2>3, <2>5, HitsCount
    <3>2. /\ f[k + 1] \in Seq(M) /\ Len(f[k + 1]) = Cardinality(h) + 1
          /\ \A i \in 1 .. Cardinality(h) : f[k + 1][i] = f[k][i]
          /\ f[k + 1][Cardinality(h) + 1] = s[k + 1]
      <4>1. s[k + 1] \in M
        BY <2>1, <2>5
      <4> HIDE DEF M
      <4> QED
        BY <2>2, <3>1, <4>1, AppendProperties
    <3>3. \A i \in h : f[k + 1][Cardinality(Hits(s, search, i))] = s[i]
      BY <2>2, <3>1, <3>2
    <3>4. f[k + 1][Cardinality(Hits(s, search, k + 1))] = s[k + 1]
      BY <3>1, <3>2
    <3>5. Right(k + 1)
      BY <3>1, <3>2, <3>3, <3>4
    <3> QED
      BY <2>1, <3>5
  <2> QED
    BY <2>4, <2>5
<1>4. n \in T
  <2> HIDE DEF n, T
  <2>1. 0 .. n \subseteq T
    BY <1>0, <1>2, <1>3, BoundedInduction
  <2> QED
    BY <1>0, <2>1
<1> QED
  BY <1>1, <1>4

\* What it finds in the first entries comes first in what it finds in all.
LEMMA FoundPart ==
    ASSUME NEW S, NEW s \in Seq(S), NEW m \in 0 .. Len(s), NEW search
    PROVE  LET v == Found(s, search)
               w == Found(SubSeq(s, 1, m), search)
           IN Len(w) <= Len(v) /\ \A i \in 1 .. Len(w) : w[i] = v[i]
<1> DEFINE n == Len(s)
           t == SubSeq(s, 1, m)
           M == {x \in S : x.id \in search}
<1>1. /\ n \in Nat /\ m \in Nat /\ m <= n /\ \A i \in 1 .. n : s[i] \in S
      /\ t \in Seq(S) /\ Len(t) = m /\ \A i \in 1 .. m : t[i] = s[i]
  BY LenProperties, FirstEntries
<1> HIDE DEF t
<1>2. PICK f : f = [i \in 0 .. n |-> Turn(f, s, search, i)] /\ Found(s, search) = f[n]
  BY <1>1, FoundRun
<1>3. PICK g : g = [i \in 0 .. m |-> Turn(g, t, search, i)] /\ Found(t, search) = g[m]
  BY <1>1, FoundRun
<1>4. ASSUME NEW k \in 0 .. n - 1
      PROVE  f[k + 1] = IF s[k + 1].id \in search THEN Append(f[k], s[k + 1]) ELSE f[k]
  <2>1. k + 1 \in 0 .. n /\ k + 1 # 0 /\ (k + 1) - 1 = k
    BY <1>1
  <2>2. f[k + 1] = Turn(f, s, search, k + 1)
    BY <1>2, <2>1
  <2> QED
    BY <2>1, <2>2 DEF Turn
<1>5. ASSUME NEW k \in 0 .. m - 1
      PROVE  g[k + 1] = IF s[k + 1].id \in search THEN Append(g[k], s[k + 1]) ELSE g[k]
  <2>1. k + 1 \in 1 .. m /\ k + 1 # 0 /\ (k + 1) - 1 = k
    BY <1>1
  <2>2. t[k + 1] = s[k + 1]
    BY <1>1, <2>1
  <2>3. g[k + 1] = Turn(g, t, search, k + 1)
    BY <1>3, <2>1
  <2> QED
    BY <2>1, <2>2, <2>3 DEF Turn
<1>6. f[m] = g[m]
  <2> DEFINE T == {k \in 0 .. m : f[k] = g[k]}
  <2>1. 0 \in T
    <3>1. f[0] = << >> /\ g[0] = << >> /\ 0 \in 0 .. m
      BY <1>1, <1>2, <1>3 DEF Turn
    <3> QED
      BY <3>1
  <2>2. ASSUME NEW k \in 0 .. m - 1, k \in T PROVE k + 1 \in T
    <3>1. k \in 0 .. n - 1 /\ k + 1 \in 0 .. m
      BY <1>1
    <3> QED
      BY <1>4, <1>5, <2>2, <3>1
  <2> HIDE DEF T
  <2>3. 0 .. m \subseteq T
    BY <1>1, <2>1, <2>2, BoundedInduction
  <2> QED
    BY <1>1, <2>3 DEF T
<1> DEFINE w == f[m]
           After(k) == /\ f[m + k] \in Seq(S) /\ Len(w) <= Len(f[m + k])
                       /\ \A i \in 1 .. Len(w) : f[m + k][i] = w[i]
           U == {k \in 0 .. n - m : After(k)}
<1>7. w \in Seq(S) /\ Len(w) \in Nat
  <2>1. Found(t, search) \in Seq(M)
    BY <1>1, FoundMatches
  <2>2. M \subseteq S
    OBVIOUS
  <2> HIDE DEF M
  <2>3. Found(t, search) \in Seq(S)
    BY <2>1, <2>2
  <2> QED
    BY <1>3, <1>6, <2>3, LenProperties
<1>8. 0 \in U
  BY <1>1, <1>7
<1>9. ASSUME NEW k \in 0 .. (n - m) - 1, k \in U PROVE k + 1 \in U
  <2>1. /\ m + k \in 0 .. n - 1 /\ (m + k) + 1 = m + (k + 1) /\ k + 1 \in 0 .. n - m
        /\ (m + k) + 1 \in 1 .. n
    BY <1>1
  <2>2. After(k)
    BY <1>9
  <2> DEFINE x == s[(m + k) + 1]
  <2>3. f[m + (k + 1)] = IF x.id \in search THEN Append(f[m + k], x) ELSE f[m + k]
    BY <1>4, <2>1
  <2>4. x \in S
    BY <1>1, <2>1
  <2> HIDE DEF x, w
  <2>5. CASE x.id \notin search
    BY <2>1, <2>2, <2>3, <2>5
  <2>6. CASE x.id \in search
    <3>1. /\ f[m + (k + 1)] \in Seq(S) /\ Len(f[m + (k + 1)]) = Len(f[m + k]) + 1
          /\ \A i \in 1 .. Len(f[m + k]) : f[m + (k + 1)][i] = f[m + k][i]
      BY <2>2, <2>3, <2>4, <2>6, AppendProperties
    <3>2. Len(f[m + k]) \in Nat
      BY <2>2, LenProperties
    <3>3. After(k + 1)
      BY <1>7, <2>2, <3>1, <3>2
    <3> QED
      BY <2>1, <3>3
  <2> QED
    BY <2>5, <2>6
<1>10. n - m \in U
  <2> HIDE DEF U
  <2>1. n - m \in Nat
    BY <1>1
  <2>2. 0 .. n - m \subseteq U
    BY <1>8, <1>9, <2>1, BoundedInduction
  <2> QED
    BY <2>1, <2>2
<1>11. m + (n - m) = n
  BY <1>1
<1> QED
  BY <1>2, <1>3, <1>6, <1>10, <1>11 DEF t

-----------------------------------------------------------------------------
(* The pages, put together.                                                *)

\* Of as many pages as the total needs, each but the last ends with its limit,
\* and the last one with the list.
LEMMA PageEnds ==
    ASSUME NEW n \in Nat, NEW limit \in Nat \ {0}, NEW p \in Nat,
           p <= (n + limit - 1) \div limit
    PROVE  /\ (n + limit - 1) \div limit \in Nat /\ p * limit \in Nat
           /\ p < (n + limit - 1) \div limit => p * limit <= n
           /\ p = (n + limit - 1) \div limit => n <= p * limit
           /\ p # 0 => (p - 1) * limit + limit = p * limit
<1> DEFINE last == (n + limit - 1) \div limit
<1>1. /\ last \in Nat
      /\ last * limit <= n + limit - 1 /\ n + limit - 1 < (last + 1) * limit
  <2>1. n + limit - 1 \in Nat
    OBVIOUS
  <2> QED
    BY <2>1, Division
<1> HIDE DEF last
<1>2. /\ p * limit \in Nat /\ (p + 1) * limit = p * limit + limit
      /\ (last + 1) * limit = last * limit + limit /\ last * limit \in Nat
  BY <1>1, Multiples
<1>3. ASSUME p < last PROVE p * limit <= n
  <2>1. (p + 1) * limit <= last * limit
    BY <1>1, <1>3, Multiples
  <2> QED
    BY <1>1, <1>2, <2>1
<1>4. ASSUME p = last PROVE n <= p * limit
  BY <1>1, <1>2, <1>4
<1>5. p # 0 => (p - 1) * limit + limit = p * limit
  <2>1. ASSUME p # 0 PROVE ((p - 1) + 1) * limit = (p - 1) * limit + limit
    <3>1. p - 1 \in Nat
      BY <2>1
    <3> QED
      BY <3>1, Multiples
  <2> QED
    BY <2>1
<1> QED
  BY <1>1, <1>2, <1>3, <1>4, <1>5 DEF last

\* One more page, after those that were joined before.
Joined(f, pages, i) == IF i = 1 THEN pages[i] ELSE f[i - 1] \o pages[i]

\* What FlattenSeq describes can be computed, and it returns the last of it.
LEMMA FlattenRuns ==
    ASSUME NEW pages, Len(pages) \in Nat, Len(pages) # 0
    PROVE  \E f : /\ f = [i \in 1 .. Len(pages) |-> Joined(f, pages, i)]
                 /\ FlattenSeq(pages) = f[Len(pages)]
<1> DEFINE n == Len(pages)
           T == {k \in 0 .. n : \E f : f = [i \in 1 .. k |-> Joined(f, pages, i)]}
<1>1. 0 \in T
  <2> DEFINE f == [i \in 1 .. 0 |-> << >>]
  <2>1. f = [i \in 1 .. 0 |-> Joined(f, pages, i)]
    OBVIOUS
  <2>2. 0 \in 0 .. n
    OBVIOUS
  <2> HIDE DEF f
  <2> QED
    BY <2>1, <2>2
<1>2. ASSUME NEW k \in 0 .. n - 1, k \in T PROVE k + 1 \in T
  <2>1. PICK f : f = [i \in 1 .. k |-> Joined(f, pages, i)]
    BY <1>2
  <2> DEFINE g == [i \in 1 .. k + 1 |-> IF i <= k THEN f[i] ELSE Joined(f, pages, i)]
  <2>2. ASSUME NEW i \in 1 .. k + 1 PROVE g[i] = Joined(g, pages, i)
    <3>1. g[i] = Joined(f, pages, i)
      BY <2>1
    <3>2. i # 1 => g[i - 1] = f[i - 1]
      BY <1>2
    <3> HIDE DEF g
    <3> QED
      BY <3>1, <3>2 DEF Joined
  <2>3. g = [i \in 1 .. k + 1 |-> Joined(g, pages, i)]
    <3> DEFINE h == [i \in 1 .. k + 1 |-> Joined(g, pages, i)]
    <3>1. \A i \in 1 .. k + 1 : g[i] = h[i]
      BY <2>2
    <3> QED
      BY <3>1
  <2> HIDE DEF g
  <2> QED
    BY <1>2, <2>3
<1>3. n \in T
  <2> HIDE DEF n, T
  <2>1. n \in Nat
    BY DEF n
  <2>2. 0 .. n \subseteq T
    BY <1>1, <1>2, <2>1, BoundedInduction
  <2> QED
    BY <2>1, <2>2
<1> DEFINE F == CHOOSE f : f = [i \in 1 .. n |-> Joined(f, pages, i)]
<1>4. F = [i \in 1 .. n |-> Joined(F, pages, i)]
  BY <1>3
<1>5. FlattenSeq(pages) = F[n]
  BY DEF FlattenSeq, Joined
<1> HIDE DEF F
<1> QED
  BY <1>4, <1>5

\* The pages of a list, put together, are the list; a total that is too large
\* only makes more pages.
LEMMA PagesJoin ==
    ASSUME NEW S, NEW list \in Seq(S), NEW limit \in Nat \ {0}, NEW pages,
           NEW total \in Nat, Len(list) <= total,
           pages = [p \in 1 .. (total + limit - 1) \div limit |->
                      Cut(list, (p - 1) * limit, limit)]
    PROVE  FlattenSeq(pages) = list
<1> DEFINE n    == Len(list)
           last == (total + limit - 1) \div limit
           Upto(p) == Least(p * limit, n)
<1>1. n \in Nat /\ last \in Nat
  BY LenProperties, PageEnds
<1>2. Len(pages) = last
  BY <1>1
<1>3. ASSUME NEW p \in 1 .. last
      PROVE  pages[p] = SubSeq(list, (p - 1) * limit + 1, Upto(p))
  <2>1. pages[p] = Cut(list, (p - 1) * limit, limit)
    OBVIOUS
  <2>2. (p - 1) * limit + limit = p * limit
    BY <1>1, PageEnds
  <2> QED
    BY <2>1, <2>2 DEF Cut
<1> HIDE DEF last
<1>4. CASE last = 0
  <2>1. n <= 0 * limit
    BY <1>1, <1>4, PageEnds DEF last
  <2>2. list = << >>
    BY <1>1, <2>1, EmptySeq
  <2>3. pages = << >> /\ Len(pages) = 0
    BY <1>2, <1>4 DEF last
  <2> QED
    BY <2>2, <2>3 DEF FlattenSeq
<1>5. CASE last # 0
  <2>1. PICK f : /\ f = [i \in 1 .. last |-> Joined(f, pages, i)]
                 /\ FlattenSeq(pages) = f[last]
    <3>1. Len(pages) \in Nat /\ Len(pages) # 0
      BY <1>1, <1>2, <1>5
    <3> QED
      BY <1>2, <3>1, FlattenRuns
  <2> DEFINE T == {k \in 0 .. last - 1 : f[k + 1] = SubSeq(list, 1, Upto(k + 1))}
  <2>2. 0 \in T
    <3>1. f[1] = pages[1] /\ 1 \in 1 .. last /\ 0 \in 0 .. last - 1
      BY <1>1, <1>5, <2>1 DEF Joined
    <3>2. (1 - 1) * limit + 1 = 1 /\ 0 + 1 = 1
      OBVIOUS
    <3>3. f[1] = SubSeq(list, 1, Upto(1))
      BY <1>3, <3>1, <3>2
    <3> QED
      BY <3>1, <3>2, <3>3
  <2>3. ASSUME NEW k \in 0 .. (last - 1) - 1, k \in T PROVE k + 1 \in T
    <3>1. /\ k + 1 \in Nat /\ k + 1 < last /\ k + 2 \in 1 .. last /\ k + 2 # 1
          /\ (k + 2) - 1 = k + 1 /\ (k + 1) + 1 = k + 2
      BY <1>1, <2>3
    <3>2. f[k + 2] = SubSeq(list, 1, Upto(k + 1)) \o pages[k + 2]
      <4>1. f[k + 2] = f[(k + 2) - 1] \o pages[k + 2]
        BY <2>1, <3>1 DEF Joined
      <4> QED
        BY <2>3, <3>1, <4>1
    <3>3. /\ (k + 1) * limit \in Nat /\ (k + 2) * limit \in Nat
          /\ (k + 1) * limit <= (k + 2) * limit
      BY <3>1, Multiples
    <3>4. pages[k + 2] = SubSeq(list, (k + 1) * limit + 1, Upto(k + 2))
      BY <1>3, <3>1
    <3> DEFINE a == Upto(k + 1)
               b == Upto(k + 2)
    <3>5. a \in 0 .. n /\ b \in a .. n
      BY <1>1, <3>3 DEF Least
    <3>6. ASSUME (k + 1) * limit <= n
          PROVE  f[k + 2] = SubSeq(list, 1, b)
      <4>1. (k + 1) * limit = a
        BY <1>1, <3>3, <3>6 DEF Least
      <4>2. 1 \in 1 .. Len(list) + 1 /\ a \in 1 - 1 .. Len(list)
        BY <1>1, <3>5
      <4> HIDE DEF a, b
      <4>3. SubSeq(list, 1, a) \o SubSeq(list, a + 1, b) = SubSeq(list, 1, b)
        BY <3>5, <4>2, ConcatAdjacentSubSeq
      <4> QED
        BY <3>2, <3>4, <4>1, <4>3 DEF a, b
    <3>7. ASSUME ~ ((k + 1) * limit <= n)
          PROVE  f[k + 2] = SubSeq(list, 1, b)
      <4>1. a = n /\ b = n /\ n < (k + 1) * limit + 1
        BY <1>1, <3>3, <3>7 DEF Least
      <4> HIDE DEF a, b
      <4>2. pages[k + 2] = << >>
        BY <1>1, <3>3, <3>4, <4>1, SubSeqEmpty DEF b
      <4>3. SubSeq(list, 1, n) = list /\ list \o << >> = list
        BY SubSeqFull, ConcatEmptySeq
      <4> QED
        BY <3>2, <4>1, <4>2, <4>3 DEF a, b
    <3>8. f[(k + 1) + 1] = SubSeq(list, 1, Upto((k + 1) + 1))
      BY <3>1, <3>6, <3>7
    <3>9. k + 1 \in 0 .. last - 1
      BY <1>1, <3>1
    <3> QED
      BY <3>8, <3>9
  <2>4. last - 1 \in T
    <3> HIDE DEF T
    <3>1. last - 1 \in Nat
      BY <1>1, <1>5
    <3>2. 0 .. last - 1 \subseteq T
      BY <2>2, <2>3, <3>1, BoundedInduction
    <3> QED
      BY <3>1, <3>2
  <2>5. Upto(last) = n
    <3>1. last * limit \in Nat /\ total <= last * limit
      BY <1>1, PageEnds DEF last
    <3> QED
      BY <1>1, <3>1 DEF Least
  <2>6. f[last] = SubSeq(list, 1, n)
    <3>1. (last - 1) + 1 = last
      BY <1>1
    <3> QED
      BY <2>4, <2>5, <3>1
  <2> QED
    BY <2>1, <2>6, SubSeqFull
<1> QED
  BY <1>4, <1>5


-----------------------------------------------------------------------------
(* What all pages show.                                                    *)

\* The IDs of entries, in their order.
NumbersOf(s) == [k \in 1 .. Len(s) |-> s[k].id]

LEMMA NumbersType ==
    ASSUME NEW S, NEW s \in Seq(S), \A x \in S : x.id \in Everything
    PROVE  NumbersOf(s) \in Seq(Everything) /\ Len(NumbersOf(s)) = Len(s)
<1>1. Len(s) \in Nat /\ \A k \in 1 .. Len(s) : s[k] \in S
  BY LenProperties
<1> QED
  BY <1>1 DEF NumbersOf

\* How many entries a page has, and which.
Size(s, offset, limit) ==
    IF offset + 1 <= Least(offset + limit, Len(s))
    THEN Least(offset + limit, Len(s)) - offset ELSE 0

LEMMA CutEntries ==
    ASSUME NEW S, NEW s \in Seq(S), NEW offset \in Nat, NEW limit \in Nat
    PROVE  LET page == Cut(s, offset, limit)
               size == Size(s, offset, limit)
           IN /\ page \in Seq(S) /\ Len(page) = size /\ size \in Nat
              /\ \A k \in 1 .. size : offset + k \in 1 .. Len(s) /\ page[k] = s[offset + k]
<1> DEFINE n == Len(s)
           e == Least(offset + limit, n)
           page == Cut(s, offset, limit)
           size == Size(s, offset, limit)
<1>1. n \in Nat /\ e \in Nat /\ e <= n
  BY LenProperties DEF Least
<1>2. page = SubSeq(s, offset + 1, e) /\ size = IF offset + 1 <= e THEN e - offset ELSE 0
  BY DEF Cut, Size
<1> HIDE DEF e, page, size
<1>3. /\ page \in Seq(S)
      /\ Len(page) = IF offset + 1 <= e THEN e - (offset + 1) + 1 ELSE 0
      /\ \A k \in 1 .. e - (offset + 1) + 1 : page[k] = s[offset + 1 + k - 1]
  <2>1. \A i \in offset + 1 .. e : s[i] \in S
    BY <1>1
  <2> QED
    BY <1>1, <1>2, <2>1, SubSeqProperties
<1>4. /\ size \in Nat /\ Len(page) = size
      /\ \A k \in 1 .. size : /\ k \in 1 .. e - (offset + 1) + 1
                              /\ offset + 1 + k - 1 = offset + k /\ offset + k \in 1 .. n
  BY <1>1, <1>2, <1>3
<1> QED
  BY <1>3, <1>4 DEF page, size

\* The IDs on a page are a page of the IDs.
LEMMA NumbersOnPage ==
    ASSUME NEW S, NEW s \in Seq(S), NEW offset \in Nat, NEW limit \in Nat,
           \A x \in S : x.id \in Everything
    PROVE  NumbersOf(Cut(s, offset, limit)) = Cut(NumbersOf(s), offset, limit)
<1> DEFINE page == Cut(s, offset, limit)
           numbers == Cut(NumbersOf(s), offset, limit)
           size == Size(s, offset, limit)
<1>1. NumbersOf(s) \in Seq(Everything) /\ Len(NumbersOf(s)) = Len(s)
      /\ \A k \in 1 .. Len(s) : NumbersOf(s)[k] = s[k].id
  BY NumbersType DEF NumbersOf
<1>2. Size(NumbersOf(s), offset, limit) = size
  BY <1>1 DEF Size
<1>3. /\ Len(page) = size
      /\ \A k \in 1 .. size : offset + k \in 1 .. Len(s) /\ page[k] = s[offset + k]
  BY CutEntries
<1>4. /\ Len(numbers) = size /\ numbers \in Seq(Everything)
      /\ \A k \in 1 .. size : numbers[k] = NumbersOf(s)[offset + k]
  BY <1>1, <1>2, CutEntries
<1> HIDE DEF page, numbers, size
<1>5. numbers = [k \in 1 .. size |-> numbers[k]]
  BY <1>4
<1>6. \A k \in 1 .. size : numbers[k] = page[k].id
  BY <1>1, <1>3, <1>4
<1>7. NumbersOf(page) = numbers
  BY <1>3, <1>5, <1>6 DEF NumbersOf
<1> QED
  BY <1>7 DEF page, numbers

\* What the loop finds shows what the search matches.
LEMMA FoundShows ==
    ASSUME NEW S, NEW s \in Seq(S), NEW search \in SUBSET Everything
    PROVE  /\ Found(s, search) \in Seq({x \in S : x.id \in Everything})
           /\ Len(Found(s, search)) <= Len(s)
           /\ ShowsMatches(NumbersOf(Found(s, search)), NumbersOf(s), search)
<1> DEFINE n == Len(s)
           v == Found(s, search)
           list == NumbersOf(s)
           shown == NumbersOf(v)
           M == {x \in S : x.id \in search}
           E == {x \in S : x.id \in Everything}
<1>1. n \in Nat /\ Len(list) = n /\ \A k \in 1 .. n : list[k] = s[k].id
  BY LenProperties DEF NumbersOf
<1>2. \A i \in 0 .. n : Matches(list, search, i) = Hits(s, search, i)
  BY <1>1 DEF Matches, Hits
<1>3. \A i \in Hits(s, search, n) : i \in 1 .. n
  BY DEF Hits
<1>4. /\ v \in Seq(M) /\ Len(v) = Cardinality(Hits(s, search, n))
      /\ \A i \in Hits(s, search, n) : v[Cardinality(Hits(s, search, i))] = s[i]
  BY FoundMatches
<1>5. v \in Seq(E)
  <2>1. M \subseteq E
    OBVIOUS
  <2> HIDE DEF M, E
  <2> QED
    BY <1>4, <2>1
<1>6. Len(v) <= n
  <2>1. IsFiniteSet(1 .. n) /\ Cardinality(1 .. n) = n
    <3> HIDE DEF n
    <3>1. IsFiniteSet(1 .. n)
      BY <1>1, FS_Interval
    <3>2. Cardinality(1 .. n) = IF 1 > n THEN 0 ELSE n - 1 + 1
      BY <1>1, FS_Interval
    <3> QED
      BY <1>1, <3>1, <3>2
  <2>2. Hits(s, search, n) \subseteq 1 .. n
    BY <1>3
  <2> QED
    <3>1. Cardinality(Hits(s, search, n)) <= Cardinality(1 .. n)
      BY <2>1, <2>2, FS_Subset
    <3> QED
      BY <1>4, <2>1, <3>1
<1>7. Len(shown) = Len(v) /\ \A k \in 1 .. Len(v) : shown[k] = v[k].id
  BY <1>4, LenProperties DEF NumbersOf
<1>8. \A i \in Hits(s, search, n) :
        Cardinality(Hits(s, search, i)) \in 1 .. Cardinality(Hits(s, search, n))
  BY <1>1, HitsCount
<1> HIDE DEF v, list, shown
<1>9. \A i \in Hits(s, search, n) : shown[Cardinality(Hits(s, search, i))] = list[i]
  BY <1>1, <1>3, <1>4, <1>7, <1>8
<1>10. ShowsMatches(shown, list, search)
  BY <1>1, <1>2, <1>3, <1>4, <1>7, <1>9 DEF ShowsMatches
<1> QED
  BY <1>5, <1>6, <1>10 DEF v, list, shown

\* The entries of the ring that a search looks at, and those it shows.
View(s, search) == IF search = Everything THEN s ELSE Found(s, search)

LEMMA ViewShows ==
    ASSUME NEW S, NEW s \in Seq(S), \A x \in S : x.id \in Everything,
           NEW search \in SUBSET Everything
    PROVE  /\ View(s, search) \in Seq(S)
           /\ ShowsMatches(NumbersOf(View(s, search)), NumbersOf(s), search)
<1>1. CASE search = Everything
  <2> DEFINE n == Len(s)
             list == NumbersOf(s)
  <2>1. /\ n \in Nat /\ list \in Seq(Everything) /\ Len(list) = n
        /\ View(s, search) = s
    BY <1>1, LenProperties, NumbersType DEF View
  <2> HIDE DEF list
  <2>2. ASSUME NEW i \in 0 .. n PROVE Cardinality(Matches(list, search, i)) = i
    <3>1. Matches(list, search, i) = 1 .. i
      BY <1>1, <2>1 DEF Matches
    <3>2. Cardinality(1 .. i) = IF 1 > i THEN 0 ELSE i - 1 + 1
      BY FS_Interval
    <3> QED
      BY <3>1, <3>2
  <2>3. \A i \in Matches(list, search, n) : i \in 0 .. n
    BY DEF Matches
  <2>4. ShowsMatches(list, list, search)
    BY <2>1, <2>2, <2>3 DEF ShowsMatches
  <2> QED
    BY <2>1, <2>4 DEF list
<1>2. CASE search # Everything
  <2>1. {x \in S : x.id \in Everything} = S
    OBVIOUS
  <2> QED
    BY <1>2, <2>1, FoundShows DEF View
<1> QED
  BY <1>1, <1>2

\* Putting the pages of one list together, IDs only.
LEMMA NumbersJoin ==
    ASSUME NEW S, NEW view \in Seq(S), \A x \in S : x.id \in Everything,
           NEW limit \in Nat \ {0}, NEW ids, NEW total \in Nat, Len(view) <= total,
           ids = [p \in 1 .. (total + limit - 1) \div limit |->
                    NumbersOf(Cut(view, (p - 1) * limit, limit))]
    PROVE  FlattenSeq(ids) = NumbersOf(view)
<1>1. /\ NumbersOf(view) \in Seq(Everything)
      /\ Len(NumbersOf(view)) = Len(view) /\ Len(view) \in Nat
  BY NumbersType, LenProperties
<1> DEFINE last == (total + limit - 1) \div limit
<1>2. last \in Nat
  BY <1>1, PageEnds
<1>3. ASSUME NEW p \in 1 .. last
      PROVE  NumbersOf(Cut(view, (p - 1) * limit, limit))
             = Cut(NumbersOf(view), (p - 1) * limit, limit)
  <2>1. p - 1 \in Nat
    BY <1>2
  <2>2. (p - 1) * limit \in Nat
    BY <2>1, Multiples
  <2> QED
    BY <2>2, NumbersOnPage
<1> HIDE DEF last
<1>4. ids = [p \in 1 .. last |-> Cut(NumbersOf(view), (p - 1) * limit, limit)]
  BY <1>3 DEF last
<1> QED
  BY <1>1, <1>4, PagesJoin DEF last

\* The lines from the last one to the first.
LEMMA NewestLines ==
    ASSUME TypeOK
    PROVE  /\ Reverse(file) \in Seq(LineSet) /\ Len(Reverse(file)) = Len(file)
           /\ NumbersOf(Reverse(file))
                = [k \in 1 .. Len(file) |-> file[Len(file) - k + 1].id]
<1> DEFINE n == Len(file)
<1>1. file \in Seq(LineSet) /\ n \in Nat
  BY TypeParts, LenProperties DEF RestTypes
<1>2. Reverse(file) = [i \in 1 .. n |-> file[(n - i) + 1]]
  BY DEF Reverse
<1>3. \A i \in 1 .. n : /\ (n - i) + 1 \in 1 .. n /\ (n - i) + 1 = n - i + 1
                        /\ file[(n - i) + 1] \in LineSet
  BY <1>1
<1>4. Reverse(file) \in Seq(LineSet) /\ Len(Reverse(file)) = n
  BY <1>1, <1>2, <1>3
<1>5. \A k \in 1 .. n : Reverse(file)[k] = file[n - k + 1]
  BY <1>2, <1>3
<1> QED
  BY <1>4, <1>5 DEF NumbersOf

\* The entries of the ring, from the newest to the oldest.
NewestInRing == [k \in 1 .. Len(logs) |-> LogAt(Len(logs) - k)]

LEMMA RingEntries ==
    ASSUME TypeOK, RingHoldsNewest
    PROVE  /\ NewestInRing \in Seq(Records) /\ Len(NewestInRing) = Len(logs)
           /\ NumbersOf(NewestInRing) = [k \in 1 .. Len(logs) |-> nextID - k]
<1> DEFINE n == Len(logs)
<1>1. logs \in Seq(Records) /\ n \in Nat /\ nextID \in Nat /\ logsStart \in Nat
  BY Constants, QueryLogAssumption, TypeParts, LenProperties DEF MemoryTypes
<1>2. ASSUME NEW k \in 1 .. n PROVE LogAt(n - k) \in Records /\ LogAt(n - k).id = nextID - k
  <2>1. n - k \in 0 .. n - 1 /\ logsStart + (n - k) \in Nat /\ n \in Nat \ {0}
    BY <1>1
  <2>2. \A x \in Nat : x % n \in 0 .. n - 1
    BY <2>1
  <2>3. ((logsStart + (n - k)) % n) + 1 \in 1 .. n
    <3> DEFINE r == (logsStart + (n - k)) % n
    <3>1. r \in 0 .. n - 1
      BY <2>1, <2>2
    <3> HIDE DEF r
    <3>2. r + 1 \in 1 .. n
      BY <2>1, <3>1
    <3> QED
      BY <3>2 DEF r
  <2>4. LogAt(n - k) \in Records
    BY <1>1, <2>3 DEF LogAt
  <2>5. LogAt(n - k).id = nextID - n + (n - k)
    BY <2>1 DEF RingHoldsNewest
  <2> QED
    BY <1>1, <2>1, <2>4, <2>5
<1>3. /\ NewestInRing \in Seq(Records) /\ Len(NewestInRing) = n
      /\ \A k \in 1 .. n : NewestInRing[k] = LogAt(n - k)
  BY <1>1, <1>2 DEF NewestInRing
<1> QED
  BY <1>2, <1>3 DEF NumbersOf

LEMMA RecordFields ==
    /\ \A e \in Entries : e.id \in Everything
    /\ \A r \in Records : r.id \in Everything
  BY DEF Entries, Records, Everything

\* A page of the lines that were read is one of those that the search matches.
LEMMA ScanIs ==
    ASSUME NEW S, NEW newest \in Seq(S), NEW offset \in Nat, NEW limit \in Nat, NEW search
    PROVE  Scan(newest, offset, limit, search).page = Cut(Found(newest, search), offset, limit)
<1>1. Found(newest, search) \in Seq({x \in S : x.id \in search})
  BY FoundMatches
<1>2. CASE search = Everything
  BY <1>1, <1>2, ScanMayStop DEF Scan
<1>3. CASE search # Everything
  BY <1>3 DEF Scan
<1> QED
  BY <1>2, <1>3

\* The total, when it is right, has room for all that the search matches.
FileTotal(search) ==
    IF search = Everything THEN count ELSE Len(Found(Reverse(file), search))

LEMMA FromFileIs ==
    ASSUME TypeOK, NEW offset \in Nat, NEW limit \in Nat, NEW search \in SUBSET Everything
    PROVE  /\ FromFile(offset, limit, search).page
                = Cut(Found(Reverse(file), search), offset, limit)
           /\ FromFile(offset, limit, search).total = FileTotal(search)
           /\ FileTotal(search) \in Nat
           /\ search # Everything \/ count = Len(file) =>
                 Len(Found(Reverse(file), search)) <= FileTotal(search)
<1>1. Reverse(file) \in Seq(LineSet) /\ Len(Reverse(file)) = Len(file)
  BY NewestLines
<1>2. FromFile(offset, limit, search).page = Cut(Found(Reverse(file), search), offset, limit)
  BY <1>1, ScanIs DEF FromFile
<1>3. FromFile(offset, limit, search).total = FileTotal(search)
  BY DEF FromFile, Scan, FileTotal
<1>4. /\ Found(Reverse(file), search) \in Seq({x \in LineSet : x.id \in Everything})
      /\ Len(Found(Reverse(file), search)) <= Len(file)
  BY <1>1, FoundShows
<1>5. Len(Found(Reverse(file), search)) \in Nat /\ count \in Nat
  BY <1>4, LenProperties, TypeParts DEF RestTypes
<1> QED
  BY <1>2, <1>3, <1>4, <1>5 DEF FileTotal

\* A page from memory is one of the entries that the search matches.
LEMMA FromMemoryIs ==
    ASSUME TypeOK, NEW offset \in Nat, NEW limit \in Nat, NEW search
    PROVE  /\ FromMemory(offset, limit, search).page
                = Cut(View(NewestInRing, search), offset, limit)
           /\ FromMemory(offset, limit, search).total = Len(View(NewestInRing, search))
<1> DEFINE n == Len(logs)
<1>1. n \in Nat /\ Len(NewestInRing) = n
      /\ \A k \in 1 .. n : NewestInRing[k] = LogAt(n - k)
  BY TypeParts, LenProperties DEF MemoryTypes, NewestInRing
<1>2. CASE search # Everything
  BY <1>2 DEF FromMemory, View, NewestInRing
<1>3. CASE search = Everything
  <2> DEFINE page == IF offset >= n THEN << >>
                     ELSE [k \in 1 .. Least(limit, n - offset) |-> LogAt(n - offset - k)]
             e == Least(offset + limit, n)
  <2>1. /\ FromMemory(offset, limit, search).page = page
        /\ FromMemory(offset, limit, search).total = n
        /\ View(NewestInRing, search) = NewestInRing
    BY <1>3 DEF FromMemory, View
  <2>2. Cut(NewestInRing, offset, limit) = SubSeq(NewestInRing, offset + 1, e)
    BY <1>1 DEF Cut
  <2>3. CASE offset >= n
    <3>1. e \in Int /\ e < offset + 1
      BY <1>1, <2>3 DEF Least
    <3> QED
      BY <1>1, <2>1, <2>2, <2>3, <3>1, SubSeqEmpty
  <2>4. CASE ~ (offset >= n)
    <3>1. /\ e \in Nat /\ e - (offset + 1) + 1 = Least(limit, n - offset)
          /\ Least(limit, n - offset) \in Nat
          /\ offset + Least(limit, n - offset) <= n
      BY <1>1, <2>4 DEF Least
    <3> DEFINE size == Least(limit, n - offset)
    <3>2. SubSeq(NewestInRing, offset + 1, e)
            = [k \in 1 .. size |-> NewestInRing[offset + 1 + k - 1]]
      BY <3>1
    <3> HIDE DEF size, e
    <3>3. \A k \in 1 .. size : NewestInRing[offset + 1 + k - 1] = LogAt(n - offset - k)
      <4> SUFFICES ASSUME NEW k \in 1 .. size
                   PROVE  NewestInRing[offset + 1 + k - 1] = LogAt(n - offset - k)
        OBVIOUS
      <4>1. offset + 1 + k - 1 \in 1 .. n /\ n - (offset + 1 + k - 1) = n - offset - k
        BY <1>1, <3>1 DEF size
      <4> QED
        BY <1>1, <4>1
    <3>4. page = [k \in 1 .. size |-> LogAt(n - offset - k)]
      BY <2>4 DEF size
    <3> QED
      BY <1>1, <2>1, <2>2, <3>2, <3>3, <3>4
  <2> QED
    BY <2>3, <2>4
<1> QED
  BY <1>2, <1>3

\* All pages, for any limit and whatever the search matches.
LEMMA AllPagesShow ==
    ASSUME LogInv, CountMatchesFile, NEW limit \in Nat \ {0}, NEW search \in SUBSET Everything
    PROVE  PagesShow(limit, search)
<1>1. TypeOK /\ RingHoldsNewest /\ limit \in Nat
  BY DEF LogInv
<1>2. ASSUME search # Everything \/ count = Len(file)
      PROVE  ShowsMatches(AllPages(FromFile, limit, search),
                          [k \in 1 .. Len(file) |-> file[Len(file) - k + 1].id], search)
  <2> DEFINE view  == Found(Reverse(file), search)
             total == FileTotal(search)
             last  == (total + limit - 1) \div limit
             ids   == [p \in 1 .. last |-> NumbersOf(Cut(view, (p - 1) * limit, limit))]
             E     == {x \in LineSet : x.id \in Everything}
  <2>1. Reverse(file) \in Seq(LineSet)
    BY <1>1, NewestLines
  <2>2. /\ view \in Seq(E) /\ \A x \in E : x.id \in Everything
        /\ ShowsMatches(NumbersOf(view), NumbersOf(Reverse(file)), search)
    BY <2>1, FoundShows
  <2>3. total \in Nat /\ Len(view) <= total /\ last \in Nat
    <3>1. total \in Nat /\ Len(view) <= total
      BY <1>1, <1>2, FromFileIs
    <3> HIDE DEF total
    <3> QED
      BY <3>1, PageEnds
  <2>4. AllPages(FromFile, limit, search) = FlattenSeq(ids)
    <3>1. FromFile(0, limit, search).total = total
      BY <1>1, FromFileIs
    <3>2. ASSUME NEW p \in 1 .. last
          PROVE  FromFile((p - 1) * limit, limit, search).page
                 = Cut(view, (p - 1) * limit, limit)
      <4> HIDE DEF last
      <4>1. p - 1 \in Nat
        BY <2>3
      <4>2. (p - 1) * limit \in Nat
        BY <4>1, Multiples
      <4> QED
        BY <1>1, <4>2, FromFileIs
    <3> HIDE DEF view, total
    <3> QED
      BY <3>1, <3>2 DEF AllPages, NumbersOf
  <2>5. FlattenSeq(ids) = NumbersOf(view)
    <3> HIDE DEF view, total, E
    <3> QED
      BY <2>2, <2>3, NumbersJoin
  <2> QED
    BY <1>1, <2>2, <2>4, <2>5, NewestLines
<1>3. ShowsMatches(AllPages(FromMemory, limit, search),
                   [k \in 1 .. Len(logs) |-> nextID - k], search)
  <2> DEFINE view == View(NewestInRing, search)
             last == (Len(view) + limit - 1) \div limit
             ids  == [p \in 1 .. last |-> NumbersOf(Cut(view, (p - 1) * limit, limit))]
  <2>1. NewestInRing \in Seq(Records) /\ \A r \in Records : r.id \in Everything
    BY <1>1, RingEntries, RecordFields
  <2>2. view \in Seq(Records) /\ ShowsMatches(NumbersOf(view), NumbersOf(NewestInRing), search)
    BY <2>1, ViewShows
  <2>3. last \in Nat
    BY <2>2, LenProperties, PageEnds
  <2>4. AllPages(FromMemory, limit, search) = FlattenSeq(ids)
    <3>1. FromMemory(0, limit, search).total = Len(view)
      BY <1>1, FromMemoryIs
    <3>2. ASSUME NEW p \in 1 .. last
          PROVE  FromMemory((p - 1) * limit, limit, search).page
                 = Cut(view, (p - 1) * limit, limit)
      <4>1. p - 1 \in Nat
        BY <2>3
      <4>2. (p - 1) * limit \in Nat
        BY <4>1, Multiples
      <4> QED
        BY <1>1, <4>2, FromMemoryIs
    <3> HIDE DEF view
    <3> QED
      BY <3>1, <3>2 DEF AllPages, NumbersOf
  <2>5. FlattenSeq(ids) = NumbersOf(view)
    <3> HIDE DEF view
    <3>1. Len(view) \in Nat /\ Len(view) <= Len(view)
      BY <2>2, LenProperties
    <3> QED
      BY <2>1, <2>2, <3>1, NumbersJoin
  <2> QED
    BY <1>1, <2>2, <2>4, <2>5, RingEntries
<1>4. counted /\ ~torn => count = Len(file)
  <2>1. Len(file) \in Nat
    BY <1>1, TypeParts, LenProperties DEF RestTypes
  <2> QED
    BY <2>1 DEF CountMatchesFile, Ended
<1> QED
  BY <1>2, <1>3, <1>4 DEF PagesShow

\* A page of the first lines is a part of the page of all of them.
LEMMA PartOfPage ==
    ASSUME TypeOK, NEW offset \in Nat, NEW limit \in Nat, NEW search
    PROVE  PartShows(offset, limit, search)
<1> SUFFICES ASSUME NEW n \in 0 .. Len(file)
             PROVE  IsPrefix(FromPart(n, offset, limit, search).page,
                             FromFile(offset, limit, search).page)
  BY DEF PartShows
<1> DEFINE lines == Reverse(file)
           v == Found(lines, search)
           w == Found(SubSeq(lines, 1, n), search)
           a == Cut(w, offset, limit)
           b == Cut(v, offset, limit)
           M == {x \in LineSet : x.id \in search}
<1>1. lines \in Seq(LineSet) /\ n \in 0 .. Len(lines)
  BY NewestLines
<1> HIDE DEF lines
<1>2. SubSeq(lines, 1, n) \in Seq(LineSet)
  BY <1>1, FirstEntries
<1>3. /\ FromFile(offset, limit, search).page = b
      /\ FromPart(n, offset, limit, search).page = a
  BY <1>1, <1>2, ScanIs DEF FromFile, FromPart, lines
<1>4. v \in Seq(M) /\ w \in Seq(M)
  BY <1>1, <1>2, FoundMatches
<1>5. Len(w) <= Len(v) /\ \A i \in 1 .. Len(w) : w[i] = v[i]
  BY <1>1, FoundPart
<1> HIDE DEF v, w, M
<1>6. Len(v) \in Nat /\ Len(w) \in Nat
  BY <1>4, LenProperties
<1> DEFINE j == Size(w, offset, limit)
           k == Size(v, offset, limit)
<1>7. /\ a \in Seq(M) /\ Len(a) = j /\ j \in Nat
      /\ \A i \in 1 .. j : offset + i \in 1 .. Len(w) /\ a[i] = w[offset + i]
  BY <1>4, CutEntries
<1>8. /\ b \in Seq(M) /\ Len(b) = k /\ k \in Nat
      /\ \A i \in 1 .. k : b[i] = v[offset + i]
  BY <1>4, CutEntries
<1>9. j <= k
  <2> DEFINE p == Least(offset + limit, Len(w))
             q == Least(offset + limit, Len(v))
  <2>1. p \in Nat /\ q \in Nat /\ p <= q
    BY <1>5, <1>6 DEF Least
  <2>2. /\ j = IF offset + 1 <= p THEN p - offset ELSE 0
        /\ k = IF offset + 1 <= q THEN q - offset ELSE 0
    BY DEF Size
  <2> HIDE DEF j, k, p, q
  <2> QED
    BY <2>1, <2>2
<1> HIDE DEF a, b, j, k
<1>10. ASSUME NEW i \in 1 .. j PROVE i \in 1 .. k /\ a[i] = b[i]
  <2>1. i \in 1 .. k
    BY <1>7, <1>8, <1>9
  <2>2. a[i] = w[offset + i] /\ b[i] = v[offset + i]
    BY <1>7, <1>8, <2>1
  <2>3. w[offset + i] = v[offset + i]
    BY <1>5, <1>7
  <2> QED
    BY <2>1, <2>2, <2>3
<1>11. SubSeq(a, 1, Len(a)) = SubSeq(b, 1, Len(a))
  <2>1. SubSeq(a, 1, j) = [i \in 1 .. j |-> a[i]]
    BY <1>7
  <2>2. SubSeq(b, 1, j) = [i \in 1 .. j |-> b[i]]
    BY <1>7, <1>8, <1>10
  <2> QED
    BY <1>7, <1>10, <2>1, <2>2
<1> QED
  BY <1>3, <1>7, <1>8, <1>9, <1>11 DEF IsPrefix

\* Wherever the scan of the file fails, the page shows what a whole scan would
\* show first, and nothing else (querylog.go:552-559).
THEOREM PartShowsHolds ==
    ASSUME NEW offset \in Nat, NEW limit \in Nat, NEW search \in SUBSET Everything
    PROVE  Spec => []PartShows(offset, limit, search)
<1>1. TypeOK => PartShows(offset, limit, search)
  BY PartOfPage
<1> QED
  BY <1>1, TypeCorrect, PTL

\* Whatever the limit of a page and the search are: the pages, put together,
\* show all that is matched, newest first, once (querylog.go:444-587,
\* web/server.go:479-507, where the limit is 15); without a search, from a
\* file of whole lines whose count is right.
THEOREM PagesShowHolds ==
    ASSUME NEW limit \in Nat \ {0}, NEW search \in SUBSET Everything
    PROVE  Spec => []PagesShow(limit, search)
<1>1. LogInv /\ CountMatchesFile => PagesShow(limit, search)
  BY AllPagesShow
<1> QED
  BY <1>1, LogInvariant, CountMatchesFileHolds, PTL

\* The same for the limits and searches of the run.
THEOREM PagesShowAllHolds == Spec => []PagesShowAll
<1>1. LogInv /\ CountMatchesFile => PagesShowAll
  <2>1. OddOnes \in SUBSET Everything
    BY DEF OddOnes
  <2> QED
    BY <2>1, AllPagesShow, PartOfPage DEF PagesShowAll, LogInv
<1> QED
  BY <1>1, LogInvariant, CountMatchesFileHolds, PTL
=============================================================================
