-------------------------- MODULE ListMetrics_proofs --------------------------
(***************************************************************************)
(* Proofs about ListMetrics: whatever rows Asterisk lists, however many,   *)
(* the series of a phase are distinct, its groups count every row once,    *)
(* and calls_active is neither too small nor too large.                    *)
(***************************************************************************)
EXTENDS ListMetrics, FiniteSetTheorems, SequenceTheorems, TLAPS

-----------------------------------------------------------------------------
(* Sequences of series *)

\* An enumeration of a finite set has each of its elements once.
LEMMA Enumerates ==
    ASSUME NEW T, IsFiniteSet(T)
    PROVE  /\ Seqs!SetToSeq(T) \in Seq(T)
           /\ \A i, j \in DOMAIN Seqs!SetToSeq(T) :
                 Seqs!SetToSeq(T)[i] = Seqs!SetToSeq(T)[j] => i = j
           /\ \A e \in T : \E i \in DOMAIN Seqs!SetToSeq(T) : Seqs!SetToSeq(T)[i] = e
<1> DEFINE n == Cardinality(T)
           s == Seqs!SetToSeq(T)
<1>1. Seqs!Cardinality(T) = n
  BY Zenon DEF Seqs!Cardinality, Cardinality
<1>2. n \in Nat /\ ExistsBijection(1..n, T)
  BY FS_CardinalityType
<1> HIDE DEF n
<1>3. PICK f \in [1..n -> T] : Seqs!IsInjective(f)
  BY <1>2 DEF ExistsBijection, Bijection, Injection, IsInjective, Seqs!IsInjective
<1>4. s \in [1..n -> T] /\ Seqs!IsInjective(s)
  BY <1>1, <1>3, Zenon DEF Seqs!SetToSeq
<1> HIDE DEF s
<1>5. s \in Seq(T) /\ DOMAIN s = 1..n
  <2>1. s \in Seq(T)
    <3>1. s \in UNION {[1..m -> T] : m \in Nat}
      BY <1>2, <1>4, SMT
    <3> QED
      BY <3>1, SeqDef, Zenon
  <2> QED
    BY <1>4, <2>1
<1>6. \A i, j \in DOMAIN s : s[i] = s[j] => i = j
  BY <1>4, Zenon DEF Seqs!IsInjective
<1>7. \A e \in T : \E i \in DOMAIN s : s[i] = e
  <2>1. s \in Injection(1..n, T)
    BY <1>4, <1>5, <1>6 DEF Injection, IsInjective
  <2>2. IsFiniteSet(1..n) /\ Cardinality(1..n) = n
    BY <1>2, FS_Interval
  <2>3. s \in Surjection(1..n, T)
    BY <2>1, <2>2, FS_Injection DEF n
  <2> QED
    BY <1>5, <2>3 DEF Surjection
<1> QED
  BY <1>5, <1>6, <1>7, Zenon DEF s

\* Where the elements of two sequences are in their concatenation.
LEMMA Concatenated ==
    ASSUME NEW a \in Seq(AllSeries), NEW b \in Seq(AllSeries)
    PROVE  /\ a \o b \in Seq(AllSeries)
           /\ \A i \in DOMAIN (a \o b) : \/ i \in DOMAIN a /\ (a \o b)[i] = a[i]
                                         \/ /\ i \notin DOMAIN a /\ i - Len(a) \in DOMAIN b
                                            /\ (a \o b)[i] = b[i - Len(a)]
           /\ \A i \in DOMAIN a : i \in DOMAIN (a \o b) /\ (a \o b)[i] = a[i]
           /\ \A j \in DOMAIN b : Len(a) + j \in DOMAIN (a \o b) /\ (a \o b)[Len(a) + j] = b[j]
<1>1. /\ Len(a) \in Nat /\ DOMAIN a = 1..Len(a) /\ Len(b) \in Nat /\ DOMAIN b = 1..Len(b)
  BY LenProperties
<1>2. a \o b \in Seq(AllSeries) /\ Len(a \o b) = Len(a) + Len(b)
      /\ \A i \in 1..(Len(a) + Len(b)) : (a \o b)[i] = IF i <= Len(a) THEN a[i] ELSE b[i - Len(a)]
  BY ConcatProperties
<1> DEFINE c == a \o b
<1>3. c \in Seq(AllSeries) /\ Len(c) = Len(a) + Len(b)
      /\ \A i \in 1..(Len(a) + Len(b)) : c[i] = IF i <= Len(a) THEN a[i] ELSE b[i - Len(a)]
  BY <1>2
<1> HIDE DEF c
<1>4. DOMAIN c = 1..(Len(a) + Len(b))
  BY <1>3, LenProperties
<1>5. \A i \in DOMAIN c : \/ i \in DOMAIN a /\ c[i] = a[i]
                          \/ i \notin DOMAIN a /\ i - Len(a) \in DOMAIN b /\ c[i] = b[i - Len(a)]
  BY <1>1, <1>3, <1>4
<1>6. \A i \in DOMAIN a : i \in DOMAIN c /\ c[i] = a[i]
  BY <1>1, <1>3, <1>4
<1>7. \A j \in DOMAIN b : Len(a) + j \in DOMAIN c /\ c[Len(a) + j] = b[j]
  <2> SUFFICES ASSUME NEW j \in DOMAIN b PROVE Len(a) + j \in DOMAIN c /\ c[Len(a) + j] = b[j]
      OBVIOUS
  <2>1. /\ Len(a) + j \in 1..(Len(a) + Len(b)) /\ ~(Len(a) + j <= Len(a))
        /\ Len(a) + j - Len(a) = j
    BY <1>1
  <2> QED
    BY <1>3, <1>4, <2>1
<1> QED
  BY <1>3, <1>5, <1>6, <1>7, Zenon DEF c

\* No two series of s have the same name and labels; none of a has those of one of b.
Same(x, y) == x.desc = y.desc /\ x.labels = y.labels
Unique(s) == \A i, j \in DOMAIN s : Same(s[i], s[j]) => i = j
Apart(a, b) == \A i \in DOMAIN a, j \in DOMAIN b : ~Same(a[i], b[j])

\* Sequences that are unique, and apart, are unique together.
LEMMA UniqueTogether ==
    ASSUME NEW a \in Seq(AllSeries), NEW b \in Seq(AllSeries), Unique(a), Unique(b), Apart(a, b)
    PROVE  Unique(a \o b)
<1> DEFINE c == a \o b
<1>1. \A i \in DOMAIN c : \/ i \in DOMAIN a /\ c[i] = a[i]
                          \/ i \notin DOMAIN a /\ i - Len(a) \in DOMAIN b /\ c[i] = b[i - Len(a)]
  BY Concatenated, Zenon
<1>2. DOMAIN c \subseteq Nat /\ Len(a) \in Nat
  BY Concatenated, LenProperties
<1> HIDE DEF c
<1>3. \A x, y : Same(x, y) => Same(y, x)
  BY DEF Same
<1> SUFFICES ASSUME NEW i \in DOMAIN c, NEW j \in DOMAIN c, Same(c[i], c[j]) PROVE i = j
  BY Zenon DEF Unique, c
<1>4. CASE i \in DOMAIN a /\ j \in DOMAIN a
  BY <1>1, <1>4, Zenon DEF Unique
<1>5. CASE i \notin DOMAIN a /\ j \notin DOMAIN a
  <2>1. i - Len(a) = j - Len(a)
    BY <1>1, <1>5, Zenon DEF Unique
  <2> QED
    BY <1>2, <2>1, SMT
<1>6. CASE i \in DOMAIN a /\ j \notin DOMAIN a
  BY <1>1, <1>6, Zenon DEF Apart
<1>7. CASE i \notin DOMAIN a /\ j \in DOMAIN a
  BY <1>1, <1>3, <1>7, Zenon DEF Apart
<1> QED
  BY <1>4, <1>5, <1>6, <1>7, Zenon

\* One series, or none.
LEMMA OneOrNone ==
    ASSUME NEW s \in AllSeries, NEW condition \in BOOLEAN
    PROVE  /\ When(condition, s) \in Seq(AllSeries) /\ Unique(When(condition, s))
           /\ \A i \in DOMAIN When(condition, s) : When(condition, s)[i] = s
           /\ <<s>> \in Seq(AllSeries) /\ Unique(<<s>>)
           /\ DOMAIN <<s>> = {1} /\ <<s>>[1] = s
  BY DEF When, Unique

-----------------------------------------------------------------------------
(* The inductive invariant *)

\* The rows are those of the phase's list.
RowOf(r) ==
    \/ phase = "channels" /\ r \in ChannelRows
    \/ phase = "sip_peers" /\ r \in PeerRows
    \/ phase = "pjsip_endpoints" /\ r \in EndpointRows
    \/ phase = "queues" /\ r \in QueueRows

RowsMatch == \A k \in DOMAIN taken : RowOf(taken[k])

\* s is a series that the row r sends.
SentBy(s, r) ==
    \/ phase = "sip_peers" /\ s.desc = "peer_up" /\ s.labels = <<r.name, StatusKey(r)>>
    \/ phase = "sip_peers" /\ s.desc = "peer_latency" /\ s.labels = <<r.name>>
    \/ phase = "pjsip_endpoints" /\ s.desc = "endpoint_up"
          /\ s.labels = <<r.name, StateLabel(r), Kind(r)>>
    \/ phase = "queues" /\ s.desc = "callers" /\ s.labels = <<r.name>>

\* While a list is read, every series is one of a row of an object.
SentByRows ==
    status = "running" =>
        \A i \in DOMAIN sent : \E k \in DOMAIN taken : Object(taken[k]) /\ SentBy(sent[i], taken[k])

\* The groups g count the elements of labels.
Counting(g, labels) ==
    /\ IsFiniteSet(DOMAIN g) /\ IsFiniteSet(DOMAIN labels)
    /\ \A i \in DOMAIN labels : labels[i] \in DOMAIN g
    /\ \A l \in DOMAIN g : g[l] = Cardinality({i \in DOMAIN labels : labels[i] = l})

\* Until they are sent, the groups count what their series will be compared with.
GroupsCount ==
    status = "running" =>
        /\ IsFiniteSet(DOMAIN groups)
        /\ phase = "channels" => Counting(groups, ChannelLabels)
        /\ phase = "sip_peers" => Counting(groups, PeerLabels)
        /\ phase = "pjsip_endpoints" => Counting(groups, EndpointLabels)
        /\ phase = "queues" => Counting(groups, MemberLabels)

\* The calls seen are those of the rows.
CallsSeen ==
    phase = "channels" => linkedids = {CallId(taken[k]) : k \in DOMAIN taken} \ {""}

MetricsInv ==
    /\ TypeOK /\ RowsMatch /\ SentByRows /\ GroupsCount /\ CallsSeen
    /\ SeriesUnique /\ GroupsAgree /\ CallsCountedOnce

-----------------------------------------------------------------------------
(* Groups *)

\* h is g with one more of l; more is labels with one more, of the label l at n.
Added(g, h, l) ==
    h = [k \in DOMAIN g \cup {l} |-> (IF k \in DOMAIN g THEN g[k] ELSE 0) + (IF k = l THEN 1 ELSE 0)]
OneMore(labels, more, n, l) ==
    /\ n \notin DOMAIN labels /\ DOMAIN more = DOMAIN labels \cup {n} /\ more[n] = l
    /\ \A i \in DOMAIN labels : more[i] = labels[i]

\* One more element with the label l: AddTo(l) counts it.
LEMMA CountStep ==
    ASSUME NEW g, NEW h, NEW l, NEW labels, NEW more, NEW n,
           Counting(g, labels), Added(g, h, l), OneMore(labels, more, n, l)
    PROVE  Counting(h, more)
<1> DEFINE At(k) == {i \in DOMAIN labels : labels[i] = k}
           Then(k) == {i \in DOMAIN more : more[i] = k}
<1>0. /\ n \notin DOMAIN labels /\ DOMAIN more = DOMAIN labels \cup {n} /\ more[n] = l
      /\ \A i \in DOMAIN labels : more[i] = labels[i]
  BY Zenon DEF OneMore
<1>1. /\ DOMAIN h = DOMAIN g \cup {l}
      /\ \A k \in DOMAIN h : h[k] = (IF k \in DOMAIN g THEN g[k] ELSE 0) + (IF k = l THEN 1 ELSE 0)
  BY Zenon DEF Added
<1>2. IsFiniteSet(DOMAIN h) /\ IsFiniteSet(DOMAIN more)
  <2>1. IsFiniteSet(DOMAIN g) /\ IsFiniteSet(DOMAIN labels)
    BY Zenon DEF Counting
  <2>2. IsFiniteSet(DOMAIN g \cup {l}) /\ IsFiniteSet(DOMAIN labels \cup {n})
    BY <2>1, FS_AddElement, Zenon
  <2> QED
    BY <1>0, <1>1, <2>2, Zenon
<1>3. \A i \in DOMAIN more : more[i] \in DOMAIN h
  BY <1>0, <1>1, Zenon DEF Counting
<1>4. ASSUME NEW k \in DOMAIN h PROVE h[k] = Cardinality(Then(k))
  <2>1. IsFiniteSet(At(k)) /\ n \notin At(k) /\ Cardinality(At(k)) \in Nat
    <3>1. At(k) \in SUBSET DOMAIN labels
      BY Zenon
    <3>2. IsFiniteSet(At(k))
      BY <3>1, FS_Subset, Zenon DEF Counting
    <3> QED
      BY <1>0, <3>2, FS_CardinalityType, Zenon
  <2>2. (IF k \in DOMAIN g THEN g[k] ELSE 0) = Cardinality(At(k))
    <3>1. CASE k \in DOMAIN g
      BY <3>1, Zenon DEF Counting
    <3>2. CASE k \notin DOMAIN g
      <4>1. At(k) = {}
        BY <3>2, Zenon DEF Counting
      <4> QED
        BY <3>2, <4>1, FS_EmptySet, Zenon
    <3> QED
      BY <3>1, <3>2
  <2>3. CASE k = l
    <3>1. Then(k) = At(k) \cup {n}
      BY <1>0, <2>3
    <3>2. Cardinality(Then(k)) = Cardinality(At(k)) + 1
      BY <2>1, <3>1, FS_AddElement, Zenon
    <3>3. h[k] = Cardinality(At(k)) + 1
      BY <1>1, <2>2, <2>3, Zenon
    <3> QED
      BY <3>2, <3>3, Zenon
  <2>4. CASE k # l
    <3>1. Then(k) = At(k)
      BY <1>0, <2>4
    <3> HIDE DEF At, Then
    <3>2. h[k] = (IF k \in DOMAIN g THEN g[k] ELSE 0) + 0
      BY <1>1, <2>4, Zenon
    <3>3. h[k] = Cardinality(At(k)) + 0
      BY <2>2, <3>2, Zenon
    <3>4. Cardinality(At(k)) + 0 = Cardinality(At(k))
      BY <2>1, SMT
    <3> QED
      BY <3>1, <3>3, <3>4, Zenon
  <2> QED
    BY <2>3, <2>4, Zenon
<1> QED
  BY <1>2, <1>3, <1>4, Zenon DEF Counting

\* The groups' series: one for each, with its count.
LEMMA GroupsListed ==
    ASSUME TypeOK, IsFiniteSet(DOMAIN groups), NEW d \in Descs
    PROVE  /\ GroupSeries(d) \in Seq(AllSeries) /\ Unique(GroupSeries(d))
           /\ \A i \in DOMAIN GroupSeries(d) :
                 /\ GroupSeries(d)[i].desc = d
                 /\ GroupSeries(d)[i].labels \in DOMAIN groups
                 /\ GroupSeries(d)[i].value = groups[GroupSeries(d)[i].labels]
           /\ \A l \in DOMAIN groups :
                 \E i \in DOMAIN GroupSeries(d) : GroupSeries(d)[i].labels = l
<1> DEFINE T == {Series(d, l, groups[l]) : l \in DOMAIN groups}
           gs == GroupSeries(d)
<1>1. T \subseteq AllSeries /\ IsFiniteSet(T)
  <2>1. \A l \in DOMAIN groups : l \in Seq(Labels) /\ groups[l] \in Nat
    BY DEF TypeOK
  <2>2. T \subseteq AllSeries
    BY <2>1 DEF Series, AllSeries
  <2> DEFINE f == [l \in DOMAIN groups |-> Series(d, l, groups[l])]
  <2>3. f \in [DOMAIN groups -> T] /\ \A t \in T : \E l \in DOMAIN groups : f[l] = t
    BY Zenon
  <2>4. f \in Surjection(DOMAIN groups, T)
    BY <2>3, Zenon DEF Surjection
  <2>5. IsFiniteSet(T)
    BY <2>4, FS_Surjection, Zenon
  <2> QED
    BY <2>2, <2>5
<1>2. gs = Seqs!SetToSeq(T)
  BY DEF GroupSeries
<1>3. /\ gs \in Seq(T)
      /\ \A i, j \in DOMAIN gs : gs[i] = gs[j] => i = j
      /\ \A e \in T : \E i \in DOMAIN gs : gs[i] = e
  BY <1>1, <1>2, Enumerates, Zenon
<1>4. \A t \in T : /\ t.desc = d /\ t.labels \in DOMAIN groups /\ t.value = groups[t.labels]
                   /\ t = Series(d, t.labels, groups[t.labels])
  BY DEF Series
<1>5. \A l \in DOMAIN groups : Series(d, l, groups[l]) \in T /\ Series(d, l, groups[l]).labels = l
  BY DEF Series
<1> HIDE DEF T, gs
<1>6. gs \in Seq(AllSeries) /\ \A i \in DOMAIN gs : gs[i] \in T
  BY <1>1, <1>3
<1>7. Unique(gs)
  <2>1. \A x, y \in T : Same(x, y) => x = y
    <3> SUFFICES ASSUME NEW x \in T, NEW y \in T, x.desc = y.desc, x.labels = y.labels PROVE x = y
      BY Zenon DEF Same
    <3>1. x = Series(d, x.labels, groups[x.labels]) /\ y = Series(d, y.labels, groups[y.labels])
      BY <1>4, Zenon
    <3> QED
      BY <3>1, Zenon
  <2> QED
    BY <1>3, <1>6, <2>1, Zenon DEF Unique
<1>8. \A i \in DOMAIN gs : /\ gs[i].desc = d /\ gs[i].labels \in DOMAIN groups
                           /\ gs[i].value = groups[gs[i].labels]
  BY <1>4, <1>6, Zenon
<1>9. \A l \in DOMAIN groups : \E i \in DOMAIN gs : gs[i].labels = l
  <2> SUFFICES ASSUME NEW l \in DOMAIN groups PROVE \E i \in DOMAIN gs : gs[i].labels = l
    BY Zenon
  <2>1. PICK i \in DOMAIN gs : gs[i] = Series(d, l, groups[l])
    BY <1>3, <1>5, Zenon
  <2> QED
    BY <1>5, <2>1
<1> QED
  BY <1>6, <1>7, <1>8, <1>9, Zenon DEF gs

\* Counts, of any sequence of series.
CountsIn(s, d, labels) ==
    /\ \A g \in {i \in DOMAIN s : s[i].desc = d} :
          s[g].value = Cardinality({i \in DOMAIN labels : labels[i] = s[g].labels})
    /\ \A i \in DOMAIN labels :
          \E g \in {j \in DOMAIN s : s[j].desc = d} : s[g].labels = labels[i]

Without(s, d) == \A i \in DOMAIN s : s[i].desc # d

\* The groups' series count what the groups count, after any series of other names.
LEMMA GroupsSent ==
    ASSUME TypeOK, NEW d \in Descs, NEW labels, Counting(groups, labels),
           NEW before \in Seq(AllSeries), Without(before, d)
    PROVE  CountsIn(before \o GroupSeries(d), d, labels)
<1> DEFINE gs == GroupSeries(d)
           s == before \o gs
<1>1. IsFiniteSet(DOMAIN groups)
  BY DEF Counting
<1>2. /\ gs \in Seq(AllSeries)
      /\ \A i \in DOMAIN gs : /\ gs[i].desc = d /\ gs[i].labels \in DOMAIN groups
                              /\ gs[i].value = groups[gs[i].labels]
      /\ \A l \in DOMAIN groups : \E i \in DOMAIN gs : gs[i].labels = l
  BY <1>1, GroupsListed, Zenon
<1> HIDE DEF gs
<1>3. /\ \A i \in DOMAIN s : \/ i \in DOMAIN before /\ s[i] = before[i]
                             \/ /\ i \notin DOMAIN before /\ i - Len(before) \in DOMAIN gs
                                /\ s[i] = gs[i - Len(before)]
      /\ \A j \in DOMAIN gs : Len(before) + j \in DOMAIN s /\ s[Len(before) + j] = gs[j]
  BY <1>2, Concatenated
<1> HIDE DEF s
<1>4. ASSUME NEW g \in DOMAIN s, s[g].desc = d
      PROVE  s[g].value = Cardinality({i \in DOMAIN labels : labels[i] = s[g].labels})
  <2>1. \E j \in DOMAIN gs : s[g] = gs[j]
    BY <1>3, <1>4, Zenon DEF Without
  <2>2. s[g].labels \in DOMAIN groups /\ s[g].value = groups[s[g].labels]
    BY <1>2, <2>1, Zenon
  <2> QED
    BY <2>2, Zenon DEF Counting
<1>5. ASSUME NEW i \in DOMAIN labels
      PROVE  \E g \in DOMAIN s : s[g].desc = d /\ s[g].labels = labels[i]
  <2>1. labels[i] \in DOMAIN groups
    BY Zenon DEF Counting
  <2>2. PICK j \in DOMAIN gs : gs[j].labels = labels[i] /\ gs[j].desc = d
    BY <1>2, <2>1, Zenon
  <2> QED
    BY <1>3, <2>2, Zenon
<1> QED
  BY <1>4, <1>5, Zenon DEF CountsIn, s, gs

\* Series of other names change no count.
LEMMA CountsKept ==
    ASSUME NEW s \in Seq(AllSeries), NEW more \in Seq(AllSeries), NEW d, NEW labels,
           CountsIn(s, d, labels), Without(more, d)
    PROVE  CountsIn(s \o more, d, labels)
<1> DEFINE t == s \o more
<1>1. /\ \A i \in DOMAIN t : \/ i \in DOMAIN s /\ t[i] = s[i]
                             \/ i - Len(s) \in DOMAIN more /\ t[i] = more[i - Len(s)]
      /\ \A i \in DOMAIN s : i \in DOMAIN t /\ t[i] = s[i]
  BY Concatenated, Zenon
<1> HIDE DEF t
<1>2. ASSUME NEW g \in DOMAIN t, t[g].desc = d
      PROVE  t[g].value = Cardinality({i \in DOMAIN labels : labels[i] = t[g].labels})
  <2>1. g \in DOMAIN s /\ t[g] = s[g]
    BY <1>1, <1>2, Zenon DEF Without
  <2>2. s[g].value = Cardinality({i \in DOMAIN labels : labels[i] = s[g].labels})
    BY <1>2, <2>1, Zenon DEF CountsIn
  <2> QED
    BY <2>1, <2>2, Zenon
<1>3. ASSUME NEW i \in DOMAIN labels
      PROVE  \E g \in DOMAIN t : t[g].desc = d /\ t[g].labels = labels[i]
  BY <1>1, Zenon DEF CountsIn
<1> QED
  BY <1>2, <1>3, Zenon DEF CountsIn, t

\* Without series of the name and without labels there is nothing to count.
LEMMA NothingToCount ==
    ASSUME NEW s, NEW d, NEW labels, Without(s, d), DOMAIN labels = {}
    PROVE  CountsIn(s, d, labels)
  BY Zenon DEF CountsIn, Without

-----------------------------------------------------------------------------
(* A row *)

\* A row of the list at hand, whose series new is sent, or panics.
LEMMA RowStep ==
    ASSUME MetricsInv, status = "running", NEW r, RowOf(r), NEW new \in Seq(AllSeries),
           Unique(new), \A i \in DOMAIN new : Object(r) /\ SentBy(new[i], r),
           phase' = phase, taken' = Append(taken, r),
           \/ status' = "crashed" /\ sent' = sent
           \/ status' = "running" /\ sent' = sent \o new
    PROVE  /\ phase' \in Phases /\ status' \in {"running", "done", "crashed"}
           /\ taken' \in Seq(ChannelRows \cup PeerRows \cup EndpointRows \cup QueueRows)
           /\ sent' \in Seq(AllSeries)
           /\ RowsMatch' /\ SentByRows' /\ SeriesUnique' /\ GroupsAgree' /\ CallsCountedOnce'
           /\ Len(taken) + 1 \notin DOMAIN taken /\ DOMAIN taken' = DOMAIN taken \cup {Len(taken) + 1}
           /\ taken'[Len(taken) + 1] = r /\ \A k \in DOMAIN taken : taken'[k] = taken[k]
<1> DEFINE Rows == ChannelRows \cup PeerRows \cup EndpointRows \cup QueueRows
           n == Len(taken) + 1
<1>1. /\ phase \in Phases /\ taken \in Seq(Rows) /\ sent \in Seq(AllSeries)
      /\ RowsMatch /\ SentByRows /\ SeriesUnique
  BY DEF MetricsInv, TypeOK
<1>2. r \in Rows
  BY DEF RowOf
<1> HIDE DEF Rows
<1>3. /\ taken' \in Seq(Rows) /\ n \notin DOMAIN taken /\ DOMAIN taken' = DOMAIN taken \cup {n}
      /\ taken'[n] = r /\ \A k \in DOMAIN taken : taken'[k] = taken[k]
  <2>1. /\ taken' \in Seq(Rows) /\ Len(taken') = Len(taken) + 1 /\ taken'[n] = r
        /\ \A k \in 1..Len(taken) : taken'[k] = taken[k]
    BY <1>1, <1>2, AppendProperties
  <2>2. Len(taken) \in Nat /\ DOMAIN taken = 1..Len(taken) /\ DOMAIN taken' = 1..Len(taken')
    BY <1>1, <2>1, LenProperties
  <2> QED
    BY <2>1, <2>2
<1> HIDE DEF n
<1>4. sent' \in Seq(AllSeries)
  <2>1. sent \o new \in Seq(AllSeries)
    BY <1>1, Concatenated, Zenon
  <2> QED
    BY <1>1, <2>1, Zenon
<1>5. \A x : (RowOf(x)' <=> RowOf(x)) /\ (Object(x)' <=> Object(x))
  BY DEF RowOf, Object
<1>6. \A x, y : SentBy(x, y)' <=> SentBy(x, y)
  BY SMT DEF SentBy
<1>7. RowsMatch'
  <2> SUFFICES ASSUME NEW k \in DOMAIN taken' PROVE RowOf(taken'[k])
    BY <1>5, Zenon DEF RowsMatch
  <2> QED
    BY <1>1, <1>3, Zenon DEF RowsMatch
<1>8. SentByRows'
  <2> SUFFICES ASSUME status' = "running", NEW i \in DOMAIN sent'
               PROVE  \E k \in DOMAIN taken' : Object(taken'[k]) /\ SentBy(sent'[i], taken'[k])
    BY <1>5, <1>6, Zenon DEF SentByRows
  <2>1. sent' = sent \o new
    OBVIOUS
  <2>2. (i \in DOMAIN sent /\ sent'[i] = sent[i]) \/ (\E j \in DOMAIN new : sent'[i] = new[j])
    <3>1. \A m \in DOMAIN (sent \o new) :
             \/ m \in DOMAIN sent /\ (sent \o new)[m] = sent[m]
             \/ m \notin DOMAIN sent /\ m - Len(sent) \in DOMAIN new /\ (sent \o new)[m] = new[m - Len(sent)]
      BY <1>1, Concatenated, Zenon
    <3>2. \/ i \in DOMAIN sent /\ sent'[i] = sent[i]
          \/ i - Len(sent) \in DOMAIN new /\ sent'[i] = new[i - Len(sent)]
      BY <2>1, <3>1, Zenon
    <3> QED
      BY <3>2, Zenon
  <2>3. CASE i \in DOMAIN sent /\ sent'[i] = sent[i]
    BY <1>1, <1>3, <2>3, Zenon DEF SentByRows
  <2>4. CASE \E j \in DOMAIN new : sent'[i] = new[j]
    BY <1>3, <2>4, Zenon
  <2> QED
    BY <2>2, <2>3, <2>4, Zenon
<1>9. SeriesUnique'
  <2> SUFFICES ASSUME ListedOnce' PROVE Unique(sent')
    BY Zenon DEF SeriesUnique, Unique, Same
  <2>1. \A j, k \in DOMAIN taken' :
           j # k /\ Object(taken'[j]) /\ Object(taken'[k]) => taken'[j].name # taken'[k].name
    BY <1>5, Zenon DEF ListedOnce
  <2>2. ListedOnce
    <3> SUFFICES ASSUME NEW j \in DOMAIN taken, NEW k \in DOMAIN taken, j # k,
                        Object(taken[j]), Object(taken[k])
                 PROVE  taken[j].name # taken[k].name
      BY Zenon DEF ListedOnce
    <3>1. j \in DOMAIN taken' /\ k \in DOMAIN taken' /\ taken'[j] = taken[j] /\ taken'[k] = taken[k]
      BY <1>3, Zenon
    <3> QED
      BY <2>1, <3>1
  <2>3. Unique(sent)
    BY <1>1, <2>2, Zenon DEF SeriesUnique, Unique, Same
  <2>4. ASSUME NEW i \in DOMAIN sent, NEW j \in DOMAIN new, Same(sent[i], new[j]) PROVE FALSE
    <3>1. PICK k \in DOMAIN taken : Object(taken[k]) /\ SentBy(sent[i], taken[k])
      BY <1>1, Zenon DEF SentByRows
    <3>2. \A x, y : SentBy(x, y) => x.labels[1] = y.name
      BY DEF SentBy
    <3>3. taken[k].name = r.name
      <4>1. sent[i].labels[1] = taken[k].name /\ new[j].labels[1] = r.name
        BY <3>1, <3>2, Zenon
      <4> QED
        BY <2>4, <4>1, Zenon DEF Same
    <3> QED
      <4>1. /\ k \in DOMAIN taken' /\ n \in DOMAIN taken' /\ k # n
            /\ taken'[k] = taken[k] /\ taken'[n] = r /\ Object(r)
        BY <1>3, Zenon
      <4>2. Object(taken'[k]) /\ Object(taken'[n]) /\ taken'[k].name = taken'[n].name
        BY <3>1, <3>3, <4>1, Zenon
      <4> QED
        BY <2>1, <4>1, <4>2, Zenon
  <2>5. Unique(sent \o new)
    BY <1>1, <2>3, <2>4, UniqueTogether, Zenon DEF Apart
  <2> QED
    BY <2>3, <2>5, Zenon
<1>10. GroupsAgree' /\ CallsCountedOnce'
  BY Zenon DEF GroupsAgree, CallsCountedOnce
<1> QED
  BY <1>1, <1>3, <1>4, <1>7, <1>8, <1>9, <1>10, Zenon DEF n, Rows

\* What Send does.
LEMMA Sends ==
    ASSUME NEW new, NEW after, Send(new, after)
    PROVE  \/ status' = "crashed" /\ sent' = sent
           \/ status' = after /\ sent' = sent \o new
  BY Zenon DEF Send

\* Sending nothing.
LEMMA NothingSent ==
    ASSUME MetricsInv, status = "running"
    PROVE  /\ <<>> \in Seq(AllSeries) /\ Unique(<<>>) /\ sent \o <<>> = sent /\ DOMAIN <<>> = {}
           /\ (UNCHANGED <<sent, status>> => status' = "running" /\ sent' = sent \o <<>>)
<1>1. sent \in Seq(AllSeries)
  BY DEF MetricsInv, TypeOK
<1>2. sent \o <<>> = sent
  BY <1>1, ConcatEmptySeq
<1> QED
  BY <1>2 DEF Unique

\* AddTo keeps the type of groups, and counts one more.
LEMMA GroupAdded ==
    ASSUME TypeOK, NEW l \in Seq(Labels), AddTo(l)
    PROVE  /\ groups' \in [DOMAIN groups' -> Nat \ {0}] /\ DOMAIN groups' \subseteq Seq(Labels)
           /\ Added(groups, groups', l)
           /\ IsFiniteSet(DOMAIN groups) => IsFiniteSet(DOMAIN groups')
<1>1. groups' = [k \in DOMAIN groups \cup {l} |->
                    (IF k \in DOMAIN groups THEN groups[k] ELSE 0) + (IF k = l THEN 1 ELSE 0)]
  BY Zenon DEF AddTo, Count
<1>2. groups \in [DOMAIN groups -> Nat \ {0}] /\ DOMAIN groups \subseteq Seq(Labels)
  BY DEF TypeOK
<1>3. IsFiniteSet(DOMAIN groups) => IsFiniteSet(DOMAIN groups \cup {l})
  BY FS_AddElement, Zenon
<1>4. DOMAIN groups' = DOMAIN groups \cup {l}
  BY <1>1, Zenon
<1>5. groups' \in [DOMAIN groups' -> Nat \ {0}] /\ DOMAIN groups' \subseteq Seq(Labels)
  BY <1>1, <1>2, <1>4
<1> QED
  BY <1>1, <1>3, <1>4, <1>5, Zenon DEF Added

-----------------------------------------------------------------------------
(* The end of a phase *)

RowDescs == {"peer_up", "peer_latency", "endpoint_up", "callers"}

\* What has been sent while the list is read.
LEMMA SentSoFar ==
    ASSUME MetricsInv, status = "running"
    PROVE  /\ \A i \in DOMAIN sent : /\ sent[i].desc \in RowDescs
                                     /\ sent[i].desc = "peer_up" => phase = "sip_peers"
                                     /\ sent[i].desc = "endpoint_up" => phase = "pjsip_endpoints"
           /\ phase \in {"core", "channels"} => sent = <<>>
<1>1. \A i \in DOMAIN sent : \E k \in DOMAIN taken : SentBy(sent[i], taken[k])
  BY Zenon DEF MetricsInv, SentByRows
<1>2. \A x, y : SentBy(x, y) => /\ x.desc \in RowDescs /\ phase \notin {"core", "channels"}
                                /\ x.desc = "peer_up" => phase = "sip_peers"
                                /\ x.desc = "endpoint_up" => phase = "pjsip_endpoints"
  BY DEF SentBy, RowDescs
<1>3. sent \in Seq(AllSeries)
  BY DEF MetricsInv, TypeOK
<1>4. phase \in {"core", "channels"} => DOMAIN sent = {}
  BY <1>1, <1>2, Zenon
<1>5. DOMAIN sent = {} => sent = <<>>
  BY <1>3
<1> QED
  BY <1>1, <1>2, <1>4, <1>5, Zenon

\* The series new, of other names than the rows', end the phase.
LEMMA EndStep ==
    ASSUME MetricsInv, status = "running", NEW new \in Seq(AllSeries), Unique(new),
           \A i \in DOMAIN new : new[i].desc \notin RowDescs,
           UNCHANGED <<phase, taken, groups, linkedids>>,
           \/ status' = "crashed" /\ sent' = sent
           \/ status' = "done" /\ sent' = sent \o new,
           status' = "done" => GroupsAgree' /\ CallsCountedOnce'
    PROVE  MetricsInv'
<1>1. sent \in Seq(AllSeries) /\ TypeOK /\ RowsMatch /\ CallsSeen /\ SeriesUnique
  BY DEF MetricsInv, TypeOK
<1>2. sent' \in Seq(AllSeries)
  <2>1. sent \o new \in Seq(AllSeries)
    BY <1>1, Concatenated, Zenon
  <2> QED
    BY <1>1, <2>1, Zenon
<1>3. TypeOK'
  <2>1. status' \in {"running", "done", "crashed"}
    OBVIOUS
  <2> QED
    BY <1>1, <1>2, <2>1 DEF TypeOK
<1>4. RowsMatch' /\ CallsSeen'
  <2>1. \A r : RowOf(r)' <=> RowOf(r)
    BY DEF RowOf
  <2> QED
    BY <1>1, <2>1, Zenon DEF RowsMatch, CallsSeen
<1>5. SentByRows' /\ GroupsCount'
  BY DEF SentByRows, GroupsCount
<1>6. SeriesUnique'
  <2>1. \A r : Object(r)' <=> Object(r)
    BY DEF Object
  <2> SUFFICES ASSUME ListedOnce' PROVE Unique(sent')
    BY Zenon DEF SeriesUnique, Unique, Same
  <2>2. ListedOnce
    BY <2>1, Zenon DEF ListedOnce
  <2>3. Unique(sent)
    BY <1>1, <2>2, Zenon DEF SeriesUnique, Unique, Same
  <2>4. Apart(sent, new)
    BY SentSoFar, Zenon DEF Apart, Same
  <2>5. Unique(sent \o new)
    BY <1>1, <2>3, <2>4, UniqueTogether, Zenon
  <2> QED
    BY <2>3, <2>5, Zenon
<1>7. GroupsAgree' /\ CallsCountedOnce'
  BY Zenon DEF GroupsAgree, CallsCountedOnce
<1> QED
  BY <1>3, <1>4, <1>5, <1>6, <1>7, Zenon DEF MetricsInv

\* The labels of a name's series, when none of that name is sent.
SameOf(s, t, d) ==
    /\ {i \in DOMAIN t : t[i].desc = d} = {i \in DOMAIN s : s[i].desc = d}
    /\ \A i \in DOMAIN s : t[i] = s[i]

\* Series of other names change nothing about those of d.
LEMMA LabelsKept ==
    ASSUME NEW s \in Seq(AllSeries), NEW new \in Seq(AllSeries), NEW d, Without(new, d)
    PROVE  SameOf(s, s \o new, d)
<1> DEFINE t == s \o new
<1>1. /\ \A i \in DOMAIN t : \/ i \in DOMAIN s /\ t[i] = s[i]
                             \/ /\ i \notin DOMAIN s /\ i - Len(s) \in DOMAIN new
                                /\ t[i] = new[i - Len(s)]
      /\ \A i \in DOMAIN s : i \in DOMAIN t /\ t[i] = s[i]
  BY Concatenated
<1> HIDE DEF t
<1>2. \A i : i \in DOMAIN t /\ t[i].desc = d <=> i \in DOMAIN s /\ s[i].desc = d
  BY <1>1, Zenon DEF Without
<1>3. {i \in DOMAIN t : t[i].desc = d} = {i \in DOMAIN s : s[i].desc = d}
  BY <1>2, Zenon
<1> QED
  BY <1>1, <1>3, Zenon DEF t, SameOf

\* And when the first one sent is the only one of that name.
OnlyFirst(new, d) == 1 \in DOMAIN new /\ \A j \in DOMAIN new : new[j].desc = d <=> j = 1

\* One more series of d, at the end of those there were.
LEMMA LabelsGrow ==
    ASSUME NEW s \in Seq(AllSeries), NEW new \in Seq(AllSeries), NEW d, OnlyFirst(new, d)
    PROVE  /\ {i \in DOMAIN (s \o new) : (s \o new)[i].desc = d}
                 = {i \in DOMAIN s : s[i].desc = d} \cup {Len(s) + 1}
           /\ Len(s) + 1 \notin DOMAIN s /\ (s \o new)[Len(s) + 1] = new[1]
           /\ \A i \in DOMAIN s : (s \o new)[i] = s[i]
<1> DEFINE t == s \o new
           n == Len(s) + 1
<1>0. 1 \in DOMAIN new /\ \A j \in DOMAIN new : new[j].desc = d <=> j = 1
  BY Zenon DEF OnlyFirst
<1>1. /\ \A i \in DOMAIN t : \/ i \in DOMAIN s /\ t[i] = s[i]
                             \/ /\ i \notin DOMAIN s /\ i - Len(s) \in DOMAIN new
                                /\ t[i] = new[i - Len(s)]
      /\ \A i \in DOMAIN s : i \in DOMAIN t /\ t[i] = s[i]
      /\ n \in DOMAIN t /\ t[n] = new[1] /\ t \in Seq(AllSeries)
  BY <1>0, Concatenated
<1>2. Len(s) \in Nat /\ DOMAIN s = 1..Len(s) /\ DOMAIN t \subseteq Nat
  BY <1>1, LenProperties
<1>3. n \notin DOMAIN s /\ \A i \in DOMAIN t : i - Len(s) = 1 => i = n
  BY <1>2
<1> HIDE DEF t, n
<1>4. \A i : i \in DOMAIN t /\ t[i].desc = d <=> (i \in DOMAIN s /\ s[i].desc = d) \/ i = n
  BY <1>0, <1>1, <1>3, Zenon
<1>5. {i \in DOMAIN t : t[i].desc = d} = {i \in DOMAIN s : s[i].desc = d} \cup {n}
  BY <1>4
<1> QED
  BY <1>1, <1>3, <1>5, Zenon DEF t, n

-----------------------------------------------------------------------------
(* The steps *)

\* The labels are those of names and of words.
LEMMA LabelTypes ==
    /\ \A x \in NamesOrNone : x \in Labels
    /\ \A r \in ChannelRows : ChannelGroup(r) \in Seq(Labels) /\ CallsOf(r) \subseteq Ids
    /\ \A r \in PeerRows : /\ StatusKey(r) \in Words /\ <<StatusKey(r)>> \in Seq(Labels)
                           /\ r.name \in Labels
    /\ \A r \in EndpointRows : r.event = "EndpointList" =>
          /\ EndpointGroup(r) \in Seq(Labels) /\ r.name \in Labels
          /\ StateLabel(r) \in Words /\ Kind(r) \in Words
    /\ \A r \in QueueRows :
          /\ r.event = "queuemember" => <<r.name, MemberStatus(r.state)>> \in Seq(Labels)
          /\ r.event = "queueparams" => r.name \in Labels
<1>1. \A x \in NamesOrNone : x \in Labels
  BY DEF NamesOrNone, Labels
<1>2. \A x \in Words : x \in Labels
  BY DEF Labels
<1>3. \A r \in ChannelRows : ChannelGroup(r) \in Seq(Labels)
  <2> SUFFICES ASSUME NEW r \in ChannelRows PROVE <<FirstNonEmpty(r.state, "Unknown")>> \in Seq(Labels)
    BY Zenon DEF ChannelGroup
  <2>1. FirstNonEmpty(r.state, "Unknown") \in Words
    BY DEF ChannelRows, FirstNonEmpty, Words
  <2> QED
    BY <1>2, <2>1
<1>4. \A r \in ChannelRows : CallsOf(r) \subseteq Ids
  BY DEF ChannelRows, CallsOf, CallId, FirstNonEmpty, IdsOrNone
<1>5. \A r \in PeerRows : StatusKey(r) \in Words /\ r.name \in Labels
  BY <1>1 DEF PeerRows, StatusKey, FirstNonEmpty, Words
<1>6. \A r \in PeerRows : <<StatusKey(r)>> \in Seq(Labels)
  BY <1>2, <1>5
<1>7. \A r \in EndpointRows : r.event = "EndpointList" =>
         r.name \in Labels /\ StateLabel(r) \in Words /\ Kind(r) \in Words
  BY <1>1 DEF EndpointRows, StateLabel, Kind, FirstNonEmpty, Words
<1>8. \A r \in EndpointRows : r.event = "EndpointList" => EndpointGroup(r) \in Seq(Labels)
  BY <1>2, <1>7 DEF EndpointGroup
<1>9. \A r \in QueueRows :
          /\ r.event \in {"queuemember", "queueparams"} => r.name \in Labels
          /\ r.event = "queuemember" => r.state \in {"0", "1", "9", ""}
  BY <1>1 DEF QueueRows
<1>10. \A x \in {"0", "1", "9", ""} : MemberStatus(x) \in Words
  <2> SUFFICES ASSUME NEW x \in {"0", "1", "9", ""} PROVE MemberStatus(x) \in Words
    OBVIOUS
  <2> QED
    BY DEF MemberStatus, Words
<1>11. \A r \in QueueRows : r.event = "queuemember" => <<r.name, MemberStatus(r.state)>> \in Seq(Labels)
  <2> SUFFICES ASSUME NEW r \in QueueRows, r.event = "queuemember"
               PROVE  <<r.name, MemberStatus(r.state)>> \in Seq(Labels)
    BY Zenon
  <2>1. r.name \in Labels /\ MemberStatus(r.state) \in Labels
    BY <1>2, <1>9, <1>10, Zenon
  <2> QED
    BY <2>1
<1> QED
  BY <1>1, <1>3, <1>4, <1>5, <1>6, <1>7, <1>8, <1>9, <1>11

\* A row of channels: counted under its state, and its call seen.
LEMMA ChannelRowStep ==
    ASSUME MetricsInv, NEW r \in ChannelRows, ChannelRow(r)
    PROVE  MetricsInv'
<1> DEFINE n == Len(taken) + 1
           l == ChannelGroup(r)
<1>1. /\ phase = "channels" /\ status = "running" /\ taken' = Append(taken, r)
      /\ AddTo(ChannelGroup(r)) /\ linkedids' = linkedids \cup CallsOf(r)
      /\ phase' = phase /\ sent' = sent /\ status' = status
  BY Zenon DEF ChannelRow, Takes, Running
<1>2. TypeOK /\ GroupsCount /\ CallsSeen
  BY DEF MetricsInv
<1>3. /\ phase' \in Phases /\ status' \in {"running", "done", "crashed"}
      /\ taken' \in Seq(ChannelRows \cup PeerRows \cup EndpointRows \cup QueueRows)
      /\ sent' \in Seq(AllSeries)
      /\ RowsMatch' /\ SentByRows' /\ SeriesUnique' /\ GroupsAgree' /\ CallsCountedOnce'
      /\ n \notin DOMAIN taken /\ DOMAIN taken' = DOMAIN taken \cup {n}
      /\ taken'[n] = r /\ \A k \in DOMAIN taken : taken'[k] = taken[k]
  <2>1. RowOf(r)
    BY <1>1, Zenon DEF RowOf
  <2>2. /\ <<>> \in Seq(AllSeries) /\ Unique(<<>>) /\ DOMAIN <<>> = {}
        /\ status' = "running" /\ sent' = sent \o <<>>
    BY <1>1, NothingSent
  <2> QED
    BY <1>1, <2>1, <2>2, RowStep, Zenon
<1> HIDE DEF n
<1>4. /\ groups' \in [DOMAIN groups' -> Nat \ {0}] /\ DOMAIN groups' \subseteq Seq(Labels)
      /\ Added(groups, groups', l)
      /\ IsFiniteSet(DOMAIN groups) => IsFiniteSet(DOMAIN groups')
  BY <1>1, <1>2, LabelTypes, GroupAdded, Zenon
<1>5. linkedids' \subseteq Ids
  BY <1>1, <1>2, LabelTypes DEF TypeOK
<1>6. GroupsCount'
  <2>1. Counting(groups, ChannelLabels) /\ IsFiniteSet(DOMAIN groups)
    BY <1>1, <1>2, Zenon DEF GroupsCount
  <2> DEFINE before == ChannelLabels
             after == [k \in DOMAIN taken' |-> ChannelGroup(taken'[k])]
  <2>2. OneMore(before, after, n, l)
    BY <1>3 DEF ChannelLabels, OneMore
  <2> HIDE DEF before, after, l
  <2>3. Counting(groups', after)
    BY <1>4, <2>1, <2>2, CountStep, Zenon DEF before
  <2>4. ChannelLabels' = after
    BY Zenon DEF ChannelLabels, after
  <2> QED
    BY <1>1, <1>4, <2>1, <2>3, <2>4 DEF GroupsCount
<1>7. CallsSeen'
  <2>1. linkedids = {CallId(taken[k]) : k \in DOMAIN taken} \ {""}
    BY <1>1, <1>2, Zenon DEF CallsSeen
  <2>2. \A x : x \in linkedids' <=> x \in {CallId(taken'[k]) : k \in DOMAIN taken'} \ {""}
    BY <1>1, <1>3, <2>1 DEF CallsOf
  <2>3. linkedids' = {CallId(taken'[k]) : k \in DOMAIN taken'} \ {""}
    BY <2>2, Zenon
  <2> QED
    BY <2>3, Zenon DEF CallsSeen
<1> QED
  BY <1>3, <1>4, <1>5, <1>6, <1>7, Zenon DEF MetricsInv, TypeOK

\* What the steps of the lists share: the rest of the invariant follows from the groups'.
LEMMA RowKept ==
    ASSUME MetricsInv, status = "running", phase # "channels", NEW r, RowOf(r),
           NEW new \in Seq(AllSeries), Unique(new),
           \A i \in DOMAIN new : Object(r) /\ SentBy(new[i], r),
           phase' = phase, linkedids' = linkedids, taken' = Append(taken, r),
           \/ status' = "crashed" /\ sent' = sent
           \/ status' = "running" /\ sent' = sent \o new,
           groups' \in [DOMAIN groups' -> Nat \ {0}], DOMAIN groups' \subseteq Seq(Labels),
           GroupsCount'
    PROVE  MetricsInv'
<1>1. TypeOK
  BY DEF MetricsInv
<1>2. /\ phase' \in Phases /\ status' \in {"running", "done", "crashed"}
      /\ taken' \in Seq(ChannelRows \cup PeerRows \cup EndpointRows \cup QueueRows)
      /\ sent' \in Seq(AllSeries)
      /\ RowsMatch' /\ SentByRows' /\ SeriesUnique' /\ GroupsAgree' /\ CallsCountedOnce'
  BY RowStep, Zenon
<1>3. TypeOK'
  BY <1>1, <1>2, Zenon DEF TypeOK
<1>4. CallsSeen'
  BY Zenon DEF CallsSeen
<1> QED
  BY <1>2, <1>3, <1>4, Zenon DEF MetricsInv

\* A row of peers: a series with its name, and counted under its status.
LEMMA PeerRowStep ==
    ASSUME MetricsInv, NEW r \in PeerRows, PeerRow(r)
    PROVE  MetricsInv'
<1> DEFINE l == <<StatusKey(r)>>
           up == Series("peer_up", <<r.name, StatusKey(r)>>, IF StatusKey(r) = "OK" THEN 1 ELSE 0)
           latency == Series("peer_latency", <<r.name>>, 12)
           new == <<up>> \o When(r.ms, latency)
<1>1. /\ phase = "sip_peers" /\ status = "running" /\ taken' = Append(taken, r)
      /\ AddTo(l) /\ Send(new, "running") /\ phase' = phase /\ linkedids' = linkedids
  BY Zenon DEF PeerRow, Takes, Running
<1>2. TypeOK /\ GroupsCount /\ sent \in Seq(AllSeries)
  BY DEF MetricsInv, TypeOK
<1>3. r.name \in Labels /\ StatusKey(r) \in Labels /\ l \in Seq(Labels) /\ r.ms \in BOOLEAN
  <2>1. r.ms \in BOOLEAN
    BY DEF PeerRows
  <2>2. StatusKey(r) \in Labels
    BY LabelTypes, Zenon DEF Labels
  <2> QED
    BY <2>1, <2>2, LabelTypes, Zenon
<1>4. /\ up \in AllSeries /\ up.desc = "peer_up" /\ up.labels = <<r.name, StatusKey(r)>>
      /\ latency \in AllSeries /\ latency.desc = "peer_latency" /\ latency.labels = <<r.name>>
  <2>1. <<r.name, StatusKey(r)>> \in Seq(Labels) /\ <<r.name>> \in Seq(Labels)
    BY <1>3
  <2> QED
    BY <2>1 DEF Series, AllSeries, Descs
<1> HIDE DEF up, latency
<1>5. /\ <<up>> \in Seq(AllSeries) /\ Unique(<<up>>) /\ DOMAIN <<up>> = {1} /\ <<up>>[1] = up
      /\ When(r.ms, latency) \in Seq(AllSeries) /\ Unique(When(r.ms, latency))
      /\ \A i \in DOMAIN When(r.ms, latency) : When(r.ms, latency)[i] = latency
  <2>1. <<up>> \in Seq(AllSeries) /\ Unique(<<up>>) /\ DOMAIN <<up>> = {1} /\ <<up>>[1] = up
    BY <1>3, <1>4, OneOrNone, Zenon
  <2>2. /\ When(r.ms, latency) \in Seq(AllSeries) /\ Unique(When(r.ms, latency))
        /\ \A i \in DOMAIN When(r.ms, latency) : When(r.ms, latency)[i] = latency
    <3>1. latency \in AllSeries /\ r.ms \in BOOLEAN
      BY <1>3, <1>4, Zenon
    <3> QED
      BY <3>1, OneOrNone, ZenonT(40)
  <2> QED
    BY <2>1, <2>2, Zenon
<1>6. new \in Seq(AllSeries) /\ Unique(new)
  <2>1. Apart(<<up>>, When(r.ms, latency))
    BY <1>4, <1>5 DEF Apart, Same
  <2> QED
    BY <1>5, <2>1, UniqueTogether, Concatenated, Zenon
<1>7. /\ 1 \in DOMAIN new /\ new[1] = up
      /\ \A i \in DOMAIN new : i = 1 \/ new[i] = latency
  BY <1>5, Concatenated
<1> HIDE DEF new
<1>8. Object(r) /\ \A i \in DOMAIN new : SentBy(new[i], r)
  <2>1. SentBy(up, r) /\ SentBy(latency, r)
    BY <1>1, <1>4, Zenon DEF SentBy
  <2> QED
    BY <1>1, <1>7, <2>1, Zenon DEF Object
<1>9. \/ status' = "crashed" /\ sent' = sent
      \/ status' = "running" /\ sent' = sent \o new
  BY <1>1, Sends, Zenon
<1> HIDE DEF l
<1>10. /\ groups' \in [DOMAIN groups' -> Nat \ {0}] /\ DOMAIN groups' \subseteq Seq(Labels)
       /\ Added(groups, groups', l)
       /\ IsFiniteSet(DOMAIN groups) => IsFiniteSet(DOMAIN groups')
  BY <1>1, <1>2, <1>3, GroupAdded, Zenon
<1>11. GroupsCount'
  <2> SUFFICES ASSUME status' = "running" PROVE Counting(groups', PeerLabels')
    BY <1>1 DEF GroupsCount, Counting
  <2>1. Counting(groups, PeerLabels) /\ sent' = sent \o new
    BY <1>1, <1>2, <1>9 DEF GroupsCount
  <2> DEFINE ups == {i \in DOMAIN sent : sent[i].desc = "peer_up"}
             after == [i \in ups \cup {Len(sent) + 1} |-> <<sent'[i].labels[2]>>]
  <2>2. /\ {i \in DOMAIN sent' : sent'[i].desc = "peer_up"} = ups \cup {Len(sent) + 1}
        /\ Len(sent) + 1 \notin DOMAIN sent /\ sent'[Len(sent) + 1] = up
        /\ \A i \in DOMAIN sent : sent'[i] = sent[i]
    <3>1. OnlyFirst(new, "peer_up")
      BY <1>4, <1>7 DEF OnlyFirst
    <3> QED
      BY <1>2, <1>6, <1>7, <2>1, <3>1, LabelsGrow
  <2>3. PeerLabels' = after
    BY <2>2, Zenon DEF PeerLabels, Sent
  <2>4. OneMore(PeerLabels, after, Len(sent) + 1, l)
    BY <1>4, <2>2 DEF OneMore, PeerLabels, Sent, l
  <2> HIDE DEF after
  <2>5. Counting(groups', after)
    BY <1>10, <2>1, <2>4, CountStep, Zenon
  <2> QED
    BY <2>3, <2>5, Zenon
<1>12. RowOf(r)
  BY <1>1, Zenon DEF RowOf
<1> QED
  BY <1>1, <1>6, <1>8, <1>9, <1>10, <1>11, <1>12, RowKept, Zenon

\* A row of endpoints, or of their AORs, which it passes over.
LEMMA EndpointRowStep ==
    ASSUME MetricsInv, NEW r \in EndpointRows, EndpointRow(r)
    PROVE  MetricsInv'
<1> DEFINE l == EndpointGroup(r)
           up == Series("endpoint_up", <<r.name, StateLabel(r), Kind(r)>>,
                        IF r.state = "In use" THEN 1 ELSE 0)
<1>1. /\ phase = "pjsip_endpoints" /\ status = "running" /\ taken' = Append(taken, r)
      /\ phase' = phase /\ linkedids' = linkedids
      /\ r.event = "EndpointList" => AddTo(l) /\ Send(<<up>>, "running")
      /\ r.event # "EndpointList" => UNCHANGED <<groups, sent, status>>
  BY Zenon DEF EndpointRow, Takes, Running
<1>2. /\ TypeOK /\ sent \in Seq(AllSeries) /\ RowOf(r)
      /\ Counting(groups, EndpointLabels) /\ IsFiniteSet(DOMAIN groups)
  BY <1>1 DEF MetricsInv, TypeOK, GroupsCount, RowOf
<1>3. CASE r.event # "EndpointList"
  <2>1. /\ <<>> \in Seq(AllSeries) /\ Unique(<<>>) /\ DOMAIN <<>> = {}
        /\ status' = "running" /\ sent' = sent \o <<>> /\ groups' = groups /\ sent' = sent
    BY <1>1, <1>3, NothingSent, Zenon
  <2>2. GroupsCount'
    <3>1. EndpointLabels' = EndpointLabels
      BY <2>1, Zenon DEF EndpointLabels, Sent
    <3> QED
      BY <1>1, <1>2, <2>1, <3>1 DEF GroupsCount
  <2>3. groups' \in [DOMAIN groups' -> Nat \ {0}] /\ DOMAIN groups' \subseteq Seq(Labels)
    BY <1>2, <2>1 DEF TypeOK
  <2> QED
    BY <1>1, <1>2, <2>1, <2>2, <2>3, RowKept
<1>4. CASE r.event = "EndpointList"
  <2>1. /\ r.name \in Labels /\ StateLabel(r) \in Labels /\ Kind(r) \in Labels /\ l \in Seq(Labels)
    <3>1. /\ r.name \in Labels /\ StateLabel(r) \in Words /\ Kind(r) \in Words /\ l \in Seq(Labels)
      BY <1>4, LabelTypes, Zenon
    <3> QED
      BY <3>1, Zenon DEF Labels
  <2>2. /\ up \in AllSeries /\ up.desc = "endpoint_up"
        /\ up.labels = <<r.name, StateLabel(r), Kind(r)>> /\ Tail(up.labels) = l
    <3>1. <<r.name, StateLabel(r), Kind(r)>> \in Seq(Labels)
      BY <2>1
    <3>2. Tail(<<r.name, StateLabel(r), Kind(r)>>) = <<StateLabel(r), Kind(r)>>
      BY <2>1
    <3> QED
      BY <3>1, <3>2 DEF Series, AllSeries, Descs, EndpointGroup
  <2> HIDE DEF up
  <2> DEFINE new == <<up>>
  <2>3. new \in Seq(AllSeries) /\ Unique(new) /\ DOMAIN new = {1} /\ new[1] = up
    BY <2>2, OneOrNone, Zenon
  <2> HIDE DEF new
  <2>4. Object(r) /\ \A i \in DOMAIN new : SentBy(new[i], r)
    <3>1. SentBy(up, r)
      BY <1>1, <2>2, Zenon DEF SentBy
    <3> QED
      BY <1>1, <1>4, <2>3, <3>1 DEF Object
  <2>5. \/ status' = "crashed" /\ sent' = sent
        \/ status' = "running" /\ sent' = sent \o new
    BY <1>1, <1>4, Sends, Zenon DEF new
  <2> HIDE DEF l
  <2>6. /\ groups' \in [DOMAIN groups' -> Nat \ {0}] /\ DOMAIN groups' \subseteq Seq(Labels)
        /\ Added(groups, groups', l) /\ IsFiniteSet(DOMAIN groups')
    BY <1>1, <1>2, <1>4, <2>1, GroupAdded, Zenon
  <2>7. GroupsCount'
    <3> SUFFICES ASSUME status' = "running" PROVE Counting(groups', EndpointLabels')
      BY <1>1 DEF GroupsCount, Counting
    <3>1. sent' = sent \o new
      BY <2>5
    <3> DEFINE ups == {i \in DOMAIN sent : sent[i].desc = "endpoint_up"}
               after == [i \in ups \cup {Len(sent) + 1} |-> Tail(sent'[i].labels)]
    <3>2. /\ {i \in DOMAIN sent' : sent'[i].desc = "endpoint_up"} = ups \cup {Len(sent) + 1}
          /\ Len(sent) + 1 \notin DOMAIN sent /\ sent'[Len(sent) + 1] = up
          /\ \A i \in DOMAIN sent : sent'[i] = sent[i]
      <4>1. OnlyFirst(new, "endpoint_up")
        BY <2>2, <2>3 DEF OnlyFirst
      <4> QED
        <5>1. /\ {i \in DOMAIN (sent \o new) : (sent \o new)[i].desc = "endpoint_up"}
                    = ups \cup {Len(sent) + 1}
              /\ Len(sent) + 1 \notin DOMAIN sent /\ (sent \o new)[Len(sent) + 1] = new[1]
              /\ \A i \in DOMAIN sent : (sent \o new)[i] = sent[i]
          BY <1>2, <2>3, <4>1, LabelsGrow, Zenon
        <5> QED
          BY <2>3, <3>1, <5>1, Zenon
    <3>3. EndpointLabels' = after
      BY <3>2, Zenon DEF EndpointLabels, Sent
    <3>4. OneMore(EndpointLabels, after, Len(sent) + 1, l)
      BY <2>2, <3>2 DEF OneMore, EndpointLabels, Sent
    <3> HIDE DEF after
    <3>5. Counting(groups', after)
      BY <1>2, <2>6, <3>4, CountStep, Zenon
    <3> QED
      BY <3>3, <3>5, Zenon
  <2> QED
    BY <1>1, <1>2, <2>3, <2>4, <2>5, <2>6, <2>7, RowKept
<1> QED
  BY <1>3, <1>4

\* A row of queues: a queue, a member, or a caller.
LEMMA QueueRowStep ==
    ASSUME MetricsInv, NEW r \in QueueRows, QueueRow(r)
    PROVE  MetricsInv'
<1> DEFINE sends == r.event = "queueparams" /\ HasQueue(r) /\ r.calls = "2"
           callers == Series("callers", <<r.name>>, 2)
           new == When(sends, callers)
           l == <<r.name, MemberStatus(r.state)>>
<1>1. /\ phase = "queues" /\ status = "running" /\ taken' = Append(taken, r)
      /\ phase' = phase /\ linkedids' = linkedids /\ Send(new, "running")
      /\ IF r.event = "queuemember" /\ HasQueue(r) THEN AddTo(l) ELSE groups' = groups
  BY Zenon DEF QueueRow, Takes, Running
<1>2. /\ TypeOK /\ sent \in Seq(AllSeries) /\ RowOf(r) /\ IsFiniteSet(DOMAIN groups)
      /\ Counting(groups, MemberLabels)
  BY <1>1 DEF MetricsInv, TypeOK, GroupsCount, RowOf
<1>3. /\ new \in Seq(AllSeries) /\ Unique(new) /\ \A i \in DOMAIN new : Object(r) /\ SentBy(new[i], r)
  <2>1. CASE ~sends
    <3>1. new = <<>>
      BY <2>1, Zenon DEF When
    <3> QED
      BY <3>1, <1>1, NothingSent, Zenon
  <2>2. CASE sends
    <3>1. r.name \in Labels /\ Object(r)
      BY <1>1, <2>2, LabelTypes, Zenon DEF Object, HasQueue
    <3>2. callers \in AllSeries /\ SentBy(callers, r)
      <4>1. <<r.name>> \in Seq(Labels)
        BY <3>1
      <4> QED
        BY <1>1, <4>1 DEF Series, AllSeries, Descs, SentBy
    <3>3. new = <<callers>>
      BY <2>2, Zenon DEF When
    <3> HIDE DEF callers, new
    <3>4. <<callers>> \in Seq(AllSeries) /\ Unique(<<callers>>) /\ DOMAIN <<callers>> = {1}
          /\ <<callers>>[1] = callers
      BY <3>2, OneOrNone, Zenon
    <3> QED
      BY <3>1, <3>2, <3>3, <3>4
  <2> QED
    BY <2>1, <2>2
<1> HIDE DEF new
<1>4. \/ status' = "crashed" /\ sent' = sent
      \/ status' = "running" /\ sent' = sent \o new
  BY <1>1, Sends, Zenon
<1>5. /\ groups' \in [DOMAIN groups' -> Nat \ {0}] /\ DOMAIN groups' \subseteq Seq(Labels)
      /\ IsFiniteSet(DOMAIN groups')
  <2>1. CASE groups' = groups
    BY <1>2, <2>1 DEF TypeOK
  <2>2. CASE r.event = "queuemember" /\ AddTo(l)
    <3>1. l \in Seq(Labels)
      BY <2>2, LabelTypes, Zenon
    <3> HIDE DEF l
    <3> QED
      BY <1>2, <2>2, <3>1, GroupAdded, Zenon
  <2> QED
    BY <1>1, <2>1, <2>2
<1>6. GroupsCount'
  <2> DEFINE n == Len(taken) + 1
             before == MemberLabels
             into == {k \in DOMAIN taken' : taken'[k].event = "queuemember" /\ taken'[k].name # ""}
             after == [k \in into |-> <<taken'[k].name, MemberStatus(taken'[k].state)>>]
  <2>1. /\ n \notin DOMAIN taken /\ DOMAIN taken' = DOMAIN taken \cup {n}
        /\ taken'[n] = r /\ \A k \in DOMAIN taken : taken'[k] = taken[k]
    BY <1>1, <1>2, <1>3, <1>4, RowStep, Zenon
  <2> HIDE DEF n
  <2>2. MemberLabels' = after
    BY Zenon DEF MemberLabels, Members, after, into
  <2>3. Counting(groups', after)
    <3>1. CASE r.event = "queuemember" /\ HasQueue(r)
      <4>1. OneMore(before, after, n, l)
        BY <2>1, <3>1 DEF MemberLabels, Members, OneMore, HasQueue
      <4>2. l \in Seq(Labels)
        BY <3>1, LabelTypes, Zenon
      <4> HIDE DEF before, after, l
      <4>3. Added(groups, groups', l)
        BY <1>1, <1>2, <3>1, <4>2, GroupAdded, Zenon DEF l
      <4> QED
        BY <1>2, <4>1, <4>3, CountStep, Zenon DEF before
    <3>2. CASE ~(r.event = "queuemember" /\ HasQueue(r))
      <4>1. into = Members
        BY <2>1, <3>2 DEF Members, HasQueue
      <4>2. \A k \in Members : taken'[k] = taken[k]
        BY <2>1, Zenon DEF Members
      <4> HIDE DEF into
      <4>3. after = MemberLabels
        BY <4>1, <4>2, Zenon DEF MemberLabels, after
      <4> QED
        BY <1>1, <1>2, <3>2, <4>3, Zenon
    <3> QED
      BY <3>1, <3>2
  <2> HIDE DEF after
  <2> QED
    BY <1>1, <1>5, <2>2, <2>3, Zenon DEF GroupsCount
<1> QED
  BY <1>1, <1>2, <1>3, <1>4, <1>5, <1>6, RowKept

\* Two sequences without a name are without it together.
LEMMA WithoutBoth ==
    ASSUME NEW s \in Seq(AllSeries), NEW more \in Seq(AllSeries), NEW d,
           Without(s, d), Without(more, d)
    PROVE  Without(s \o more, d)
<1> DEFINE t == s \o more
<1>1. \A i \in DOMAIN t : \/ i \in DOMAIN s /\ t[i] = s[i]
                          \/ /\ i \notin DOMAIN s /\ i - Len(s) \in DOMAIN more
                             /\ t[i] = more[i - Len(s)]
  BY Concatenated, Zenon
<1> HIDE DEF t
<1>2. Without(t, d)
  BY <1>1, Zenon DEF Without
<1> QED
  BY <1>2, Zenon DEF t

\* What the counts of a phase come to, of the series sent.
LEMMA Agreement ==
    ASSUME CountsIn(sent', "peers", PeerLabels'), CountsIn(sent', "endpoints", EndpointLabels'),
           phase' = "channels" =>
               /\ CountsIn(sent', "channels_by_state", ChannelLabels')
               /\ \E i \in DOMAIN sent' :
                     sent'[i].desc = "channels_active" /\ sent'[i].value = Len(taken'),
           phase' = "queues" => CountsIn(sent', "members", MemberLabels')
    PROVE  GroupsAgree'
<1>1. Counts("peers", PeerLabels)' /\ Counts("endpoints", EndpointLabels)'
  BY Zenon DEF Counts, Sent, CountsIn
<1>2. phase' = "channels" =>
        /\ Counts("channels_by_state", ChannelLabels)'
        /\ (\E i \in Sent("channels_active") : sent[i].value = Len(taken))'
  BY Zenon DEF Counts, Sent, CountsIn
<1>3. phase' = "queues" => Counts("members", MemberLabels)'
  BY Zenon DEF Counts, Sent, CountsIn
<1> QED
  BY <1>1, <1>2, <1>3, Zenon DEF GroupsAgree

\* Lists of neither peers nor endpoints leave their names out.
LEMMA NoPeers ==
    ASSUME Without(sent', "peers"), Without(sent', "peer_up")
    PROVE  CountsIn(sent', "peers", PeerLabels')
<1>1. DOMAIN PeerLabels' = {}
  BY DEF PeerLabels, Sent, Without
<1> QED
  BY <1>1, NothingToCount, Zenon

\* Nor are there endpoints to count.
LEMMA NoEndpoints ==
    ASSUME Without(sent', "endpoints"), Without(sent', "endpoint_up")
    PROVE  CountsIn(sent', "endpoints", EndpointLabels')
<1>1. DOMAIN EndpointLabels' = {}
  BY DEF EndpointLabels, Sent, Without
<1> QED
  BY <1>1, NothingToCount, Zenon

\* The end of the peers: one series for each status.
LEMMA PeersEndStep ==
    ASSUME MetricsInv, PeersEnd
    PROVE  MetricsInv'
<1> DEFINE gs == GroupSeries("peers")
<1>1. /\ phase = "sip_peers" /\ status = "running" /\ Send(gs, "done")
      /\ UNCHANGED <<phase, taken, groups, linkedids>>
  BY Zenon DEF PeersEnd, Running
<1>2. /\ TypeOK /\ sent \in Seq(AllSeries) /\ IsFiniteSet(DOMAIN groups)
      /\ Counting(groups, PeerLabels) /\ "peers" \in Descs
  BY <1>1 DEF MetricsInv, TypeOK, GroupsCount, Descs
<1>3. gs \in Seq(AllSeries) /\ Unique(gs) /\ \A i \in DOMAIN gs : gs[i].desc = "peers"
  BY <1>2, GroupsListed, Zenon
<1>4. \/ status' = "crashed" /\ sent' = sent
      \/ status' = "done" /\ sent' = sent \o gs
  BY <1>1, Sends, Zenon
<1>5. Without(sent, "peers") /\ Without(sent, "endpoints") /\ Without(sent, "endpoint_up")
  BY <1>1, SentSoFar DEF Without, RowDescs
<1>6. CountsIn(sent \o gs, "peers", PeerLabels)
  BY <1>2, <1>5, GroupsSent, Zenon
<1> HIDE DEF gs
<1>7. Without(gs, "peer_up") /\ Without(gs, "endpoints") /\ Without(gs, "endpoint_up")
  BY <1>3 DEF Without
<1>8. ASSUME status' = "done" PROVE GroupsAgree' /\ CallsCountedOnce'
  <2>1. sent' = sent \o gs
    BY <1>4, <1>8
  <2>2. PeerLabels' = PeerLabels
    <3>1. SameOf(sent, sent \o gs, "peer_up")
      BY <1>2, <1>3, <1>7, LabelsKept, Zenon
    <3> QED
      BY <2>1, <3>1 DEF PeerLabels, Sent, SameOf
  <2>3. Without(sent', "endpoints") /\ Without(sent', "endpoint_up")
    BY <1>2, <1>3, <1>5, <1>7, <2>1, WithoutBoth, Zenon
  <2>4. GroupsAgree'
    BY <1>1, <1>6, <2>1, <2>2, <2>3, NoEndpoints, Agreement
  <2> QED
    BY <1>1, <2>4 DEF CallsCountedOnce
<1>9. \A i \in DOMAIN gs : gs[i].desc \notin RowDescs
  BY <1>3 DEF RowDescs
<1> QED
  BY <1>1, <1>3, <1>4, <1>8, <1>9, EndStep, Zenon

\* The end of the endpoints: one series for each state and kind.
LEMMA EndpointsEndStep ==
    ASSUME MetricsInv, EndpointsEnd
    PROVE  MetricsInv'
<1> DEFINE gs == GroupSeries("endpoints")
<1>1. /\ phase = "pjsip_endpoints" /\ status = "running" /\ Send(gs, "done")
      /\ UNCHANGED <<phase, taken, groups, linkedids>>
  BY Zenon DEF EndpointsEnd, Running
<1>2. /\ TypeOK /\ sent \in Seq(AllSeries) /\ IsFiniteSet(DOMAIN groups)
      /\ Counting(groups, EndpointLabels) /\ "endpoints" \in Descs
  BY <1>1 DEF MetricsInv, TypeOK, GroupsCount, Descs
<1>3. gs \in Seq(AllSeries) /\ Unique(gs) /\ \A i \in DOMAIN gs : gs[i].desc = "endpoints"
  BY <1>2, GroupsListed, Zenon
<1>4. \/ status' = "crashed" /\ sent' = sent
      \/ status' = "done" /\ sent' = sent \o gs
  BY <1>1, Sends, Zenon
<1>5. Without(sent, "endpoints") /\ Without(sent, "peers") /\ Without(sent, "peer_up")
  BY <1>1, SentSoFar DEF Without, RowDescs
<1>6. CountsIn(sent \o gs, "endpoints", EndpointLabels)
  BY <1>2, <1>5, GroupsSent, Zenon
<1> HIDE DEF gs
<1>7. Without(gs, "endpoint_up") /\ Without(gs, "peers") /\ Without(gs, "peer_up")
  BY <1>3 DEF Without
<1>8. ASSUME status' = "done" PROVE GroupsAgree' /\ CallsCountedOnce'
  <2>1. sent' = sent \o gs
    BY <1>4, <1>8
  <2>2. EndpointLabels' = EndpointLabels
    <3>1. SameOf(sent, sent \o gs, "endpoint_up")
      BY <1>2, <1>3, <1>7, LabelsKept, Zenon
    <3> QED
      BY <2>1, <3>1 DEF EndpointLabels, Sent, SameOf
  <2>3. Without(sent', "peers") /\ Without(sent', "peer_up")
    BY <1>2, <1>3, <1>5, <1>7, <2>1, WithoutBoth, Zenon
  <2>4. GroupsAgree'
    BY <1>1, <1>6, <2>1, <2>2, <2>3, NoPeers, Agreement
  <2> QED
    BY <1>1, <2>4 DEF CallsCountedOnce
<1>9. \A i \in DOMAIN gs : gs[i].desc \notin RowDescs
  BY <1>3 DEF RowDescs
<1> QED
  BY <1>1, <1>3, <1>4, <1>8, <1>9, EndStep, Zenon

\* A phase that sends neither of peers nor of endpoints ends well.
LEMMA OtherEnd ==
    ASSUME MetricsInv, status = "running", phase \in {"core", "queues"},
           NEW new \in Seq(AllSeries), Unique(new),
           \A i \in DOMAIN new : new[i].desc \notin RowDescs \cup {"peers", "endpoints"},
           UNCHANGED <<phase, taken, groups, linkedids>>, Send(new, "done"),
           phase = "queues" => CountsIn(sent \o new, "members", MemberLabels)
    PROVE  MetricsInv'
<1>1. sent \in Seq(AllSeries)
  BY DEF MetricsInv, TypeOK
<1>2. \/ status' = "crashed" /\ sent' = sent
      \/ status' = "done" /\ sent' = sent \o new
  BY Sends, Zenon
<1>3. /\ Without(sent, "peers") /\ Without(sent, "peer_up")
      /\ Without(sent, "endpoints") /\ Without(sent, "endpoint_up")
  BY SentSoFar DEF Without, RowDescs
<1>4. /\ Without(new, "peers") /\ Without(new, "peer_up")
      /\ Without(new, "endpoints") /\ Without(new, "endpoint_up")
  BY DEF Without, RowDescs
<1>5. ASSUME status' = "done" PROVE GroupsAgree' /\ CallsCountedOnce'
  <2>1. sent' = sent \o new
    BY <1>2, <1>5
  <2>2. /\ Without(sent', "peers") /\ Without(sent', "peer_up")
        /\ Without(sent', "endpoints") /\ Without(sent', "endpoint_up")
    BY <1>1, <1>3, <1>4, <2>1, WithoutBoth, Zenon
  <2>3. MemberLabels' = MemberLabels
    BY Zenon DEF MemberLabels, Members
  <2>4. GroupsAgree'
    BY <2>1, <2>2, <2>3, NoPeers, NoEndpoints, Agreement, Zenon
  <2> QED
    BY <2>4 DEF CallsCountedOnce
<1>6. \A i \in DOMAIN new : new[i].desc \notin RowDescs
  OBVIOUS
<1> QED
  BY <1>2, <1>5, <1>6, EndStep, Zenon

\* The end of the queues: one series for each queue and state of its members.
LEMMA QueuesEndStep ==
    ASSUME MetricsInv, QueuesEnd
    PROVE  MetricsInv'
<1> DEFINE gs == GroupSeries("members")
<1>1. /\ phase = "queues" /\ status = "running" /\ Send(gs, "done")
      /\ UNCHANGED <<phase, taken, groups, linkedids>>
  BY Zenon DEF QueuesEnd, Running
<1>2. /\ TypeOK /\ IsFiniteSet(DOMAIN groups) /\ "members" \in Descs
      /\ sent \in Seq(AllSeries) /\ Counting(groups, MemberLabels)
  BY <1>1 DEF MetricsInv, TypeOK, GroupsCount, Descs
<1>3. gs \in Seq(AllSeries) /\ Unique(gs) /\ \A i \in DOMAIN gs : gs[i].desc = "members"
  BY <1>2, GroupsListed, Zenon
<1>4. Without(sent, "members")
  BY <1>1, SentSoFar DEF Without, RowDescs
<1>5. CountsIn(sent \o gs, "members", MemberLabels)
  BY <1>2, <1>4, GroupsSent, Zenon
<1> HIDE DEF gs
<1>6. \A i \in DOMAIN gs : gs[i].desc \notin RowDescs \cup {"peers", "endpoints"}
  BY <1>3 DEF RowDescs
<1> QED
  BY <1>1, <1>3, <1>5, <1>6, OtherEnd

\* The calls seen are those of the Linkedids, and of the channels without one.
LEMMA CallsCounted ==
    ASSUME TypeOK, CallsSeen, phase = "channels"
    PROVE  linkedids = Linked \cup Loose /\ IsFiniteSet(linkedids) /\ Cardinality(linkedids) \in Nat
<1>1. linkedids = {CallId(taken[k]) : k \in DOMAIN taken} \ {""}
  BY Zenon DEF CallsSeen
<1>2. Linked \subseteq linkedids
  BY <1>1 DEF Linked, CallId, FirstNonEmpty
<1>3. Loose \subseteq linkedids
  BY <1>1 DEF Loose, CallId, FirstNonEmpty
<1>4. linkedids \subseteq Linked \cup Loose
  <2> SUFFICES ASSUME NEW x \in linkedids PROVE x \in Linked \cup Loose
    BY Zenon
  <2>1. PICK k \in DOMAIN taken : x = CallId(taken[k]) /\ x # ""
    BY <1>1
  <2>2. CASE taken[k].linked = ""
    BY <2>1, <2>2 DEF CallId, FirstNonEmpty, Loose
  <2>3. CASE taken[k].linked # ""
    BY <2>1, <2>3 DEF CallId, FirstNonEmpty, Linked
  <2> QED
    BY <2>2, <2>3
<1>5. IsFiniteSet(linkedids)
  <2>1. IsFiniteSet(DOMAIN taken)
    <3>1. Len(taken) \in Nat /\ DOMAIN taken = 1..Len(taken)
      BY LenProperties DEF TypeOK
    <3> QED
      BY <3>1, FS_Interval
  <2> DEFINE f == [k \in DOMAIN taken |-> CallId(taken[k])]
             C == {CallId(taken[k]) : k \in DOMAIN taken}
  <2>2. f \in Surjection(DOMAIN taken, C)
    BY Zenon DEF Surjection
  <2>3. IsFiniteSet(C)
    BY <2>1, <2>2, FS_Surjection, Zenon
  <2>4. linkedids \in SUBSET C
    BY <1>1
  <2> QED
    BY <2>3, <2>4, FS_Subset, Zenon
<1>6. Cardinality(linkedids) \in Nat
  BY <1>5, FS_CardinalityType, Zenon
<1> QED
  BY <1>2, <1>3, <1>4, <1>5, <1>6, Zenon

\* The end of the channels: their number, one series for each state, and the calls.
LEMMA ChannelsEndStep ==
    ASSUME MetricsInv, ChannelsEnd
    PROVE  MetricsInv'
<1> DEFINE a == Series("channels_active", <<>>, Len(taken))
           gs == GroupSeries("channels_by_state")
           c == Series("calls_active", <<>>, Cardinality(linkedids))
           new == <<a>> \o gs \o <<c>>
<1>1. /\ phase = "channels" /\ status = "running" /\ Send(new, "done")
      /\ UNCHANGED <<phase, taken, groups, linkedids>>
  BY Zenon DEF ChannelsEnd, Running
<1>2. /\ TypeOK /\ CallsSeen /\ IsFiniteSet(DOMAIN groups)
      /\ Counting(groups, ChannelLabels) /\ "channels_by_state" \in Descs /\ Len(taken) \in Nat
  BY <1>1 DEF MetricsInv, TypeOK, GroupsCount, Descs
<1>3. /\ a \in AllSeries /\ a.desc = "channels_active" /\ a.value = Len(taken)
      /\ c \in AllSeries /\ c.desc = "calls_active" /\ c.value = Cardinality(linkedids)
  <2>1. Cardinality(linkedids) \in Nat
    BY <1>1, <1>2, CallsCounted, Zenon
  <2>2. <<>> \in Seq(Labels)
    OBVIOUS
  <2> QED
    BY <1>2, <2>1, <2>2 DEF Series, AllSeries, Descs
<1>4. gs \in Seq(AllSeries) /\ Unique(gs) /\ \A i \in DOMAIN gs : gs[i].desc = "channels_by_state"
  BY <1>2, GroupsListed, Zenon
<1> HIDE DEF a, c
<1>5. /\ <<a>> \in Seq(AllSeries) /\ Unique(<<a>>) /\ DOMAIN <<a>> = {1} /\ <<a>>[1] = a
      /\ <<c>> \in Seq(AllSeries) /\ Unique(<<c>>) /\ DOMAIN <<c>> = {1} /\ <<c>>[1] = c
  BY <1>3, OneOrNone, Zenon
<1>6. CountsIn(<<a>> \o gs, "channels_by_state", ChannelLabels)
  <2>1. Without(<<a>>, "channels_by_state")
    BY <1>3, <1>5 DEF Without
  <2> QED
    BY <1>2, <1>5, <2>1, GroupsSent, Zenon
<1> HIDE DEF gs
<1> DEFINE ag == <<a>> \o gs
<1>7. ag \in Seq(AllSeries) /\ 1 \in DOMAIN ag /\ ag[1] = a
      /\ \A i \in DOMAIN ag : ag[i].desc \in {"channels_active", "channels_by_state"}
  BY <1>3, <1>4, <1>5, Concatenated
<1>8. Unique(ag)
  <2>1. Apart(<<a>>, gs)
    BY <1>3, <1>4, <1>5 DEF Apart, Same
  <2> QED
    BY <1>4, <1>5, <2>1, UniqueTogether, Zenon
<1>9. CountsIn(ag, "channels_by_state", ChannelLabels)
  BY <1>6
<1> HIDE DEF ag
<1>10. /\ ag \o <<c>> \in Seq(AllSeries)
       /\ \A i \in DOMAIN (ag \o <<c>>) : (ag \o <<c>>)[i].desc \notin RowDescs \cup {"peers", "endpoints"}
       /\ \E i \in DOMAIN (ag \o <<c>>) : (ag \o <<c>>)[i] = a
       /\ \E i \in DOMAIN (ag \o <<c>>) : (ag \o <<c>>)[i] = c
  <2> DEFINE t == ag \o <<c>>
  <2>1. /\ t \in Seq(AllSeries)
        /\ \A i \in DOMAIN t : \/ i \in DOMAIN ag /\ t[i] = ag[i]
                               \/ /\ i \notin DOMAIN ag /\ i - Len(ag) \in DOMAIN <<c>>
                                  /\ t[i] = <<c>>[i - Len(ag)]
        /\ \A i \in DOMAIN ag : i \in DOMAIN t /\ t[i] = ag[i]
        /\ \A j \in DOMAIN <<c>> : Len(ag) + j \in DOMAIN t /\ t[Len(ag) + j] = <<c>>[j]
    BY <1>5, <1>7, Concatenated
  <2> HIDE DEF t
  <2>2. \A i \in DOMAIN t : t[i].desc \in {"channels_active", "channels_by_state", "calls_active"}
    <3>1. \A i \in DOMAIN t : (i \in DOMAIN ag /\ t[i] = ag[i]) \/ t[i] = c
      BY <1>5, <2>1
    <3> QED
      BY <1>3, <1>7, <3>1
  <2>3. \A i \in DOMAIN t : t[i].desc \notin RowDescs \cup {"peers", "endpoints"}
    BY <2>2 DEF RowDescs
  <2>4. (\E i \in DOMAIN t : t[i] = a) /\ (\E i \in DOMAIN t : t[i] = c)
    <3>1. 1 \in DOMAIN t /\ t[1] = a
      BY <1>7, <2>1, Zenon
    <3>2. Len(ag) + 1 \in DOMAIN t /\ t[Len(ag) + 1] = c
      BY <1>5, <2>1
    <3> QED
      BY <3>1, <3>2, Zenon
  <2> QED
    BY <2>1, <2>3, <2>4, Zenon DEF t
<1>11. Unique(ag \o <<c>>)
  <2>1. Apart(ag, <<c>>)
    BY <1>3, <1>5, <1>7 DEF Apart, Same
  <2> QED
    BY <1>5, <1>7, <1>8, <2>1, UniqueTogether, Zenon
<1>12. CountsIn(ag \o <<c>>, "channels_by_state", ChannelLabels)
  <2>1. Without(<<c>>, "channels_by_state")
    BY <1>3, <1>5 DEF Without
  <2> QED
    BY <1>5, <1>7, <1>9, <2>1, CountsKept, Zenon
<1>13. Send(ag \o <<c>>, "done")
  BY <1>1, Zenon DEF ag
<1> HIDE DEF new
<1> DEFINE all == ag \o <<c>>
<1>14. /\ all \in Seq(AllSeries) /\ Unique(all) /\ CountsIn(all, "channels_by_state", ChannelLabels)
       /\ \A i \in DOMAIN all : all[i].desc \notin RowDescs \cup {"peers", "endpoints"}
       /\ \E i \in DOMAIN all : all[i] = a
       /\ \E i \in DOMAIN all : all[i] = c
       /\ Send(all, "done")
  BY <1>10, <1>11, <1>12, <1>13, Zenon
<1> HIDE DEF all
<1>15. \/ status' = "crashed" /\ sent' = sent
       \/ status' = "done" /\ sent' = sent \o all
  BY <1>14, Sends, Zenon
<1>16. ASSUME status' = "done" PROVE GroupsAgree' /\ CallsCountedOnce'
  <2>1. sent' = all
    <3>1. sent = <<>>
      BY <1>1, SentSoFar, Zenon
    <3>2. <<>> \o all = all
      BY <1>14, ConcatEmptySeq, Zenon
    <3> QED
      BY <1>15, <1>16, <3>1, <3>2
  <2>2. /\ Without(sent', "peers") /\ Without(sent', "peer_up")
        /\ Without(sent', "endpoints") /\ Without(sent', "endpoint_up")
    BY <1>14, <2>1 DEF Without, RowDescs
  <2>3. ChannelLabels' = ChannelLabels
    BY <1>1, Zenon DEF ChannelLabels
  <2>4. \E i \in DOMAIN sent' : sent'[i].desc = "channels_active" /\ sent'[i].value = Len(taken')
    BY <1>1, <1>3, <1>14, <2>1, Zenon
  <2>5. CountsIn(sent', "channels_by_state", ChannelLabels')
    BY <1>14, <2>1, <2>3, Zenon
  <2>6. GroupsAgree'
    BY <1>1, <2>2, <2>4, <2>5, NoPeers, NoEndpoints, Agreement
  <2>7. CallsCountedOnce'
    <3>1. PICK i \in DOMAIN sent' : sent'[i].desc = "calls_active" /\ sent'[i].value = Cardinality(linkedids)
      BY <1>3, <1>14, <2>1, Zenon
    <3>2. sent'[i].value = Cardinality(Linked \cup Loose)
      BY <1>1, <1>2, <3>1, CallsCounted, Zenon
    <3>3. Linked' = Linked /\ Loose' = Loose
      BY <1>1, Zenon DEF Linked, Loose
    <3>4. i \in Sent("calls_active")'
      BY <3>1, Zenon DEF Sent
    <3> QED
      BY <3>2, <3>3, <3>4, Zenon DEF CallsCountedOnce
  <2> QED
    BY <2>6, <2>7
<1>17. \A i \in DOMAIN all : all[i].desc \notin RowDescs
  BY <1>14
<1> QED
  BY <1>1, <1>14, <1>15, <1>16, <1>17, EndStep, Zenon

\* The core metrics: each name once.
LEMMA CoreStep ==
    ASSUME MetricsInv, CoreMetrics
    PROVE  MetricsInv'
<1> DEFINE Dates == {"uptime_seconds", "last_reload_seconds"}
           info(system) == Series("info", <<"version", system>>, 1)
           calls == Series("current_calls", <<>>, 1)
           dates(dated) == {Series(d, <<>>, 1) : d \in dated}
<1>1. PICK system \in NamesOrNone, dated \in SUBSET Dates, counted \in BOOLEAN :
         Send(<<info(system)>> \o When(counted, calls) \o Seqs!SetToSeq(dates(dated)), "done")
  BY Zenon DEF CoreMetrics
<1> DEFINE i1 == info(system)
           T == dates(dated)
           ic == <<i1>> \o When(counted, calls)
           ds == Seqs!SetToSeq(T)
<1>2. phase = "core" /\ status = "running" /\ UNCHANGED <<phase, taken, groups, linkedids>>
  BY Zenon DEF CoreMetrics, Running
<1>3. /\ i1 \in AllSeries /\ i1.desc = "info" /\ calls \in AllSeries /\ calls.desc = "current_calls"
  <2>1. system \in Labels /\ "version" \in Labels
    BY DEF Labels, Words
  <2>2. <<"version", system>> \in Seq(Labels) /\ <<>> \in Seq(Labels)
    BY <2>1
  <2> QED
    BY <2>2 DEF Series, AllSeries, Descs
<1>4. /\ T \subseteq AllSeries /\ IsFiniteSet(T)
      /\ \A x, y \in T : x.desc \in Dates /\ (Same(x, y) => x = y)
  <2>1. T \subseteq AllSeries /\ \A x, y \in T : x.desc \in Dates /\ (Same(x, y) => x = y)
    <3>1. \A x \in T : x.desc \in Dates /\ x = Series(x.desc, <<>>, 1)
      BY DEF Series
    <3>2. \A d \in Dates : Series(d, <<>>, 1) \in AllSeries
      BY DEF Series, AllSeries, Descs
    <3> HIDE DEF T, Dates
    <3>3. T \subseteq AllSeries
      <4> SUFFICES ASSUME NEW x \in T PROVE x \in AllSeries
        BY Zenon
      <4>1. Series(x.desc, <<>>, 1) \in AllSeries
        BY <3>1, <3>2, Zenon
      <4> QED
        BY <3>1, <4>1, Zenon
    <3>4. \A x, y \in T : Same(x, y) => x = y
      <4> SUFFICES ASSUME NEW x \in T, NEW y \in T, x.desc = y.desc PROVE x = y
        BY Zenon DEF Same
      <4>1. x = Series(x.desc, <<>>, 1) /\ y = Series(x.desc, <<>>, 1)
        BY <3>1, Zenon
      <4> QED
        BY <4>1, Zenon
    <3> QED
      BY <3>1, <3>3, <3>4, Zenon
  <2>2. IsFiniteSet(dated)
    <3>1. IsFiniteSet({"uptime_seconds"}) /\ IsFiniteSet({"last_reload_seconds"})
      BY FS_Singleton, Zenon
    <3>2. IsFiniteSet({"uptime_seconds"} \cup {"last_reload_seconds"})
      BY <3>1, FS_Union, Zenon
    <3>3. dated \in SUBSET ({"uptime_seconds"} \cup {"last_reload_seconds"})
      OBVIOUS
    <3> QED
      BY <3>2, <3>3, FS_Subset, Zenon
  <2> DEFINE f == [d \in dated |-> Series(d, <<>>, 1)]
  <2>3. f \in Surjection(dated, T)
    BY Zenon DEF Surjection
  <2> QED
    BY <2>1, <2>2, <2>3, FS_Surjection, Zenon
<1> HIDE DEF info, calls, dates, T
<1>5. ds \in Seq(AllSeries) /\ Unique(ds) /\ \A i \in DOMAIN ds : ds[i].desc \in Dates
  <2>1. ds \in Seq(T) /\ \A i, j \in DOMAIN ds : ds[i] = ds[j] => i = j
    BY <1>4, Enumerates, Zenon
  <2> HIDE DEF ds
  <2>2. ds \in Seq(AllSeries) /\ \A i \in DOMAIN ds : ds[i] \in T
    BY <1>4, <2>1
  <2> QED
    BY <1>4, <2>1, <2>2, Zenon DEF Unique
<1> HIDE DEF ds, i1
<1>6. /\ <<i1>> \in Seq(AllSeries) /\ Unique(<<i1>>) /\ DOMAIN <<i1>> = {1} /\ <<i1>>[1] = i1
  BY <1>3, OneOrNone, Zenon
<1>7. /\ When(counted, calls) \in Seq(AllSeries) /\ Unique(When(counted, calls))
      /\ \A i \in DOMAIN When(counted, calls) : When(counted, calls)[i] = calls
  <2>1. When(counted, calls) = <<>> \/ When(counted, calls) = <<calls>>
    BY Zenon DEF When
  <2>2. <<>> \in Seq(AllSeries) /\ Unique(<<>>) /\ DOMAIN <<>> = {}
    BY <1>2, NothingSent, Zenon
  <2>3. /\ <<calls>> \in Seq(AllSeries) /\ Unique(<<calls>>)
        /\ DOMAIN <<calls>> = {1} /\ <<calls>>[1] = calls
    BY <1>3, OneOrNone, Zenon
  <2> QED
    BY <2>1, <2>2, <2>3
<1>8. /\ ic \in Seq(AllSeries) /\ Unique(ic)
      /\ \A i \in DOMAIN ic : ic[i].desc \in {"info", "current_calls"}
  <2>1. Apart(<<i1>>, When(counted, calls))
    BY <1>3, <1>6, <1>7 DEF Apart, Same
  <2>2. ic \in Seq(AllSeries) /\ Unique(ic)
    BY <1>6, <1>7, <2>1, UniqueTogether, Concatenated, Zenon
  <2>3. \A i \in DOMAIN ic : ic[i] = i1 \/ ic[i] = calls
    BY <1>6, <1>7, Concatenated
  <2> QED
    BY <1>3, <2>2, <2>3
<1>9. ic \o ds \in Seq(AllSeries) /\ Unique(ic \o ds)
  <2> HIDE DEF ic
  <2>1. Apart(ic, ds)
    BY <1>5, <1>8 DEF Apart, Same
  <2> QED
    BY <1>5, <1>8, <2>1, UniqueTogether, Concatenated, Zenon
<1>10. Send(ic \o ds, "done")
  BY <1>1, Zenon DEF ds, T, i1
<1> HIDE DEF ic
<1>11. \A i \in DOMAIN (ic \o ds) : (ic \o ds)[i].desc \notin RowDescs \cup {"peers", "endpoints"}
  <2>1. \A i \in DOMAIN (ic \o ds) : \/ (ic \o ds)[i].desc \in {"info", "current_calls"}
                                     \/ (ic \o ds)[i].desc \in Dates
    BY <1>5, <1>8, Concatenated
  <2> QED
    BY <2>1 DEF RowDescs
<1> QED
  BY <1>2, <1>9, <1>10, <1>11, OtherEnd

-----------------------------------------------------------------------------
(* The theorems *)

\* Before the first row there is nothing to compare.
LEMMA MetricsInit ==
    ASSUME Init
    PROVE  MetricsInv
<1>1. /\ phase \in Phases /\ status = "running" /\ taken = <<>> /\ groups = NoGroups
      /\ linkedids = {} /\ sent = <<>>
  BY DEF Init
<1>2. DOMAIN taken = {} /\ DOMAIN sent = {} /\ DOMAIN groups = {}
  BY <1>1 DEF NoGroups
<1>3. TypeOK
  <2>1. groups \in [DOMAIN groups -> Nat \ {0}]
    BY <1>1, <1>2 DEF NoGroups
  <2> QED
    BY <1>1, <1>2, <2>1 DEF TypeOK
<1>4. RowsMatch /\ SentByRows /\ SeriesUnique
  BY <1>2, Zenon DEF RowsMatch, SentByRows, SeriesUnique
<1>5. GroupsCount
  <2>1. \A L : DOMAIN L = {} => Counting(groups, L)
    BY <1>2, FS_EmptySet, Zenon DEF Counting
  <2>2. /\ DOMAIN ChannelLabels = {} /\ DOMAIN PeerLabels = {} /\ DOMAIN EndpointLabels = {}
        /\ DOMAIN MemberLabels = {}
    BY <1>2 DEF ChannelLabels, PeerLabels, EndpointLabels, MemberLabels, Members, Sent
  <2> QED
    BY <2>1, <2>2, Zenon DEF GroupsCount, Counting
<1>6. CallsSeen
  BY <1>1, <1>2 DEF CallsSeen
<1>7. GroupsAgree /\ CallsCountedOnce
  BY <1>1 DEF GroupsAgree, CallsCountedOnce
<1> QED
  BY <1>3, <1>4, <1>5, <1>6, <1>7, Zenon DEF MetricsInv

\* The invariant is about nothing else than the phase's variables.
LEMMA MetricsStutter ==
    ASSUME MetricsInv, UNCHANGED vars
    PROVE  MetricsInv'
<1>1. /\ phase' = phase /\ taken' = taken /\ groups' = groups /\ linkedids' = linkedids
      /\ sent' = sent /\ status' = status
  BY DEF vars
<1>2. TypeOK' /\ RowsMatch' /\ SentByRows'
  <2>1. \A r : (RowOf(r)' <=> RowOf(r)) /\ (Object(r)' <=> Object(r))
    BY <1>1 DEF RowOf, Object
  <2>2. \A x, y : SentBy(x, y)' <=> SentBy(x, y)
    BY <1>1, SMT DEF SentBy
  <2>3. TypeOK'
    BY <1>1 DEF MetricsInv, TypeOK
  <2> QED
    BY <1>1, <2>1, <2>2, <2>3, Zenon DEF MetricsInv, RowsMatch, SentByRows
<1>3. /\ ChannelLabels' = ChannelLabels /\ PeerLabels' = PeerLabels
      /\ EndpointLabels' = EndpointLabels /\ MemberLabels' = MemberLabels
      /\ Linked' = Linked /\ Loose' = Loose
  BY <1>1, Zenon DEF ChannelLabels, PeerLabels, EndpointLabels, MemberLabels, Members, Linked, Loose, Sent
<1>4. GroupsCount' /\ CallsSeen'
  BY <1>1, <1>3, Zenon DEF MetricsInv, GroupsCount, CallsSeen
<1>5. SeriesUnique'
  <2>1. \A r : Object(r)' <=> Object(r)
    BY <1>1 DEF Object
  <2>2. ListedOnce' => ListedOnce
    BY <1>1, <2>1, Zenon DEF ListedOnce
  <2> QED
    BY <1>1, <2>2, Zenon DEF MetricsInv, SeriesUnique
<1>6. GroupsAgree' /\ CallsCountedOnce'
  <2>1. \A d : Sent(d)' = Sent(d)
    BY <1>1, Zenon DEF Sent
  <2>2. /\ Counts("peers", PeerLabels)' <=> Counts("peers", PeerLabels)
        /\ Counts("endpoints", EndpointLabels)' <=> Counts("endpoints", EndpointLabels)
        /\ Counts("channels_by_state", ChannelLabels)' <=> Counts("channels_by_state", ChannelLabels)
        /\ Counts("members", MemberLabels)' <=> Counts("members", MemberLabels)
    BY <1>1, <1>3 DEF Counts, Sent
  <2>3. GroupsAgree'
    BY <1>1, <1>3, <2>1, <2>2, Zenon DEF MetricsInv, GroupsAgree
  <2>4. CallsCountedOnce'
    BY <1>1, <1>3, <2>1, Zenon DEF MetricsInv, CallsCountedOnce
  <2> QED
    BY <2>3, <2>4
<1> QED
  BY <1>2, <1>4, <1>5, <1>6, Zenon DEF MetricsInv

\* Every step of a phase keeps the invariant.
LEMMA MetricsNext ==
    ASSUME MetricsInv, [Next]_vars
    PROVE  MetricsInv'
<1>1. CASE CoreMetrics
  BY <1>1, CoreStep
<1>2. CASE \E r \in ChannelRows : ChannelRow(r)
  BY <1>2, ChannelRowStep
<1>3. CASE \E r \in PeerRows : PeerRow(r)
  BY <1>3, PeerRowStep
<1>4. CASE \E r \in EndpointRows : EndpointRow(r)
  BY <1>4, EndpointRowStep
<1>5. CASE \E r \in QueueRows : QueueRow(r)
  BY <1>5, QueueRowStep
<1>6. CASE ChannelsEnd
  BY <1>6, ChannelsEndStep
<1>7. CASE PeersEnd
  BY <1>7, PeersEndStep
<1>8. CASE EndpointsEnd
  BY <1>8, EndpointsEndStep
<1>9. CASE QueuesEnd
  BY <1>9, QueuesEndStep
<1>10. CASE Terminated
  BY <1>10, MetricsStutter DEF Terminated
<1>11. CASE UNCHANGED vars
  BY <1>11, MetricsStutter
<1> QED
  BY <1>1, <1>2, <1>3, <1>4, <1>5, <1>6, <1>7, <1>8, <1>9, <1>10, <1>11 DEF Next

\* The invariant holds of every phase, whatever its rows.
LEMMA MetricsInvariant == Spec => []MetricsInv
<1>1. Init => MetricsInv
  BY MetricsInit
<1>2. MetricsInv /\ [Next]_vars => MetricsInv'
  BY MetricsNext
<1> QED
  BY <1>1, <1>2, PTL DEF Spec

\* However long the lists of Asterisk, as long as none names an object twice, no
\* two series of a phase have the same name and labels.
THEOREM MetricsUnique == Spec => []SeriesUnique
<1>1. MetricsInv => SeriesUnique
  BY DEF MetricsInv
<1> QED
  BY <1>1, MetricsInvariant, PTL

\* The grouped series of channels, peers, endpoints and queue members count every
\* row once, under the labels of the row's own series.
THEOREM MetricsAgree == Spec => []GroupsAgree
<1>1. MetricsInv => GroupsAgree
  BY DEF MetricsInv
<1> QED
  BY <1>1, MetricsInvariant, PTL

\* calls_active is the number of calls among the channels: their Linkedids, and the
\* Uniqueids of those without one.
THEOREM MetricsCalls == Spec => []CallsCountedOnce
<1>1. MetricsInv => CallsCountedOnce
  BY DEF MetricsInv
<1> QED
  BY <1>1, MetricsInvariant, PTL

=============================================================================
