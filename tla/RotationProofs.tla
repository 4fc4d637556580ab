--------------------------- MODULE RotationProofs ---------------------------
(***************************************************************************)
(* Proofs about Rotation for any number of segments, all sizes, targets    *)
(* and faults: what a pass may remove, and for which bytes.                *)
(***************************************************************************)
EXTENDS Rotation, FiniteSetTheorems, TLAPS

Kinds == {"temporary", "orphan", "segment"}
CandidateRecords == [kind : Kinds, id : 1..MaxSegment + 1]
InPass == {"remove", "pair"}

\* The candidates that are left agree with the tree: no index of a segment in
\* place; segments from the oldest, none of them passed over, and never the newest.
InOrder(q, tree, end) ==
    /\ q \in Seq(CandidateRecords)
    /\ \A i \in DOMAIN q : q[i].kind = "orphan" => q[i].id \notin tree
    /\ \A i \in DOMAIN q : q[i].kind = "segment" => q[i].id \in tree /\ q[i].id < end - 1
    /\ \A i, j \in DOMAIN q :
          q[i].kind = "segment" /\ q[j].kind = "segment" /\ i < j => q[i].id < q[j].id
    /\ \A i \in DOMAIN q, s \in tree :
          q[i].kind = "segment" /\ s < q[i].id =>
              \E j \in 1..i - 1 : q[j].kind = "segment" /\ q[j].id = s

\* What is left of the pass, whose segment has gone when its index is next.
PassInOrder ==
    /\ pc = "remove" => InOrder(todo, zms, next)
    /\ pc = "pair" => /\ todo \in Seq(CandidateRecords) /\ todo # <<>>
                      /\ Head(todo).id < next - 1 /\ Head(todo).id \in Segments
                      /\ \A s \in zms : s > Head(todo).id
                      /\ Head(todo).id + 1..next - 1 \subseteq zms
                      /\ InOrder(Tail(todo), zms, next)

\* The web process builds the index of a segment that has none.
WebBuildsMissing == web.pc # "idle" => web.id \in Segments \ idx

TreeInv ==
    /\ TypeOK
    /\ NewestHistoryKept /\ zms \subseteq 1..next - 1
    /\ PassInOrder /\ WebBuildsMissing

\* The counted files and the journal, and the index that the pair being removed
\* still has, which is not counted any more.
PairIndex == IF pc = "pair" /\ Head(todo).id \in idx THEN IdxSize ELSE 0
Counted == Countable + journal + PairIndex

\* What readers hold was unlinked and is not paid off, and so is what the use of
\* the partition can drop by.
ReclaimKnown ==
    mode = "auto" /\ ~misread =>
        /\ held <= pending + freed
        /\ last # NoUse => last <= Live + pending + freed

\* A pass never counts more than is stored: the counted files and the journal,
\* or what is left once readers close removed files.
PassCounts ==
    pc \in InPass /\ ~shrunk =>
        IF mode = "fixed" THEN current <= Counted + freed
        ELSE misread \/ current <= Live + freed

Accounted ==
    /\ freed = IF pc = "pair" THEN ZmsSize ELSE 0
    /\ pc = "down" => last = NoUse
    /\ ReclaimKnown /\ PassCounts

-----------------------------------------------------------------------------
(* Sequences of candidates. *)

\* What a rank is: the number of members up to a member.
LEMMA RankLemma ==
    ASSUME NEW S \in SUBSET Int, IsFiniteSet(S)
    PROVE  /\ Cardinality(S) \in Nat
           /\ \A s \in S : Cardinality({r \in S : r <= s}) \in 1..Cardinality(S)
           /\ \A s, t \in S : s < t => Cardinality({r \in S : r <= s}) < Cardinality({r \in S : r <= t})
           /\ \A i \in 1..Cardinality(S) : \E s \in S : Cardinality({r \in S : r <= s}) = i
<1> DEFINE upto(s) == {r \in S : r <= s}
           rank == [s \in S |-> Cardinality(upto(s))]
           n == Cardinality(S)
<1>1. n \in Nat
  BY FS_CardinalityType
<1>2. ASSUME NEW s \in S PROVE IsFiniteSet(upto(s)) /\ rank[s] \in 1..n
  <2>1. IsFiniteSet(upto(s)) /\ Cardinality(upto(s)) <= n
    <3>1. upto(s) \in SUBSET S
      OBVIOUS
    <3> QED
      BY <3>1, FS_Subset
  <2>2. Cardinality(upto(s)) \in Nat
    BY <2>1, FS_CardinalityType
  <2>3. s \in upto(s)
    OBVIOUS
  <2>4. Cardinality(upto(s)) # 0
    BY <2>1, <2>3, FS_EmptySet
  <2> QED
    BY <1>1, <2>1, <2>2, <2>4
<1>3. ASSUME NEW s \in S, NEW t \in S, s < t PROVE rank[s] < rank[t]
  <2>0. s \in Int /\ t \in Int /\ \A r \in S : r \in Int
    OBVIOUS
  <2>1. upto(s) \subseteq upto(t) /\ t \in upto(t) /\ t \notin upto(s)
    <3>1. \A r \in S : r <= s => r <= t
      BY <1>3, <2>0
    <3>2. t <= t /\ ~(t <= s)
      BY <1>3, <2>0
    <3> QED
      BY <3>1, <3>2
  <2>2. IsFiniteSet(upto(t)) /\ rank[s] \in Int /\ rank[t] \in Int
    BY <1>1, <1>2
  <2>3. Cardinality(upto(s)) <= Cardinality(upto(t)) /\ Cardinality(upto(s)) # Cardinality(upto(t))
    BY <2>1, <2>2, FS_Subset
  <2>4. rank[s] = Cardinality(upto(s)) /\ rank[t] = Cardinality(upto(t))
    OBVIOUS
  <2> HIDE DEF upto, rank
  <2> QED
    BY <2>2, <2>3, <2>4
<1>4. rank \in Injection(S, 1..n)
  <2>1. rank \in [S -> 1..n]
    BY <1>2
  <2>2. ASSUME NEW s \in S, NEW t \in S, rank[s] = rank[t] PROVE s = t
    <3> HIDE DEF rank, n
    <3>1. rank[s] \in 1..n /\ rank[t] \in 1..n /\ s \in Int /\ t \in Int
      BY <1>2
    <3>2. ~(s < t) /\ ~(t < s)
      BY <1>1, <1>3, <2>2, <3>1
    <3> QED
      BY <3>1, <3>2
  <2> HIDE DEF rank, n
  <2> QED
    BY <2>1, <2>2 DEF Injection, IsInjective
<1>5. rank \in Surjection(S, 1..n)
  <2>1. IsFiniteSet(1..n) /\ Cardinality(1..n) = n
    BY <1>1, FS_Interval
  <2> HIDE DEF rank
  <2> QED
    BY <1>4, <2>1, FS_Injection
<1>6. \A i \in 1..n : \E s \in S : rank[s] = i
  BY <1>5 DEF Surjection
<1> QED
  BY <1>1, <1>2, <1>3, <1>6

\* Ascending lists a set of segments without leaving one out (Ascending).
LEMMA AscendingLemma ==
    ASSUME NEW S \in SUBSET Int, IsFiniteSet(S)
    PROVE  /\ Cardinality(S) \in Nat
           /\ Ascending(S) \in [1..Cardinality(S) -> S]
           /\ \A i, j \in 1..Cardinality(S) : i < j => Ascending(S)[i] < Ascending(S)[j]
           /\ \A s \in S : \E i \in 1..Cardinality(S) : Ascending(S)[i] = s
<1> DEFINE rank(s) == Cardinality({r \in S : r <= s})
           n == Cardinality(S)
           f == Ascending(S)
<1>1. /\ n \in Nat
      /\ \A s \in S : rank(s) \in 1..n
      /\ \A s, t \in S : s < t => rank(s) < rank(t)
      /\ \A i \in 1..n : \E s \in S : rank(s) = i
  BY RankLemma
<1>2. f = [i \in 1..n |-> CHOOSE s \in S : rank(s) = i]
  BY DEF Ascending
<1> HIDE DEF rank
<1>3. ASSUME NEW i \in 1..n PROVE f[i] \in S /\ rank(f[i]) = i
  BY <1>1, <1>2
<1>4. ASSUME NEW s \in S, NEW t \in S, rank(s) = rank(t) PROVE s = t
  <2>1. s \in Int /\ t \in Int /\ rank(s) \in Int /\ rank(t) \in Int
    BY <1>1
  <2>2. ~(s < t) /\ ~(t < s)
    BY <1>1, <1>4, <2>1
  <2> QED
    BY <2>1, <2>2
<1>5. ASSUME NEW i \in 1..n, NEW j \in 1..n, i < j PROVE f[i] < f[j]
  <2>1. f[i] \in S /\ f[j] \in S /\ rank(f[i]) = i /\ rank(f[j]) = j
    BY <1>3
  <2> DEFINE a == f[i]
             b == f[j]
  <2> HIDE DEF f, a, b
  <2>2. a \in S /\ b \in S /\ rank(a) = i /\ rank(b) = j
    BY <2>1 DEF a, b
  <2>3. a \in Int /\ b \in Int /\ i \in Int /\ j \in Int
    BY <1>1, <2>2
  <2>4. b < a => j < i
    BY <1>1, <2>2
  <2> QED
    BY <1>5, <2>2, <2>3, <2>4 DEF a, b
<1>6. ASSUME NEW s \in S PROVE \E i \in 1..n : f[i] = s
  <2>1. rank(s) \in 1..n
    BY <1>1
  <2>2. f[rank(s)] \in S /\ rank(f[rank(s)]) = rank(s)
    BY <2>1, <1>3
  <2> QED
    BY <2>1, <2>2, <1>4
<1>7. f \in [1..n -> S]
  BY <1>2, <1>3
<1> QED
  BY <1>1, <1>5, <1>6, <1>7

\* The candidates of a kind (Candidates).
LEMMA CandidatesLemma ==
    ASSUME NEW kind \in Kinds, NEW S \in SUBSET Segments
    PROVE  /\ Cardinality(S) \in Nat
           /\ Candidates(kind, S) \in Seq(CandidateRecords)
           /\ Len(Candidates(kind, S)) = Cardinality(S)
           /\ \A i \in 1..Cardinality(S) : /\ Candidates(kind, S)[i].kind = kind
                                           /\ Candidates(kind, S)[i].id \in S
           /\ \A i, j \in 1..Cardinality(S) :
                 i < j => Candidates(kind, S)[i].id < Candidates(kind, S)[j].id
           /\ \A s \in S : \E i \in 1..Cardinality(S) : Candidates(kind, S)[i].id = s
<1>1. MaxSegment \in Nat /\ S \in SUBSET Int /\ S \subseteq 1..MaxSegment + 1
  BY SizesAssumption DEF Segments
<1>2. IsFiniteSet(S)
  BY <1>1, FS_Interval, FS_Subset, IsFiniteSet(1..MaxSegment + 1)
<1> DEFINE n == Cardinality(S)
           f == Ascending(S)
           c == Candidates(kind, S)
<1>3. /\ n \in Nat /\ f \in [1..n -> S]
      /\ \A i, j \in 1..n : i < j => f[i] < f[j]
      /\ \A s \in S : \E i \in 1..n : f[i] = s
  BY <1>1, <1>2, AscendingLemma
<1>4. c = [i \in 1..n |-> [kind |-> kind, id |-> f[i]]]
  BY DEF Candidates
<1> HIDE DEF n, f, c
<1>5. \A i \in 1..n : c[i] \in CandidateRecords /\ c[i].kind = kind /\ c[i].id = f[i]
  BY <1>1, <1>3, <1>4 DEF CandidateRecords
<1>6. c \in Seq(CandidateRecords) /\ Len(c) = n
  BY <1>3, <1>4, <1>5
<1> QED
  BY <1>3, <1>5, <1>6 DEF n, f, c

\* One list behind another.
LEMMA ConcatLemma ==
    ASSUME NEW T, NEW p \in Seq(T), NEW q \in Seq(T)
    PROVE  /\ p \o q \in Seq(T) /\ Len(p \o q) = Len(p) + Len(q)
           /\ Len(p) \in Nat /\ Len(q) \in Nat
           /\ \A i \in 1..Len(p) : (p \o q)[i] = p[i]
           /\ \A i \in 1..Len(q) : (p \o q)[Len(p) + i] = q[i]
  OBVIOUS

\* A scan lists its candidates in order (deletion_candidates).
LEMMA ScanLemma ==
    ASSUME zms \subseteq Segments, idx \subseteq Segments, next \in 1..MaxSegment + 1,
           zms \subseteq 1..next - 1
    PROVE  InOrder(DeletionCandidates, zms, next)
<1> DEFINE A == IF temp THEN <<[kind |-> "temporary", id |-> next]>> ELSE <<>>
           O == idx \ zms
           S == ButNewest(zms)
           B == Candidates("orphan", O)
           C == Candidates("segment", S)
           b == Cardinality(O)
           c == Cardinality(S)
           D == A \o B \o C
<1>1. O \in SUBSET Segments /\ S \in SUBSET Segments
  BY DEF ButNewest
<1>2. /\ b \in Nat /\ B \in Seq(CandidateRecords) /\ Len(B) = b
      /\ \A i \in 1..b : B[i].kind = "orphan" /\ B[i].id \in O
  <2> "orphan" \in Kinds
    BY DEF Kinds
  <2> HIDE DEF O
  <2> QED
    BY <1>1, CandidatesLemma
<1>3. /\ c \in Nat /\ C \in Seq(CandidateRecords) /\ Len(C) = c
      /\ \A i \in 1..c : C[i].kind = "segment" /\ C[i].id \in S
      /\ \A i, j \in 1..c : i < j => C[i].id < C[j].id
      /\ \A s \in S : \E i \in 1..c : C[i].id = s
  <2> "segment" \in Kinds
    BY DEF Kinds
  <2> HIDE DEF S
  <2> QED
    BY <1>1, CandidatesLemma
<1>4. A \in Seq(CandidateRecords) /\ Len(A) \in Nat /\ \A i \in 1..Len(A) : A[i].kind = "temporary"
  <2>1. [kind |-> "temporary", id |-> next] \in CandidateRecords
    BY DEF CandidateRecords, Kinds
  <2>2. CASE temp
    <3>1. A = <<[kind |-> "temporary", id |-> next]>>
      BY <2>2
    <3> QED
      BY <2>1, <3>1
  <2>3. CASE ~temp
    <3>1. A = <<>>
      BY <2>3
    <3> QED
      BY <3>1
  <2> QED
    BY <2>2, <2>3
<1> DEFINE m == Len(A) + b
<1> HIDE DEF A, B, C, b, c
<1>5. /\ D \in Seq(CandidateRecords) /\ Len(D) = m + c /\ Len(A \o B) = m
      /\ \A k \in 1..m : D[k] = (A \o B)[k]
      /\ \A k \in 1..c : D[m + k] = C[k]
  <2> DEFINE AB == A \o B
  <2>1. AB \in Seq(CandidateRecords) /\ Len(AB) = m
    <3>1. AB \in Seq(CandidateRecords) /\ Len(AB) = Len(A) + Len(B)
      <4>1. A \in Seq(CandidateRecords) /\ B \in Seq(CandidateRecords)
        BY <1>2, <1>4
      <4> QED
        BY <4>1, ConcatLemma
    <3>2. Len(B) = b
      BY <1>2
    <3> QED
      BY <3>1, <3>2
  <2>2. D = AB \o C
    OBVIOUS
  <2> HIDE DEF AB, D, m
  <2>3. /\ D \in Seq(CandidateRecords) /\ Len(D) = m + c
        /\ \A k \in 1..m : D[k] = AB[k]
        /\ \A k \in 1..c : D[m + k] = C[k]
    <3>1. C \in Seq(CandidateRecords) /\ Len(C) = c
      BY <1>3
    <3>2. /\ AB \o C \in Seq(CandidateRecords) /\ Len(AB \o C) = Len(AB) + Len(C)
          /\ \A k \in 1..Len(AB) : (AB \o C)[k] = AB[k]
          /\ \A k \in 1..Len(C) : (AB \o C)[Len(AB) + k] = C[k]
      <4> HIDE DEF C
      <4>1. AB \in Seq(CandidateRecords) /\ C \in Seq(CandidateRecords)
        BY <2>1, <3>1
      <4> QED
        BY <4>1
    <3> QED
      BY <2>1, <2>2, <3>1, <3>2
  <2> QED
    BY <2>1, <2>3 DEF AB
<1>6. \A i \in 1..m : D[i].kind # "segment" /\ (D[i].kind = "orphan" => D[i].id \in O)
  <2> SUFFICES ASSUME NEW i \in 1..m
               PROVE  D[i].kind # "segment" /\ (D[i].kind = "orphan" => D[i].id \in O)
    OBVIOUS
  <2>0. D[i] = (A \o B)[i]
    BY <1>5
  <2>1. CASE i <= Len(A)
    <3>1. D[i] = A[i] /\ i \in 1..Len(A)
      BY <2>0, <2>1, <1>2, <1>4, ConcatLemma
    <3> QED
      BY <3>1, <1>4
  <2>2. CASE i > Len(A)
    <3>1. i - Len(A) \in 1..b /\ Len(A) + (i - Len(A)) = i
      BY <2>2, <1>2, <1>4
    <3>2. D[i] = B[i - Len(A)]
      BY <2>0, <3>1, <1>2, <1>4, ConcatLemma
    <3> QED
      BY <3>1, <3>2, <1>2
  <2> QED
    BY <2>1, <2>2, <1>2, <1>4
<1>7. \A i \in 1..Len(D) : i > m => D[i] = C[i - m] /\ i - m \in 1..c
  <2> SUFFICES ASSUME NEW i \in 1..Len(D), i > m PROVE D[i] = C[i - m] /\ i - m \in 1..c
    OBVIOUS
  <2>1. i - m \in 1..c /\ m + (i - m) = i
    BY <1>2, <1>3, <1>4, <1>5
  <2> QED
    BY <2>1, <1>5
<1>8. \A k \in 1..c : m + k \in 1..Len(D) /\ D[m + k] = C[k]
  <2>1. m \in Nat /\ c \in Nat /\ Len(D) = m + c
    BY <1>2, <1>3, <1>4, <1>5
  <2>2. \A k \in 1..c : D[m + k] = C[k]
    BY <1>5
  <2> HIDE DEF D, m
  <2>3. \A k \in 1..c : m + k \in 1..Len(D)
    BY <2>1
  <2> QED
    BY <2>2, <2>3
<1>9. /\ m \in Nat /\ Len(D) \in Nat /\ Len(D) = m + c /\ DOMAIN D = 1..Len(D)
      /\ next \in Int /\ \A s \in zms : s \in Int /\ s <= next - 1
  BY <1>2, <1>3, <1>4, <1>5, SizesAssumption
<1>10. \A s \in S : s \in zms /\ s < next - 1
  BY <1>9 DEF ButNewest
<1> HIDE DEF D, m
<1>11. \A i \in DOMAIN D : D[i].kind = "orphan" => D[i].id \notin zms
  <2> SUFFICES ASSUME NEW i \in DOMAIN D, D[i].kind = "orphan" PROVE D[i].id \notin zms
    OBVIOUS
  <2>1. CASE i <= m
    BY <2>1, <1>6, <1>9
  <2>2. CASE i > m
    BY <2>2, <1>3, <1>7, <1>9
  <2> QED
    BY <2>1, <2>2, <1>9
<1>12. \A i \in DOMAIN D : D[i].kind = "segment" => i > m
  BY <1>6, <1>9
<1>13. \A i \in DOMAIN D : D[i].kind = "segment" => D[i].id \in zms /\ D[i].id < next - 1
  BY <1>3, <1>7, <1>9, <1>10, <1>12
<1>14. \A i, j \in DOMAIN D :
          D[i].kind = "segment" /\ D[j].kind = "segment" /\ i < j => D[i].id < D[j].id
  <2> SUFFICES ASSUME NEW i \in DOMAIN D, NEW j \in DOMAIN D, i < j, i > m, j > m
               PROVE  D[i].id < D[j].id
    BY <1>12
  <2>1. D[i] = C[i - m] /\ D[j] = C[j - m] /\ i - m \in 1..c /\ j - m \in 1..c
    BY <1>7, <1>9
  <2>2. i - m < j - m
    BY <1>9
  <2> QED
    BY <2>1, <2>2, <1>3
<1>15. \A i \in DOMAIN D, s \in zms :
          D[i].kind = "segment" /\ s < D[i].id =>
              \E j \in 1..i - 1 : D[j].kind = "segment" /\ D[j].id = s
  <2> SUFFICES ASSUME NEW i \in DOMAIN D, NEW s \in zms, i > m, s < D[i].id
               PROVE  \E j \in 1..i - 1 : D[j].kind = "segment" /\ D[j].id = s
    BY <1>12
  <2>1. D[i] = C[i - m] /\ i - m \in 1..c
    BY <1>7, <1>9
  <2>2. D[i].id \in zms
    BY <2>1, <1>3, <1>10
  <2>3. s \in S
    BY <2>2, <1>9 DEF ButNewest
  <2>4. PICK k \in 1..c : C[k].id = s
    BY <2>3, <1>3
  <2>5. C[i - m].id \in Int /\ C[k].id \in Int
    BY <2>1, <2>2, <2>4, <1>9
  <2>6. k < i - m
    <3>1. ~(i - m < k) /\ i - m # k
      BY <2>1, <2>4, <2>5, <1>3
    <3> QED
      BY <3>1, <2>1, <1>3
  <2>7. m + k \in 1..i - 1 /\ D[m + k] = C[k]
    BY <2>6, <1>8, <1>9
  <2> QED
    BY <2>4, <2>7, <1>3
<1>16. InOrder(D, zms, next)
  BY <1>5, <1>11, <1>13, <1>14, <1>15 DEF InOrder
<1> QED
  BY <1>16 DEF D, A, B, C, DeletionCandidates

\* What is left behind a candidate that is no segment is still in order.
LEMMA TailInOrder ==
    ASSUME NEW q, NEW tree, NEW end, InOrder(q, tree, end), q # <<>>, Head(q).kind # "segment"
    PROVE  InOrder(Tail(q), tree, end)
<1> DEFINE r == Tail(q)
<1>1. /\ q \in Seq(CandidateRecords) /\ r \in Seq(CandidateRecords)
      /\ DOMAIN r = 1..Len(r) /\ DOMAIN q = 1..Len(q) /\ Len(r) = Len(q) - 1 /\ Len(q) \in Nat \ {0}
      /\ \A i \in 1..Len(r) : r[i] = q[i + 1] /\ i + 1 \in 1..Len(q)
      /\ q[1].kind # "segment"
  BY DEF InOrder
<1>2. \A i \in DOMAIN q, s \in tree :
          q[i].kind = "segment" /\ s < q[i].id =>
              \E j \in 1..i - 1 : q[j].kind = "segment" /\ q[j].id = s
  BY DEF InOrder
<1> HIDE DEF r
<1>3. ASSUME NEW i \in DOMAIN r, NEW s \in tree, r[i].kind = "segment", s < r[i].id
      PROVE  \E j \in 1..i - 1 : r[j].kind = "segment" /\ r[j].id = s
  <2>1. PICK j \in 1..i + 1 - 1 : q[j].kind = "segment" /\ q[j].id = s
    BY <1>1, <1>2, <1>3
  <2>2. j # 1 /\ j - 1 \in 1..i - 1 /\ j - 1 \in 1..Len(r)
    BY <1>1, <2>1
  <2>3. r[j - 1] = q[j]
    BY <1>1, <2>1, <2>2
  <2> QED
    BY <2>1, <2>2, <2>3
<1>4. /\ \A i \in DOMAIN q : q[i].kind = "orphan" => q[i].id \notin tree
      /\ \A i \in DOMAIN q : q[i].kind = "segment" => q[i].id \in tree /\ q[i].id < end - 1
      /\ \A i, j \in DOMAIN q :
            q[i].kind = "segment" /\ q[j].kind = "segment" /\ i < j => q[i].id < q[j].id
  BY DEF InOrder
<1>5. \A i \in DOMAIN r : /\ r[i].kind = "orphan" => r[i].id \notin tree
                          /\ r[i].kind = "segment" => r[i].id \in tree /\ r[i].id < end - 1
  BY <1>1, <1>4
<1>6. ASSUME NEW i \in DOMAIN r, NEW j \in DOMAIN r, r[i].kind = "segment", r[j].kind = "segment", i < j
      PROVE  r[i].id < r[j].id
  <2>1. i + 1 \in DOMAIN q /\ j + 1 \in DOMAIN q /\ i + 1 < j + 1
    BY <1>1, <1>6
  <2> QED
    BY <1>1, <1>4, <1>6, <2>1
<1> QED
  BY <1>1, <1>3, <1>5, <1>6 DEF InOrder, r

\* So is what is left behind the oldest segment, once that has gone.
LEMMA TailInOrderWithout ==
    ASSUME NEW q, NEW tree \in SUBSET Int, NEW end, InOrder(q, tree, end), q # <<>>,
           Head(q).kind = "segment"
    PROVE  /\ InOrder(Tail(q), tree \ {Head(q).id}, end)
           /\ \A s \in tree : s >= Head(q).id
           /\ Head(q).id \in tree /\ Head(q).id < end - 1
<1> DEFINE r == Tail(q)
           h == Head(q).id
           rest == tree \ {h}
<1>1. /\ q \in Seq(CandidateRecords) /\ r \in Seq(CandidateRecords)
      /\ DOMAIN r = 1..Len(r) /\ DOMAIN q = 1..Len(q) /\ Len(r) = Len(q) - 1 /\ Len(q) \in Nat \ {0}
      /\ \A i \in 1..Len(r) : r[i] = q[i + 1] /\ i + 1 \in 1..Len(q)
      /\ q[1].kind = "segment" /\ q[1].id = h /\ 1 \in DOMAIN q
  BY DEF InOrder
<1>2. \A i \in DOMAIN q, s \in tree :
          q[i].kind = "segment" /\ s < q[i].id =>
              \E j \in 1..i - 1 : q[j].kind = "segment" /\ q[j].id = s
  BY DEF InOrder
<1>3. h \in tree /\ h < end - 1 /\ \A s \in tree : s >= h
  <2>1. h \in tree /\ h < end - 1
    BY <1>1 DEF InOrder
  <2>2. ASSUME NEW s \in tree, s < h PROVE FALSE
    <3>1. \E j \in 1..1 - 1 : q[j].id = s
      BY <1>1, <1>2, <2>2
    <3> QED
      BY <3>1
  <2>3. h \in Int /\ \A s \in tree : s \in Int
    BY <2>1
  <2> HIDE DEF h
  <2> QED
    BY <2>1, <2>2, <2>3
<1> HIDE DEF r, h
<1>4. ASSUME NEW i \in DOMAIN r, NEW s \in rest, r[i].kind = "segment", s < r[i].id
      PROVE  \E j \in 1..i - 1 : r[j].kind = "segment" /\ r[j].id = s
  <2>0. s \in tree /\ s # h
    OBVIOUS
  <2>5. PICK k \in DOMAIN q : k = i + 1 /\ r[i] = q[k]
    BY <1>1
  <2>6. q[k].kind = "segment" /\ s < q[k].id
    BY <1>4, <2>5
  <2>1. PICK j \in 1..k - 1 : q[j].kind = "segment" /\ q[j].id = s
    BY <1>2, <2>0, <2>6
  <2>2. j # 1 /\ j - 1 \in 1..i - 1 /\ j - 1 \in 1..Len(r)
    BY <1>1, <2>0, <2>1, <2>5
  <2>3. r[j - 1] = q[j]
    BY <1>1, <2>1, <2>2
  <2> QED
    BY <2>1, <2>2, <2>3
<1>5. ASSUME NEW i \in DOMAIN r, r[i].kind = "segment"
      PROVE  r[i].id \in rest /\ r[i].id < end - 1
  <2>1. r[i] = q[i + 1] /\ i + 1 \in DOMAIN q /\ 1 < i + 1
    BY <1>1
  <2>2. r[i].id \in tree /\ r[i].id < end - 1 /\ h < r[i].id
    BY <1>1, <1>5, <2>1 DEF InOrder
  <2> QED
    BY <1>3, <2>2
<1>6. /\ \A i \in DOMAIN q : q[i].kind = "orphan" => q[i].id \notin tree
      /\ \A i, j \in DOMAIN q :
            q[i].kind = "segment" /\ q[j].kind = "segment" /\ i < j => q[i].id < q[j].id
  BY DEF InOrder
<1>7. \A i \in DOMAIN r : r[i].kind = "orphan" => r[i].id \notin rest
  BY <1>1, <1>6
<1>8. ASSUME NEW i \in DOMAIN r, NEW j \in DOMAIN r, r[i].kind = "segment", r[j].kind = "segment", i < j
      PROVE  r[i].id < r[j].id
  <2>1. i + 1 \in DOMAIN q /\ j + 1 \in DOMAIN q /\ i + 1 < j + 1
    BY <1>1, <1>8
  <2> QED
    BY <1>1, <1>6, <1>8, <2>1
<1>9. InOrder(r, rest, end)
  BY <1>1, <1>4, <1>5, <1>7, <1>8 DEF InOrder
<1> QED
  BY <1>3, <1>9 DEF r, h

-----------------------------------------------------------------------------
(* Sizes. *)

\* Natural numbers stay natural numbers (saturating subtraction).
LEMMA MinusLemma ==
    ASSUME NEW a \in Nat, NEW b \in Nat
    PROVE  Minus(a, b) \in Nat /\ Minus(a, b) <= a /\ (b <= a => Minus(a, b) = a - b)
                               /\ (a <= b => Minus(a, b) = 0)
  BY DEF Minus

\* A product of sizes is one.
LEMMA ProductLemma ==
    ASSUME NEW a \in Nat, NEW n \in Nat
    PROVE  a * n \in Nat /\ a * (n + 1) = a * n + a
  OBVIOUS

\* The sets of segments are finite, and what is stored is a number of bytes
\* (countable_bytes, partition_used).
LEMMA SizesLemma ==
    ASSUME TypeOK
    PROVE  /\ IsFiniteSet(zms) /\ IsFiniteSet(idx) /\ IsFiniteSet(idx \cap zms) /\ IsFiniteSet(idx \ zms)
           /\ WebTemps \in Nat /\ Countable \in Nat /\ Live \in Nat /\ Used \in Nat
           /\ Used = Live + held
           /\ Live = ZmsSize * Cardinality(zms) + IdxSize * Cardinality(idx)
                     + (IF temp THEN TempSize ELSE 0) + IdxSize * WebTemps + journal + others
<1>1. IsFiniteSet(1..MaxSegment) /\ zms \subseteq 1..MaxSegment /\ idx \subseteq 1..MaxSegment
  <2>1. 1 \in Int /\ MaxSegment \in Int
    BY SizesAssumption
  <2>2. IsFiniteSet(1..MaxSegment)
    BY <2>1, FS_Interval
  <2>3. zms \subseteq 1..MaxSegment /\ idx \subseteq 1..MaxSegment
    BY DEF TypeOK, Segments
  <2> QED
    BY <2>2, <2>3
<1>2. IsFiniteSet(zms) /\ IsFiniteSet(idx) /\ IsFiniteSet(idx \cap zms) /\ IsFiniteSet(idx \ zms)
  BY <1>1, FS_Subset
<1> DEFINE a == Cardinality(zms)
           b == Cardinality(idx \cap zms)
           c == Cardinality(idx \ zms)
           d == Cardinality(idx)
           w == WebTemps
<1>3. a \in Nat /\ b \in Nat /\ c \in Nat /\ d \in Nat
  BY <1>2, FS_CardinalityType
<1>4. d = b + c
  <2> DEFINE In == idx \cap zms
             Out == idx \ zms
  <2>1. In \cup Out = idx /\ In \cap Out = {}
    OBVIOUS
  <2>2. IsFiniteSet(In) /\ IsFiniteSet(Out) /\ Cardinality(In) = b /\ Cardinality(Out) = c
    BY <1>2
  <2> HIDE DEF In, Out
  <2>3. Cardinality(In \cup Out) = b + c - Cardinality({})
    BY <2>1, <2>2, FS_Union
  <2>4. Cardinality({}) = 0
    BY FS_EmptySet
  <2>5. d = Cardinality(In \cup Out)
    BY <2>1
  <2> HIDE DEF d, b, c
  <2> QED
    BY <1>3, <2>3, <2>4, <2>5
<1>5. w \in Nat
  BY DEF WebTemps, TypeOK
<1> HIDE DEF a, b, c, d, w
<1>6. /\ ZmsSize \in Nat /\ IdxSize \in Nat /\ TempSize \in Nat
      /\ journal \in Nat /\ others \in Nat /\ held \in Nat
  BY SizesAssumption DEF TypeOK
<1>7. /\ ZmsSize * a \in Nat /\ IdxSize * b \in Nat /\ IdxSize * c \in Nat /\ IdxSize * w \in Nat
      /\ IdxSize * d = IdxSize * b + IdxSize * c
  BY <1>3, <1>4, <1>5, <1>6
<1>8. /\ Countable = ZmsSize * a + IdxSize * b + (IF temp THEN TempSize ELSE 0) + IdxSize * w
      /\ Live = Countable + IdxSize * c + journal + others
      /\ Used = Live + held
  BY DEF Countable, Live, Used, a, b, c, w
<1> DEFINE za == ZmsSize * a
           ib == IdxSize * b
           ic == IdxSize * c
           id == IdxSize * d
           iw == IdxSize * w
<1>9. /\ Countable \in Nat /\ Live \in Nat /\ Used \in Nat
      /\ Live = za + id + (IF temp THEN TempSize ELSE 0) + iw + journal + others
  <2>1. /\ za \in Nat /\ ib \in Nat /\ ic \in Nat /\ iw \in Nat /\ id = ib + ic
        /\ Countable = za + ib + (IF temp THEN TempSize ELSE 0) + iw
        /\ Live = Countable + ic + journal + others
    BY <1>7, <1>8
  <2> HIDE DEF za, ib, ic, id, iw
  <2> QED
    BY <1>6, <1>8, <2>1
<1> QED
  BY <1>2, <1>5, <1>8, <1>9 DEF a, d, w

\* What a reading of the partition pays off is no more than is pending
\* (reconcile_pending_reclaim), and usage is a number of bytes (usage).
LEMMA UsageLemma ==
    ASSUME TypeOK
    PROVE  Reconciled \in Nat /\ Reconciled <= pending /\ \A n \in Nat : Usage(n) \in Nat
<1>1. Used \in Nat /\ pending \in Nat /\ last \in Nat \cup {-1} /\ journal \in Nat
  BY SizesLemma, SizesAssumption DEF TypeOK, NoUse
<1>2. Reconciled \in Nat /\ Reconciled <= pending
  BY <1>1 DEF Reconciled, NoUse
<1> QED
  BY <1>1, <1>2, MinusLemma DEF Usage

\* What is counted includes the temporary of a failed publication.
LEMMA CountableTempLemma ==
    ASSUME TypeOK, temp
    PROVE  Countable - TempSize \in Nat
<1> DEFINE a == ZmsSize * Cardinality(zms)
           b == IdxSize * Cardinality(idx \cap zms)
           c == IdxSize * WebTemps
<1>1. a \in Nat /\ b \in Nat /\ c \in Nat
  <2>1. /\ Cardinality(zms) \in Nat /\ Cardinality(idx \cap zms) \in Nat /\ WebTemps \in Nat
        /\ ZmsSize \in Nat /\ IdxSize \in Nat
    BY SizesLemma, FS_CardinalityType, SizesAssumption
  <2> QED
    BY <2>1, ProductLemma
<1>2. Countable = a + b + TempSize + c /\ TempSize \in Nat
  BY SizesAssumption DEF Countable
<1> HIDE DEF a, b, c
<1> QED
  BY <1>1, <1>2

-----------------------------------------------------------------------------
(* The invariant: the values of the variables, the tree and the candidates. *)

\* The invariant of the tree holds at the start.
LEMMA InitTree == Init => TreeInv
<1> SUFFICES ASSUME Init PROVE TreeInv
  OBVIOUS
<1>1. TypeOK
  <2>1. /\ web \in [pc : {"idle", "build", "rename"}, id : Segments \cup {0}]
        /\ todo \in Seq([kind : {"temporary", "orphan", "segment"}, id : 1..MaxSegment + 1])
    BY DEF Init, Idle
  <2>2. left \in 0..Budget[mode] /\ mode \in Modes
    BY ModesAssumption DEF Init
  <2>3. next \in 1..MaxSegment + 1 /\ journal \in 0..MaxJournal /\ others \in 0..MaxOthers
    BY SizesAssumption DEF Init
  <2> QED
    BY <2>1, <2>2, <2>3 DEF Init, TypeOK
<1> QED
  BY <1>1 DEF Init, TreeInv, NewestHistoryKept, PassInOrder, WebBuildsMissing, Idle

\* A step keeps the types.
LEMMA TypeStep ==
    ASSUME TreeInv, [Next]_vars
    PROVE  TypeOK'
<1> USE SizesAssumption
<1>0. /\ TypeOK /\ PassInOrder /\ WebBuildsMissing /\ zms \subseteq 1..next - 1
      /\ WebTemps \in Nat /\ Countable \in Nat /\ Used \in Nat
      /\ Reconciled \in Nat /\ \A n \in Nat : Usage(n) \in Nat
  BY SizesLemma, UsageLemma DEF TreeInv
<1>types. TypeOK
  BY DEF TreeInv
<1>left. left \in 0..Budget[mode] /\ (Fault => left' \in 0..Budget[mode])
  <2>1. Budget[mode] \in Nat /\ left \in 0..Budget[mode]
    BY <1>types, ModesAssumption DEF TypeOK
  <2> QED
    BY <2>1 DEF Fault
<1>minus. \A m, n \in Nat : Minus(m, n) \in Nat
  BY MinusLemma
<1>1. CASE UNCHANGED vars
  BY <1>types, <1>1 DEF TypeOK, vars, treeVars, outsideVars, passVars, counterVars, timerVars, historyVars
<1>2. CASE AppendJournal
  BY <1>types, <1>2 DEF AppendJournal, TypeOK, treeVars, outsideVars, passVars, counterVars, timerVars,
     historyVars
<1>3. CASE Publish
  BY <1>types, <1>left, <1>3 DEF Publish, TypeOK, Drops, Segments, treeVars, outsideVars, passVars,
     counterVars, timerVars, historyVars
<1>4. CASE PublishFails
  BY <1>types, <1>left, <1>4 DEF PublishFails, TypeOK, Segments, treeVars, outsideVars, passVars,
     counterVars, timerVars, historyVars
<1>5. CASE Minute
  BY <1>types, <1>5 DEF Minute, TypeOK, treeVars, outsideVars, passVars, counterVars, timerVars, historyVars
<1>6. CASE Hour
  BY <1>types, <1>6 DEF Hour, TypeOK, treeVars, outsideVars, passVars, counterVars, timerVars, historyVars
<1>7. CASE Tick
  BY <1>types, <1>7 DEF Tick, TypeOK, treeVars, outsideVars, passVars, counterVars, timerVars, historyVars
<1>8. CASE EnforceBegins
  BY <1>0, <1>8 DEF EnforceBegins, TypeOK, Observe, treeVars, outsideVars, passVars, counterVars,
     timerVars, historyVars
<1>9. CASE Scan
  <2>1. DeletionCandidates \in Seq(CandidateRecords)
    BY <1>0, ScanLemma DEF TypeOK, InOrder
  <2> QED
    BY <1>0, <1>9, <2>1 DEF Scan, Observe, TypeOK, CandidateRecords, Kinds, treeVars, outsideVars,
       passVars, counterVars, timerVars, historyVars
<1>10. CASE EndPass
  BY <1>types, <1>10 DEF EndPass, TypeOK, treeVars, outsideVars, passVars, counterVars, timerVars,
     historyVars
<1>11. CASE RemoveTemporary
  <2>1. todo # <<>> /\ Tail(todo) \in Seq(CandidateRecords)
    BY <1>0, <1>11 DEF RemoveTemporary, Removing, TypeOK, CandidateRecords, Kinds
  <2>2. TempSize \in Nat
    OBVIOUS
  <2>3. /\ temp' = FALSE /\ Credit(TempSize, TRUE)
        /\ UNCHANGED <<mode, zms, idx, lost, next, journal, outsideVars, timerVars, last, freed,
                       historyVars, left>>
    BY <1>11 DEF RemoveTemporary
  <2>4. counter' \in Nat /\ pending' \in Nat /\ current' \in Nat
    BY <1>types, <1>minus, <2>2, <2>3 DEF Credit, TypeOK
  <2>5. todo' = Tail(todo) /\ pc' = "remove"
    BY <2>3 DEF Credit
  <2> QED
    BY <1>types, <2>1, <2>3, <2>4, <2>5 DEF TypeOK, CandidateRecords, Kinds, outsideVars, timerVars,
       historyVars
<1>12. CASE RemoveOrphan
  <2>1. todo # <<>> /\ Tail(todo) \in Seq(CandidateRecords)
    BY <1>0, <1>12 DEF RemoveOrphan, Removing, TypeOK, CandidateRecords, Kinds
  <2> DEFINE id == Head(todo).id
             bytes == IF id \in idx THEN IdxSize ELSE 0
             amount == bytes
  <2>2. bytes \in Nat /\ amount \in Nat
    BY <1>types DEF TypeOK
  <2>3. /\ idx' = idx \ {id} /\ Unlinked(bytes) /\ Credit(amount, FALSE)
        /\ freed' = freed
        /\ UNCHANGED <<mode, zms, temp, lost, next, journal, others, web, timerVars, last, historyVars, left>>
    BY <1>12 DEF RemoveOrphan
  <2> HIDE DEF id, bytes, amount
  <2>4. held' \in Nat /\ idx' \subseteq Segments /\ freed' \in Nat
    BY <1>types, <2>2, <2>3 DEF Unlinked, TypeOK
  <2>5. counter' \in Nat /\ pending' \in Nat /\ current' \in Nat
    BY <1>types, <1>minus, <2>2, <2>3 DEF Credit, TypeOK
  <2>6. todo' = Tail(todo) /\ pc' = "remove"
    BY <2>3 DEF Credit
  <2> QED
    BY <1>types, <2>1, <2>3, <2>4, <2>5, <2>6 DEF TypeOK, CandidateRecords, Kinds, timerVars, historyVars
<1>13. CASE RemoveSegment
  BY <1>types, <1>13 DEF RemoveSegment, TypeOK, Removing, Unlinked, treeVars, outsideVars, passVars,
     counterVars, timerVars, historyVars
<1>14. CASE RemoveItsIndex
  <2>1. todo # <<>> /\ Tail(todo) \in Seq(CandidateRecords)
    BY <1>0, <1>14 DEF RemoveItsIndex, PassInOrder, TypeOK, CandidateRecords, Kinds
  <2> DEFINE id == Head(todo).id
             bytes == IF id \in idx THEN IdxSize ELSE 0
             amount == freed + bytes
  <2>2. bytes \in Nat /\ amount \in Nat
    BY <1>types DEF TypeOK
  <2>3. /\ idx' = idx \ {id} /\ Unlinked(bytes) /\ Credit(amount, TRUE)
        /\ freed' = 0
        /\ UNCHANGED <<mode, zms, temp, lost, next, journal, others, web, timerVars, last, historyVars, left>>
    BY <1>14 DEF RemoveItsIndex
  <2> HIDE DEF id, bytes, amount
  <2>4. held' \in Nat /\ idx' \subseteq Segments /\ freed' \in Nat
    BY <1>types, <2>2, <2>3 DEF Unlinked, TypeOK
  <2>5. counter' \in Nat /\ pending' \in Nat /\ current' \in Nat
    BY <1>types, <1>minus, <2>2, <2>3 DEF Credit, TypeOK
  <2>6. todo' = Tail(todo) /\ pc' = "remove"
    BY <2>3 DEF Credit
  <2> QED
    BY <1>types, <2>1, <2>3, <2>4, <2>5, <2>6 DEF TypeOK, CandidateRecords, Kinds, timerVars, historyVars
<1>15. CASE EnforceFails
  BY <1>types, <1>left, <1>15 DEF EnforceFails, TypeOK, treeVars, outsideVars, passVars, counterVars,
     timerVars, historyVars
<1>16. CASE RemoveFails
  BY <1>types, <1>left, <1>16 DEF RemoveFails, TypeOK, treeVars, outsideVars, passVars, counterVars,
     timerVars, historyVars
<1>17. CASE BuildIndex
  BY <1>types, <1>17 DEF BuildIndex, TypeOK, treeVars, outsideVars, passVars, counterVars, timerVars,
     historyVars
<1>18. CASE ConfirmSource
  BY <1>types, <1>18 DEF ConfirmSource, TypeOK, treeVars, outsideVars, passVars, counterVars,
     timerVars, historyVars
<1>19. CASE PublishIndex
  BY <1>0, <1>19 DEF PublishIndex, TypeOK, Idle, WebBuildsMissing, treeVars, outsideVars, passVars,
     counterVars, timerVars, historyVars
<1>20. CASE AbandonIndex
  BY <1>types, <1>left, <1>20 DEF AbandonIndex, TypeOK, Drops, Idle, treeVars, outsideVars, passVars,
     counterVars, timerVars, historyVars
<1>21. CASE KillWeb
  BY <1>types, <1>left, <1>21 DEF KillWeb, TypeOK, Idle, treeVars, outsideVars, passVars, counterVars,
     timerVars, historyVars
<1>22. CASE CloseFiles
  BY <1>types, <1>22 DEF CloseFiles, TypeOK, treeVars, outsideVars, passVars, counterVars, timerVars,
     historyVars
<1>23. CASE OthersChange
  BY <1>types, <1>left, <1>23 DEF OthersChange, TypeOK, Drops, treeVars, outsideVars, passVars,
     counterVars, timerVars, historyVars
<1>24. CASE Kill
  BY <1>types, <1>left, <1>24 DEF Kill, TypeOK, Down, treeVars, outsideVars, passVars, counterVars,
     timerVars, historyVars
<1>25. CASE PowerLoss
  <2>1. zms' \subseteq Segments /\ web' \in [pc : {"idle", "build", "rename"}, id : Segments \cup {0}]
    BY <1>0, <1>25 DEF PowerLoss, PassInOrder, TypeOK, Idle
  <2>2. /\ pc' = "down" /\ todo' = <<>> /\ current' = 0 /\ freed' = 0 /\ counter' = 0
        /\ pending' = 0 /\ last' = NoUse /\ held' = 0 /\ lost' \in Nat
    BY <1>0, <1>25 DEF PowerLoss, Down
  <2>3. misread' \in BOOLEAN
    BY <1>25, Zenon DEF PowerLoss, Down
  <2>4. left' \in 0..Budget[mode]
    BY <1>left, <1>25 DEF PowerLoss
  <2>5. /\ mode' = mode /\ idx' = idx /\ temp' = temp /\ next' = next /\ journal' = journal
        /\ others' = others /\ due' = due /\ recount' = recount /\ shrunk' = shrunk
    BY <1>25 DEF PowerLoss, timerVars
  <2> QED
    BY <1>types, <2>1, <2>2, <2>3, <2>4, <2>5 DEF TypeOK
<1>26. CASE Start
  <2>1. counter' \in Nat
    <3>1. temp => Countable - TempSize \in Nat
      BY <1>0, SizesLemma, CountableTempLemma
    <3> QED
      BY <1>0, <3>1, <1>26 DEF Start
  <2>2. pc' = "run" /\ due' = FALSE /\ recount' = FALSE
    BY <1>26 DEF Start
  <2>4. temp' \in BOOLEAN
    BY <1>26 DEF Start
  <2>5. left' \in 0..Budget[mode]
    BY <1>left, <1>26 DEF Start
  <2>3. UNCHANGED <<mode, zms, idx, lost, next, journal, outsideVars, pending, last, passVars, historyVars>>
    BY <1>26 DEF Start
  <2> QED
    BY <1>0, <2>1, <2>2, <2>3, <2>4, <2>5 DEF TypeOK, outsideVars, passVars, historyVars
<1> QED
  BY <1>1, <1>2, <1>3, <1>4, <1>5, <1>6, <1>7, <1>8, <1>9, <1>10, <1>11, <1>12, <1>13, <1>14, <1>15,
     <1>16, <1>17, <1>18, <1>19, <1>20, <1>21, <1>22, <1>23, <1>24, <1>25, <1>26 DEF Next, Pass

\* Steps that leave the segments and the pass alone, or end the pass.
LEMMA TreeKept ==
    ASSUME TreeInv, zms' = zms, next' = next,
           pc' \notin InPass \/ (pc' = pc /\ todo' = todo)
    PROVE  NewestHistoryKept' /\ (zms \subseteq 1..next - 1)' /\ PassInOrder'
<1>1. NewestHistoryKept' /\ (zms \subseteq 1..next - 1)'
  BY DEF TreeInv, NewestHistoryKept
<1>2. CASE pc' \notin InPass
  BY <1>1, <1>2 DEF InPass, PassInOrder
<1>3. CASE pc' = pc /\ todo' = todo
  BY <1>1, <1>3 DEF TreeInv, PassInOrder
<1> QED
  BY <1>1, <1>2, <1>3

\* Only its own steps give the index owner work, and only it adds an index.
LEMMA WebKept ==
    ASSUME WebBuildsMissing, web' = web \/ web' = Idle, idx' \subseteq idx
    PROVE  WebBuildsMissing'
  BY DEF WebBuildsMissing, Idle

\* A step keeps the invariant of the tree.
LEMMA TreeStep ==
    ASSUME TreeInv, [Next]_vars
    PROVE  TreeInv'
<1> SUFFICES NewestHistoryKept' /\ (zms \subseteq 1..next - 1)' /\ PassInOrder' /\ WebBuildsMissing'
  BY TypeStep DEF TreeInv
<1>0. /\ TypeOK /\ NewestHistoryKept /\ zms \subseteq 1..next - 1 /\ PassInOrder /\ WebBuildsMissing
      /\ next \in Int /\ zms \in SUBSET Int
  BY SizesAssumption DEF TreeInv, TypeOK
<1>1. CASE UNCHANGED vars
  <2>1. zms' = zms /\ next' = next /\ pc' = pc /\ todo' = todo /\ web' = web /\ idx' = idx
    BY <1>1 DEF vars, treeVars, outsideVars, passVars
  <2> QED
    BY <1>0, <2>1, TreeKept, WebKept
<1>2. CASE AppendJournal \/ PublishFails \/ Minute \/ Hour \/ Tick \/ EnforceBegins \/ EndPass
           \/ EnforceFails \/ RemoveFails \/ AbandonIndex \/ KillWeb \/ CloseFiles \/ OthersChange
           \/ Kill \/ Start
  <2>1. zms' = zms /\ next' = next /\ idx' = idx /\ (web' = web \/ web' = Idle)
    BY <1>2 DEF AppendJournal, PublishFails, Minute, Hour, Tick, EnforceBegins, EndPass, EnforceFails,
                RemoveFails, AbandonIndex, KillWeb, CloseFiles, OthersChange, Kill, Down, Start,
                treeVars, outsideVars
  <2>2. pc' \notin InPass \/ (pc' = pc /\ todo' = todo)
    BY <1>2 DEF AppendJournal, PublishFails, Minute, Hour, Tick, EnforceBegins, EndPass, EnforceFails,
                RemoveFails, AbandonIndex, KillWeb, CloseFiles, OthersChange, Kill, Down, Start,
                passVars, InPass
  <2> QED
    BY <1>0, <2>1, <2>2, TreeKept, WebKept
<1>3. CASE Publish
  <2>1. zms' = zms \cup {next} /\ next' = next + 1 /\ pc' = "enforce" /\ web' = web /\ idx' = idx
    BY <1>3 DEF Publish, outsideVars
  <2>2. next \in Nat \ {0}
    BY SizesAssumption, <1>0 DEF TypeOK
  <2>3. (zms \subseteq 1..next - 1)'
    BY <1>0, <2>1, <2>2
  <2>4. NewestHistoryKept'
    <3>1. next' > 1 => next' - 1 \in zms'
      BY <2>1, <2>2
    <3>2. ASSUME NEW old \in zms', NEW s \in old..next' - 1 PROVE s \in zms'
      <4>1. CASE s = next
        BY <4>1, <2>1
      <4>2. CASE s # next
        <5>1. old \in zms
          BY <4>2, <2>1, <2>2
        <5>2. s \in old..next - 1
          BY <1>0, <4>2, <5>1, <2>1, <2>2
        <5> QED
          BY <1>0, <5>1, <5>2, <2>1 DEF NewestHistoryKept
      <4> QED
        BY <4>1, <4>2
    <3> QED
      BY <3>1, <3>2 DEF NewestHistoryKept
  <2>5. PassInOrder'
    BY <2>1 DEF PassInOrder
  <2> QED
    BY <1>0, <2>1, <2>3, <2>4, <2>5, WebKept
<1>4. CASE Scan
  <2>1. /\ zms' = zms /\ next' = next /\ idx' = idx /\ web' = web
        /\ pc' = "remove" /\ todo' = DeletionCandidates
    BY <1>4 DEF Scan, treeVars, outsideVars
  <2>2. InOrder(DeletionCandidates, zms, next)
    BY <1>0, ScanLemma DEF TypeOK
  <2>3. PassInOrder'
    BY <2>1, <2>2 DEF PassInOrder
  <2> QED
    BY <1>0, <2>1, <2>3, WebKept DEF NewestHistoryKept
<1>5. CASE RemoveTemporary \/ RemoveOrphan
  <2>1. /\ zms' = zms /\ next' = next /\ idx' \subseteq idx /\ web' = web
        /\ pc = "remove" /\ pc' = "remove" /\ todo' = Tail(todo) /\ todo # <<>>
    BY <1>5 DEF RemoveTemporary, RemoveOrphan, Removing, Credit, outsideVars
  <2>2. Head(todo).kind # "segment"
    BY <1>5 DEF RemoveTemporary, RemoveOrphan, Removing
  <2>3. InOrder(Tail(todo), zms, next)
    BY <1>0, <2>1, <2>2, TailInOrder DEF PassInOrder
  <2>4. PassInOrder'
    BY <2>1, <2>3 DEF PassInOrder
  <2> QED
    BY <1>0, <2>1, <2>4, WebKept DEF NewestHistoryKept
<1>6. CASE RemoveSegment
  <2> DEFINE h == Head(todo).id
  <2>1. /\ zms' = zms \ {h} /\ next' = next /\ idx' = idx /\ web' = web /\ todo' = todo
        /\ pc = "remove" /\ pc' = "pair" /\ todo # <<>> /\ Head(todo).kind = "segment"
    BY <1>6 DEF RemoveSegment, Removing
  <2>2. /\ InOrder(Tail(todo), zms \ {h}, next)
        /\ h \in zms /\ h < next - 1 /\ \A s \in zms : s >= h
    BY <1>0, <2>1, TailInOrderWithout DEF PassInOrder
  <2>3. todo \in Seq(CandidateRecords) /\ h \in Segments
    BY <1>0, <2>1, <2>2 DEF PassInOrder, InOrder, TypeOK
  <2> HIDE DEF h
  <2>4. h \in Int /\ \A s \in zms \ {h} : s > h
    BY <1>0, <2>2
  <2>5. h + 1..next - 1 \subseteq zms \ {h}
    BY <1>0, <2>2, <2>4 DEF NewestHistoryKept
  <2>6. PassInOrder'
    BY <2>1, <2>2, <2>3, <2>4, <2>5 DEF PassInOrder, h
  <2>7. NewestHistoryKept'
    <3>1. next' > 1 => next' - 1 \in zms'
      BY <1>0, <2>1, <2>2, <2>4 DEF NewestHistoryKept
    <3>2. ASSUME NEW old \in zms' PROVE old..next' - 1 \subseteq zms'
      <4>1. old \in zms /\ old > h /\ old \in Int
        BY <1>0, <2>1, <2>4
      <4>2. old..next - 1 \subseteq zms
        BY <1>0, <4>1 DEF NewestHistoryKept
      <4> QED
        BY <1>0, <2>1, <2>4, <4>1, <4>2
    <3> QED
      BY <3>1, <3>2 DEF NewestHistoryKept
  <2> QED
    BY <1>0, <2>1, <2>6, <2>7, WebKept
<1>7. CASE RemoveItsIndex
  <2>1. /\ zms' = zms /\ next' = next /\ idx' \subseteq idx /\ web' = web
        /\ pc = "pair" /\ pc' = "remove" /\ todo' = Tail(todo)
    BY <1>7 DEF RemoveItsIndex, Credit
  <2>2. PassInOrder'
    BY <1>0, <2>1 DEF PassInOrder
  <2> QED
    BY <1>0, <2>1, <2>2, WebKept DEF NewestHistoryKept
<1>8. CASE BuildIndex \/ ConfirmSource \/ PublishIndex
  <2>1. zms' = zms /\ next' = next /\ pc' = pc /\ todo' = todo
    BY <1>8 DEF BuildIndex, ConfirmSource, PublishIndex, treeVars, passVars
  <2>2. WebBuildsMissing'
    <3>1. CASE BuildIndex
      BY <1>0, <3>1 DEF BuildIndex, WebBuildsMissing, TypeOK, treeVars
    <3>2. CASE ConfirmSource
      BY <1>0, <3>2 DEF ConfirmSource, WebBuildsMissing, TypeOK, treeVars
    <3>3. CASE PublishIndex
      BY <3>3 DEF PublishIndex, WebBuildsMissing, Idle
    <3> QED
      BY <1>8, <3>1, <3>2, <3>3
  <2> QED
    BY <1>0, <2>1, <2>2, TreeKept
<1>9. CASE PowerLoss
  <2> DEFINE h == Head(todo).id
  <2>1. /\ (zms' = zms \/ zms' = zms \cup {h})
        /\ next' = next /\ idx' = idx /\ web' = Idle /\ pc = "pair" /\ pc' = "down"
    BY <1>9 DEF PowerLoss, Down
  <2>2. /\ h < next - 1 /\ h \in Segments /\ h + 1..next - 1 \subseteq zms
    BY <1>0, <2>1 DEF PassInOrder
  <2>3. h \in Nat \ {0}
    BY <2>2, SizesAssumption DEF Segments
  <2> HIDE DEF h
  <2>4. (zms \subseteq 1..next - 1)'
    <3>1. h \in 1..next - 1
      BY <1>0, <2>2, <2>3
    <3> QED
      BY <1>0, <2>1, <3>1
  <2>5. NewestHistoryKept'
    <3>1. next' > 1 => next' - 1 \in zms'
      BY <1>0, <2>1 DEF NewestHistoryKept
    <3>2. ASSUME NEW old \in zms' PROVE old..next' - 1 \subseteq zms'
      <4>1. CASE old \in zms
        BY <1>0, <2>1, <4>1 DEF NewestHistoryKept
      <4>2. CASE old = h /\ zms' = zms \cup {h}
        BY <1>0, <2>1, <2>2, <2>3, <4>2
      <4> QED
        BY <2>1, <3>2, <4>1, <4>2
    <3> QED
      BY <3>1, <3>2 DEF NewestHistoryKept
  <2>6. PassInOrder'
    BY <2>1 DEF PassInOrder
  <2> QED
    BY <1>0, <2>1, <2>4, <2>5, <2>6, WebKept
<1> QED
  BY <1>1, <1>2, <1>3, <1>4, <1>5, <1>6, <1>7, <1>8, <1>9 DEF Next, Pass

-----------------------------------------------------------------------------
(* What is stored, part by part. *)

ZmsBytes == ZmsSize * Cardinality(zms)
IdxBytes == IdxSize * Cardinality(idx)
KeptIdxBytes == IdxSize * Cardinality(idx \cap zms)
TempBytes == IF temp THEN TempSize ELSE 0
WebBytes == IdxSize * WebTemps

Parts ==
    /\ ZmsBytes \in Nat /\ IdxBytes \in Nat /\ KeptIdxBytes \in Nat
    /\ TempBytes \in Nat /\ WebBytes \in Nat /\ WebTemps \in Nat
    /\ Countable = ZmsBytes + KeptIdxBytes + TempBytes + WebBytes
    /\ Live = ZmsBytes + IdxBytes + TempBytes + WebBytes + journal + others
    /\ Used = Live + held
    /\ IsFiniteSet(zms) /\ IsFiniteSet(idx) /\ IsFiniteSet(idx \cap zms)
    /\ Countable \in Nat /\ Live \in Nat

\* The bytes of the tree are the sum of its parts (countable_bytes).
LEMMA PartsLemma == TypeOK => Parts
<1> SUFFICES ASSUME TypeOK PROVE Parts
  OBVIOUS
<1>1. /\ IsFiniteSet(zms) /\ IsFiniteSet(idx) /\ IsFiniteSet(idx \cap zms)
      /\ WebTemps \in Nat /\ Used = Live + held /\ Countable \in Nat /\ Live \in Nat
      /\ Live = ZmsBytes + IdxBytes + TempBytes + WebBytes + journal + others
  BY SizesLemma DEF ZmsBytes, IdxBytes, TempBytes, WebBytes
<1>2. Cardinality(zms) \in Nat /\ Cardinality(idx) \in Nat /\ Cardinality(idx \cap zms) \in Nat
  BY <1>1, FS_CardinalityType
<1>3. ZmsSize \in Nat /\ IdxSize \in Nat /\ TempSize \in Nat
  BY SizesAssumption
<1>4. ZmsBytes \in Nat /\ IdxBytes \in Nat /\ KeptIdxBytes \in Nat /\ TempBytes \in Nat /\ WebBytes \in Nat
  BY <1>1, <1>2, <1>3, ProductLemma DEF ZmsBytes, IdxBytes, KeptIdxBytes, TempBytes, WebBytes
<1>5. Countable = ZmsBytes + KeptIdxBytes + TempBytes + WebBytes
  BY DEF Countable, ZmsBytes, KeptIdxBytes, TempBytes, WebBytes
<1> QED
  BY <1>1, <1>4, <1>5 DEF Parts

\* The same after a step.
LEMMA PartsAfter == TypeOK' => Parts'
  BY PartsLemma, PTL

\* What a pass counts is a number of bytes, before a step and after it.
LEMMA CountedLemma == TypeOK => Counted \in Nat
<1> SUFFICES ASSUME TypeOK PROVE Counted \in Nat
  OBVIOUS
<1>1. PairIndex \in Nat
  BY SizesAssumption DEF PairIndex
<1>2. Countable \in Nat /\ journal \in Nat
  BY PartsLemma, SizesAssumption DEF Parts, TypeOK
<1> QED
  BY <1>1, <1>2 DEF Counted

\* What is counted after a step is a number of bytes.
LEMMA CountedAfter == TypeOK' => Counted' \in Nat
<1>1. TypeOK' => (Counted \in Nat)'
  BY CountedLemma, PTL
<1> QED
  BY <1>1

\* Bytes that a file more or a file less makes.
LEMMA OneMore ==
    ASSUME NEW size \in Nat, NEW S, NEW x, IsFiniteSet(S)
    PROVE  /\ x \in S => size * Cardinality(S \ {x}) = size * Cardinality(S) - size
           /\ x \notin S => size * Cardinality(S \ {x}) = size * Cardinality(S)
           /\ x \notin S => size * Cardinality(S \cup {x}) = size * Cardinality(S) + size
           /\ x \in S => size * Cardinality(S \cup {x}) = size * Cardinality(S)
<1>1. Cardinality(S) \in Nat
  BY FS_CardinalityType
<1>2. ASSUME x \in S PROVE size * Cardinality(S \ {x}) = size * Cardinality(S) - size
  <2>1. Cardinality(S \ {x}) = Cardinality(S) - 1
    BY <1>2, FS_RemoveElement
  <2>2. IsFiniteSet(S \ {x})
    BY FS_RemoveElement
  <2>3. Cardinality(S \ {x}) \in Nat
    BY <2>2, FS_CardinalityType
  <2> DEFINE n == Cardinality(S \ {x})
  <2>4. n \in Nat /\ Cardinality(S) = n + 1
    BY <1>1, <2>1, <2>3
  <2> HIDE DEF n
  <2>5. size * (n + 1) = size * n + size /\ size * n \in Nat
    BY <2>4, ProductLemma
  <2>6. size * n = size * Cardinality(S) - size
    BY <2>4, <2>5
  <2> QED
    BY <2>6 DEF n
<1>3. ASSUME x \notin S PROVE size * Cardinality(S \cup {x}) = size * Cardinality(S) + size
  <2>1. Cardinality(S \cup {x}) = Cardinality(S) + 1
    BY <1>3, FS_AddElement
  <2> QED
    BY <1>1, <2>1, ProductLemma
<1>4. x \notin S => S \ {x} = S
  OBVIOUS
<1>5. x \in S => S \cup {x} = S
  OBVIOUS
<1> QED
  BY <1>2, <1>3, <1>4, <1>5

-----------------------------------------------------------------------------
(* The invariant: the bytes that are counted and those that are stored. *)

\* Steps of others than the pass, after which no less is stored unless the
\* history says so.
LEMMA AccountedKept ==
    ASSUME TreeInv, TypeOK', Accounted,
           UNCHANGED <<mode, pc, pending, last, current, freed, todo>>,
           held' <= held, misread => misread', shrunk => shrunk',
           mode = "auto" => misread' \/ Live <= Live',
           mode = "fixed" /\ pc \in InPass =>
               shrunk' \/ Counted <= Counted'
    PROVE  Accounted'
<1>1. /\ TypeOK /\ held \in Nat /\ pending \in Nat /\ freed \in Nat /\ current \in Nat
      /\ last \in Nat \cup {NoUse} /\ held' \in Nat
  BY DEF TreeInv, TypeOK
<1>2. mode \in {"fixed", "auto"} /\ journal \in Nat
  BY <1>1, SizesAssumption, ModesAssumption DEF TypeOK, RetentionModes
<1>3. Live \in Nat /\ Counted \in Nat
  BY <1>1, SizesLemma, CountedLemma
<1>4. PICK l \in Nat, c \in Nat : l = Live' /\ c = Counted'
  BY PartsAfter, CountedAfter DEF Parts
<1>5. ReclaimKnown'
  <2> SUFFICES ASSUME mode = "auto", ~misread'
               PROVE  held' <= pending + freed /\ (last # NoUse => last <= l + pending + freed)
    BY <1>4 DEF ReclaimKnown
  <2>1. ~misread /\ Live <= l
    BY <1>4
  <2>2. held <= pending + freed /\ (last # NoUse => last <= Live + pending + freed)
    BY <2>1 DEF Accounted, ReclaimKnown
  <2> QED
    BY <1>1, <1>3, <2>1, <2>2
<1>6. PassCounts'
  <2> SUFFICES ASSUME pc \in InPass, ~shrunk'
               PROVE  IF mode = "fixed" THEN current <= c + freed ELSE misread' \/ current <= l + freed
    BY <1>4 DEF PassCounts
  <2>1. CASE mode = "fixed"
    <3>1. current <= Counted + freed /\ Counted <= c
      BY <1>4, <2>1 DEF Accounted, PassCounts
    <3> QED
      BY <1>1, <1>3, <2>1, <3>1
  <2>2. CASE mode = "auto" /\ ~misread'
    <3>1. current <= Live + freed /\ Live <= l
      BY <1>4, <2>2 DEF Accounted, PassCounts
    <3> QED
      BY <1>1, <1>3, <2>2, <3>1
  <2> QED
    BY <1>2, <2>1, <2>2
<1> QED
  BY <1>5, <1>6 DEF Accounted

\* After a reading of the partition, what is pending is no less than what
\* readers hold (reconcile_pending_reclaim).
LEMMA ReconciledLemma ==
    ASSUME TypeOK, mode = "auto", ~misread, freed = 0, ReclaimKnown
    PROVE  held <= Reconciled /\ Minus(Used, Reconciled) <= Live
<1>1. /\ held \in Nat /\ pending \in Nat /\ last \in Nat \cup {-1}
      /\ Live \in Nat /\ Used = Live + held
  BY PartsLemma DEF Parts, TypeOK, NoUse
<1>2. held <= pending /\ (last # -1 => last <= Live + pending)
  BY <1>1 DEF ReclaimKnown, NoUse
<1>3. held <= Reconciled /\ Reconciled \in Nat
  BY <1>1, <1>2 DEF Reconciled, NoUse
<1> QED
  BY <1>1, <1>3 DEF Minus

\* Steps of the web process, of readers and of other programs, and of the
\* collector outside a pass, after which no less is stored, or the history tells.
LEMMA OutsideStep ==
    ASSUME TreeInv, TypeOK', Accounted,
           \/ UNCHANGED vars \/ AppendJournal \/ PublishFails \/ Minute \/ Hour
           \/ BuildIndex \/ ConfirmSource \/ PublishIndex \/ AbandonIndex \/ KillWeb
           \/ CloseFiles \/ OthersChange
    PROVE  Accounted'
<1>0. TypeOK /\ WebBuildsMissing /\ Parts
  BY PartsLemma DEF TreeInv
<1>1. /\ lost \in Nat /\ lost' \in Nat /\ held \in Nat
      /\ journal \in Nat /\ journal' \in Nat /\ others \in Nat /\ others' \in Nat
  BY <1>0, SizesAssumption DEF TypeOK
<1>2. IdxSize \in Nat /\ 0 < IdxSize /\ TempSize \in Nat
  BY SizesAssumption
<1>3. mode \in {"fixed", "auto"}
  BY <1>0, ModesAssumption DEF TypeOK, RetentionModes
<1>4. PICK z \in Nat, i \in Nat, k \in Nat, t \in Nat, w \in Nat, j \in Nat, o \in Nat :
          /\ z = ZmsBytes' /\ i = IdxBytes' /\ k = KeptIdxBytes' /\ t = TempBytes' /\ w = WebBytes'
          /\ j = journal' /\ o = others'
          /\ Live' = z + i + t + w + j + o
          /\ Countable' = z + k + t + w
  BY <1>1, PartsAfter DEF Parts
<1>5. PICK p \in Nat : p = PairIndex'
  BY <1>2 DEF PairIndex
<1>6. /\ Counted = ZmsBytes + KeptIdxBytes + TempBytes + WebBytes + journal + PairIndex
      /\ PairIndex \in Nat
      /\ Live = ZmsBytes + IdxBytes + TempBytes + WebBytes + journal + others
      /\ ZmsBytes \in Nat /\ IdxBytes \in Nat /\ KeptIdxBytes \in Nat
      /\ TempBytes \in Nat /\ WebBytes \in Nat
  BY <1>0, <1>2 DEF Counted, Parts, PairIndex
<1>7. PICK c \in Nat, l \in Nat :
          /\ c = Counted' /\ c = z + k + t + w + j + p
          /\ l = Live' /\ l = z + i + t + w + j + o
  <2>1. Counted' = z + k + t + w + j + p
    BY <1>4, <1>5 DEF Counted
  <2>2. z + k + t + w + j + p \in Nat /\ z + i + t + w + j + o \in Nat
    OBVIOUS
  <2> QED
    BY <1>4, <2>1, <2>2
<1>8. CASE UNCHANGED vars \/ Minute \/ Hour \/ ConfirmSource \/ CloseFiles \/ AppendJournal \/ OthersChange
  <2>1. UNCHANGED <<mode, zms, idx, temp, lost, pending, last, todo, current, freed, pc>>
    BY <1>8 DEF vars, Minute, Hour, ConfirmSource, CloseFiles, AppendJournal, OthersChange,
                treeVars, passVars, counterVars
  <2>2. /\ held' <= held /\ journal <= j
        /\ (others <= o \/ misread') /\ (mode = "auto" \/ others = o)
    <3>1. CASE OthersChange
      <4>1. mode = "auto" /\ held' = held /\ j = journal
        BY <1>4, <3>1 DEF OthersChange
      <4>2. o < others => 0 < Minus(others, o)
        BY <1>1 DEF Minus
      <4>3. 0 < Minus(others, o) => misread'
        BY <1>4, <3>1 DEF OthersChange, Drops
      <4> QED
        BY <1>1, <4>1, <4>2, <4>3
    <3>2. CASE CloseFiles
      BY <1>1, <1>4, <3>2 DEF CloseFiles
    <3>3. CASE AppendJournal
      BY <1>1, <1>4, <3>3 DEF AppendJournal, outsideVars
    <3>4. CASE UNCHANGED vars \/ Minute \/ Hour \/ ConfirmSource
      BY <1>1, <1>4, <3>4 DEF vars, Minute, Hour, ConfirmSource, outsideVars
    <3> QED
      BY <1>8, <3>1, <3>2, <3>3, <3>4
  <2>3. (misread => misread') /\ (shrunk => shrunk')
    <3>1. CASE OthersChange
      BY <3>1 DEF OthersChange, Drops
    <3>2. CASE ~OthersChange
      BY <1>8, <3>2 DEF vars, Minute, Hour, ConfirmSource, CloseFiles, AppendJournal, historyVars
    <3> QED
      BY <3>1, <3>2
  <2>4. web.pc = "idle" <=> web'.pc = "idle"
    BY <1>0, <1>8 DEF vars, Minute, Hour, ConfirmSource, CloseFiles, AppendJournal, OthersChange,
                      outsideVars, TypeOK
  <2>5. z = ZmsBytes /\ i = IdxBytes /\ k = KeptIdxBytes /\ t = TempBytes /\ p = PairIndex
    BY <2>1, <1>4, <1>5 DEF ZmsBytes, IdxBytes, KeptIdxBytes, TempBytes, PairIndex
  <2>6. w = WebBytes
    BY <2>1, <2>4, <1>4 DEF WebBytes, WebTemps
  <2>7. Counted <= c
    BY <1>1, <1>6, <1>7, <2>2, <2>5, <2>6
  <2>8. others <= o => Live <= l
    BY <1>1, <1>6, <1>7, <2>2, <2>5, <2>6
  <2> QED
    BY <1>4, <1>7, <2>1, <2>2, <2>3, <2>7, <2>8, AccountedKept
<1>9. CASE PublishFails \/ BuildIndex \/ KillWeb
  <2>1. UNCHANGED <<mode, zms, idx, journal, others, held, pending, last, todo, current, freed, pc,
                       misread, shrunk>>
    BY <1>9 DEF PublishFails, BuildIndex, KillWeb, treeVars, outsideVars, passVars, counterVars, historyVars
  <2>2. z = ZmsBytes /\ i = IdxBytes /\ k = KeptIdxBytes /\ p = PairIndex /\ j = journal /\ o = others
    BY <2>1, <1>4, <1>5 DEF ZmsBytes, IdxBytes, KeptIdxBytes, PairIndex
  <2>3. TempBytes <= t
    BY <1>2, <1>4, <1>9 DEF PublishFails, BuildIndex, KillWeb, treeVars, TempBytes
  <2>4. WebBytes <= w
    <3>1. CASE PublishFails \/ KillWeb
      <4>1. WebTemps' = WebTemps
        <5>1. CASE PublishFails
          BY <5>1 DEF PublishFails, WebTemps, outsideVars
        <5>2. CASE KillWeb
          BY <1>1, <5>2 DEF KillWeb, WebTemps, Idle
        <5> QED
          BY <3>1, <5>1, <5>2
      <4> QED
        BY <4>1, <1>4, <1>6 DEF WebBytes
    <3>2. CASE BuildIndex
      <4>1. WebTemps \in Nat /\ WebTemps' = WebTemps + 1
        BY <1>0, <1>1, <3>2 DEF BuildIndex, WebTemps, treeVars, Parts
      <4>2. w = IdxSize * (WebTemps + 1)
        BY <4>1, <1>4 DEF WebBytes
      <4>3. w = WebBytes + IdxSize
        BY <1>2, <4>1, <4>2, ProductLemma DEF WebBytes
      <4> QED
        BY <1>2, <1>6, <4>3
    <3> QED
      BY <1>9, <3>1, <3>2
  <2>5. Counted <= c
    BY <1>1, <1>6, <1>7, <2>2, <2>3, <2>4
  <2>6. Live <= l
    BY <1>1, <1>6, <1>7, <2>2, <2>3, <2>4
  <2> QED
    BY <1>1, <1>7, <2>1, <2>5, <2>6, AccountedKept
<1>10. CASE PublishIndex \/ AbandonIndex
  <2>1. UNCHANGED <<mode, zms, temp, lost, journal, others, held, pending, last, todo, current, freed, pc>>
    BY <1>10 DEF PublishIndex, AbandonIndex, treeVars, passVars, counterVars
  <2>2. z = ZmsBytes /\ t = TempBytes /\ j = journal /\ o = others
    BY <2>1, <1>4 DEF ZmsBytes, TempBytes
  <2>3. WebBytes = w + IdxSize
    <3>1. WebTemps = lost + 1 /\ WebTemps' = lost
      BY <1>1, <1>10, <2>1 DEF PublishIndex, AbandonIndex, WebTemps, Idle
    <3>2. w = IdxSize * lost /\ WebBytes = IdxSize * (lost + 1)
      BY <1>4, <3>1 DEF WebBytes
    <3> QED
      BY <1>1, <1>2, <3>2, ProductLemma
  <2>4. CASE AbandonIndex
    <3>1. /\ idx' = idx /\ (mode = "auto" => misread') /\ (pc \in InPass => shrunk')
          /\ (misread => misread') /\ (shrunk => shrunk')
      BY <1>2, <2>4 DEF AbandonIndex, Drops, InPass, treeVars
    <3> QED
      BY <1>1, <2>1, <3>1, AccountedKept
  <2>5. CASE PublishIndex
    <3>1. web.id \notin idx /\ idx' = idx \cup {web.id} /\ IsFiniteSet(idx) /\ IsFiniteSet(idx \cap zms)
      BY <1>0, <2>5 DEF PublishIndex, WebBuildsMissing, Parts
    <3>2. misread' = misread /\ (shrunk => shrunk') /\ (web.id \notin zms => shrunk')
      BY <2>5 DEF PublishIndex
    <3>3. i = IdxBytes + IdxSize
      BY <1>2, <1>4, <3>1, OneMore DEF IdxBytes
    <3>4. l = Live
      BY <1>1, <1>2, <1>6, <1>7, <2>2, <2>3, <3>3
    <3>5. ASSUME web.id \in zms PROVE Counted <= c
      <4>1. idx' \cap zms' = (idx \cap zms) \cup {web.id} /\ web.id \notin idx \cap zms
        BY <2>1, <3>1, <3>5
      <4>2. k = KeptIdxBytes + IdxSize
        <5>1. k = IdxSize * Cardinality((idx \cap zms) \cup {web.id})
          BY <1>4, <4>1 DEF KeptIdxBytes
        <5> DEFINE S == idx \cap zms
        <5>2. IsFiniteSet(S) /\ web.id \notin S
          BY <3>1, <4>1
        <5> HIDE DEF S
        <5>3. IdxSize * Cardinality(S \cup {web.id}) = IdxSize * Cardinality(S) + IdxSize
          BY <1>2, <5>2, OneMore
        <5> QED
          BY <5>1, <5>3 DEF S, KeptIdxBytes
      <4>3. PairIndex <= p
        BY <1>2, <1>5, <2>1, <3>1 DEF PairIndex
      <4> QED
        BY <1>1, <1>2, <1>6, <1>7, <2>2, <2>3, <4>2, <4>3
    <3>6. Live <= l
      BY <1>7, <3>4
    <3> QED
      BY <1>1, <1>7, <2>1, <3>2, <3>5, <3>6, AccountedKept
  <2> QED
    BY <1>10, <2>4, <2>5
<1> QED
  BY <1>8, <1>9, <1>10

\* Steps of the collector but for the removals: the reading of the partition
\* pays off what it can, and a restart forgets what was pending.
LEMMA CollectorStep ==
    ASSUME TreeInv, TypeOK', Accounted,
           \/ Tick \/ EnforceFails \/ EndPass \/ RemoveFails \/ Publish
           \/ EnforceBegins \/ Scan \/ Kill \/ PowerLoss \/ Start
    PROVE  Accounted'
<1>0. TypeOK /\ Parts /\ ReclaimKnown /\ (pc # "pair" => freed = 0)
  BY PartsLemma DEF TreeInv, Accounted
<1>1. /\ held \in Nat /\ pending \in Nat /\ freed \in Nat /\ journal \in Nat /\ others \in Nat
      /\ last \in Nat \cup {NoUse}
  BY <1>0, SizesAssumption DEF TypeOK
<1>2. CASE Tick \/ EnforceFails \/ EndPass \/ RemoveFails
  <2>1. /\ UNCHANGED <<mode, zms, idx, temp, lost, journal, others, held, web, pending, last>>
        /\ pc' \in {"enforce", "run"} /\ freed' = 0
    BY <1>0, <1>2 DEF Tick, EnforceFails, EndPass, RemoveFails, treeVars, outsideVars, counterVars, passVars
  <2>2. (misread => misread') /\ (mode = "auto" /\ ~misread' => freed = 0)
    <3>1. CASE RemoveFails
      <4>1. (misread => misread') /\ (mode = "auto" /\ freed > 0 => misread')
        BY <3>1 DEF RemoveFails
      <4>2. freed > 0 \/ freed = 0
        BY <1>1
      <4> QED
        BY <4>1, <4>2
    <3>2. CASE ~RemoveFails
      BY <1>0, <1>2, <3>2 DEF Tick, EnforceFails, EndPass, historyVars
    <3> QED
      BY <3>1, <3>2
  <2>3. Live' = Live
    BY <2>1 DEF Live, Countable, WebTemps
  <2>4. ReclaimKnown'
    <3> SUFFICES ASSUME mode = "auto", ~misread'
                 PROVE  held <= pending + 0 /\ (last # NoUse => last <= Live + pending + 0)
      BY <2>1, <2>3 DEF ReclaimKnown
    <3> QED
      BY <1>0, <2>2 DEF ReclaimKnown
  <2> QED
    BY <2>1, <2>4 DEF Accounted, PassCounts, InPass
<1>3. CASE Publish
  <2>1. /\ UNCHANGED <<mode, idx, temp, lost, others, held, web, pending, last, freed>>
        /\ zms' = zms \cup {next} /\ journal' = 0 /\ pc = "run" /\ pc' = "enforce"
        /\ (misread => misread') /\ (mode = "auto" /\ ~misread' => ~(journal > 0))
    BY <1>3 DEF Publish, Drops, outsideVars, passVars
  <2>2. PICK z \in Nat, l \in Nat :
            z = ZmsBytes' /\ l = Live' /\ l = z + IdxBytes + TempBytes + WebBytes + 0 + others
    <3>1. Parts'
      BY PartsAfter
    <3>2. IdxBytes' = IdxBytes /\ TempBytes' = TempBytes /\ WebBytes' = WebBytes
      BY <2>1 DEF IdxBytes, TempBytes, WebBytes, WebTemps
    <3>3. Live' = ZmsBytes' + IdxBytes + TempBytes + WebBytes + 0 + others
      BY <2>1, <3>1, <3>2 DEF Parts
    <3>4. ZmsBytes' \in Nat /\ Live' \in Nat
      BY <3>1 DEF Parts
    <3> QED
      BY <3>3, <3>4
  <2>3. ZmsBytes <= z
    <3>1. next \notin zms
      BY <1>1, SizesAssumption DEF TreeInv, TypeOK
    <3>2. ZmsSize \in Nat /\ IsFiniteSet(zms) /\ ZmsBytes \in Nat
      BY <1>0, SizesAssumption DEF Parts
    <3>3. z = ZmsBytes + ZmsSize
      BY <2>1, <2>2, <3>1, <3>2, OneMore DEF ZmsBytes
    <3> QED
      BY <3>2, <3>3
  <2>4. journal = 0 => Live <= l
    <3>1. /\ Live = ZmsBytes + IdxBytes + TempBytes + WebBytes + journal + others
          /\ ZmsBytes \in Nat /\ IdxBytes \in Nat /\ TempBytes \in Nat /\ WebBytes \in Nat
      BY <1>0 DEF Parts
    <3>2. l = z + IdxBytes + TempBytes + WebBytes + 0 + others /\ ZmsBytes <= z
      BY <2>2, <2>3
    <3> QED
      BY <1>1, <3>1, <3>2
  <2>5. ReclaimKnown'
    <3> SUFFICES ASSUME mode = "auto", ~misread'
                 PROVE  held <= pending + freed /\ (last # NoUse => last <= l + pending + freed)
      BY <2>1, <2>2 DEF ReclaimKnown
    <3>1. Live <= l
      BY <1>1, <2>1, <2>4
    <3>2. held <= pending + freed /\ (last # NoUse => last <= Live + pending + freed)
      BY <1>0, <2>1 DEF ReclaimKnown
    <3>3. Live \in Nat
      BY <1>0 DEF Parts
    <3> QED
      BY <1>1, <2>2, <3>1, <3>2, <3>3
  <2> QED
    BY <1>0, <2>1, <2>5 DEF Accounted, PassCounts, InPass
<1>4. CASE EnforceBegins \/ Scan
  <2>1. /\ UNCHANGED <<mode, zms, idx, temp, lost, journal, others, held, web, freed, misread>>
        /\ freed = 0 /\ pc' \notin {"down", "pair"}
    BY <1>0, <1>4 DEF EnforceBegins, Scan, treeVars, outsideVars, passVars, historyVars
  <2>2. Live' = Live /\ Countable' = Countable
    BY <2>1 DEF Live, Countable, WebTemps
  <2>3. ReclaimKnown'
    <3> SUFFICES ASSUME mode = "auto", ~misread PROVE ReclaimKnown'
      BY <2>1 DEF ReclaimKnown
    <3>1. pending' = Reconciled /\ last' = Used
      BY <1>4 DEF EnforceBegins, Scan, Observe
    <3>2. held <= Reconciled /\ Reconciled \in Nat /\ Used = Live + held /\ Live \in Nat
      BY <1>0, <2>1, ReconciledLemma, UsageLemma DEF Parts
    <3>3. held <= Reconciled + 0 /\ Used <= Live + Reconciled + 0
      BY <1>1, <3>2
    <3> QED
      BY <2>1, <2>2, <3>1, <3>3 DEF ReclaimKnown
  <2>4. PassCounts'
    <3>1. CASE EnforceBegins
      BY <3>1 DEF EnforceBegins, PassCounts, InPass
    <3>2. CASE Scan
      <4>1. current' = Usage(Countable) /\ pc' = "remove"
        BY <3>2 DEF Scan
      <4>2. CASE mode = "fixed"
        <5>1. PairIndex' = 0
          BY <4>1 DEF PairIndex
        <5>2. Counted' = Countable + journal + 0
          BY <2>1, <2>2, <5>1 DEF Counted
        <5>3. Countable \in Nat
          BY <1>0 DEF Parts
        <5>4. PICK c \in Nat : c = Counted' /\ Countable + journal <= c + 0
          BY <1>1, <5>2, <5>3
        <5> QED
          BY <2>1, <4>1, <4>2, <5>4 DEF PassCounts, Usage
      <4>3. CASE mode # "fixed" /\ ~misread
        <5>1. mode = "auto"
          BY <1>0, <4>3, ModesAssumption DEF TypeOK, RetentionModes
        <5>2. Minus(Used, Reconciled) <= Live /\ Live \in Nat
          BY <1>0, <2>1, <4>3, <5>1, ReconciledLemma DEF Parts
        <5>3. Minus(Used, Reconciled) <= Live + 0
          BY <5>2
        <5> QED
          BY <2>1, <2>2, <4>1, <4>3, <5>3 DEF PassCounts, Usage
      <4> QED
        BY <2>1, <4>2, <4>3 DEF PassCounts
    <3> QED
      BY <1>4, <3>1, <3>2
  <2> QED
    BY <2>1, <2>3, <2>4 DEF Accounted
<1>5. CASE Kill \/ PowerLoss
  <2>1. /\ pc' = "down" /\ freed' = 0 /\ pending' = 0 /\ last' = NoUse
        /\ (held' = held \/ held' = 0) /\ mode' = mode
        /\ (mode = "auto" /\ ~misread' => ~(held > 0))
    BY <1>5 DEF Kill, PowerLoss, Down, outsideVars
  <2>2. ReclaimKnown'
    <3> SUFFICES ASSUME mode = "auto", ~misread' PROVE held' <= 0 + 0
      BY <2>1 DEF ReclaimKnown
    <3>1. held = 0 /\ 0 <= 0 + 0
      BY <1>1, <2>1
    <3>2. held' = 0
      BY <2>1, <3>1
    <3> QED
      BY <3>1, <3>2
  <2> QED
    BY <2>1, <2>2 DEF Accounted, PassCounts, InPass
<1>6. CASE Start
  <2>1. UNCHANGED <<mode, held, pending, last, freed, misread>> /\ pc = "down" /\ pc' = "run"
    BY <1>6 DEF Start, outsideVars, passVars, historyVars
  <2>2. last = NoUse
    BY <2>1 DEF Accounted
  <2> QED
    BY <1>0, <2>1, <2>2 DEF Accounted, ReclaimKnown, PassCounts, InPass
<1> QED
  BY <1>2, <1>3, <1>4, <1>5, <1>6

\* A removal that is credited once leaves the accounts right: a is credited, and
\* h, l and c are what is held, stored and counted after it (enforce).
LEMMA CreditSums ==
    ASSUME TreeInv, Accounted, pc \in InPass,
           NEW a \in Nat, NEW h \in Nat, NEW l \in Nat, NEW c \in Nat,
           h + freed <= held + a, Live + freed <= l + a, Counted + freed <= c + a
    PROVE  /\ mode = "auto" /\ ~misread =>
                 h <= (pending + a) + 0 /\ (last # NoUse => last <= l + (pending + a) + 0)
           /\ mode = "fixed" /\ ~shrunk => Minus(current, a) <= c + 0
           /\ mode # "fixed" /\ ~shrunk /\ ~misread => Minus(current, a) <= l + 0
<1>1. TypeOK /\ ReclaimKnown /\ PassCounts
  BY DEF TreeInv, Accounted
<1>2. /\ held \in Nat /\ pending \in Nat /\ freed \in Nat /\ current \in Nat
      /\ last \in Nat \cup {NoUse}
  BY <1>1 DEF TypeOK
<1>3. Live \in Nat /\ Counted \in Nat
  BY <1>1, PartsLemma, CountedLemma DEF Parts
<1>4. ASSUME mode = "auto", ~misread
      PROVE  h <= (pending + a) + 0 /\ (last # NoUse => last <= l + (pending + a) + 0)
  <2>1. held <= pending + freed /\ (last # NoUse => last <= Live + pending + freed)
    BY <1>1, <1>4 DEF ReclaimKnown
  <2> QED
    BY <1>2, <1>3, <2>1
<1>5. \A n \in Nat : current <= n + a => Minus(current, a) <= n + 0
  BY <1>2 DEF Minus
<1>6. ASSUME mode = "fixed", ~shrunk PROVE Minus(current, a) <= c + 0
  <2>1. current <= Counted + freed
    BY <1>1, <1>6 DEF PassCounts
  <2>2. current <= c + a
    BY <1>2, <1>3, <2>1
  <2> QED
    BY <1>5, <2>2
<1>7. ASSUME mode # "fixed", ~shrunk, ~misread PROVE Minus(current, a) <= l + 0
  <2>1. current <= Live + freed
    BY <1>1, <1>7 DEF PassCounts
  <2>2. current <= l + a
    BY <1>2, <1>3, <2>1
  <2> QED
    BY <1>5, <2>2
<1> QED
  BY <1>4, <1>6, <1>7

\* A step of a pass that frees no more than it credits keeps the account.
LEMMA CreditKept ==
    ASSUME TreeInv, Accounted, pc \in InPass,
           NEW a \in Nat, NEW h \in Nat, NEW l \in Nat, NEW c \in Nat, NEW counted,
           h + freed <= held + a, Live + freed <= l + a, Counted + freed <= c + a,
           h = held', l = Live', c = Counted',
           Credit(a, counted), freed' = 0, UNCHANGED <<mode, last, shrunk, misread>>
    PROVE  Accounted'
<1>1. /\ pending' = IF mode = "auto" THEN pending + a ELSE pending
      /\ current' = Minus(current, a) /\ pc' = "remove"
  BY DEF Credit
<1>2. /\ mode = "auto" /\ ~misread =>
            h <= (pending + a) + 0 /\ (last # NoUse => last <= l + (pending + a) + 0)
      /\ mode = "fixed" /\ ~shrunk => Minus(current, a) <= c + 0
      /\ mode # "fixed" /\ ~shrunk /\ ~misread => Minus(current, a) <= l + 0
  BY CreditSums
<1>3. ReclaimKnown'
  BY <1>1, <1>2 DEF ReclaimKnown
<1>4. PassCounts'
  BY <1>1, <1>2 DEF PassCounts
<1> QED
  BY <1>1, <1>3, <1>4 DEF Accounted

\* An index is unlinked when its segment has gone.
LEMMA GoneLemma ==
    ASSUME TypeOK, PassInOrder, RemoveOrphan \/ RemoveItsIndex
    PROVE  Head(todo).id \notin zms
<1>1. CASE RemoveOrphan
  <2>1. pc = "remove" /\ todo # <<>> /\ Head(todo).kind = "orphan"
    BY <1>1 DEF RemoveOrphan, Removing
  <2>2. /\ todo \in Seq(CandidateRecords)
        /\ \A n \in DOMAIN todo : todo[n].kind = "orphan" => todo[n].id \notin zms
    BY <2>1 DEF PassInOrder, InOrder
  <2>3. 1 \in DOMAIN todo /\ Head(todo) = todo[1]
    BY <2>1, <2>2
  <2> QED
    BY <2>1, <2>2, <2>3
<1>2. CASE RemoveItsIndex
  <2>1. \A s \in zms : s > Head(todo).id
    BY <1>2 DEF RemoveItsIndex, PassInOrder
  <2>2. Head(todo).id \in Int
    BY <1>2, SizesAssumption DEF RemoveItsIndex, PassInOrder, Segments
  <2> QED
    BY <2>1, <2>2
<1> QED
  BY <1>1, <1>2

\* Steps of a removal: what is unlinked is still counted until it is credited,
\* and the index of a segment that has gone is counted with it.
LEMMA RemovalStep ==
    ASSUME TreeInv, TypeOK', Accounted,
           RemoveTemporary \/ RemoveOrphan \/ RemoveSegment \/ RemoveItsIndex
    PROVE  Accounted'
<1>0. /\ TypeOK /\ Parts /\ ReclaimKnown /\ PassCounts /\ PassInOrder
      /\ freed = IF pc = "pair" THEN ZmsSize ELSE 0
  BY PartsLemma DEF TreeInv, Accounted
<1>1. /\ held \in Nat /\ pending \in Nat /\ freed \in Nat /\ journal \in Nat /\ others \in Nat
      /\ current \in Nat /\ last \in Nat \cup {NoUse} /\ held' \in Nat
  BY <1>0, SizesAssumption DEF TypeOK
<1>2. IdxSize \in Nat /\ TempSize \in Nat /\ ZmsSize \in Nat
  BY SizesAssumption
<1>3. UNCHANGED <<mode, lost, journal, others, web, last, shrunk, misread>> /\ pc \in InPass
  BY DEF RemoveTemporary, RemoveOrphan, RemoveSegment, RemoveItsIndex, Removing, InPass,
         outsideVars, counterVars, historyVars
<1>4. PICK z \in Nat, i \in Nat, k \in Nat, t \in Nat, p \in Nat, l \in Nat, c \in Nat, h \in Nat :
          /\ z = ZmsBytes' /\ i = IdxBytes' /\ k = KeptIdxBytes' /\ t = TempBytes' /\ p = PairIndex'
          /\ l = Live' /\ c = Counted' /\ h = held'
  <2>1. PairIndex' \in Nat
    BY <1>2 DEF PairIndex
  <2> QED
    BY <1>1, <2>1, PartsAfter, CountedAfter DEF Parts
<1>5. /\ l = z + i + t + WebBytes + journal + others
      /\ c = z + k + t + WebBytes + journal + p
  <2>1. WebBytes' = WebBytes
    BY <1>3 DEF WebBytes, WebTemps
  <2>2. Live' = z + i + t + WebBytes + journal + others
    BY <1>3, <1>4, <2>1, PartsAfter DEF Parts
  <2>3. Counted' = z + k + t + WebBytes + journal + p
    BY <1>3, <1>4, <2>1, PartsAfter DEF Parts, Counted
  <2> QED
    BY <1>4, <2>2, <2>3
<1>6. /\ Live = ZmsBytes + IdxBytes + TempBytes + WebBytes + journal + others
      /\ Counted = ZmsBytes + KeptIdxBytes + TempBytes + WebBytes + journal + PairIndex
      /\ ZmsBytes \in Nat /\ IdxBytes \in Nat /\ KeptIdxBytes \in Nat /\ TempBytes \in Nat
      /\ WebBytes \in Nat /\ PairIndex \in Nat
      /\ IsFiniteSet(zms) /\ IsFiniteSet(idx) /\ IsFiniteSet(idx \cap zms)
  BY <1>0, <1>2 DEF Parts, Counted, PairIndex
<1>7. CASE RemoveTemporary
  <2>1. /\ UNCHANGED <<zms, idx, held, freed>> /\ Credit(TempSize, TRUE)
        /\ temp' = FALSE /\ pc = "remove" /\ pc' = "remove"
    BY <1>7 DEF RemoveTemporary, Removing, Credit, outsideVars
  <2>2. z = ZmsBytes /\ i = IdxBytes /\ k = KeptIdxBytes /\ t = 0 /\ p = 0 /\ PairIndex = 0 /\ h = held
    BY <1>4, <2>1 DEF ZmsBytes, IdxBytes, KeptIdxBytes, TempBytes, PairIndex
  <2>3. TempBytes <= TempSize
    BY <1>2 DEF TempBytes
  <2>4. freed = 0 /\ freed' = 0
    BY <1>0, <2>1
  <2>5. h + freed <= held + TempSize /\ Live + freed <= l + TempSize /\ Counted + freed <= c + TempSize
    BY <1>1, <1>2, <1>5, <1>6, <2>2, <2>3, <2>4
  <2> QED
    BY <1>2, <1>3, <1>4, <2>1, <2>4, <2>5, CreditKept
<1>8. CASE RemoveOrphan \/ RemoveItsIndex
  <2> DEFINE id == Head(todo).id
             bytes == IF id \in idx THEN IdxSize ELSE 0
  <2>1. /\ zms' = zms /\ temp' = temp /\ idx' = idx \ {id} /\ Unlinked(bytes) /\ freed' = 0
        /\ \E counted \in BOOLEAN : Credit(freed + bytes, counted)
    <3>1. bytes \in Nat
      BY <1>2
    <3>2. CASE RemoveOrphan
      <4>1. freed = 0 /\ freed + bytes = bytes
        BY <1>0, <3>1, <3>2 DEF RemoveOrphan, Removing
      <4> QED
        BY <3>2, <4>1 DEF RemoveOrphan
    <3>3. CASE RemoveItsIndex
      BY <3>3 DEF RemoveItsIndex
    <3> QED
      BY <1>8, <3>2, <3>3
  <2>2. id \notin zms
    BY <1>0, <1>8, GoneLemma
  <2>3. bytes \in Nat /\ (id \in idx => bytes = IdxSize) /\ (id \notin idx => bytes = 0)
    BY <1>2
  <2>4. PairIndex <= bytes
    BY <1>2 DEF PairIndex
  <2> HIDE DEF id, bytes
  <2>5. i = IdxBytes - bytes
    <3>1. /\ id \in idx => IdxSize * Cardinality(idx \ {id}) = IdxBytes - IdxSize
          /\ id \notin idx => IdxSize * Cardinality(idx \ {id}) = IdxBytes
      BY <1>2, <1>6, OneMore DEF IdxBytes
    <3>2. i = IdxSize * Cardinality(idx \ {id})
      BY <1>4, <2>1 DEF IdxBytes
    <3> QED
      BY <1>6, <2>3, <3>1, <3>2
  <2>6. k = KeptIdxBytes
    <3>1. idx' \cap zms' = idx \cap zms
      BY <2>1, <2>2
    <3> QED
      BY <1>4, <3>1 DEF KeptIdxBytes
  <2>7. z = ZmsBytes /\ t = TempBytes /\ p = 0
    BY <1>4, <2>1 DEF ZmsBytes, TempBytes, PairIndex, Credit
  <2>8. h <= held + bytes
    <3>1. h = held \/ h = held + bytes
      BY <1>4, <2>1 DEF Unlinked
    <3> QED
      BY <1>1, <2>3, <3>1
  <2> DEFINE a == freed + bytes
  <2>9. a \in Nat /\ h + freed <= held + a /\ Live + freed <= l + a /\ Counted + freed <= c + a
    BY <1>1, <1>2, <1>5, <1>6, <2>3, <2>4, <2>5, <2>6, <2>7, <2>8
  <2>10. PICK counted : Credit(a, counted)
    BY <2>1
  <2> HIDE DEF a
  <2> QED
    BY <1>3, <1>4, <2>1, <2>9, <2>10, CreditKept
<1>9. CASE RemoveSegment
  <2> DEFINE id == Head(todo).id
  <2>1. /\ zms' = zms \ {id} /\ UNCHANGED <<temp, idx, pending, todo, current>>
        /\ freed' = ZmsSize /\ Unlinked(ZmsSize) /\ pc = "remove" /\ pc' = "pair"
    BY <1>9 DEF RemoveSegment, Removing, counterVars
  <2>2. id \in zms
    <3>1. InOrder(todo, zms, next) /\ todo # <<>> /\ Head(todo).kind = "segment"
      BY <1>0, <1>9 DEF PassInOrder, RemoveSegment, Removing
    <3>2. zms \in SUBSET Int
      BY <1>0, SizesAssumption DEF TypeOK, Segments
    <3> QED
      BY <3>1, <3>2, TailInOrderWithout
  <2>3. z = ZmsBytes - ZmsSize
    <3>1. ZmsSize * Cardinality(zms \ {id}) = ZmsBytes - ZmsSize
      BY <1>2, <1>6, <2>2, OneMore DEF ZmsBytes
    <3> QED
      BY <1>4, <2>1, <3>1 DEF ZmsBytes
  <2>4. i = IdxBytes /\ t = TempBytes /\ PairIndex = 0 /\ freed = 0
    BY <1>0, <1>4, <2>1 DEF IdxBytes, TempBytes, PairIndex
  <2>5. k + p = KeptIdxBytes
    <3>1. p = IF id \in idx THEN IdxSize ELSE 0
      BY <1>4, <2>1 DEF PairIndex
    <3> DEFINE S == idx \cap zms
    <3>2. idx' \cap zms' = S \ {id} /\ (id \in S <=> id \in idx)
      BY <2>1, <2>2
    <3> HIDE DEF id, S
    <3>3. IsFiniteSet(S) /\ KeptIdxBytes = IdxSize * Cardinality(S)
      BY <1>6 DEF KeptIdxBytes, S
    <3>4. k = IdxSize * Cardinality(S \ {id})
      BY <1>4, <3>2 DEF KeptIdxBytes
    <3>5. /\ id \in S => IdxSize * Cardinality(S \ {id}) = KeptIdxBytes - IdxSize
          /\ id \notin S => IdxSize * Cardinality(S \ {id}) = KeptIdxBytes
      BY <1>2, <3>3, OneMore
    <3> QED
      BY <1>2, <1>6, <3>1, <3>2, <3>4, <3>5
  <2>6. Live = l + ZmsSize /\ Counted = c + ZmsSize
    BY <1>1, <1>2, <1>5, <1>6, <2>3, <2>4, <2>5
  <2>7. h <= held + ZmsSize
    <3>1. h = held \/ h = held + ZmsSize
      BY <1>4, <2>1 DEF Unlinked
    <3> QED
      BY <1>1, <1>2, <3>1
  <2>8. ReclaimKnown'
    <3> SUFFICES ASSUME mode = "auto", ~misread
                 PROVE  h <= pending + ZmsSize /\ (last # NoUse => last <= l + pending + ZmsSize)
      BY <1>3, <1>4, <2>1 DEF ReclaimKnown
    <3>1. held <= pending + 0 /\ (last # NoUse => last <= Live + pending + 0)
      BY <1>0, <2>4 DEF ReclaimKnown
    <3> QED
      BY <1>1, <1>2, <2>6, <2>7, <3>1
  <2>9. PassCounts'
    <3> SUFFICES ASSUME ~shrunk
                 PROVE  IF mode = "fixed" THEN current <= c + ZmsSize ELSE misread \/ current <= l + ZmsSize
      BY <1>3, <1>4, <2>1 DEF PassCounts
    <3>1. IF mode = "fixed" THEN current <= Counted + 0 ELSE misread \/ current <= Live + 0
      BY <1>0, <1>3, <2>4 DEF PassCounts
    <3>2. Counted + 0 = c + ZmsSize /\ Live + 0 = l + ZmsSize
      BY <1>2, <2>6
    <3> QED
      BY <3>1, <3>2
  <2> QED
    BY <2>1, <2>8, <2>9 DEF Accounted
<1> QED
  BY <1>7, <1>8, <1>9

-----------------------------------------------------------------------------
(* The theorems. *)

\* The account holds at the start.
LEMMA InitAccounted == Init => Accounted
  BY DEF Init, Accounted, ReclaimKnown, PassCounts, InPass, NoUse

\* A step keeps the account of a pass.
LEMMA AccountedStep ==
    ASSUME TreeInv, Accounted, [Next]_vars
    PROVE  Accounted'
<1>1. TypeOK'
  BY TypeStep
<1> QED
  BY <1>1, OutsideStep, CollectorStep, RemovalStep DEF Next, Pass

\* Both invariants hold of the specification.
LEMMA Invariance == Spec => [](TreeInv /\ Accounted)
<1>1. Init => TreeInv /\ Accounted
  BY InitTree, InitAccounted
<1>2. TreeInv /\ Accounted /\ [Next]_vars => (TreeInv /\ Accounted)'
  BY TreeStep, AccountedStep
<1> QED
  BY <1>1, <1>2, PTL DEF Spec

\* The variables keep their values' sets, for any number of segments, sizes,
\* target and faults.
THEOREM TypesAreKept == Spec => []TypeOK
<1>1. TreeInv => TypeOK
  BY DEF TreeInv
<1> QED
  BY <1>1, Invariance, PTL

\* What is retained is the newest part of the history without a gap, whatever
\* removals failed or were cut short (deletion_candidates, enforce).
THEOREM TheNewestIsKept == Spec => []NewestHistoryKept
<1>1. TreeInv => NewestHistoryKept
  BY DEF TreeInv
<1> QED
  BY <1>1, Invariance, PTL

\* A segment in place never loses its index to retention: what a pass unlinks is
\* the index of no segment (remove_finished_segment, remove_orphan_index).
THEOREM LiveIndexesStay == Spec => LiveSegmentKeepsIndex
<1> DEFINE Kept == \A id \in idx \cap zms : id \in zms' => id \in idx'
<1>1. TreeInv /\ [Next]_vars => [Kept]_vars
  <2> SUFFICES ASSUME TreeInv, [Next]_vars PROVE Kept
    OBVIOUS
  <2>0. TypeOK /\ PassInOrder
    BY DEF TreeInv
  <2>1. CASE UNCHANGED vars
    BY <2>1 DEF vars, treeVars
  <2>2. CASE RemoveOrphan \/ RemoveItsIndex
    <3>1. idx' = idx \ {Head(todo).id} /\ zms' = zms
      BY <2>2 DEF RemoveOrphan, RemoveItsIndex
    <3>2. Head(todo).id \notin zms
      BY <2>0, <2>2, GoneLemma
    <3> QED
      BY <3>1, <3>2
  <2>3. CASE Publish \/ EnforceBegins \/ Scan \/ RemoveTemporary \/ RemoveSegment \/ PowerLoss \/ Start
    BY <2>3 DEF Publish, EnforceBegins, Scan, RemoveTemporary, RemoveSegment, PowerLoss, Start, treeVars
  <2>4. CASE PublishIndex
    BY <2>4 DEF PublishIndex
  <2>5. CASE \/ AppendJournal \/ PublishFails \/ Minute \/ Hour \/ Tick \/ EndPass \/ EnforceFails
             \/ RemoveFails \/ BuildIndex \/ ConfirmSource \/ AbandonIndex \/ KillWeb \/ CloseFiles
             \/ OthersChange \/ Kill
    BY <2>5 DEF AppendJournal, PublishFails, Minute, Hour, Tick, EndPass, EnforceFails, RemoveFails,
                BuildIndex, ConfirmSource, AbandonIndex, KillWeb, CloseFiles, OthersChange, Kill, treeVars
  <2> QED
    BY <2>1, <2>2, <2>3, <2>4, <2>5 DEF Next, Pass
<1> QED
  BY <1>1, Invariance, PTL DEF Spec, LiveSegmentKeepsIndex

\* A segment is removed only while what is stored exceeds the target, in both
\* modes: a stale counter, failed removals and bytes that readers hold make no
\* pass remove more (usage, reconcile_pending_reclaim, enforce).
THEOREM RemovalsAreNeeded == Spec => NoNeedlessRemoval
<1> DEFINE Needed == RemoveSegment => Need > Target \/ shrunk \/ misread
<1>1. TreeInv /\ Accounted /\ [Next]_vars => [Needed]_vars
  <2> SUFFICES ASSUME TreeInv, Accounted, RemoveSegment, ~shrunk, ~misread PROVE Need > Target
    OBVIOUS
  <2>1. pc = "remove" /\ current > Target
    BY DEF RemoveSegment, Removing
  <2>2. freed = 0 /\ PairIndex = 0 /\ PassCounts
    BY <2>1 DEF Accounted, PairIndex
  <2>3. TypeOK /\ Parts
    BY PartsLemma DEF TreeInv
  <2>4. Countable \in Nat /\ journal \in Nat /\ Live \in Nat /\ current \in Nat /\ Target \in Nat
    BY <2>3, SizesAssumption DEF Parts, TypeOK
  <2>5. CASE mode = "fixed"
    <3>1. current <= Countable + journal + 0 + 0
      BY <2>1, <2>2, <2>5 DEF PassCounts, Counted, InPass
    <3> QED
      BY <2>1, <2>4, <2>5, <3>1 DEF Need
  <2>6. CASE mode # "fixed"
    <3>1. current <= Live + 0
      BY <2>1, <2>2, <2>6 DEF PassCounts, InPass
    <3> QED
      BY <2>1, <2>4, <2>6, <3>1 DEF Need
  <2> QED
    BY <2>5, <2>6
<1> QED
  BY <1>1, Invariance, PTL DEF Spec, NoNeedlessRemoval
=============================================================================
