------------------------- MODULE MessageFetchProofs -------------------------
(***************************************************************************)
(* One poll over one IMAP session, for every size of the UIDs, the search  *)
(* windows, the limit of a poll and the batches, and any number of faults: *)
(* the search is exact, emails are handed over in UID order, the cursor    *)
(* passes none that is not confirmed, and no connection is left half made. *)
(*                                                                         *)
(* FetchInv is the inductive invariant.  The lemmas come in the order of a *)
(* poll: the operators, the server, Connect, the search, the fetch loops   *)
(* and the end of the poll.                                                *)
(***************************************************************************)
EXTENDS MessageFetch, TLAPS

\* The place of a number in a set of naturals, from 0.
Rank(S, u) == Cardinality({v \in S : v < u})

\* What the lemmas use of the size of a bounded set: its members are ranked from 0
\* without a gap.  BoundedSetsAreRanked, in the last section, proves it.
RankFacts ==
    \A n \in Nat : \A S \in SUBSET (0 .. n) :
       /\ Cardinality(S) \in Nat
       /\ \A u \in S : Rank(S, u) \in 0 .. Cardinality(S) - 1
       /\ \A u, w \in S : u < w => Rank(S, u) < Rank(S, w)
       /\ \A k \in 0 .. Cardinality(S) - 1 : \E u \in S : Rank(S, u) = k

\* The members of a bounded set in ascending order, each once.
LEMMA SortedFacts ==
    ASSUME RankFacts, NEW b \in Nat, NEW S \in SUBSET (0 .. b)
    PROVE  /\ Sorted(S) \in Seq(S)
           /\ Ascends(Sorted(S))
           /\ Range(Sorted(S)) = S
<1> DEFINE N == Cardinality(S)
<1>1. N \in Nat
  BY Zenon DEF RankFacts
<1>2. ASSUME NEW u \in S PROVE Rank(S, u) \in 0 .. N - 1
  BY Zenon DEF RankFacts
<1>3. ASSUME NEW u \in S, NEW w \in S, u < w PROVE Rank(S, u) < Rank(S, w)
  BY <1>3, Zenon DEF RankFacts
<1>5. ASSUME NEW k \in 0 .. N - 1 PROVE \E u \in S : Rank(S, u) = k
  BY Zenon DEF RankFacts
<1> HIDE DEF N
<1>6. ASSUME NEW n \in 1 .. N
      PROVE  /\ Sorted(S)[n] \in S
             /\ Rank(S, Sorted(S)[n]) = n - 1
  <2>1. n - 1 \in 0 .. N - 1
    BY <1>1
  <2>2. \E u \in S : Rank(S, u) = n - 1
    BY <1>5, <2>1
  <2>3. Sorted(S)[n] = CHOOSE u \in S : Rank(S, u) = n - 1
    BY Zenon DEF Sorted, Rank, N
  <2> QED  BY <2>2, <2>3
<1>7. DOMAIN Sorted(S) = 1 .. N
  BY DEF Sorted, N
<1>8. Sorted(S) \in Seq(S)
  <2>1. Sorted(S) \in [1 .. N -> S]
    BY <1>6, Zenon DEF Sorted, N
  <2> QED  BY <1>1, <2>1
<1>9. Ascends(Sorted(S))
  <2> SUFFICES ASSUME NEW i \in 1 .. N, NEW j \in 1 .. N, i < j
              PROVE  Sorted(S)[i] < Sorted(S)[j]
    BY <1>7 DEF Ascends
  <2> DEFINE u == Sorted(S)[i]
              w == Sorted(S)[j]
  <2>1. u \in S /\ w \in S /\ Rank(S, u) = i - 1 /\ Rank(S, w) = j - 1
    BY <1>6
  <2> HIDE DEF u, w
  <2>2. u \in Nat /\ w \in Nat /\ i \in Nat /\ j \in Nat
    BY <2>1, <1>1
  <2>3. ~(Rank(S, w) < Rank(S, u)) /\ Rank(S, u) # Rank(S, w)
    BY <2>1, <2>2
  <2>4. ~(w < u) /\ u # w
    BY <1>3, <2>1, <2>3
  <2>5. u < w
    BY <2>2, <2>4
  <2> QED  BY <2>5 DEF u, w
<1>10. Range(Sorted(S)) = S
  <2>1. Range(Sorted(S)) \subseteq S
    BY <1>6, <1>7 DEF Range
  <2>2. ASSUME NEW u \in S PROVE u \in Range(Sorted(S))
    <3>1. Rank(S, u) \in 0 .. N - 1
      BY <1>2, Zenon
    <3>2. Rank(S, u) + 1 \in 1 .. N /\ (Rank(S, u) + 1) - 1 = Rank(S, u)
      BY <1>1, <3>1
    <3> DEFINE n == Rank(S, u) + 1
    <3> HIDE DEF n
    <3>3. n \in 1 .. N /\ n - 1 = Rank(S, u)
      BY <3>2 DEF n
    <3>4. Sorted(S)[n] \in S /\ Rank(S, Sorted(S)[n]) = Rank(S, u)
      BY <1>6, <3>3
    <3>5. Sorted(S)[n] = u
      <4> DEFINE w == Sorted(S)[n]
      <4> HIDE DEF w
      <4>1. w \in S /\ Rank(S, w) = Rank(S, u) /\ Rank(S, w) \in Int
        BY <3>1, <3>4 DEF w
      <4>2. ~(u < w) /\ ~(w < u)
        BY <1>3, <4>1
      <4>3. u \in Nat /\ w \in Nat
        BY <4>1
      <4>4. u = w
        BY <4>2, <4>3
      <4> QED  BY <4>4 DEF w
    <3> QED  BY <1>7, <3>3, <3>5 DEF Range
  <2> QED  BY <2>1, <2>2, Zenon
<1> QED  BY <1>8, <1>9, <1>10

\* A bounded set of naturals with a member has a greatest one.
LEMMA MaxFacts ==
    ASSUME RankFacts, NEW b \in Nat, NEW S \in SUBSET (0 .. b), S # {}
    PROVE  Max(S) \in S /\ \A y \in S : y <= Max(S)
<1> DEFINE s == Sorted(S)
<1>1. s \in Seq(S) /\ Ascends(s) /\ Range(s) = S
  BY SortedFacts, Zenon
<1> HIDE DEF s
<1>2. Len(s) \in Nat /\ DOMAIN s = 1 .. Len(s)
  BY <1>1
<1>3. Len(s) # 0
  BY <1>1, <1>2 DEF Range
<1>4. Len(s) \in DOMAIN s
  BY <1>2, <1>3
<1>5. s[Len(s)] \in S /\ \A y \in S : y \in Nat
  <2>1. \A y \in S : y \in Nat
    BY SMT
  <2> QED  BY <1>1, <1>4, <2>1, Zenon DEF Range
<1>6. ASSUME NEW y \in S PROVE s[Len(s)] >= y
  <2>1. PICK i \in DOMAIN s : y = s[i]
    BY <1>1 DEF Range
  <2>2. i < Len(s) \/ i = Len(s)
    BY <1>2
  <2>3. i < Len(s) => s[i] < s[Len(s)]
    BY <1>1, <1>4 DEF Ascends
  <2>4. y \in Nat /\ s[Len(s)] \in Nat
    BY <1>5, Zenon
  <2> QED  BY <2>1, <2>2, <2>3, <2>4
<1>7. Max(S) \in S /\ \A y \in S : Max(S) >= y
  BY <1>5, <1>6, Zenon DEF Max
<1> QED  BY <1>7

\* The lesser of two numbers.
LEMMA MinFacts ==
    ASSUME NEW a \in Nat, NEW b \in Nat
    PROVE  Min({a, b}) \in Nat /\ Min({a, b}) <= a /\ Min({a, b}) <= b /\ Min({a, b}) \in {a, b}
<1>1. \E x \in {a, b} : \A y \in {a, b} : x <= y
  OBVIOUS
<1>2. Min({a, b}) \in {a, b} /\ \A y \in {a, b} : Min({a, b}) <= y
  BY <1>1 DEF Min
<1> QED  BY <1>2

\* The words and limits of the code.
LEMMA Constants ==
    /\ MaxUID \in Nat /\ MaxUID # 0 /\ WindowSize \in Nat /\ WindowSize # 0
    /\ MaxMessagesPerPoll \in Nat /\ MaxMessagesPerPoll # 0
    /\ FetchBatchSize \in Nat /\ FetchBatchSize # 0
    /\ MaxArrivals \in Nat /\ MaxExpunged \in Nat /\ MaxFaults \in Nat
    /\ Uids \in SUBSET Nat /\ Uids \subseteq 0 .. MaxUID
    /\ \A u \in Uids : u \in Nat /\ u # 0 /\ u <= MaxUID
<1>1. /\ MaxUID \in Nat /\ MaxUID # 0 /\ WindowSize \in Nat /\ WindowSize # 0
      /\ MaxMessagesPerPoll \in Nat /\ MaxMessagesPerPoll # 0
      /\ FetchBatchSize \in Nat /\ FetchBatchSize # 0
      /\ MaxArrivals \in Nat /\ MaxExpunged \in Nat /\ MaxFaults \in Nat
  BY FetchAssumption
<1>2. /\ Uids \in SUBSET Nat
      /\ \A u \in Uids : u \in Nat /\ u # 0 /\ u <= MaxUID
  BY <1>1 DEF Uids
<1>3. Uids \subseteq 0 .. MaxUID
  BY <1>1 DEF Uids
<1> QED  BY <1>1, <1>2, <1>3

\* A sequence of UIDs.
LEMMA UidSeq ==
    ASSUME NEW s \in Seq(Uids)
    PROVE  /\ Len(s) \in Nat /\ DOMAIN s = 1 .. Len(s)
           /\ \A n \in DOMAIN s : s[n] \in Uids /\ s[n] \in Nat
           /\ Range(s) \subseteq Uids
           /\ s = <<>> <=> Len(s) = 0
           /\ s = <<>> <=> Range(s) = {}
<1>1. Len(s) \in Nat /\ DOMAIN s = 1 .. Len(s) /\ s \in [1 .. Len(s) -> Uids]
  OBVIOUS
<1>2. \A n \in DOMAIN s : s[n] \in Uids /\ s[n] \in Nat
  BY <1>1, Constants, Zenon
<1>3. s = <<>> <=> Len(s) = 0
  OBVIOUS
<1>4. s = <<>> <=> Range(s) = {}
  <2>1. DOMAIN s = {} <=> Len(s) = 0
    <3>1. Len(s) = 0 => 1 .. Len(s) = {}
      BY SMT
    <3>2. Len(s) # 0 => 1 \in 1 .. Len(s)
      BY <1>1, SMT
    <3> QED  BY <1>1, <3>1, <3>2
  <2>2. Range(s) = {} <=> DOMAIN s = {}
    BY DEF Range
  <2> QED  BY <1>3, <2>1, <2>2
<1> QED  BY <1>1, <1>2, <1>3, <1>4, Zenon DEF Range

\* A sequence cut after its k-th element.
LEMMA CutFacts ==
    ASSUME NEW s \in Seq(Uids), NEW k \in Nat, k <= Len(s)
    PROVE  LET p == SubSeq(s, 1, k)
               q == SubSeq(s, k + 1, Len(s)) IN
           /\ p \in Seq(Uids) /\ Len(p) = k /\ \A i \in 1 .. k : p[i] = s[i]
           /\ q \in Seq(Uids) /\ Len(q) = Len(s) - k /\ \A i \in 1 .. Len(s) - k : q[i] = s[k + i]
           /\ Range(s) = Range(p) \cup Range(q)
           /\ Ascends(s) => Ascends(p) /\ Ascends(q) /\ Before(p, q)
<1> DEFINE p == SubSeq(s, 1, k)
           q == SubSeq(s, k + 1, Len(s))
<1>1. Len(s) \in Nat /\ DOMAIN s = 1 .. Len(s) /\ \A n \in DOMAIN s : s[n] \in Uids
  BY UidSeq
<1>2. p \in Seq(Uids) /\ Len(p) = k /\ \A i \in 1 .. k : p[i] = s[i]
  <2>1. 1 \in Int /\ k \in Int /\ \A i \in 1 .. k : s[i] \in Uids
    BY <1>1
  <2>2. /\ p \in Seq(Uids) /\ Len(p) = IF 1 <= k THEN k - 1 + 1 ELSE 0
        /\ \A i \in 1 .. k - 1 + 1 : p[i] = s[1 + i - 1]
    BY <1>1, <2>1, SMT
  <2>3. (IF 1 <= k THEN k - 1 + 1 ELSE 0) = k /\ k - 1 + 1 = k /\ \A i \in 1 .. k : 1 + i - 1 = i
    OBVIOUS
  <2> HIDE DEF p
  <2> QED  BY <2>2, <2>3
<1>3. q \in Seq(Uids) /\ Len(q) = Len(s) - k /\ \A i \in 1 .. Len(s) - k : q[i] = s[k + i]
  <2>1. k + 1 \in Int /\ Len(s) \in Int /\ \A i \in k + 1 .. Len(s) : s[i] \in Uids
    BY <1>1
  <2>2. /\ q \in Seq(Uids) /\ Len(q) = IF k + 1 <= Len(s) THEN Len(s) - (k + 1) + 1 ELSE 0
        /\ \A i \in 1 .. Len(s) - (k + 1) + 1 : q[i] = s[(k + 1) + i - 1]
    BY <1>1, <2>1, SMT
  <2>3. /\ (IF k + 1 <= Len(s) THEN Len(s) - (k + 1) + 1 ELSE 0) = Len(s) - k
        /\ Len(s) - (k + 1) + 1 = Len(s) - k
        /\ \A i \in 1 .. Len(s) - k : (k + 1) + i - 1 = k + i
    <3>1. PICK n : n = Len(s) /\ n \in Nat /\ k <= n
      BY <1>1
    <3>2. (IF k + 1 <= n THEN n - (k + 1) + 1 ELSE 0) = n - k /\ n - (k + 1) + 1 = n - k
      BY <3>1
    <3>3. \A i \in 1 .. n - k : (k + 1) + i - 1 = k + i
      BY <3>1
    <3> QED  BY <3>1, <3>2, <3>3
  <2> HIDE DEF q
  <2> QED  BY <2>2, <2>3, Zenon
<1> HIDE DEF p, q
<1>4. DOMAIN p = 1 .. k /\ DOMAIN q = 1 .. Len(s) - k
  BY <1>2, <1>3, UidSeq
<1>5. Range(s) = Range(p) \cup Range(q)
  <2>1. ASSUME NEW i \in DOMAIN s PROVE s[i] \in Range(p) \cup Range(q)
    <3>1. CASE i <= k
      <4>1. i \in 1 .. k
        BY <1>1, <3>1
      <4> QED  BY <4>1, <1>2, <1>4 DEF Range
    <3>2. CASE ~(i <= k)
      <4>1. i - k \in 1 .. Len(s) - k /\ k + (i - k) = i
        BY <1>1, <3>2
      <4> QED  BY <4>1, <1>3, <1>4 DEF Range
    <3> QED  BY <3>1, <3>2
  <2>2. ASSUME NEW i \in 1 .. k PROVE p[i] \in Range(s)
    <3>1. i \in DOMAIN s
      BY <1>1
    <3> QED  BY <3>1, <1>2 DEF Range
  <2>3. ASSUME NEW i \in 1 .. Len(s) - k PROVE q[i] \in Range(s)
    <3>1. k + i \in DOMAIN s
      BY <1>1
    <3> QED  BY <3>1, <1>3, Zenon DEF Range
  <2> QED  BY <2>1, <2>2, <2>3, <1>4, Zenon DEF Range
<1>6. ASSUME Ascends(s) PROVE Ascends(p) /\ Ascends(q) /\ Before(p, q)
  <2>1. Ascends(p)
    <3> SUFFICES ASSUME NEW i \in 1 .. k, NEW j \in 1 .. k, i < j PROVE p[i] < p[j]
      BY <1>4 DEF Ascends
    <3>1. i \in DOMAIN s /\ j \in DOMAIN s
      BY <1>1
    <3> QED  BY <3>1, <1>2, <1>6 DEF Ascends
  <2>2. Ascends(q)
    <3> SUFFICES ASSUME NEW i \in 1 .. Len(s) - k, NEW j \in 1 .. Len(s) - k, i < j PROVE q[i] < q[j]
      BY <1>4 DEF Ascends
    <3>1. k + i \in DOMAIN s /\ k + j \in DOMAIN s /\ k + i < k + j
      BY <1>1
    <3>2. q[i] = s[k + i] /\ q[j] = s[k + j]
      BY <1>3
    <3>3. s[k + i] < s[k + j]
      BY <3>1, <1>6 DEF Ascends
    <3> QED  BY <3>2, <3>3
  <2>3. Before(p, q)
    <3> SUFFICES ASSUME NEW i \in 1 .. k, NEW j \in 1 .. Len(s) - k PROVE p[i] < q[j]
      BY <1>4 DEF Before
    <3>1. i \in DOMAIN s /\ k + j \in DOMAIN s /\ i < k + j
      BY <1>1
    <3>2. p[i] = s[i] /\ q[j] = s[k + j]
      BY <1>2, <1>3
    <3>3. s[i] < s[k + j]
      BY <3>1, <1>6 DEF Ascends
    <3> QED  BY <3>2, <3>3
  <2> QED  BY <2>1, <2>2, <2>3
<1> QED  BY <1>2, <1>3, <1>5, <1>6 DEF p, q

\* The UIDs that recover passes on keep their order.
LEMMA FreshFacts ==
    ASSUME RankFacts, NEW s \in Seq(Uids), NEW read, Ascends(s)
    PROVE  /\ fresh(s, read) \in Seq(Uids)
           /\ Ascends(fresh(s, read))
           /\ Range(fresh(s, read)) = Range(s) \ read
<1> DEFINE I == {n \in DOMAIN s : s[n] \notin read}
           k == Sorted(I)
           t == fresh(s, read)
<1>1. Len(s) \in Nat /\ DOMAIN s = 1 .. Len(s) /\ \A n \in DOMAIN s : s[n] \in Uids
  BY UidSeq
<1>2. I \in SUBSET (0 .. Len(s)) /\ Len(s) \in Nat
  BY <1>1
<1>3. k \in Seq(I) /\ Ascends(k) /\ Range(k) = I
  <2> HIDE DEF I
  <2> QED  BY <1>2, SortedFacts, Zenon
<1>4. t = [m \in DOMAIN k |-> s[k[m]]]
  BY DEF fresh
<1> HIDE DEF k, t
<1>5. Len(k) \in Nat /\ DOMAIN k = 1 .. Len(k) /\ \A m \in DOMAIN k : k[m] \in I
  <2> HIDE DEF I
  <2> QED  BY <1>3
<1>6. t \in Seq(Uids)
  <2>1. t \in [1 .. Len(k) -> Uids]
    BY <1>1, <1>4, <1>5
  <2> QED  BY <1>5, <2>1
<1>7. Ascends(t)
  BY <1>3, <1>4, <1>5, <1>1 DEF Ascends
<1>8. Range(t) = Range(s) \ read
  <2>1. ASSUME NEW m \in DOMAIN k PROVE t[m] \in Range(s) \ read
    BY <1>4, <1>5 DEF Range
  <2>2. ASSUME NEW n \in DOMAIN s, s[n] \notin read PROVE s[n] \in Range(t)
    <3>1. PICK m \in DOMAIN k : k[m] = n
      BY <1>3, <2>2 DEF Range
    <3> QED  BY <1>4, <3>1 DEF Range
  <2>3. DOMAIN t = DOMAIN k
    BY <1>4
  <2> QED  BY <2>1, <2>2, <2>3 DEF Range
<1> QED  BY <1>6, <1>7, <1>8 DEF t

\* Appending what comes later.
LEMMA JoinFacts ==
    ASSUME NEW s \in Seq(Uids), NEW t \in Seq(Uids)
    PROVE  /\ s \o t \in Seq(Uids)
           /\ Range(s \o t) = Range(s) \cup Range(t)
           /\ Ascends(s) /\ Ascends(t) /\ Before(s, t) => Ascends(s \o t)
<1> DEFINE r == s \o t
<1>1. /\ Len(s) \in Nat /\ DOMAIN s = 1 .. Len(s) /\ Len(t) \in Nat /\ DOMAIN t = 1 .. Len(t)
  BY UidSeq
<1>2. /\ r \in Seq(Uids) /\ Len(r) = Len(s) + Len(t)
      /\ \A i \in 1 .. Len(s) + Len(t) : r[i] = IF i <= Len(s) THEN s[i] ELSE t[i - Len(s)]
  BY <1>1, SMT
<1> HIDE DEF r
<1>3. DOMAIN r = 1 .. Len(s) + Len(t)
  BY <1>2, UidSeq
<1>4. ASSUME NEW i \in DOMAIN r
      PROVE  \/ i \in DOMAIN s /\ r[i] = s[i]
             \/ i > Len(s) /\ i - Len(s) \in DOMAIN t /\ r[i] = t[i - Len(s)]
  BY <1>1, <1>2, <1>3
<1>5. Range(r) = Range(s) \cup Range(t)
  <2>1. ASSUME NEW i \in DOMAIN s PROVE s[i] \in Range(r)
    <3>1. i \in DOMAIN r /\ i <= Len(s) /\ i \in 1 .. Len(s) + Len(t)
      BY <1>1, <1>3
    <3>2. r[i] = s[i]
      BY <1>2, <3>1
    <3> QED  BY <3>1, <3>2 DEF Range
  <2>2. ASSUME NEW i \in DOMAIN t PROVE t[i] \in Range(r)
    <3>1. Len(s) + i \in 1 .. Len(s) + Len(t) /\ ~(Len(s) + i <= Len(s)) /\ (Len(s) + i) - Len(s) = i
      BY <1>1
    <3>2. r[Len(s) + i] = t[i]
      BY <1>2, <3>1
    <3> QED  BY <1>3, <3>1, <3>2 DEF Range
  <2>3. ASSUME NEW i \in DOMAIN r PROVE r[i] \in Range(s) \cup Range(t)
    BY <1>4 DEF Range
  <2> QED  BY <2>1, <2>2, <2>3 DEF Range
<1>6. ASSUME Ascends(s), Ascends(t), Before(s, t) PROVE Ascends(r)
  <2> SUFFICES ASSUME NEW i \in DOMAIN r, NEW j \in DOMAIN r, i < j PROVE r[i] < r[j]
    BY DEF Ascends
  <2>1. i \in Nat /\ j \in Nat
    BY <1>1, <1>3
  <2>2. CASE j \in DOMAIN s /\ r[j] = s[j]
    <3>1. i \in DOMAIN s /\ ~(i > Len(s))
      BY <1>1, <2>1, <2>2, <1>3
    <3>2. r[i] = s[i]
      BY <1>4, <3>1
    <3> QED  BY <2>2, <3>1, <3>2, <1>6 DEF Ascends
  <2>3. CASE j > Len(s) /\ j - Len(s) \in DOMAIN t /\ r[j] = t[j - Len(s)]
    <3>1. CASE i \in DOMAIN s /\ r[i] = s[i]
      BY <2>3, <3>1, <1>6 DEF Before
    <3>2. CASE i > Len(s) /\ i - Len(s) \in DOMAIN t /\ r[i] = t[i - Len(s)]
      <4>1. i - Len(s) < j - Len(s)
        BY <1>1, <2>1
      <4> QED  BY <2>3, <3>2, <4>1, <1>6 DEF Ascends
    <3> QED  BY <1>4, <3>1, <3>2
  <2> QED  BY <1>4, <2>2, <2>3
<1> QED  BY <1>2, <1>5, <1>6 DEF r

-----------------------------------------------------------------------------
(* The server.                                                             *)

\* Two sequences of UIDs, and the sets of the model.
LEMMA TypeFacts ==
    ASSUME TypeOK
    PROVE  /\ mail \subseteq Uids /\ \A u \in mail : u \in Nat
           /\ uidNext \in Nat /\ lastUID \in Nat /\ toUID \in Nat /\ bound \in Nat
           /\ start \in Nat /\ to \in Nat /\ to <= MaxUID
           /\ Searched \subseteq mail
<1>1. mail \in SUBSET Uids
  BY DEF TypeOK
<1>3. \A u \in mail : u \in Nat
  BY <1>1, Constants
<1>4. /\ uidNext \in Nat /\ lastUID \in Nat /\ toUID \in Nat /\ bound \in Nat
      /\ start \in Nat /\ to \in Nat /\ to <= MaxUID
  BY Constants DEF TypeOK
<1>5. Searched \subseteq mail
  BY DEF Searched
<1> QED  BY <1>1, <1>3, <1>4, <1>5

\* A step of the server: the mailbox gains only the next UID, and a FETCH loses
\* only answers for emails that are gone.
LEMMA ServerInv ==
    ASSUME FetchInv, TypeOK', uidNext <= uidNext',
           \A u \in mail' : u \in mail \/ u = uidNext,
           \A u \in mail' : u < uidNext',
           f'.batch = f.batch, f'.seen = f.seen, f'.next = f.next,
           f'.fallbackAt = f.fallbackAt, f'.readErr = f.readErr,
           f.pending \cap mail' \subseteq f'.pending,
           UNCHANGED <<old, stage, cursorVars, searchVars, pollVars, pc, rest, confirmed>>
    PROVE  FetchInv'
<1> USE DEF cursorVars, searchVars, pollVars
<1>1. /\ TypeOK /\ BelowNext /\ StageInv /\ BlankInv /\ SearchInv /\ RequestInv
      /\ HandledInv /\ DeliverInv /\ BatchInv /\ CursorCovers
  BY DEF FetchInv
<1>2. /\ uidNext \in Nat /\ lastUID \in Nat /\ toUID \in Nat /\ bound \in Nat
      /\ start \in Nat /\ to \in Nat
  BY <1>1, TypeFacts
<1>2a. uidNext' \in Nat
  BY TypeFacts, Constants, SMT DEF TypeOK
<1>3. \A u \in Searched' : u \in Searched \/ u = uidNext
  BY DEF Searched
<1>4. /\ found \in Seq(Uids) /\ requested \in Seq(Uids) /\ left \in Seq(Uids) /\ rest \in Seq(Uids)
      /\ f \in FetchState /\ f.batch \in Seq(Uids)
  BY <1>1, Zenon DEF TypeOK, FetchState
<1>5. Range(requested) \cap mail' \subseteq Range(requested) \cap mail
  <2>1. ASSUME NEW n \in DOMAIN requested PROVE requested[n] # uidNext
    <3>1. requested[n] < uidNext /\ requested[n] \in Nat
      BY <1>1, <1>4, UidSeq DEF BelowNext
    <3> QED  BY <1>2, <3>1
  <2> QED  BY <2>1 DEF Range
<1>6. BelowNext'
  <2>1. /\ lastUID < uidNext' /\ toUID < uidNext' /\ bound < uidNext'
    BY <1>1, <1>2, <1>2a DEF BelowNext
  <2>2. \A n \in DOMAIN found : found[n] < uidNext'
    <3>1. \A n \in DOMAIN found : found[n] < uidNext /\ found[n] \in Nat
      BY <1>1, <1>4, UidSeq DEF BelowNext
    <3> QED  BY <1>2, <1>2a, <3>1
  <2>3. \A n \in DOMAIN requested : requested[n] < uidNext'
    <3>1. \A n \in DOMAIN requested : requested[n] < uidNext /\ requested[n] \in Nat
      BY <1>1, <1>4, UidSeq DEF BelowNext
    <3> QED  BY <1>2, <1>2a, <3>1
  <2> QED  BY <2>1, <2>2, <2>3, Zenon DEF BelowNext
<1>7. StageInv' /\ BlankInv' /\ HandledInv'
  BY <1>1, Zenon DEF StageInv, BlankInv, HandledInv
<1>8. SearchInv'
  <2> SUFFICES ASSUME pc = "search" PROVE SearchInv'
    BY DEF SearchInv
  <2>1. start <= uidNext'
    BY <1>1, <1>2, <1>2a DEF SearchInv
  <2>2. ASSUME NEW u \in Searched', lastUID < u, u < start PROVE u \in Range(found)
    <3>1. u # uidNext
      BY <1>1, <1>2, <2>2 DEF SearchInv
    <3> QED  BY <1>1, <1>3, <2>2, <3>1 DEF SearchInv
  <2> QED  BY <1>1, <2>1, <2>2, Zenon DEF SearchInv
<1>9. RequestInv'
  <2> SUFFICES ASSUME Fetching \/ pc = "done" PROVE RequestInv'
    BY DEF RequestInv, Fetching
  <2>1. ASSUME NEW u \in Searched', NEW n \in DOMAIN requested, lastUID < u, u <= requested[n]
        PROVE  u \in Range(requested)
    <3>1. requested[n] < uidNext /\ requested[n] \in Nat
      BY <1>1, <1>4, UidSeq DEF BelowNext
    <3>2. u # uidNext
      BY <1>2, <2>1, <3>1
    <3> QED  BY <1>1, <1>3, <2>1, <3>2 DEF RequestInv
  <2>2. ASSUME ~more, ~imapErr, NEW u \in Searched', lastUID < u,
               u <= (IF toUID # 0 THEN toUID ELSE bound)
        PROVE  u \in Range(requested)
    <3>1. u # uidNext
      BY <1>1, <1>2, <2>2 DEF BelowNext
    <3> QED  BY <1>1, <1>3, <2>2, <3>1 DEF RequestInv
  <2> QED  BY <1>1, <2>1, <2>2, Zenon DEF RequestInv, Fetching
<1>10. Todo' = Todo
  BY DEF Todo
<1>11. DeliverInv'
  BY <1>1, <1>5, <1>10, Zenon DEF DeliverInv
<1>12. BatchInv'
  <2> SUFFICES ASSUME pc = "batch" PROVE BatchInv'
    BY DEF BatchInv
  <2>1. ASSUME NEW n \in DOMAIN f.batch PROVE f.batch[n] \in mail' => f.batch[n] \in mail
    <3>1. f.batch[n] \in Range(requested)
      BY <1>1, <2>1, Zenon DEF DeliverInv, Todo, Range
    <3> QED  BY <1>5, <3>1
  <2> QED  BY <1>1, <2>1, Zenon DEF BatchInv
<1>13. CursorCovers'
  <2>1. ~(uidNext <= lastUID)
    BY <1>1, <1>2 DEF BelowNext
  <2> QED  BY <1>1, <2>1, Zenon DEF CursorCovers
<1> QED  BY <1>6, <1>7, <1>8, <1>9, <1>11, <1>12, <1>13, Zenon DEF FetchInv

\* A fault is one of the MaxFaults.
LEMMA FaultType ==
    ASSUME TypeOK, Fault
    PROVE  faults' \in 0 .. MaxFaults
BY Constants DEF TypeOK, Fault

\* An answer is no longer expected: the rest of the loop is as it was.
LEMMA DropPending ==
    ASSUME NEW g \in FetchState, NEW u
    PROVE  LET h == [g EXCEPT !.pending = @ \ {u}] IN
           /\ h \in FetchState /\ h.pending = g.pending \ {u}
           /\ h.batch = g.batch /\ h.seen = g.seen /\ h.next = g.next
           /\ h.fallbackAt = g.fallbackAt /\ h.readErr = g.readErr
BY SMT DEF FetchState

\* An email arrives during a poll.
LEMMA ArriveInv ==
    ASSUME FetchInv, Arrive
    PROVE  FetchInv'
<1>1. TypeOK /\ BelowNext
  BY DEF FetchInv
<1>2. uidNext \in Nat /\ \A u \in mail : u \in Nat /\ u < uidNext
  BY <1>1, TypeFacts DEF BelowNext
<1>3. TypeOK'
  BY <1>1, Constants DEF TypeOK, Arrive, Uids, connVars, cursorVars, searchVars, pollVars
<1>4. uidNext <= uidNext' /\ \A u \in mail' : u < uidNext'
  BY <1>2 DEF Arrive
<1>5. /\ \A u \in mail' : u \in mail \/ u = uidNext
      /\ f' = f
      /\ UNCHANGED <<old, stage, cursorVars, searchVars, pollVars, pc, rest, confirmed>>
  BY Zenon DEF Arrive, connVars
<1> QED  BY <1>3, <1>4, <1>5, ServerInv, Zenon

\* An email is expunged, also in the middle of a FETCH.
LEMMA ExpungeInv ==
    ASSUME FetchInv, NEW u \in mail, Expunge(u)
    PROVE  FetchInv'
<1>1. TypeOK /\ BelowNext
  BY DEF FetchInv
<1>2. f \in FetchState
  BY <1>1 DEF TypeOK
<1>3. /\ f' \in FetchState
      /\ f'.batch = f.batch /\ f'.seen = f.seen /\ f'.next = f.next
      /\ f'.fallbackAt = f.fallbackAt /\ f'.readErr = f.readErr
      /\ f.pending \ {u} \subseteq f'.pending
  <2> DEFINE h == [f EXCEPT !.pending = @ \ {u}]
  <2>1. /\ h \in FetchState /\ h.pending = f.pending \ {u}
        /\ h.batch = f.batch /\ h.seen = f.seen /\ h.next = f.next
        /\ h.fallbackAt = f.fallbackAt /\ h.readErr = f.readErr
    BY <1>2, DropPending
  <2>2. f' \in {f, h}
    BY DEF Expunge
  <2> HIDE DEF h
  <2> QED  BY <1>2, <2>1, <2>2, Zenon
<1>4. mail' = mail \ {u} /\ uidNext' = uidNext
  BY DEF Expunge
<1>5. TypeOK'
  <2>1. expunged' \in 0 .. MaxExpunged
    <3>1. expunged \in 0 .. MaxExpunged /\ expunged < MaxExpunged /\ expunged' = expunged + 1
      BY <1>1, Zenon DEF TypeOK, Expunge
    <3> QED  BY <3>1, Constants, SMT
  <2>2. mail' \subseteq Uids
    BY <1>1, <1>4 DEF TypeOK
  <2>3. /\ UNCHANGED <<uidNext, reports, old, arrivals, stage, sequentialFetch, lastUID, toUID>>
        /\ UNCHANGED <<start, to, found, bound, requested, more, left, handled, handlerErr, imapErr, given>>
        /\ UNCHANGED <<pc, rest, confirmed, faults>>
    BY Zenon DEF Expunge, connVars, cursorVars, searchVars, pollVars
  <2> QED
    BY <1>1, <1>3, <2>1, <2>2, <2>3, Zenon DEF TypeOK
<1>6. uidNext <= uidNext'
  BY <1>1, <1>4, TypeFacts
<1>7. /\ \A v \in mail' : v \in mail \/ v = uidNext
      /\ \A v \in mail' : v < uidNext'
      /\ f.pending \cap mail' \subseteq f'.pending
  BY <1>1, <1>3, <1>4, Zenon DEF BelowNext
<1>8. UNCHANGED <<old, stage, cursorVars, searchVars, pollVars, pc, rest, confirmed>>
  BY Zenon DEF Expunge, connVars
<1> QED  BY <1>3, <1>5, <1>6, <1>7, <1>8, ServerInv, Zenon

\* Until EXAMINE, a poll has only its connection.
LEMMA ConnectInv ==
    ASSUME FetchInv, StageInv', faults' \in 0 .. MaxFaults,
           pc \in {"idle", "dial", "starttls", "auth", "examine"},
           pc' \in {"idle", "dial", "starttls", "auth", "examine"},
           stage' \in {"closed", "plain", "secure", "ready"}, sequentialFetch' \in BOOLEAN,
           UNCHANGED <<serverVars, cursorVars, searchVars, pollVars, f, rest, confirmed>>
    PROVE  FetchInv'
<1> USE DEF serverVars, cursorVars, searchVars, pollVars
<1>1. /\ TypeOK /\ BelowNext /\ StageInv /\ BlankInv /\ SearchInv /\ RequestInv
      /\ HandledInv /\ DeliverInv /\ BatchInv /\ CursorCovers
  BY DEF FetchInv
<1>2. pc' \in Steps
  BY DEF Steps
<1>3. TypeOK'
  BY <1>1, <1>2, Zenon DEF TypeOK
<1>4. BelowNext' /\ HandledInv' /\ CursorCovers'
  BY <1>1, Zenon DEF BelowNext, HandledInv, CursorCovers
<1>5. /\ pc \notin {"dates", "deliver", "batch", "single", "done"}
      /\ pc' \notin {"dates", "deliver", "batch", "single", "done", "search"}
  OBVIOUS
<1>6. BlankInv'
  BY <1>1, <1>5, Zenon DEF BlankInv
<1>7. SearchInv' /\ RequestInv' /\ DeliverInv' /\ BatchInv'
  BY <1>5, Zenon DEF SearchInv, RequestInv, DeliverInv, BatchInv, Fetching
<1> QED  BY <1>3, <1>4, <1>6, <1>7 DEF FetchInv

\* session(): the kept session is used again or dropped.
LEMMA PollInv ==
    ASSUME FetchInv, Poll
    PROVE  FetchInv'
<1>1. TypeOK
  BY DEF FetchInv
<1>2. faults' \in 0 .. MaxFaults
  BY <1>1, FaultType DEF Poll, TypeOK
<1>3. /\ pc = "idle" /\ pc' \in {"dial", "examine"} /\ StageInv'
      /\ stage' \in {"closed", "ready"} /\ sequentialFetch' \in BOOLEAN
  BY <1>1, Zenon DEF Poll, Goto, StageInv, connVars, TypeOK
<1> QED  BY <1>2, <1>3, ConnectInv DEF Poll

\* Connect dials, with TLS or in the plain.
LEMMA DialInv ==
    ASSUME FetchInv, NEW security \in {"tls", "starttls"}, Dial(security)
    PROVE  FetchInv'
<1>1. TypeOK
  BY DEF FetchInv
<1>2. faults' \in 0 .. MaxFaults
  BY <1>1, FaultType DEF Dial, TypeOK
<1>3. /\ pc = "dial" /\ pc' \in {"idle", "starttls", "auth"} /\ StageInv'
      /\ stage' \in {"closed", "plain", "secure"} /\ sequentialFetch' \in BOOLEAN
  BY <1>1, Zenon DEF Dial, AfterDial, Abandon, Goto, StageInv, TypeOK
<1> QED  BY <1>2, <1>3, ConnectInv DEF Dial

\* The plain connection is secured.
LEMMA StartTLSInv ==
    ASSUME FetchInv, StartTLS
    PROVE  FetchInv'
<1>1. TypeOK
  BY DEF FetchInv
<1>2. faults' \in 0 .. MaxFaults
  BY <1>1, FaultType DEF StartTLS, TypeOK
<1>3. /\ pc = "starttls" /\ pc' \in {"idle", "auth"} /\ StageInv'
      /\ stage' \in {"closed", "secure"} /\ sequentialFetch' \in BOOLEAN
  BY <1>1, Zenon DEF StartTLS, Abandon, Goto, StageInv, TypeOK
<1> QED  BY <1>2, <1>3, ConnectInv DEF StartTLS

\* The login.
LEMMA AuthenticateInv ==
    ASSUME FetchInv, Authenticate
    PROVE  FetchInv'
<1>1. TypeOK
  BY DEF FetchInv
<1>2. faults' \in 0 .. MaxFaults
  BY <1>1, FaultType DEF Authenticate, TypeOK
<1>3. /\ pc = "auth" /\ pc' \in {"idle", "examine"} /\ StageInv'
      /\ stage' \in {"closed", "ready"} /\ sequentialFetch' \in BOOLEAN
  BY <1>1, Zenon DEF Authenticate, Abandon, Goto, StageInv, TypeOK
<1> QED  BY <1>2, <1>3, ConnectInv DEF Authenticate

-----------------------------------------------------------------------------
(* EXAMINE and the search.                                                 *)

\* The empty sequence.
LEMMA EmptyFacts ==
    /\ <<>> \in Seq(Uids) /\ DOMAIN <<>> = {} /\ Range(<<>>) = {}
    /\ Ascends(<<>>) /\ Len(<<>>) = 0
<1>1. <<>> \in Seq(Uids) /\ Len(<<>>) = 0
  OBVIOUS
<1>2. DOMAIN <<>> = {}
  BY <1>1, UidSeq, SMT
<1> QED  BY <1>1, <1>2 DEF Range, Ascends

\* EXAMINE sets the range of the search.
LEMMA ExamineInv ==
    ASSUME FetchInv, Examine
    PROVE  FetchInv'
<1>1. /\ TypeOK /\ BelowNext /\ StageInv /\ BlankInv /\ HandledInv /\ CursorCovers
  BY DEF FetchInv
<1>2. CASE Fault /\ Abandon /\ UNCHANGED searchVars
  <2>1. /\ pc = "examine" /\ pc' = "idle" /\ stage' = "closed" /\ sequentialFetch' = FALSE
        /\ UNCHANGED <<serverVars, cursorVars, searchVars, pollVars, f, rest, confirmed>>
    BY <1>2, Zenon DEF Examine, Abandon, Goto
  <2>2. faults' \in 0 .. MaxFaults /\ StageInv'
    BY <1>1, <1>2, <2>1, FaultType DEF StageInv
  <2> QED  BY <2>1, <2>2, ConnectInv, Zenon
<1>3. CASE /\ bound' = uidNext - 1
           /\ to' = IF toUID # 0 THEN toUID ELSE lastSearchableUID
           /\ found' = <<>>
           /\ IF lastUID = MaxUID \/ (toUID # 0 /\ lastUID >= toUID)
              THEN start' = 0 /\ Goto("done")
              ELSE start' = lastUID + 1 /\ Goto("search")
           /\ UNCHANGED <<connVars, faults>>
  <2>1. /\ uidNext \in Nat /\ lastUID \in Nat /\ toUID \in Nat
        /\ uidNext \in 1 .. MaxUID + 1 /\ lastUID \in 0 .. MaxUID /\ toUID \in 0 .. MaxUID
        /\ reports \in BOOLEAN /\ lastUID < uidNext
    BY <1>1, TypeFacts DEF TypeOK, BelowNext
  <2>2. /\ pc = "examine"
        /\ UNCHANGED <<mail, uidNext, reports, old, arrivals, expunged, lastUID, toUID>>
        /\ UNCHANGED <<requested, more, left, handled, handlerErr, imapErr, given>>
        /\ UNCHANGED <<f, rest, confirmed, stage, sequentialFetch, faults>>
    BY <1>3, Zenon DEF Examine, serverVars, cursorVars, pollVars, connVars
  <2>3. /\ requested = <<>> /\ handled = {} /\ given = {}
        /\ ~more /\ ~handlerErr /\ ~imapErr
    BY <1>1, <2>2 DEF BlankInv
  <2>4. bound' \in 0 .. MaxUID /\ bound' < uidNext
    BY <1>3, <2>1, Constants
  <2>5. lastSearchableUID \in {0, bound'}
    BY <1>3, <2>1 DEF lastSearchableUID, UIDNext
  <2>6. to' \in 0 .. MaxUID /\ IF toUID # 0 THEN to' = toUID ELSE to' \in {0, bound'}
    BY <1>3, <2>1, <2>4, <2>5, Constants
  <2>7. \/ pc' = "done" /\ start' = 0 /\ (lastUID = MaxUID \/ (toUID # 0 /\ lastUID >= toUID))
        \/ pc' = "search" /\ start' = lastUID + 1 /\ lastUID # MaxUID
    BY <1>3 DEF Goto
  <2>8. start' \in 0 .. MaxUID
    BY <2>1, <2>7, Constants
  <2>9. pc' \in Steps
    BY <2>7 DEF Steps
  <2>10. found' = <<>>
    BY <1>3
  <2>11. TypeOK'
    BY <1>1, <2>2, <2>4, <2>6, <2>8, <2>9, <2>10, EmptyFacts, Zenon DEF TypeOK
  <2>12. BelowNext'
    BY <1>1, <2>2, <2>4, <2>10, EmptyFacts, Zenon DEF BelowNext
  <2>13. StageInv' /\ BlankInv' /\ HandledInv' /\ CursorCovers'
    BY <1>1, <2>2, <2>3, <2>7 DEF StageInv, BlankInv, HandledInv, CursorCovers
  <2>14. SearchInv'
    <3> SUFFICES ASSUME pc' = "search" PROVE SearchInv'
      BY Zenon DEF SearchInv
    <3>1. start' = lastUID + 1 /\ lastUID < start' /\ start' <= uidNext
      BY <2>1, <2>7
    <3>2. ASSUME NEW u \in Searched', lastUID < u, u < start' PROVE FALSE
      <4>1. u \in Nat
        BY <1>1, <2>2, TypeFacts, Zenon DEF Searched
      <4> QED  BY <2>1, <3>1, <3>2, <4>1
    <3> QED  BY <2>2, <2>6, <2>10, <3>1, <3>2, EmptyFacts, Zenon DEF SearchInv
  <2>15. RequestInv'
    <3> SUFFICES ASSUME pc' = "done" PROVE RequestInv'
      BY <2>7, Zenon DEF RequestInv, Fetching
    <3>1. ASSUME NEW u \in Searched', lastUID < u, u <= (IF toUID # 0 THEN toUID ELSE bound') PROVE FALSE
      <4>1. u \in Nat /\ u <= MaxUID
        BY <1>1, <2>2, TypeFacts, Constants, Zenon DEF Searched
      <4> QED  BY <2>1, <2>7, <3>1, <4>1
    <3> QED  BY <2>2, <2>3, <3>1, EmptyFacts, Zenon DEF RequestInv, Fetching
  <2>16. DeliverInv' /\ BatchInv'
    <3>1. Range(requested)' = {}
      BY <2>2, <2>3, EmptyFacts
    <3> QED  BY <2>7, <3>1, Zenon DEF DeliverInv, BatchInv
  <2> QED  BY <2>11, <2>12, <2>13, <2>14, <2>15, <2>16 DEF FetchInv
<1> QED  BY <1>2, <1>3 DEF Examine

\* A window starts where it should and ends within the range: the sum may wrap.
LEMMA WindowFacts ==
    ASSUME TypeOK, start <= to
    PROVE  WindowEnd(start) \in Nat /\ start <= WindowEnd(start) /\ WindowEnd(start) <= to
<1>1. start \in Nat /\ to \in Nat
  BY TypeFacts
<1>2. (start + WindowSize - 1) % (MaxUID + 1) \in Nat
  BY <1>1, Constants
<1> QED  BY <1>1, <1>2 DEF WindowEnd

\* What one SEARCH returns.
LEMMA RangeFacts ==
    ASSUME RankFacts, TypeOK, NEW from \in Nat, NEW last \in Nat
    PROVE  LET r == SearchUIDsRange(from, last) IN
           /\ r \in Seq(Uids) /\ Ascends(r)
           /\ Range(r) = {u \in Searched : u >= from /\ (last # 0 => u <= last)}
<1> DEFINE answer == IF last = 0 THEN {u \in Searched : u >= from \/ u = Max(mail)}
                                 ELSE {u \in Searched : u \in from .. last}
           A == {u \in answer : u >= from /\ (last # 0 => u <= last)}
           B == {u \in Searched : u >= from /\ (last # 0 => u <= last)}
<1>1. Searched \subseteq Uids /\ \A u \in Searched : u \in Nat
  BY TypeFacts
<1>2. A = B
  <2>1. CASE last = 0
    BY <2>1
  <2>2. CASE last # 0
    <3>1. \A u \in Searched : u \in from .. last <=> u >= from /\ u <= last
      BY <1>1
    <3> QED  BY <2>2, <3>1, Zenon
  <2> QED  BY <2>1, <2>2
<1>3. SearchUIDsRange(from, last) = Sorted(B)
  <2>1. SearchUIDsRange(from, last) = Sorted(A)
    BY Zenon DEF SearchUIDsRange
  <2> HIDE DEF A, B
  <2> QED  BY <1>2, <2>1
<1>4. B \in SUBSET Uids /\ B \in SUBSET Nat
  BY <1>1
<1> HIDE DEF B
<1>5. B \in SUBSET (0 .. MaxUID) /\ MaxUID \in Nat
  BY <1>4, Constants
<1>6. Sorted(B) \in Seq(B) /\ Ascends(Sorted(B)) /\ Range(Sorted(B)) = B
  BY <1>5, SortedFacts, Zenon
<1>7. Sorted(B) \in Seq(Uids)
  <2> DEFINE s == Sorted(B)
  <2>1. s \in Seq(B)
    BY <1>6
  <2> HIDE DEF s
  <2>2. Len(s) \in Nat /\ s \in [1 .. Len(s) -> B]
    BY <2>1
  <2>3. s \in [1 .. Len(s) -> Uids]
    BY <1>4, <2>2, Zenon
  <2>4. s \in Seq(Uids)
    BY <2>2, <2>3
  <2> QED  BY <2>4 DEF s
<1> QED  BY <1>3, <1>6, <1>7 DEF B

\* A prefix of an ascending sequence that skips no member of Q skips none either.
LEMMA PrefixFacts ==
    ASSUME NEW s \in Seq(Uids), Ascends(s), NEW k \in Nat, k <= Len(s), NEW Q, NEW low,
           \A u \in Q, n \in DOMAIN s : low < u /\ u <= s[n] => u \in Range(s),
           \A n \in DOMAIN s : low < s[n]
    PROVE  LET p == SubSeq(s, 1, k) IN
           /\ p \in Seq(Uids) /\ Len(p) = k /\ Ascends(p)
           /\ \A n \in DOMAIN p : n \in DOMAIN s /\ p[n] = s[n]
           /\ \A u \in Q, n \in DOMAIN p : low < u /\ u <= p[n] => u \in Range(p)
           /\ k = Len(s) => Range(p) = Range(s)
<1> DEFINE p == SubSeq(s, 1, k)
           q == SubSeq(s, k + 1, Len(s))
<1>1. /\ p \in Seq(Uids) /\ Len(p) = k /\ \A i \in 1 .. k : p[i] = s[i]
      /\ q \in Seq(Uids) /\ Len(q) = Len(s) - k
      /\ Range(s) = Range(p) \cup Range(q)
      /\ Ascends(p)
  BY CutFacts
<1> HIDE DEF p, q
<1>2. /\ Len(s) \in Nat /\ DOMAIN s = 1 .. Len(s) /\ \A n \in DOMAIN s : s[n] \in Nat
  BY UidSeq
<1>3. DOMAIN p = 1 .. k
  BY <1>1, UidSeq
<1>4. ASSUME NEW n \in DOMAIN p PROVE n \in DOMAIN s /\ p[n] = s[n]
  BY <1>1, <1>2, <1>3
<1>5. ASSUME NEW u \in Q, NEW n \in DOMAIN p, low < u, u <= p[n] PROVE u \in Range(p)
  <2>1. n \in DOMAIN s /\ p[n] = s[n]
    BY <1>4
  <2>2. u \in Range(s)
    BY <1>5, <2>1
  <2>3. PICK m \in DOMAIN s : u = s[m]
    BY <2>2 DEF Range
  <2>4. ~(n < m)
    <3> SUFFICES ASSUME n < m PROVE FALSE
      OBVIOUS
    <3>1. s[n] < s[m] /\ s[m] <= s[n] /\ s[m] \in Nat /\ s[n] \in Nat
      BY <1>2, <1>5, <2>1, <2>3 DEF Ascends
    <3> QED  BY <3>1
  <2>5. m \in DOMAIN p
    BY <1>2, <1>3, <2>1, <2>3, <2>4
  <2>6. p[m] = u
    BY <1>4, <2>3, <2>5
  <2> QED  BY <2>5, <2>6 DEF Range
<1>6. ASSUME k = Len(s) PROVE Range(p) = Range(s)
  <2>1. Len(q) = 0
    BY <1>1, <1>2, <1>6
  <2>2. Range(q) = {}
    BY <1>1, <2>1, UidSeq, Zenon
  <2> QED  BY <1>1, <2>2
<1> QED  BY <1>1, <1>4, <1>5, <1>6 DEF p

\* The poll requests a prefix of what it found.
LEMMA RequestStep ==
    ASSUME FetchInv, pc = "search", NEW all \in Seq(Uids), Ascends(all),
           \A n \in DOMAIN all : lastUID < all[n] /\ all[n] < uidNext,
           \A u \in Searched, n \in DOMAIN all : lastUID < u /\ u <= all[n] => u \in Range(all),
           Len(all) <= MaxMessagesPerPoll =>
               \A u \in Searched : lastUID < u /\ u <= (IF toUID # 0 THEN toUID ELSE bound) => u \in Range(all),
           Request(all), found' \in Seq(Uids), \A n \in DOMAIN found' : found'[n] < uidNext,
           UNCHANGED <<serverVars, connVars, cursorVars, start, to, bound, f, rest, confirmed, faults>>
    PROVE  FetchInv'
<1>1. /\ TypeOK /\ BelowNext /\ StageInv /\ BlankInv /\ HandledInv /\ CursorCovers
  BY DEF FetchInv
<1> DEFINE k == Min({Len(all), MaxMessagesPerPoll})
           p == SubSeq(all, 1, k)
<1>2. Len(all) \in Nat
  BY UidSeq
<1>3. k \in Nat /\ k <= Len(all) /\ k \in {Len(all), MaxMessagesPerPoll} /\ k <= MaxMessagesPerPoll
  BY <1>2, MinFacts, Constants
<1> HIDE DEF k
<1>4. /\ p \in Seq(Uids) /\ Len(p) = k /\ Ascends(p)
      /\ \A n \in DOMAIN p : n \in DOMAIN all /\ p[n] = all[n]
      /\ \A u \in Searched, n \in DOMAIN p : lastUID < u /\ u <= p[n] => u \in Range(p)
      /\ k = Len(all) => Range(p) = Range(all)
  BY <1>3, PrefixFacts, Zenon
<1>5. /\ more' = (Len(all) > MaxMessagesPerPoll) /\ requested' = p /\ left' = p
      /\ pc' = (IF toUID = 0 THEN "deliver" ELSE IF p = <<>> THEN "done" ELSE "dates")
      /\ UNCHANGED <<handled, handlerErr, imapErr, given>>
  BY DEF Request, Goto, k
<1> HIDE DEF p
<1>6. /\ UNCHANGED <<mail, uidNext, reports, old, arrivals, expunged, lastUID, toUID>>
      /\ UNCHANGED <<stage, sequentialFetch, start, to, bound, f, rest, confirmed, faults>>
  BY Zenon DEF serverVars, cursorVars, connVars
<1>7. handled = {} /\ given = {} /\ ~handlerErr /\ ~imapErr
  BY <1>1 DEF BlankInv
<1>8. pc' \in {"deliver", "done", "dates"} /\ (pc' = "done" => p = <<>>)
  BY <1>5
<1>9. TypeOK'
  <2>1. pc' \in Steps /\ more' \in BOOLEAN
    BY <1>5, <1>8 DEF Steps
  <2> QED  BY <1>1, <1>4, <1>5, <1>6, <2>1, Zenon DEF TypeOK
<1>10. BelowNext'
  <2>1. \A n \in DOMAIN requested' : requested'[n] < uidNext
    BY <1>4, <1>5, Zenon
  <2> QED  BY <1>1, <1>6, <2>1, Zenon DEF BelowNext
<1>11. StageInv' /\ BlankInv' /\ HandledInv' /\ CursorCovers' /\ SearchInv'
  BY <1>1, <1>5, <1>6, <1>8 DEF StageInv, BlankInv, HandledInv, CursorCovers, SearchInv
<1>12. RequestInv'
  <2>1. Searched' = Searched
    BY <1>6 DEF Searched
  <2>2. \A n \in DOMAIN p : lastUID < p[n]
    BY <1>4, Zenon
  <2>3. ASSUME ~more'
        PROVE  \A u \in Searched : lastUID < u /\ u <= (IF toUID # 0 THEN toUID ELSE bound) => u \in Range(p)
    <3>0. ~(Len(all) > MaxMessagesPerPoll)
      BY <1>5, <2>3, Zenon
    <3>1. Len(all) <= MaxMessagesPerPoll /\ k = Len(all)
      BY <1>2, <1>3, <3>0, Constants, SMT
    <3> QED  BY <1>4, <3>1, Zenon
  <2>4. more' => p # <<>>
    <3>1. ASSUME more' PROVE Len(p) # 0
      <4>1. Len(all) > MaxMessagesPerPoll
        BY <1>5, <3>1, Zenon
      <4> QED  BY <1>2, <1>3, <1>4, <4>1, Constants, SMT
    <3> QED  BY <1>4, <3>1, UidSeq
  <2> QED  BY <1>4, <1>5, <1>6, <1>7, <2>1, <2>2, <2>3, <2>4, Zenon DEF RequestInv
<1>13. DeliverInv' /\ BatchInv'
  <2>1. pc' = "done" => Range(requested)' = {}
    BY <1>5, <1>8, EmptyFacts
  <2>2. Todo' = <<>>
    BY <1>8 DEF Todo
  <2>3. Ascends(Todo)' /\ Before(Todo, left)' /\ Range(Todo)' = {}
    BY <2>2, EmptyFacts, Zenon DEF Before
  <2>4. Range(left)' = Range(requested)' /\ Ascends(left)'
    BY <1>4, <1>5
  <2>5. pc' # "single" /\ pc' # "batch"
    BY <1>8
  <2> QED  BY <1>6, <1>7, <1>5, <2>1, <2>3, <2>4, <2>5, Zenon DEF DeliverInv, BatchInv
<1> QED  BY <1>9, <1>10, <1>11, <1>12, <1>13 DEF FetchInv

\* searchUIDs returns one UID more than it may, so that its caller sees the limit.
LEMMA CutStep ==
    ASSUME FetchInv, pc = "search", NEW s \in Seq(Uids), Ascends(s),
           \A n \in DOMAIN s : lastUID < s[n] /\ s[n] < uidNext,
           \A u \in Searched, n \in DOMAIN s : lastUID < u /\ u <= s[n] => u \in Range(s),
           Len(s) <= MaxMessagesPerPoll =>
               \A u \in Searched : lastUID < u /\ u <= (IF toUID # 0 THEN toUID ELSE bound) => u \in Range(s),
           Request(SubSeq(s, 1, Min({Len(s), MaxMessagesPerPoll + 1}))), found' = s,
           UNCHANGED <<serverVars, connVars, cursorVars, start, to, bound, f, rest, confirmed, faults>>
    PROVE  FetchInv'
<1> DEFINE k == Min({Len(s), MaxMessagesPerPoll + 1})
           all == SubSeq(s, 1, k)
<1>1. Len(s) \in Nat /\ MaxMessagesPerPoll + 1 \in Nat
  <2>1. Len(s) \in Nat
    BY UidSeq, Zenon
  <2>2. MaxMessagesPerPoll + 1 \in Nat
    BY Constants
  <2> QED  BY <2>1, <2>2
<1>2. k \in Nat /\ k <= Len(s) /\ k \in {Len(s), MaxMessagesPerPoll + 1}
  BY <1>1, MinFacts
<1>3. Request(all)
  OBVIOUS
<1> HIDE DEF k
<1>4. /\ all \in Seq(Uids) /\ Len(all) = k /\ Ascends(all)
      /\ \A n \in DOMAIN all : n \in DOMAIN s /\ all[n] = s[n]
      /\ \A u \in Searched, n \in DOMAIN all : lastUID < u /\ u <= all[n] => u \in Range(all)
      /\ k = Len(s) => Range(all) = Range(s)
  BY <1>2, PrefixFacts, Zenon
<1> HIDE DEF all
<1>5. \A n \in DOMAIN all : lastUID < all[n] /\ all[n] < uidNext
  BY <1>4, Zenon
<1>6. ASSUME Len(all) <= MaxMessagesPerPoll
      PROVE  \A u \in Searched : lastUID < u /\ u <= (IF toUID # 0 THEN toUID ELSE bound) => u \in Range(all)
  <2>1. k = Len(s) /\ Len(s) <= MaxMessagesPerPoll
    BY <1>1, <1>2, <1>4, <1>6, Constants
  <2> QED  BY <1>4, <2>1, Zenon
<1>7. found' \in Seq(Uids) /\ \A n \in DOMAIN found' : found'[n] < uidNext
  BY Zenon
<1> QED  BY <1>3, <1>4, <1>5, <1>6, <1>7, RequestStep, Zenon

\* What a window adds to the UIDs found.
LEMMA WindowStep ==
    ASSUME RankFacts, FetchInv, pc = "search", to # 0, start <= to
    PROVE  LET e == WindowEnd(start)
               s == found \o SearchUIDsRange(start, e) IN
           /\ e \in Nat /\ start <= e /\ e <= to
           /\ s \in Seq(Uids) /\ Ascends(s)
           /\ \A n \in DOMAIN s : s[n] \in Nat /\ lastUID < s[n] /\ s[n] <= e /\ s[n] < uidNext
           /\ \A u \in Searched : lastUID < u /\ u <= e => u \in Range(s)
<1> DEFINE e == WindowEnd(start)
           r == SearchUIDsRange(start, e)
           s == found \o r
<1>1. TypeOK /\ BelowNext /\ SearchInv
  BY DEF FetchInv
<1>2. e \in Nat /\ start <= e /\ e <= to
  BY <1>1, WindowFacts
<1> HIDE DEF e
<1>3. start \in Nat /\ lastUID \in Nat /\ uidNext \in Nat /\ \A u \in Searched : u \in Nat /\ u < uidNext
  BY <1>1, TypeFacts DEF BelowNext
<1>4. e # 0 /\ lastUID < start
  BY <1>1, <1>2, <1>3 DEF SearchInv
<1>5. r \in Seq(Uids) /\ Ascends(r) /\ Range(r) = {u \in Searched : u >= start /\ (e # 0 => u <= e)}
  BY <1>1, <1>2, <1>3, RangeFacts
<1> HIDE DEF r
<1>6. ASSUME NEW n \in DOMAIN r PROVE r[n] \in Searched /\ start <= r[n] /\ r[n] <= e
  <2>1. r[n] \in Range(r)
    BY DEF Range
  <2> QED  BY <1>3, <1>4, <1>5, <2>1
<1>7. found \in Seq(Uids) /\ Ascends(found)
  BY <1>1 DEF TypeOK, SearchInv
<1>8. ASSUME NEW n \in DOMAIN found
      PROVE  found[n] \in Nat /\ lastUID < found[n] /\ found[n] < start /\ found[n] < uidNext
  BY <1>1, <1>7, UidSeq DEF SearchInv, BelowNext
<1>9. Before(found, r)
  <2> SUFFICES ASSUME NEW i \in DOMAIN found, NEW j \in DOMAIN r PROVE found[i] < r[j]
    BY DEF Before
  <2>1. r[j] \in Nat
    BY <1>3, <1>6
  <2> QED  BY <1>3, <1>6, <1>8, <2>1
<1>10. s \in Seq(Uids) /\ Ascends(s) /\ Range(s) = Range(found) \cup Range(r)
  BY <1>5, <1>7, <1>9, JoinFacts
<1> HIDE DEF s
<1>11. ASSUME NEW n \in DOMAIN s PROVE s[n] \in Nat /\ lastUID < s[n] /\ s[n] <= e /\ s[n] < uidNext
  <2>1. s[n] \in Range(found) \/ s[n] \in Range(r)
    BY <1>10, Zenon DEF Range
  <2>2. CASE s[n] \in Range(found)
    <3>1. PICK m \in DOMAIN found : s[n] = found[m]
      BY <2>2 DEF Range
    <3> QED  BY <1>2, <1>3, <1>8, <3>1
  <2>3. CASE s[n] \in Range(r)
    <3>1. PICK m \in DOMAIN r : s[n] = r[m]
      BY <2>3 DEF Range
    <3> QED  BY <1>2, <1>3, <1>4, <1>6, <3>1
  <2> QED  BY <2>1, <2>2, <2>3
<1>12. ASSUME NEW u \in Searched, lastUID < u, u <= e PROVE u \in Range(s)
  <2>1. CASE u < start
    BY <1>1, <1>10, <1>12, <2>1 DEF SearchInv
  <2>2. CASE ~(u < start)
    <3>1. u >= start
      BY <1>3, <2>2
    <3> QED  BY <1>5, <1>10, <1>12, <3>1
  <2> QED  BY <2>1, <2>2
<1> QED  BY <1>2, <1>10, <1>11, <1>12 DEF s, r, e

\* A window of searchUIDs: the next one, the last one, or one that failed.
LEMMA SearchStep ==
    ASSUME RankFacts, FetchInv, Search
    PROVE  FetchInv'
<1>1. /\ TypeOK /\ BelowNext /\ StageInv /\ BlankInv /\ SearchInv /\ HandledInv /\ CursorCovers
  BY DEF FetchInv
<1>2. /\ start \in Nat /\ lastUID \in Nat /\ uidNext \in Nat /\ to \in Nat /\ to <= MaxUID
      /\ toUID \in Nat /\ bound \in Nat /\ \A u \in Searched : u \in Nat /\ u < uidNext
  BY <1>1, TypeFacts DEF BelowNext
<1>3. pc = "search" /\ UNCHANGED <<serverVars, connVars, cursorVars, to, bound, f, rest, confirmed>>
  BY DEF Search
<1>4. /\ UNCHANGED <<mail, uidNext, reports, old, arrivals, expunged, lastUID, toUID>>
      /\ UNCHANGED <<stage, sequentialFetch, to, bound, f, rest, confirmed>>
  BY <1>3, Zenon DEF serverVars, cursorVars, connVars
<1>5. lastUID < start /\ start <= uidNext /\ (to = 0 => start = lastUID + 1)
  BY <1>1, <1>3 DEF SearchInv
<1>6. IF toUID # 0 THEN to = toUID ELSE to \in {0, bound}
  BY <1>1, <1>3 DEF SearchInv
<1>7. CASE to = 0 /\ found' = SearchUIDsRange(start, 0) /\ Request(found') /\ UNCHANGED <<start, faults>>
  <2> DEFINE r == SearchUIDsRange(start, 0)
  <2>1. r \in Seq(Uids) /\ Ascends(r) /\ Range(r) = {u \in Searched : u >= start /\ (0 # 0 => u <= 0)}
    BY <1>1, <1>2, RangeFacts, Zenon
  <2>2. found' = r /\ Request(r)
    BY <1>7
  <2> HIDE DEF r
  <2>3. \A n \in DOMAIN r : r[n] \in Searched /\ r[n] >= start
    BY <2>1 DEF Range
  <2>4. \A n \in DOMAIN r : lastUID < r[n] /\ r[n] < uidNext
    BY <1>2, <1>5, <2>3
  <2>5. \A u \in Searched : lastUID < u => u \in Range(r)
    <3>1. \A u \in Searched : lastUID < u => u >= start
      BY <1>2, <1>5, <1>7
    <3> QED  BY <2>1, <3>1
  <2>6. UNCHANGED <<serverVars, connVars, cursorVars, start, to, bound, f, rest, confirmed, faults>>
    BY <1>3, <1>7, Zenon
  <2>7. found' \in Seq(Uids) /\ \A n \in DOMAIN found' : found'[n] < uidNext
    BY <2>1, <2>2, <2>4, Zenon
  <2> QED  BY <1>3, <2>1, <2>2, <2>4, <2>5, <2>6, <2>7, RequestStep, Zenon
<1>8. ASSUME to # 0, start > to, found' = found, UNCHANGED <<start, faults>>,
             Request(SubSeq(found', 1, Min({Len(found'), MaxMessagesPerPoll + 1})))
      PROVE  FetchInv'
  <2>1. found \in Seq(Uids) /\ Ascends(found)
    BY <1>1, <1>3 DEF TypeOK, SearchInv
  <2>2. ASSUME NEW n \in DOMAIN found
        PROVE  found[n] \in Nat /\ lastUID < found[n] /\ found[n] < start /\ found[n] < uidNext
    BY <1>1, <1>3, <2>1, UidSeq DEF SearchInv, BelowNext
  <2>3. \A u \in Searched : lastUID < u /\ u < start => u \in Range(found)
    BY <1>1, <1>3 DEF SearchInv
  <2>4. ASSUME NEW u \in Searched, NEW n \in DOMAIN found, lastUID < u, u <= found[n]
        PROVE  u \in Range(found)
    <3>1. u < start
      BY <1>2, <2>2, <2>4
    <3> QED  BY <2>3, <2>4, <3>1
  <2>5. ASSUME NEW u \in Searched, lastUID < u, u <= (IF toUID # 0 THEN toUID ELSE bound)
        PROVE  u \in Range(found)
    <3>1. u < start
      BY <1>2, <1>6, <1>8, <2>5
    <3> QED  BY <2>3, <2>5, <3>1
  <2>6. UNCHANGED <<serverVars, connVars, cursorVars, start, to, bound, f, rest, confirmed, faults>>
    BY <1>3, <1>8, Zenon
  <2>7. Request(SubSeq(found, 1, Min({Len(found), MaxMessagesPerPoll + 1})))
    BY <1>8, Zenon
  <2> QED  BY <1>3, <1>8, <2>1, <2>2, <2>4, <2>5, <2>6, <2>7, CutStep, Zenon
<1>9. ASSUME to # 0, start <= to, UNCHANGED faults,
             found' = found \o SearchUIDsRange(start, WindowEnd(start)),
             IF SearchOver(WindowEnd(start), found')
             THEN Request(SubSeq(found', 1, Min({Len(found'), MaxMessagesPerPoll + 1}))) /\ UNCHANGED start
             ELSE start' = WindowEnd(start) + 1 /\ UNCHANGED <<pc, pollVars>>
      PROVE  FetchInv'
  <2> DEFINE e == WindowEnd(start)
             s == found \o SearchUIDsRange(start, e)
  <2>1. /\ e \in Nat /\ start <= e /\ e <= to
        /\ s \in Seq(Uids) /\ Ascends(s)
        /\ \A n \in DOMAIN s : s[n] \in Nat /\ lastUID < s[n] /\ s[n] <= e /\ s[n] < uidNext
        /\ \A u \in Searched : lastUID < u /\ u <= e => u \in Range(s)
    BY <1>3, <1>9, WindowStep
  <2>2. found' = s
    BY <1>9
  <2>3. IF SearchOver(e, s)
        THEN Request(SubSeq(s, 1, Min({Len(s), MaxMessagesPerPoll + 1}))) /\ UNCHANGED start
        ELSE start' = e + 1 /\ UNCHANGED <<pc, pollVars>>
    BY <1>9, <2>2
  <2> HIDE DEF e, s
  <2>4. CASE SearchOver(e, s)
    <3>1. ASSUME NEW u \in Searched, NEW n \in DOMAIN s, lastUID < u, u <= s[n]
          PROVE  u \in Range(s)
      <4>1. u <= e
        BY <1>2, <2>1, <3>1
      <4> QED  BY <2>1, <3>1, <4>1
    <3>2. ASSUME Len(s) <= MaxMessagesPerPoll,
                 NEW u \in Searched, lastUID < u, u <= (IF toUID # 0 THEN toUID ELSE bound)
          PROVE  u \in Range(s)
      <4>1. Len(s) \in Nat
        BY <2>1, UidSeq
      <4>2. e >= to \/ e = MaxUID
        BY <2>4, <3>2, <4>1, Constants DEF SearchOver
      <4>3. u <= e
        BY <1>2, <1>6, <1>9, <2>1, <3>2, <4>2, Constants
      <4> QED  BY <2>1, <3>2, <4>3
    <3>3. UNCHANGED <<serverVars, connVars, cursorVars, start, to, bound, f, rest, confirmed, faults>>
      BY <1>3, <1>9, <2>3, <2>4, Zenon
    <3>4. Request(SubSeq(s, 1, Min({Len(s), MaxMessagesPerPoll + 1})))
      BY <2>3, <2>4
    <3>5. \A n \in DOMAIN s : lastUID < s[n] /\ s[n] < uidNext
      BY <2>1, Zenon
    <3> QED  BY <1>3, <2>1, <2>2, <3>1, <3>2, <3>3, <3>4, <3>5, CutStep, Zenon
  <2>5. CASE ~SearchOver(e, s)
    <3>1. start' = e + 1 /\ UNCHANGED <<pc, requested, more, left, handled, handlerErr, imapErr, given, faults>>
      BY <1>9, <2>3, <2>5, Zenon DEF pollVars
    <3>2. e < to
      BY <1>2, <2>1, <2>5 DEF SearchOver
    <3>3. to < uidNext
      BY <1>1, <1>2, <1>6, <1>9 DEF BelowNext
    <3>4. start' \in 0 .. MaxUID /\ lastUID < start' /\ start' <= uidNext /\ start' \in Nat
      BY <1>2, <1>5, <2>1, <3>1, <3>2, <3>3, Constants
    <3>5. TypeOK'
      BY <1>1, <1>4, <2>1, <2>2, <3>1, <3>4, Zenon DEF TypeOK
    <3>6. BelowNext'
      BY <1>1, <1>4, <2>1, <2>2, <3>1, Zenon DEF BelowNext
    <3>7. StageInv' /\ BlankInv' /\ HandledInv' /\ CursorCovers'
      BY <1>1, <1>4, <3>1, Zenon DEF StageInv, BlankInv, HandledInv, CursorCovers
    <3>8. RequestInv' /\ DeliverInv' /\ BatchInv'
      <4>1. pc' = "search"
        BY <1>3, <3>1
      <4>2. pc' \notin {"dates", "deliver", "batch", "single", "done"}
        BY <4>1
      <4> QED  BY <4>2, Zenon DEF RequestInv, DeliverInv, BatchInv, Fetching
    <3>9. SearchInv'
      <4>1. Searched' = Searched
        BY <1>4 DEF Searched
      <4>2. \A n \in DOMAIN s : lastUID < s[n] /\ s[n] < start'
        BY <2>1, <3>1
      <4>3. \A u \in Searched : lastUID < u /\ u < start' => u \in Range(s)
        <5>1. \A u \in Searched : u < start' => u <= e
          BY <1>2, <2>1, <3>1
        <5> QED  BY <2>1, <5>1
      <4> QED  BY <1>4, <1>6, <1>9, <2>1, <2>2, <3>4, <4>1, <4>2, <4>3, Zenon DEF SearchInv
    <3> QED  BY <3>5, <3>6, <3>7, <3>8, <3>9 DEF FetchInv
  <2> QED  BY <2>4, <2>5
<1>10. CASE SearchFailed
  <2>1. /\ imapErr' = TRUE /\ pc' = "done" /\ found' = <<>> /\ Fault
        /\ UNCHANGED <<start, requested, more, left, handled, handlerErr, given>>
    BY <1>10 DEF SearchFailed, Goto
  <2>2. faults' \in 0 .. MaxFaults
    BY <1>1, <2>1, FaultType
  <2>3. requested = <<>> /\ ~more
    BY <1>1, <1>3 DEF BlankInv
  <2>4. TypeOK'
    <3>1. pc' \in Steps
      BY <2>1 DEF Steps
    <3> QED  BY <1>1, <1>4, <2>1, <2>2, <3>1, EmptyFacts, Zenon DEF TypeOK
  <2>5. BelowNext'
    BY <1>1, <1>4, <2>1, EmptyFacts, Zenon DEF BelowNext
  <2>6. StageInv' /\ BlankInv' /\ HandledInv' /\ CursorCovers' /\ SearchInv' /\ BatchInv'
    BY <1>1, <1>3, <1>4, <2>1 DEF StageInv, BlankInv, HandledInv, CursorCovers, SearchInv, BatchInv
  <2>7. RequestInv' /\ DeliverInv'
    BY <1>4, <2>1, <2>3, EmptyFacts, Zenon DEF RequestInv, DeliverInv, Fetching
  <2> QED  BY <2>4, <2>5, <2>6, <2>7 DEF FetchInv
<1>11. CASE /\ to # 0
            /\ LET end == WindowEnd(start) IN
               /\ found' = IF start <= to THEN found \o SearchUIDsRange(start, end) ELSE found
               /\ IF start > to \/ SearchOver(end, found')
                  THEN Request(SubSeq(found', 1, Min({Len(found'), MaxMessagesPerPoll + 1}))) /\ UNCHANGED start
                  ELSE start' = end + 1 /\ UNCHANGED <<pc, pollVars>>
            /\ UNCHANGED faults
  <2>1. start <= to <=> ~(start > to)
    BY <1>2
  <2>2. CASE start <= to
    BY <1>9, <1>11, <2>1, <2>2, Zenon
  <2>3. CASE ~(start <= to)
    BY <1>8, <1>11, <2>1, <2>3, Zenon
  <2> QED  BY <2>2, <2>3
<1> QED  BY <1>7, <1>10, <1>11, Zenon DEF Search

-----------------------------------------------------------------------------
(* deliver and FetchRaw.                                                   *)

\* A step of deliver or FetchRaw leaves the search and the cursor as they are.
LEMMA FetchFrame ==
    ASSUME FetchInv, pc \in {"dates", "deliver", "batch", "single"},
           pc' \in {"deliver", "batch", "single", "done"}, pc' # "done" => ~imapErr',
           left' \in Seq(Uids), rest' \in Seq(Uids), f' \in FetchState,
           handled' \subseteq Uids, given' \subseteq Uids, confirmed' \subseteq Uids,
           handlerErr' \in BOOLEAN, imapErr' \in BOOLEAN, sequentialFetch' \in BOOLEAN,
           faults' \in 0 .. MaxFaults,
           confirmed \subseteq confirmed', handled' \subseteq confirmed' \cup old,
           DeliverInv', BatchInv',
           UNCHANGED <<serverVars, stage, cursorVars, searchVars, requested, more>>
    PROVE  FetchInv'
<1>1. /\ TypeOK /\ BelowNext /\ StageInv /\ RequestInv /\ CursorCovers
  BY DEF FetchInv
<1>2. /\ UNCHANGED <<mail, uidNext, reports, old, arrivals, expunged, stage, lastUID, toUID>>
      /\ UNCHANGED <<start, to, found, bound, requested, more>>
  BY Zenon DEF serverVars, cursorVars, searchVars
<1>3. pc' \in Steps
  BY DEF Steps
<1>4. TypeOK'
  BY <1>1, <1>2, <1>3, Zenon DEF TypeOK
<1>5. BelowNext'
  BY <1>1, <1>2, Zenon DEF BelowNext
<1>6. StageInv' /\ BlankInv' /\ SearchInv'
  BY <1>1, <1>2 DEF StageInv, BlankInv, SearchInv
<1>7. RequestInv'
  <2>1. Searched' = Searched
    BY <1>2 DEF Searched
  <2>2. Fetching /\ (Fetching' => pc' # "done")
    BY DEF Fetching
  <2>3. /\ Ascends(requested)
        /\ \A n \in DOMAIN requested : lastUID < requested[n]
        /\ \A u \in Searched, n \in DOMAIN requested :
              lastUID < u /\ u <= requested[n] => u \in Range(requested)
        /\ ~more =>
              \A u \in Searched :
                 lastUID < u /\ u <= (IF toUID # 0 THEN toUID ELSE bound) => u \in Range(requested)
        /\ more => requested # <<>>
    BY <1>1, <2>2 DEF RequestInv
  <2>4. Fetching' => ~imapErr'
    BY <2>2
  <2> QED  BY <1>2, <2>1, <2>3, <2>4 DEF RequestInv
<1>8. HandledInv' /\ CursorCovers'
  BY <1>1, <1>2, Zenon DEF HandledInv, CursorCovers
<1> QED  BY <1>4, <1>5, <1>6, <1>7, <1>8 DEF FetchInv

\* A fetch that ends with an error promises nothing.
LEMMA FailFrame ==
    ASSUME pc' = "done", imapErr' = TRUE
    PROVE  DeliverInv' /\ BatchInv'
BY DEF DeliverInv, BatchInv

\* recover: what was read before counts as handled.
LEMMA RecoverInv ==
    ASSUME RankFacts, FetchInv, Recover
    PROVE  FetchInv'
<1>1. /\ TypeOK /\ RequestInv /\ HandledInv /\ DeliverInv
  BY DEF FetchInv
<1>2. /\ pc = "dates"
      /\ UNCHANGED <<serverVars, connVars, cursorVars, searchVars, requested, more, handlerErr, given, f, rest, confirmed>>
  BY DEF Recover
<1>3. /\ UNCHANGED <<mail, old, stage, sequentialFetch, requested, more, handlerErr, given, f, rest, confirmed>>
  BY <1>2, Zenon DEF serverVars, connVars
<1>4. /\ requested \in Seq(Uids) /\ left \in Seq(Uids) /\ rest \in Seq(Uids) /\ f \in FetchState
      /\ handled \subseteq Uids /\ given \subseteq Uids /\ confirmed \subseteq Uids /\ old \subseteq Uids
      /\ handlerErr \in BOOLEAN /\ imapErr \in BOOLEAN /\ sequentialFetch \in BOOLEAN
      /\ faults \in 0 .. MaxFaults
  BY <1>1 DEF TypeOK
<1>5. Ascends(requested) /\ ~imapErr /\ handled = {} /\ given = {} /\ ~handlerErr
  BY <1>1, <1>2 DEF RequestInv, DeliverInv, Fetching
<1>6. CASE /\ handled' = InternalDates(requested) \cap old
           /\ left' = fresh(requested, handled')
           /\ Goto("deliver")
           /\ UNCHANGED <<imapErr, faults>>
  <2>1. handled' \subseteq old /\ pc' = "deliver" /\ imapErr' = imapErr /\ faults' = faults
    BY <1>6, Zenon DEF Goto
  <2>2. left' \in Seq(Uids) /\ Ascends(left') /\ Range(left') = Range(requested) \ handled'
    BY <1>4, <1>5, <1>6, FreshFacts
  <2>3. BatchInv'
    BY <2>1 DEF BatchInv
  <2>4. DeliverInv'
    <3>1. Todo' = <<>>
      BY <2>1, Zenon DEF Todo
    <3>2. Ascends(Todo') /\ Before(Todo', left') /\ Range(Todo') = {}
      BY <3>1, EmptyFacts, Zenon DEF Before
    <3> QED  BY <1>3, <1>5, <2>1, <2>2, <3>2, Zenon DEF DeliverInv
  <2>5. handled' \subseteq Uids /\ handled' \subseteq confirmed' \cup old
    BY <1>4, <2>1
  <2> QED  BY <1>2, <1>3, <1>4, <1>5, <2>1, <2>2, <2>3, <2>4, <2>5, FetchFrame
<1>7. CASE Fault /\ imapErr' = TRUE /\ Goto("done") /\ UNCHANGED <<handled, left>>
  <2>1. faults' \in 0 .. MaxFaults /\ pc' = "done" /\ imapErr' = TRUE /\ handled' = handled /\ left' = left
    BY <1>1, <1>7, FaultType DEF Goto
  <2>2. DeliverInv' /\ BatchInv'
    BY <2>1, FailFrame
  <2> QED  BY <1>2, <1>3, <1>4, <1>5, <2>1, <2>2, FetchFrame
<1> QED  BY <1>6, <1>7, Zenon DEF Recover

\* No FETCH is running.
LEMMA NoFetchType == NoFetch \in FetchState
<1> DEFINE m == -1
           e == <<>>
<1>1. e \in Seq(Uids) /\ m \in Int /\ 0 \in Nat
  BY EmptyFacts
<1>2. NoFetch = [batch |-> e, seen |-> {}, next |-> 0, fallbackAt |-> m, lastUID |-> 0,
                 unordered |-> FALSE, readErr |-> FALSE, pending |-> {}, expired |-> FALSE]
  BY DEF NoFetch
<1> HIDE DEF m, e
<1> QED  BY <1>1, <1>2, Zenon DEF FetchState

\* deliver takes the next batch.
LEMMA NextBatchInv ==
    ASSUME FetchInv, NextBatch
    PROVE  FetchInv'
<1> DEFINE k == Min({FetchBatchSize, Len(left)})
           batch == SubSeq(left, 1, k)
           after == SubSeq(left, k + 1, Len(left))
<1>1. /\ TypeOK /\ RequestInv /\ HandledInv /\ DeliverInv
  BY DEF FetchInv
<1>2. /\ pc = "deliver"
      /\ UNCHANGED <<serverVars, connVars, cursorVars, searchVars, requested, more, handled, handlerErr, imapErr, given, confirmed, faults>>
  BY DEF NextBatch
<1>3. /\ UNCHANGED <<mail, old, stage, sequentialFetch, requested, more, handled, handlerErr, imapErr, given, confirmed, faults>>
  BY <1>2, Zenon DEF serverVars, connVars
<1>4. /\ requested \in Seq(Uids) /\ left \in Seq(Uids) /\ rest \in Seq(Uids) /\ f \in FetchState
      /\ handled \subseteq Uids /\ given \subseteq Uids /\ confirmed \subseteq Uids
      /\ handlerErr \in BOOLEAN /\ imapErr \in BOOLEAN /\ sequentialFetch \in BOOLEAN
      /\ faults \in 0 .. MaxFaults /\ mail \subseteq Uids
  BY <1>1 DEF TypeOK
<1>5. ~imapErr /\ ~handlerErr /\ Todo = <<>>
  BY <1>1, <1>2, Zenon DEF RequestInv, DeliverInv, Fetching, Todo
<1>6. /\ Ascends(left) /\ Range(left) \subseteq Range(requested)
      /\ \A u \in Range(requested) \cap mail : u \in handled \cup Range(left)
      /\ \A v \in given, n \in DOMAIN left : v < left[n]
  <2>1. Range(Todo) = {}
    BY <1>5, EmptyFacts
  <2> QED  BY <1>1, <1>2, <1>5, <2>1, Zenon DEF DeliverInv
<1>7. Len(left) \in Nat /\ k \in Nat /\ k <= Len(left) /\ (left # <<>> => k # 0)
  <2>1. Len(left) \in Nat /\ (left # <<>> => Len(left) # 0)
    BY <1>4, UidSeq
  <2>2. k \in Nat /\ k <= Len(left) /\ k \in {FetchBatchSize, Len(left)}
    BY <2>1, Constants, MinFacts
  <2> QED  BY <2>1, <2>2, Constants
<1> HIDE DEF k
<1>8. /\ batch \in Seq(Uids) /\ Len(batch) = k /\ \A i \in 1 .. k : batch[i] = left[i]
      /\ after \in Seq(Uids) /\ Len(after) = Len(left) - k /\ \A i \in 1 .. Len(left) - k : after[i] = left[k + i]
      /\ Range(left) = Range(batch) \cup Range(after)
      /\ Ascends(batch) /\ Ascends(after) /\ Before(batch, after)
  BY <1>4, <1>6, <1>7, CutFacts
<1>9. /\ left' = SubSeq(left, Len(batch) + 1, Len(left))
      /\ IF left = <<>> THEN Goto("done") /\ UNCHANGED <<f, rest>>
         ELSE IF sequentialFetch THEN Goto("single") /\ rest' = batch /\ UNCHANGED f
         ELSE /\ Goto("batch")
              /\ f' = [NoFetch EXCEPT !.batch = batch, !.pending = Range(batch) \cap mail]
              /\ UNCHANGED rest
  BY Zenon DEF NextBatch, k
<1>10. left' = after
  BY <1>8, <1>9
<1> HIDE DEF batch, after
<1>11. \A n \in DOMAIN after : after[n] \in Range(left)
  BY <1>8, Zenon DEF Range
<1>12. \A n \in DOMAIN batch : batch[n] \in Range(left)
  BY <1>8 DEF Range
<1>13. \A v \in given, w \in Range(left) : v < w
  BY <1>6 DEF Range
<1>14. \A v \in given, n \in DOMAIN after : v < after[n]
  BY <1>11, <1>13, Zenon
<1>15. \A v \in given, n \in DOMAIN batch : v < batch[n]
  BY <1>12, <1>13, Zenon
<1>16. Range(batch) \subseteq Uids
  BY <1>8, UidSeq
<1>17. CASE left = <<>>
  <2>1. pc' = "done" /\ f' = f /\ rest' = rest
    BY <1>9, <1>17 DEF Goto
  <2>2. Range(left) = {}
    BY <1>17, EmptyFacts
  <2>3. DeliverInv' /\ BatchInv'
    BY <1>3, <1>6, <2>1, <2>2, Zenon DEF DeliverInv, BatchInv
  <2> QED  BY <1>1, <1>2, <1>3, <1>4, <1>5, <1>8, <1>10, <2>1, <2>3, FetchFrame DEF HandledInv
<1>18. CASE left # <<>> /\ sequentialFetch
  <2>1. pc' = "single" /\ f' = f /\ rest' = batch
    BY <1>9, <1>18 DEF Goto
  <2>2. batch # <<>>
    BY <1>7, <1>8, <1>18, EmptyFacts
  <2>3. Todo' = batch
    BY <2>1 DEF Todo
  <2>4. DeliverInv'
    BY <1>3, <1>6, <1>8, <1>10, <1>14, <1>15, <2>1, <2>2, <2>3, Zenon DEF DeliverInv
  <2>5. BatchInv'
    BY <2>1 DEF BatchInv
  <2> QED  BY <1>1, <1>2, <1>3, <1>4, <1>5, <1>8, <1>10, <2>1, <2>4, <2>5, FetchFrame DEF HandledInv
<1>19. CASE left # <<>> /\ ~sequentialFetch
  <2>1. pc' = "batch" /\ f' = [NoFetch EXCEPT !.batch = batch, !.pending = Range(batch) \cap mail] /\ rest' = rest
    BY <1>9, <1>19 DEF Goto
  <2>2. Range(batch) \cap mail \in SUBSET Uids
    BY <1>16
  <2>3. /\ f' \in FetchState /\ f'.batch = batch /\ f'.pending = Range(batch) \cap mail
        /\ f'.next = 0 /\ f'.fallbackAt = -1 /\ ~f'.readErr /\ f'.seen = {}
    <3> DEFINE P == Range(batch) \cap mail
    <3>1. P \in SUBSET Uids /\ batch \in Seq(Uids) /\ f' = [NoFetch EXCEPT !.batch = batch, !.pending = P]
      BY <1>8, <2>1, <2>2
    <3> HIDE DEF P
    <3>2. /\ f' \in FetchState /\ f'.batch = batch /\ f'.pending = P
          /\ f'.next = 0 /\ f'.fallbackAt = -1 /\ ~f'.readErr /\ f'.seen = {}
      <4> DEFINE m == -1
                 e == <<>>
      <4>1. e \in Seq(Uids) /\ m \in Int /\ 0 \in Nat
        BY EmptyFacts
      <4>2. NoFetch = [batch |-> e, seen |-> {}, next |-> 0, fallbackAt |-> m, lastUID |-> 0,
                       unordered |-> FALSE, readErr |-> FALSE, pending |-> {}, expired |-> FALSE]
        BY DEF NoFetch
      <4> HIDE DEF m, e
      <4>3. /\ f' \in FetchState /\ f'.batch = batch /\ f'.pending = P
            /\ f'.next = 0 /\ f'.fallbackAt = m /\ ~f'.readErr /\ f'.seen = {}
        BY <3>1, <4>1, <4>2, Zenon DEF FetchState
      <4> QED  BY <4>3 DEF m
    <3> QED  BY <3>2 DEF P
  <2>4. Todo' = batch
    BY <2>1, <2>3 DEF Todo
  <2>5. DeliverInv'
    <3>1. pc' \notin {"dates", "deliver", "single", "done"}
      BY <2>1
    <3>2. \A u \in Range(requested) \cap mail : u \in handled \cup Range(batch) \cup Range(after)
      BY <1>6, <1>8, Zenon
    <3>3. Range(after) \subseteq Range(requested) /\ Range(batch) \subseteq Range(requested)
      BY <1>6, <1>8, Zenon
    <3> QED  BY <1>3, <1>8, <1>10, <1>14, <2>4, <3>1, <3>2, <3>3, Zenon DEF DeliverInv
  <2>6. BatchInv'
    <3>1. f'.next <= Len(f'.batch) /\ f'.fallbackAt \in {-1, f'.next}
      <4>1. f'.next = 0 /\ f'.batch = batch /\ f'.fallbackAt = -1
        BY <2>3, Zenon
      <4>2. 0 <= Len(batch)
        BY <1>7, <1>8
      <4> QED  BY <4>1, <4>2, Zenon
    <3>2. \A n \in DOMAIN batch : n \in Nat /\ n # 0 /\ ~(n <= 0)
      BY <1>8, UidSeq
    <3>3. \A n \in DOMAIN batch : batch[n] \in mail => batch[n] \in f'.pending
      BY <2>3 DEF Range
    <3> QED  BY <1>3, <1>15, <2>3, <3>1, <3>2, <3>3, Zenon DEF BatchInv
  <2> QED  BY <1>1, <1>2, <1>3, <1>4, <1>5, <1>8, <1>10, <2>1, <2>3, <2>5, <2>6, FetchFrame DEF HandledInv
<1> QED  BY <1>17, <1>18, <1>19

\* What the callback changes.
LEMMA CallbackFacts ==
    ASSUME TypeOK, HandledInv, NEW u \in Uids, Callback(u)
    PROVE  /\ handled' \subseteq Uids /\ given' \subseteq Uids /\ confirmed' \subseteq Uids
           /\ handlerErr' \in BOOLEAN /\ faults' \in 0 .. MaxFaults
           /\ confirmed \subseteq confirmed' /\ handled' \subseteq confirmed' \cup old
           /\ handled \subseteq handled' /\ given' \subseteq given \cup {u}
           /\ ~handlerErr' => ~handlerErr /\ u \in handled'
<1>1. /\ handled \subseteq Uids /\ given \subseteq Uids /\ confirmed \subseteq Uids
      /\ handlerErr \in BOOLEAN /\ faults \in 0 .. MaxFaults
      /\ handled \subseteq confirmed \cup old
  BY DEF TypeOK, HandledInv
<1>2. CASE /\ handlerErr
           /\ UNCHANGED <<handled, handlerErr, given, confirmed, faults>>
  BY <1>1, <1>2
<1>3. CASE /\ ~handlerErr
           /\ given' = given \cup {u}
           /\ handled' = handled \cup {u}
           /\ confirmed' = confirmed \cup {u}
           /\ UNCHANGED <<handlerErr, faults>>
  BY <1>1, <1>3
<1>4. CASE /\ ~handlerErr
           /\ Fault
           /\ handlerErr' = TRUE
           /\ given' \in {given, given \cup {u}}
           /\ UNCHANGED <<handled, confirmed>>
  <2>1. faults' \in 0 .. MaxFaults
    BY <1>4, FaultType
  <2> QED  BY <1>1, <1>4, <2>1
<1> QED  BY <1>2, <1>3, <1>4, Zenon DEF Callback

\* The first UID of a sequence, and the others.
LEMMA TailFacts ==
    ASSUME NEW s \in Seq(Uids), s # <<>>
    PROVE  /\ Head(s) \in Uids /\ Tail(s) \in Seq(Uids)
           /\ Range(s) = {Head(s)} \cup Range(Tail(s))
           /\ Ascends(s) => Ascends(Tail(s)) /\ \A n \in DOMAIN Tail(s) : Head(s) < Tail(s)[n]
<1>1. PICK n : n = Len(s) /\ n \in Nat /\ n # 0 /\ DOMAIN s = 1 .. n
  BY UidSeq
<1>2. /\ Head(s) \in Uids /\ Head(s) = s[1] /\ Tail(s) \in Seq(Uids) /\ Len(Tail(s)) = n - 1
      /\ \A i \in 1 .. n - 1 : Tail(s)[i] = s[i + 1]
  <2>1. /\ Head(s) \in Uids /\ Tail(s) \in Seq(Uids)
        /\ Len(Tail(s)) = Len(s) - 1
        /\ \A i \in 1 .. Len(Tail(s)) : Tail(s)[i] = s[i + 1]
    BY <1>1
  <2> QED  BY <1>1, <2>1
<1>3. DOMAIN Tail(s) = 1 .. n - 1
  BY <1>2, UidSeq
<1> DEFINE t == Tail(s)
<1>4. t \in Seq(Uids) /\ DOMAIN t = 1 .. n - 1 /\ \A i \in 1 .. n - 1 : t[i] = s[i + 1]
  BY <1>2, <1>3
<1> HIDE DEF t
<1>5. Range(s) = {s[1]} \cup Range(t)
  <2>1. ASSUME NEW i \in DOMAIN s PROVE s[i] \in {s[1]} \cup Range(t)
    <3>1. CASE i = 1
      BY <3>1
    <3>2. CASE i # 1
      <4>1. i - 1 \in DOMAIN t /\ t[i - 1] = s[i]
        BY <1>1, <1>4, <3>2
      <4> QED  BY <4>1 DEF Range
    <3> QED  BY <3>1, <3>2
  <2>2. ASSUME NEW i \in DOMAIN t PROVE t[i] \in Range(s)
    <3>1. i + 1 \in DOMAIN s /\ t[i] = s[i + 1]
      BY <1>1, <1>4
    <3> QED  BY <3>1 DEF Range
  <2>3. s[1] \in Range(s)
    BY <1>1 DEF Range
  <2> QED  BY <2>1, <2>2, <2>3 DEF Range
<1>6. ASSUME Ascends(s) PROVE Ascends(t) /\ \A i \in DOMAIN t : s[1] < t[i]
  <2>1. ASSUME NEW i \in DOMAIN t PROVE s[1] < t[i]
    <3>1. i + 1 \in DOMAIN s /\ 1 \in DOMAIN s /\ 1 < i + 1 /\ t[i] = s[i + 1]
      BY <1>1, <1>4
    <3> QED  BY <1>6, <3>1 DEF Ascends
  <2>2. ASSUME NEW i \in DOMAIN t, NEW j \in DOMAIN t, i < j PROVE t[i] < t[j]
    <3>1. /\ i + 1 \in DOMAIN s /\ j + 1 \in DOMAIN s /\ i + 1 < j + 1
          /\ t[i] = s[i + 1] /\ t[j] = s[j + 1]
      BY <1>1, <1>4, <2>2
    <3> QED  BY <1>6, <3>1 DEF Ascends
  <2> QED  BY <2>1, <2>2 DEF Ascends
<1> QED  BY <1>2, <1>5, <1>6 DEF t

\* fetchRawSequential: one UID, its email handed over when the command is over.
LEMMA SequentialInv ==
    ASSUME FetchInv, fetchRawSequential
    PROVE  FetchInv'
<1> DEFINE u == Head(rest)
           t == Tail(rest)
<1>1. /\ TypeOK /\ RequestInv /\ HandledInv /\ DeliverInv
  BY DEF FetchInv
<1>2. /\ pc = "single"
      /\ UNCHANGED <<serverVars, connVars, cursorVars, searchVars, requested, more, left, f>>
  BY DEF fetchRawSequential
<1>3. UNCHANGED <<mail, old, stage, sequentialFetch, requested, more, left, f>>
  BY <1>2, Zenon DEF serverVars, connVars
<1>4. /\ requested \in Seq(Uids) /\ left \in Seq(Uids) /\ rest \in Seq(Uids) /\ f \in FetchState
      /\ handled \subseteq Uids /\ given \subseteq Uids /\ confirmed \subseteq Uids
      /\ handlerErr \in BOOLEAN /\ imapErr \in BOOLEAN /\ sequentialFetch \in BOOLEAN
      /\ faults \in 0 .. MaxFaults
  BY <1>1 DEF TypeOK
<1>5. ~imapErr /\ rest # <<>>
  BY <1>1, <1>2 DEF RequestInv, DeliverInv, Fetching
<1>6. Todo = rest
  BY <1>2 DEF Todo
<1>7. /\ u \in Uids /\ t \in Seq(Uids) /\ Range(rest) = {u} \cup Range(t)
      /\ Ascends(rest) => Ascends(t) /\ \A n \in DOMAIN t : u < t[n]
  BY <1>4, <1>5, TailFacts, Zenon
<1>8. CASE Fault /\ imapErr' = TRUE /\ rest' = <<>> /\ Goto("done")
           /\ UNCHANGED <<handled, handlerErr, given, confirmed>>
  <2>1. /\ faults' \in 0 .. MaxFaults /\ pc' = "done" /\ imapErr' = TRUE /\ rest' = <<>>
        /\ UNCHANGED <<handled, handlerErr, given, confirmed>>
    BY <1>1, <1>8, FaultType DEF Goto
  <2>2. DeliverInv' /\ BatchInv'
    BY <2>1, FailFrame
  <2> QED  BY <1>1, <1>2, <1>3, <1>4, <1>5, <2>1, <2>2, EmptyFacts, FetchFrame DEF HandledInv
<1>9. CASE /\ IF fetchRaw(u) THEN Callback(u)
                             ELSE UNCHANGED <<handled, handlerErr, given, confirmed, faults>>
           /\ rest' = t
           /\ Goto(IF t # <<>> THEN "single" ELSE AfterBatch)
           /\ UNCHANGED imapErr
  <2> HIDE DEF u, t
  <2>1. /\ handled' \subseteq Uids /\ given' \subseteq Uids /\ confirmed' \subseteq Uids
        /\ handlerErr' \in BOOLEAN /\ faults' \in 0 .. MaxFaults
        /\ confirmed \subseteq confirmed' /\ handled' \subseteq confirmed' \cup old
        /\ handled \subseteq handled' /\ given' \subseteq given \cup {u}
        /\ ~handlerErr' => ~handlerErr /\ (u \in mail => u \in handled')
    <3>1. CASE u \in mail
      <4>1. Callback(u)
        BY <1>9, <3>1 DEF fetchRaw
      <4> QED  BY <1>1, <1>7, <4>1, CallbackFacts, Zenon
    <3>2. CASE u \notin mail
      <4>1. UNCHANGED <<handled, handlerErr, given, confirmed, faults>>
        BY <1>9, <3>2 DEF fetchRaw
      <4> QED  BY <1>1, <1>4, <3>2, <4>1 DEF HandledInv
    <3> QED  BY <3>1, <3>2
  <2>2. rest' = t /\ imapErr' = imapErr
    BY <1>9
  <2>3. /\ pc' \in {"single", "deliver", "done"}
        /\ pc' = "single" => t # <<>>
        /\ pc' = "deliver" => t = <<>> /\ ~handlerErr'
        /\ pc' = "done" => handlerErr'
    BY <1>9 DEF Goto, AfterBatch
  <2>4. BatchInv'
    BY <2>3, Zenon DEF BatchInv
  <2>5. DeliverInv'
    <3>1. /\ Ascends(left) /\ Ascends(rest) /\ Before(rest, left)
          /\ Range(left) \subseteq Range(requested) /\ Range(rest) \subseteq Range(requested)
      BY <1>1, <1>2, <1>6 DEF DeliverInv
    <3>2. \A x \in Range(rest), n \in DOMAIN left : x < left[n]
      BY <3>1 DEF Before, Range
    <3>3. ASSUME ~handlerErr'
          PROVE  /\ \A v \in Range(requested) \cap mail : v \in handled' \cup Range(t) \cup Range(left)
                 /\ \A v \in given', n \in DOMAIN left : v < left[n]
                 /\ \A v \in given', n \in DOMAIN t : v < t[n]
      <4>1. ~handlerErr /\ (u \in mail => u \in handled')
        BY <2>1, <3>3
      <4>2. /\ \A v \in Range(requested) \cap mail : v \in handled \cup Range(rest) \cup Range(left)
            /\ \A v \in given, n \in DOMAIN left : v < left[n]
            /\ \A v \in given, n \in DOMAIN rest : v < rest[n]
        BY <1>1, <1>2, <1>6, <4>1 DEF DeliverInv
      <4>3. \A v \in Range(requested) \cap mail : v \in handled' \cup Range(t) \cup Range(left)
        BY <1>7, <2>1, <4>1, <4>2, Zenon
      <4>4. \A v \in given', n \in DOMAIN left : v < left[n]
        BY <1>7, <2>1, <3>2, <4>2, Zenon
      <4>5. \A v \in given, x \in Range(rest) : v < x
        BY <4>2 DEF Range
      <4>6. \A n \in DOMAIN t : t[n] \in Range(rest)
        BY <1>7 DEF Range
      <4>7. \A v \in given', n \in DOMAIN t : v < t[n]
        BY <1>7, <2>1, <3>1, <4>5, <4>6, Zenon
      <4> QED  BY <4>3, <4>4, <4>7
    <3>4. Ascends(t) /\ Range(t) \subseteq Range(requested)
      BY <1>7, <3>1, Zenon
    <3>5. Before(t, left)
      <4>1. \A n \in DOMAIN t : t[n] \in Range(rest)
        BY <1>7 DEF Range
      <4> QED  BY <3>2, <4>1, Zenon DEF Before
    <3>6. CASE pc' = "single"
      <4>1. Todo' = t
        BY <2>2, <3>6 DEF Todo
      <4>2. pc' \notin {"dates", "deliver", "done"}
        BY <3>6
      <4> QED  BY <1>3, <2>2, <2>3, <3>1, <3>3, <3>4, <3>5, <3>6, <4>1, <4>2, Zenon DEF DeliverInv
    <3>7. CASE pc' = "deliver"
      <4>1. Todo' = t /\ t = <<>>
        BY <2>3, <3>7 DEF Todo
      <4>2. pc' \notin {"dates", "single", "done"}
        BY <3>7
      <4> QED  BY <1>3, <2>3, <3>1, <3>3, <3>4, <3>5, <3>7, <4>1, <4>2, Zenon DEF DeliverInv
    <3>8. CASE pc' = "done"
      BY <2>3, <3>8 DEF DeliverInv
    <3> QED  BY <2>3, <3>6, <3>7, <3>8
  <2> QED  BY <1>1, <1>2, <1>3, <1>4, <1>5, <1>7, <2>1, <2>2, <2>3, <2>4, <2>5, FetchFrame
<1> QED  BY <1>8, <1>9, Zenon DEF fetchRawSequential

\* What the loop of fetchRawBatch notes about an answer.
LEMMA SeenFacts ==
    ASSUME f \in FetchState, NEW u \in Uids
    PROVE  LET h == Seen(u) IN
           /\ h \in FetchState /\ h.pending = f.pending
           /\ h.batch = f.batch /\ h.seen = f.seen \cup {u} /\ h.next = f.next
           /\ h.fallbackAt = f.fallbackAt /\ h.readErr = f.readErr /\ h.expired = f.expired
<1>1. u \in Nat
  BY Constants
<1>2. f.lastUID \in Nat /\ f.unordered \in BOOLEAN /\ f.seen \in SUBSET Uids
  BY DEF FetchState
<1>3. (f.unordered \/ (f.lastUID # 0 /\ u < f.lastUID)) \in BOOLEAN
  BY <1>2
<1>4. f.seen \cup {u} \in SUBSET Uids
  BY <1>2
<1> DEFINE b == (f.unordered \/ (f.lastUID # 0 /\ u < f.lastUID))
           c == f.seen \cup {u}
<1>5. Seen(u) = [f EXCEPT !.seen = c, !.lastUID = u, !.unordered = b]
  BY DEF Seen
<1>6. b \in BOOLEAN /\ c \in SUBSET Uids
  BY <1>3, <1>4
<1> HIDE DEF b, c
<1>7. LET h == Seen(u) IN
      /\ h \in FetchState /\ h.pending = f.pending
      /\ h.batch = f.batch /\ h.seen = c /\ h.next = f.next
      /\ h.fallbackAt = f.fallbackAt /\ h.readErr = f.readErr /\ h.expired = f.expired
  BY <1>1, <1>5, <1>6, Zenon DEF FetchState
<1> QED  BY <1>7 DEF c

\* The loop hands nothing over: it only looks at the answer.
LEMMA LookInv ==
    ASSUME FetchInv, pc = "batch", f' \in FetchState, f'.batch = f.batch, f'.next = f.next,
           f'.fallbackAt \in {f.fallbackAt, f.next},
           f'.fallbackAt = -1 /\ ~f'.readErr =>
              \A n \in DOMAIN f.batch : f.next < n =>
                 f.batch[n] \notin f'.seen /\ (f.batch[n] \in mail => f.batch[n] \in f'.pending),
           faults' \in 0 .. MaxFaults,
           UNCHANGED <<serverVars, connVars, cursorVars, searchVars, pollVars, pc, rest, confirmed>>
    PROVE  FetchInv'
<1>1. /\ TypeOK /\ RequestInv /\ HandledInv /\ DeliverInv /\ BatchInv
  BY DEF FetchInv
<1>2. UNCHANGED <<mail, old, stage, sequentialFetch, requested, more, left, handled, handlerErr, imapErr, given, pc, rest, confirmed>>
  BY Zenon DEF serverVars, connVars, pollVars
<1>3. /\ left \in Seq(Uids) /\ rest \in Seq(Uids)
      /\ handled \subseteq Uids /\ given \subseteq Uids /\ confirmed \subseteq Uids
      /\ handlerErr \in BOOLEAN /\ imapErr \in BOOLEAN /\ sequentialFetch \in BOOLEAN
  BY <1>1, Zenon DEF TypeOK
<1>4. ~imapErr
  BY <1>1 DEF RequestInv, Fetching
<1>5. DeliverInv'
  <2>1. Todo' = Todo
    BY <1>2 DEF Todo
  <2> QED  BY <1>1, <1>2, <2>1, Zenon DEF DeliverInv
<1>6. BatchInv'
  <2>1. /\ f.next <= Len(f.batch) /\ f.fallbackAt \in {-1, f.next}
        /\ ~handlerErr =>
              /\ \A n \in DOMAIN f.batch : n <= f.next => f.batch[n] \in handled
              /\ \A v \in given, n \in DOMAIN f.batch : f.next < n => v < f.batch[n]
    BY <1>1 DEF BatchInv
  <2>2. f'.fallbackAt \in {-1, f'.next}
    BY <2>1
  <2> QED  BY <1>2, <2>1, <2>2, Zenon DEF BatchInv
<1>7. UNCHANGED <<serverVars, stage, cursorVars, searchVars, requested, more>>
  BY <1>2
<1> QED  BY <1>1, <1>2, <1>3, <1>4, <1>5, <1>6, <1>7, FetchFrame, Zenon DEF HandledInv

\* An answer without a body.
LEMMA NoBodyInv ==
    ASSUME FetchInv, NEW u \in mail, NoBody(u)
    PROVE  FetchInv'
<1>1. TypeOK /\ BatchInv
  BY DEF FetchInv
<1>2. pc = "batch" /\ UNCHANGED <<serverVars, connVars, cursorVars, searchVars, pollVars, pc, rest, confirmed>>
  BY DEF NoBody
<1>3. faults' \in 0 .. MaxFaults
  BY <1>1, FaultType DEF NoBody
<1>4. f \in FetchState /\ u \in Uids
  BY <1>1 DEF TypeOK
<1>5. f.next \in Nat /\ f.next \in Int /\ f.fallbackAt \in Int
  BY <1>4 DEF FetchState
<1>6. /\ f.fallbackAt = -1 /\ ~f.readErr =>
              \A n \in DOMAIN f.batch : f.next < n =>
                 f.batch[n] \notin f.seen /\ (f.batch[n] \in mail => f.batch[n] \in f.pending)
  BY <1>1, <1>2 DEF BatchInv
<1> DEFINE h == Seen(u)
<1>7. /\ h \in FetchState /\ h.pending = f.pending
      /\ h.batch = f.batch /\ h.seen = f.seen \cup {u} /\ h.next = f.next
      /\ h.fallbackAt = f.fallbackAt /\ h.readErr = f.readErr
  BY <1>4, SeenFacts
<1>8. f' = IF u \notin Range(f.batch) \/ u \in f.seen THEN f
           ELSE IF f.fallbackAt >= 0 \/ f.readErr THEN h
           ELSE IF ~Expected(u) THEN [h EXCEPT !.fallbackAt = f.next]
           ELSE [h EXCEPT !.readErr = TRUE]
  BY DEF NoBody
<1> HIDE DEF h
<1>9. CASE f' = f
  BY <1>2, <1>3, <1>4, <1>6, <1>9, LookInv
<1>10. CASE f' = h /\ (f.fallbackAt >= 0 \/ f.readErr)
  <2>1. ~(f'.fallbackAt = -1 /\ ~f'.readErr)
    BY <1>5, <1>7, <1>10
  <2>2. f' \in FetchState /\ f'.batch = f.batch /\ f'.next = f.next /\ f'.fallbackAt = f.fallbackAt
    BY <1>7, <1>10
  <2> QED  BY <1>2, <1>3, <2>1, <2>2, LookInv
<1>11. CASE f' = [h EXCEPT !.fallbackAt = f.next]
  <2>1. f' \in FetchState /\ f'.batch = f.batch /\ f'.next = f.next /\ f'.fallbackAt = f.next
    BY <1>5, <1>7, <1>11, Zenon DEF FetchState
  <2>2. f'.fallbackAt # -1
    BY <1>5, <2>1
  <2> QED  BY <1>2, <1>3, <2>1, <2>2, LookInv
<1>12. CASE f' = [h EXCEPT !.readErr = TRUE]
  <2>1. /\ f' \in FetchState /\ f'.batch = f.batch /\ f'.next = f.next /\ f'.fallbackAt = f.fallbackAt
        /\ f'.readErr
    BY <1>7, <1>12, Zenon DEF FetchState
  <2> QED  BY <1>2, <1>3, <2>1, LookInv
<1> QED  BY <1>8, <1>9, <1>10, <1>11, <1>12, Zenon

\* An answer with the email: skipped, out of order, or handed over.
LEMMA AnswerInv ==
    ASSUME FetchInv, NEW u \in f.pending, Answer(u)
    PROVE  FetchInv'
<1>1. /\ TypeOK /\ RequestInv /\ HandledInv /\ DeliverInv /\ BatchInv
  BY DEF FetchInv
<1>2. pc = "batch" /\ UNCHANGED <<serverVars, connVars, cursorVars, searchVars, requested, more, left, imapErr, pc, rest>>
  BY DEF Answer
<1>3. /\ f \in FetchState /\ faults \in 0 .. MaxFaults
      /\ left \in Seq(Uids) /\ rest \in Seq(Uids)
      /\ imapErr \in BOOLEAN /\ sequentialFetch \in BOOLEAN
  BY <1>1 DEF TypeOK
<1>4. /\ f.next \in Nat /\ f.next \in Int /\ f.fallbackAt \in Int /\ f.pending \in SUBSET Uids
      /\ f.batch \in Seq(Uids)
  BY <1>3 DEF FetchState
<1>5. u \in Uids
  BY <1>4
<1>6. /\ f.next <= Len(f.batch) /\ f.fallbackAt \in {-1, f.next}
      /\ ~handlerErr =>
              /\ \A n \in DOMAIN f.batch : n <= f.next => f.batch[n] \in handled
              /\ \A v \in given, n \in DOMAIN f.batch : f.next < n => v < f.batch[n]
      /\ f.fallbackAt = -1 /\ ~f.readErr =>
              \A n \in DOMAIN f.batch : f.next < n =>
                 f.batch[n] \notin f.seen /\ (f.batch[n] \in mail => f.batch[n] \in f.pending)
  BY <1>1, <1>2 DEF BatchInv
<1> DEFINE h == Seen(u)
           g == [h EXCEPT !.pending = @ \ {u}]
           d == [f EXCEPT !.pending = @ \ {u}]
<1>7. /\ h \in FetchState /\ h.pending = f.pending
      /\ h.batch = f.batch /\ h.seen = f.seen \cup {u} /\ h.next = f.next
      /\ h.fallbackAt = f.fallbackAt /\ h.readErr = f.readErr
  BY <1>3, <1>5, SeenFacts
<1>8. IF u \in f.seen \/ f.fallbackAt >= 0 \/ f.readErr
      THEN /\ f' = IF u \in f.seen THEN d ELSE g
           /\ UNCHANGED <<handled, handlerErr, given, confirmed, faults>>
      ELSE IF ~Expected(u)
      THEN /\ f' = [g EXCEPT !.fallbackAt = f.next]
           /\ UNCHANGED <<handled, handlerErr, given, confirmed, faults>>
      ELSE /\ Callback(u)
           /\ \E slow \in {FALSE, ~handlerErr} :
                 f' = [g EXCEPT !.next = @ + 1, !.expired = @ \/ slow]
  BY DEF Answer
<1> HIDE DEF h
<1>9. /\ g \in FetchState /\ g.pending = f.pending \ {u}
      /\ g.batch = f.batch /\ g.seen = f.seen \cup {u} /\ g.next = f.next
      /\ g.fallbackAt = f.fallbackAt /\ g.readErr = f.readErr
  BY <1>7, DropPending
<1>10. /\ d \in FetchState /\ d.pending = f.pending \ {u}
       /\ d.batch = f.batch /\ d.seen = f.seen /\ d.next = f.next
       /\ d.fallbackAt = f.fallbackAt /\ d.readErr = f.readErr
  BY <1>3, DropPending, Zenon
<1> HIDE DEF g, d
<1>11. ASSUME UNCHANGED <<handled, handlerErr, given, confirmed, faults>>
       PROVE  /\ faults' \in 0 .. MaxFaults
              /\ UNCHANGED <<serverVars, connVars, cursorVars, searchVars, pollVars, pc, rest, confirmed>>
  BY <1>2, <1>3, <1>11 DEF pollVars
<1>12. CASE f' = d /\ u \in f.seen /\ UNCHANGED <<handled, handlerErr, given, confirmed, faults>>
  <2>1. /\ f' \in FetchState /\ f'.pending = f.pending \ {u} /\ f'.batch = f.batch /\ f'.seen = f.seen
        /\ f'.next = f.next /\ f'.fallbackAt = f.fallbackAt /\ f'.readErr = f.readErr
    BY <1>10, <1>12
  <2>2. f'.fallbackAt = -1 /\ ~f'.readErr =>
              \A n \in DOMAIN f.batch : f.next < n =>
                 f.batch[n] \notin f'.seen /\ (f.batch[n] \in mail => f.batch[n] \in f'.pending)
    BY <1>6, <1>12, <2>1
  <2> QED  BY <1>2, <1>11, <1>12, <2>1, <2>2, LookInv
<1>13. CASE /\ f' = g /\ (f.fallbackAt >= 0 \/ f.readErr)
            /\ UNCHANGED <<handled, handlerErr, given, confirmed, faults>>
  <2>1. /\ f' \in FetchState /\ f'.batch = f.batch
        /\ f'.next = f.next /\ f'.fallbackAt = f.fallbackAt /\ f'.readErr = f.readErr
    BY <1>9, <1>13
  <2>2. ~(f'.fallbackAt = -1 /\ ~f'.readErr)
    BY <1>4, <1>13, <2>1
  <2> QED  BY <1>2, <1>11, <1>13, <2>1, <2>2, LookInv
<1>14. CASE /\ f' = [g EXCEPT !.fallbackAt = f.next]
            /\ UNCHANGED <<handled, handlerErr, given, confirmed, faults>>
  <2>1. f' \in FetchState /\ f'.batch = f.batch /\ f'.next = f.next /\ f'.fallbackAt = f.next
    BY <1>4, <1>9, <1>14, Zenon DEF FetchState
  <2>2. f'.fallbackAt # -1
    BY <1>4, <2>1
  <2> QED  BY <1>2, <1>11, <1>14, <2>1, <2>2, LookInv
<1>15. ASSUME ~(u \in f.seen \/ f.fallbackAt >= 0 \/ f.readErr), Expected(u), Callback(u),
              \E slow \in {FALSE, ~handlerErr} :
                 f' = [g EXCEPT !.next = @ + 1, !.expired = @ \/ slow]
       PROVE  FetchInv'
  <2>1. PICK slow \in {FALSE, ~handlerErr} : f' = [g EXCEPT !.next = @ + 1, !.expired = @ \/ slow]
    BY <1>15, Zenon
  <2>2. /\ f' \in FetchState /\ f'.batch = f.batch /\ f'.seen = f.seen \cup {u} /\ f'.next = f.next + 1
        /\ f'.fallbackAt = f.fallbackAt /\ f'.readErr = f.readErr /\ f'.pending = f.pending \ {u}
    <3>1. g.expired \in BOOLEAN /\ slow \in BOOLEAN
      BY <1>9, Zenon DEF FetchState
    <3>2. (g.expired \/ slow) \in BOOLEAN /\ g.next + 1 \in Nat
      BY <1>4, <1>9, <3>1
    <3> DEFINE b == (g.expired \/ slow)
               m == g.next + 1
    <3>3. b \in BOOLEAN /\ m \in Nat /\ f' = [g EXCEPT !.next = m, !.expired = b] /\ m = f.next + 1
      BY <1>9, <2>1, <3>2
    <3> HIDE DEF b, m
    <3>4. /\ f' \in FetchState /\ f'.batch = g.batch /\ f'.seen = g.seen /\ f'.next = m
          /\ f'.fallbackAt = g.fallbackAt /\ f'.readErr = g.readErr /\ f'.pending = g.pending
      BY <1>9, <3>3, Zenon DEF FetchState
    <3> QED  BY <1>9, <3>3, <3>4, Zenon
  <2>3. f.next < Len(f.batch) /\ u = f.batch[f.next + 1]
    BY <1>15 DEF Expected
  <2>4. PICK k : k = Len(f.batch) /\ k \in Nat /\ DOMAIN f.batch = 1 .. k
    BY <1>4, UidSeq
  <2>5. f.next + 1 \in DOMAIN f.batch /\ f.next + 1 <= Len(f.batch)
    BY <1>4, <2>3, <2>4
  <2>6. f.fallbackAt = -1 /\ ~f.readErr
    BY <1>4, <1>6, <1>15
  <2>7. /\ handled' \subseteq Uids /\ given' \subseteq Uids /\ confirmed' \subseteq Uids
        /\ handlerErr' \in BOOLEAN /\ faults' \in 0 .. MaxFaults
        /\ confirmed \subseteq confirmed' /\ handled' \subseteq confirmed' \cup old
        /\ handled \subseteq handled' /\ given' \subseteq given \cup {u}
        /\ ~handlerErr' => ~handlerErr /\ u \in handled'
    BY <1>1, <1>5, <1>15, CallbackFacts
  <2>8. UNCHANGED <<mail, old, stage, sequentialFetch, requested, more, left, imapErr, pc, rest>>
    BY <1>2, Zenon DEF serverVars, connVars
  <2>9. Todo = f.batch /\ Todo' = f.batch
    BY <1>2, <2>2, <2>8 DEF Todo
  <2>10. /\ Ascends(left) /\ Ascends(f.batch) /\ Before(f.batch, left)
         /\ Range(left) \subseteq Range(requested) /\ Range(f.batch) \subseteq Range(requested)
         /\ ~handlerErr =>
                /\ \A v \in Range(requested) \cap mail : v \in handled \cup Range(f.batch) \cup Range(left)
                /\ \A v \in given, n \in DOMAIN left : v < left[n]
    BY <1>1, <1>2, <2>9, Zenon DEF DeliverInv
  <2>11. DeliverInv'
    <3>1. pc' \notin {"dates", "deliver", "single", "done"}
      BY <1>2, <2>8, Zenon
    <3>2. \A n \in DOMAIN left : u < left[n]
      BY <2>3, <2>5, <2>10, Zenon DEF Before
    <3>3. ASSUME ~handlerErr'
          PROVE  /\ \A v \in Range(requested) \cap mail : v \in handled' \cup Range(f.batch) \cup Range(left)
                 /\ \A v \in given', n \in DOMAIN left : v < left[n]
      <4>1. ~handlerErr
        BY <2>7, <3>3
      <4>2. \A v \in Range(requested) \cap mail : v \in handled' \cup Range(f.batch) \cup Range(left)
        BY <2>7, <2>10, <4>1, Zenon
      <4>3. \A v \in given', n \in DOMAIN left : v < left[n]
        BY <2>7, <2>10, <3>2, <4>1, Zenon
      <4> QED  BY <4>2, <4>3
    <3> QED  BY <2>8, <2>9, <2>10, <3>1, <3>3, Zenon DEF DeliverInv
  <2>12. BatchInv'
    <3>1. \A n \in DOMAIN f.batch : n \in Nat /\ (n <= f.next + 1 => n <= f.next \/ n = f.next + 1)
                                   /\ (f.next + 1 < n => f.next < n)
      BY <1>4, <2>4
    <3>2. \A n \in DOMAIN f.batch : f.next + 1 < n => u < f.batch[n]
      BY <2>3, <2>5, <2>10, Zenon DEF Ascends
    <3>3. \A n \in DOMAIN f.batch : f.next + 1 < n => u # f.batch[n]
      <4>1. u \in Nat
        BY <1>5, Constants
      <4> QED  BY <3>2, <4>1
    <3>4. ASSUME ~handlerErr'
          PROVE  /\ \A n \in DOMAIN f.batch : n <= f.next + 1 => f.batch[n] \in handled'
                 /\ \A v \in given', n \in DOMAIN f.batch : f.next + 1 < n => v < f.batch[n]
      <4>1. ~handlerErr /\ u \in handled'
        BY <2>7, <3>4
      <4>2. \A n \in DOMAIN f.batch : n <= f.next => f.batch[n] \in handled'
        BY <1>6, <2>7, <4>1, Zenon
      <4>3. \A n \in DOMAIN f.batch : n <= f.next + 1 => f.batch[n] \in handled'
        BY <2>3, <3>1, <4>1, <4>2, Zenon
      <4>4. \A v \in given, n \in DOMAIN f.batch : f.next + 1 < n => v < f.batch[n]
        BY <1>6, <3>1, <4>1, Zenon
      <4>5. \A v \in given', n \in DOMAIN f.batch : f.next + 1 < n => v < f.batch[n]
        BY <2>7, <3>2, <4>4, Zenon
      <4> QED  BY <4>3, <4>5
    <3>5. \A n \in DOMAIN f.batch : f.next + 1 < n =>
             f.batch[n] \notin f'.seen /\ (f.batch[n] \in mail => f.batch[n] \in f'.pending)
      BY <1>6, <2>2, <2>6, <3>1, <3>3, Zenon
    <3>6. f'.next <= Len(f'.batch) /\ f'.fallbackAt \in {-1, f'.next}
      BY <2>2, <2>5, <2>6, Zenon
    <3> QED  BY <2>2, <2>8, <3>4, <3>5, <3>6, Zenon DEF BatchInv
  <2>13. ~imapErr
    BY <1>1, <1>2 DEF RequestInv, Fetching
  <2>14. UNCHANGED <<serverVars, stage, cursorVars, searchVars, requested, more>>
    BY <1>2, <2>8
  <2>15. /\ pc' = "batch" /\ ~imapErr' /\ left' \in Seq(Uids) /\ rest' \in Seq(Uids)
         /\ imapErr' \in BOOLEAN /\ sequentialFetch' \in BOOLEAN
    BY <1>2, <1>3, <2>8, <2>13
  <2> QED  BY <1>2, <2>2, <2>7, <2>11, <2>12, <2>14, <2>15, FetchFrame, Zenon
<1> QED  BY <1>8, <1>12, <1>13, <1>14, <1>15, Zenon

-----------------------------------------------------------------------------
(* The end of a batch, and of the poll.                                    *)

\* What FetchRaw still has to fetch covers what the loop did not hand over.
LEMMA FallbackFacts ==
    ASSUME FetchInv, pc = "batch", f.pending = {}, ~f.readErr
    PROVE  LET q == Fallback IN
           /\ q \in Seq(Uids) /\ Ascends(q) /\ Range(q) \subseteq Range(f.batch)
           /\ ~handlerErr =>
                 /\ \A v \in Range(f.batch) \cap mail : v \in handled \cup Range(q)
                 /\ \A v \in given, n \in DOMAIN q : v < q[n]
<1>1. TypeOK /\ DeliverInv /\ BatchInv
  BY DEF FetchInv
<1>2. f \in FetchState
  BY <1>1 DEF TypeOK
<1>3. f.next \in Nat /\ f.fallbackAt \in Int /\ f.batch \in Seq(Uids)
  BY <1>2 DEF FetchState
<1>4. /\ f.next <= Len(f.batch) /\ f.fallbackAt \in {-1, f.next}
      /\ ~handlerErr =>
              /\ \A n \in DOMAIN f.batch : n <= f.next => f.batch[n] \in handled
              /\ \A v \in given, n \in DOMAIN f.batch : f.next < n => v < f.batch[n]
      /\ f.fallbackAt = -1 =>
              \A n \in DOMAIN f.batch : f.next < n => f.batch[n] \notin mail
  BY <1>1 DEF BatchInv
<1>5. Ascends(f.batch)
  <2>1. Todo = f.batch
    BY DEF Todo
  <2> QED  BY <1>1, <2>1 DEF DeliverInv
<1>6. PICK k : k = Len(f.batch) /\ k \in Nat /\ DOMAIN f.batch = 1 .. k
  BY <1>3, UidSeq
<1>7. CASE f.fallbackAt = -1
  <2>1. Fallback = <<>>
    BY <1>7 DEF Fallback
  <2>2. ASSUME ~handlerErr, NEW v \in Range(f.batch), v \in mail PROVE v \in handled
    <3>1. PICK n \in DOMAIN f.batch : v = f.batch[n]
      BY <2>2 DEF Range
    <3>2. n <= f.next \/ f.next < n
      BY <1>3, <1>6
    <3> QED  BY <1>4, <1>7, <2>2, <3>1, <3>2
  <2> QED  BY <2>1, <2>2, EmptyFacts, Zenon
<1>8. CASE f.fallbackAt = f.next
  <2> DEFINE p == SubSeq(f.batch, 1, f.next)
             q == SubSeq(f.batch, f.next + 1, Len(f.batch))
  <2>1. Fallback = q
    <3>1. f.fallbackAt >= 0
      BY <1>3, <1>8
    <3> QED  BY <1>8, <3>1, Zenon DEF Fallback
  <2>2. /\ p \in Seq(Uids) /\ Len(p) = f.next /\ \A i \in 1 .. f.next : p[i] = f.batch[i]
        /\ q \in Seq(Uids) /\ Len(q) = Len(f.batch) - f.next
        /\ \A i \in 1 .. Len(f.batch) - f.next : q[i] = f.batch[f.next + i]
        /\ Range(f.batch) = Range(p) \cup Range(q)
        /\ Ascends(q)
    BY <1>3, <1>4, <1>5, CutFacts, Zenon
  <2> HIDE DEF p, q
  <2>3. DOMAIN p = 1 .. f.next /\ DOMAIN q = 1 .. k - f.next
    BY <1>6, <2>2, UidSeq, Zenon
  <2>4. ASSUME ~handlerErr, NEW v \in Range(p) PROVE v \in handled
    <3>1. PICK i \in DOMAIN p : v = p[i]
      BY <2>4 DEF Range
    <3>2. i \in DOMAIN f.batch /\ i <= f.next /\ v = f.batch[i]
      <4>1. i \in 1 .. f.next /\ f.next \in Nat /\ f.next <= k /\ k \in Nat
        BY <1>3, <1>4, <1>6, <2>3
      <4>2. v = f.batch[i]
        BY <2>2, <3>1, <4>1, Zenon
      <4>3. i \in 1 .. k /\ i <= f.next
        BY <4>1, SMT
      <4> QED  BY <1>6, <4>2, <4>3
    <3> QED  BY <1>4, <2>4, <3>2
  <2>5. ASSUME ~handlerErr, NEW v \in given, NEW n \in DOMAIN q PROVE v < q[n]
    <3>1. f.next + n \in DOMAIN f.batch /\ f.next < f.next + n /\ q[n] = f.batch[f.next + n]
      <4>1. n \in 1 .. k - f.next /\ f.next \in Nat /\ f.next <= k /\ k \in Nat
        BY <1>3, <1>4, <1>6, <2>3
      <4>2. q[n] = f.batch[f.next + n]
        BY <1>6, <2>2, <4>1, Zenon
      <4>3. f.next + n \in 1 .. k /\ f.next < f.next + n
        BY <4>1, SMT
      <4> QED  BY <1>6, <4>2, <4>3
    <3> QED  BY <1>4, <2>5, <3>1
  <2> QED  BY <2>1, <2>2, <2>4, <2>5, Zenon
<1> QED  BY <1>4, <1>7, <1>8

\* The command ends: what the loop did not hand over is left to fetchRawSequential.
LEMMA EndBatchInv ==
    ASSUME FetchInv, EndBatch
    PROVE  FetchInv'
<1>1. /\ TypeOK /\ RequestInv /\ HandledInv /\ DeliverInv
  BY DEF FetchInv
<1>2. /\ pc = "batch" /\ sequentialFetch' = (sequentialFetch \/ f.unordered) /\ f' = NoFetch
      /\ UNCHANGED <<serverVars, stage, cursorVars, searchVars, requested, more, left, handled, handlerErr, given, confirmed>>
  BY DEF EndBatch
<1>3. UNCHANGED <<mail, old, stage, requested, more, left, handled, handlerErr, given, confirmed>>
  BY <1>2, Zenon DEF serverVars
<1>4. /\ left \in Seq(Uids) /\ rest \in Seq(Uids) /\ f \in FetchState
      /\ handled \subseteq Uids /\ given \subseteq Uids /\ confirmed \subseteq Uids
      /\ handlerErr \in BOOLEAN /\ imapErr \in BOOLEAN /\ sequentialFetch \in BOOLEAN
      /\ faults \in 0 .. MaxFaults
  BY <1>1 DEF TypeOK
<1>5. f.unordered \in BOOLEAN /\ f.readErr \in BOOLEAN
  BY <1>4 DEF FetchState
<1>6. sequentialFetch' \in BOOLEAN
  BY <1>2, <1>4, <1>5, Zenon
<1>7. f' \in FetchState
  BY <1>2, NoFetchType
<1>8. ASSUME pc' = "done", imapErr' = TRUE, rest' \in Seq(Uids), faults' \in 0 .. MaxFaults
      PROVE  FetchInv'
  <2>1. DeliverInv' /\ BatchInv'
    BY <1>8, FailFrame
  <2> QED  BY <1>1, <1>2, <1>3, <1>4, <1>6, <1>7, <1>8, <2>1, FetchFrame DEF HandledInv
<1>9. CASE /\ (f.expired /\ UNCHANGED faults) \/ Fault
           /\ imapErr' = TRUE
           /\ Goto("done")
           /\ UNCHANGED rest
  <2>1. faults' \in 0 .. MaxFaults
    BY <1>1, <1>4, <1>9, FaultType
  <2> QED  BY <1>4, <1>8, <1>9, <2>1 DEF Goto
<1>10. CASE /\ f.pending = {}
            /\ UNCHANGED faults
            /\ imapErr' = f.readErr
            /\ rest' = IF f.readErr THEN <<>> ELSE Fallback
            /\ Goto(IF f.readErr THEN "done" ELSE IF Fallback # <<>> THEN "single"
                    ELSE IF handlerErr THEN "done" ELSE "deliver")
  <2>1. CASE f.readErr
    <3>1. imapErr' = TRUE /\ pc' = "done" /\ rest' = <<>> /\ faults' = faults
      BY <1>10, <2>1, Zenon DEF Goto
    <3> QED  BY <1>4, <1>8, <3>1, EmptyFacts
  <2>2. CASE ~f.readErr
    <3> DEFINE q == Fallback
    <3>1. /\ q \in Seq(Uids) /\ Ascends(q) /\ Range(q) \subseteq Range(f.batch)
          /\ ~handlerErr =>
                 /\ \A v \in Range(f.batch) \cap mail : v \in handled \cup Range(q)
                 /\ \A v \in given, n \in DOMAIN q : v < q[n]
      BY <1>2, <1>10, <2>2, FallbackFacts, Zenon
    <3>2. /\ imapErr' = FALSE /\ faults' = faults /\ rest' = q
          /\ pc' = IF q # <<>> THEN "single" ELSE IF handlerErr THEN "done" ELSE "deliver"
      BY <1>5, <1>10, <2>2, Zenon DEF Goto
    <3> HIDE DEF q
    <3>3. /\ pc' \in {"single", "deliver", "done"}
          /\ pc' = "single" => q # <<>>
          /\ pc' = "deliver" => q = <<>> /\ ~handlerErr
          /\ pc' = "done" => handlerErr
      BY <3>2
    <3>4. Todo = f.batch
      BY <1>2 DEF Todo
    <3>5. /\ Ascends(left) /\ Before(f.batch, left)
          /\ Range(left) \subseteq Range(requested) /\ Range(f.batch) \subseteq Range(requested)
          /\ ~handlerErr =>
                /\ \A v \in Range(requested) \cap mail : v \in handled \cup Range(f.batch) \cup Range(left)
                /\ \A v \in given, n \in DOMAIN left : v < left[n]
      BY <1>1, <1>2, <3>4, Zenon DEF DeliverInv
    <3>6. Range(q) \subseteq Range(requested)
      BY <3>1, <3>5, Zenon
    <3>7. Before(q, left)
      <4>1. \A n \in DOMAIN q : q[n] \in Range(f.batch)
        BY <3>1 DEF Range
      <4>2. \A x \in Range(f.batch), n \in DOMAIN left : x < left[n]
        BY <3>5, Zenon DEF Before, Range
      <4> QED  BY <4>1, <4>2, Zenon DEF Before
    <3>8. ~handlerErr => \A v \in Range(requested) \cap mail : v \in handled \cup Range(q) \cup Range(left)
      BY <3>1, <3>5, Zenon
    <3>9. DeliverInv'
      <4>1. CASE pc' = "single"
        <5>1. Todo' = q
          BY <3>2, <4>1 DEF Todo
        <5>2. pc' \notin {"dates", "deliver", "done"}
          BY <4>1
        <5> QED  BY <1>3, <3>1, <3>2, <3>3, <3>5, <3>6, <3>7, <3>8, <4>1, <5>1, <5>2, Zenon DEF DeliverInv
      <4>2. CASE pc' = "deliver"
        <5>1. Todo' = q
          BY <3>3, <4>2 DEF Todo
        <5>2. pc' \notin {"dates", "single", "done"}
          BY <4>2
        <5> QED  BY <1>3, <3>1, <3>3, <3>5, <3>6, <3>7, <3>8, <4>2, <5>1, <5>2, Zenon DEF DeliverInv
      <4>3. CASE pc' = "done"
        BY <1>3, <3>3, <4>3 DEF DeliverInv
      <4> QED  BY <3>3, <4>1, <4>2, <4>3
    <3>10. BatchInv'
      BY <3>3 DEF BatchInv
    <3>11. UNCHANGED <<serverVars, stage, cursorVars, searchVars, requested, more>>
      BY <1>2
    <3> QED  BY <1>1, <1>2, <1>3, <1>4, <1>6, <1>7, <3>1, <3>2, <3>3, <3>9, <3>10, <3>11, FetchFrame, Zenon DEF HandledInv
  <2> QED  BY <2>1, <2>2
<1> QED  BY <1>9, <1>10, Zenon DEF EndBatch

\* The cursor advanceConfirmed gives, and what lies below it.
LEMMA AdvanceFacts ==
    ASSUME RankFacts, FetchInv, pc = "done"
    PROVE  LET c == advanceConfirmed IN
           /\ c \in 0 .. MaxUID /\ c < uidNext
           /\ \A u \in mail : u <= c => u \in confirmed \cup old
<1> DEFINE K == {n \in DOMAIN requested : \A m \in 1 .. n : requested[m] \in handled}
           S == {lastUID} \cup {requested[n] : n \in K}
<1>1. TypeOK /\ BelowNext /\ RequestInv /\ HandledInv /\ CursorCovers
  BY DEF FetchInv
<1>2. requested \in Seq(Uids) /\ lastUID \in 0 .. MaxUID
  BY <1>1 DEF TypeOK
<1>3. PICK k : k \in Nat /\ DOMAIN requested = 1 .. k /\ \A n \in DOMAIN requested : requested[n] \in Uids /\ requested[n] \in Nat
  BY <1>2, UidSeq
<1>4. lastUID \in Nat /\ uidNext \in Nat /\ \A u \in mail : u \in Nat
  BY <1>1, TypeFacts
<1>5. S \in SUBSET ({lastUID} \cup Uids)
  BY <1>3
<1>7. lastUID \in S
  OBVIOUS
<1>8. \A x \in S : x = lastUID \/ \E n \in K : x = requested[n]
  OBVIOUS
<1>9. advanceConfirmed = Max(S)
  BY DEF advanceConfirmed
<1> HIDE DEF S
<1>10. S \in SUBSET (0 .. MaxUID) /\ MaxUID \in Nat /\ S # {}
  BY <1>2, <1>5, <1>7, Constants
<1>12. Max(S) \in S
  BY <1>10, MaxFacts, Zenon
<1> DEFINE c == advanceConfirmed
<1>13. c = lastUID \/ \E n \in K : c = requested[n]
  BY <1>8, <1>9, <1>12
<1> HIDE DEF c
<1>14. c \in 0 .. MaxUID /\ c < uidNext
  <2>1. CASE c = lastUID
    BY <1>1, <1>2, <2>1 DEF BelowNext
  <2>2. CASE \E n \in K : c = requested[n]
    BY <1>1, <1>3, <2>2, Constants DEF BelowNext
  <2> QED  BY <1>13, <2>1, <2>2
<1>15. ASSUME NEW u \in mail, u <= c PROVE u \in confirmed \cup old
  <2>1. CASE u <= lastUID
    BY <1>1, <2>1 DEF CursorCovers
  <2>2. CASE u \notin Searched
    BY <2>2 DEF Searched
  <2>3. CASE ~(u <= lastUID) /\ u \in Searched
    <3>1. lastUID < u
      BY <1>4, <2>3
    <3>2. PICK n \in K : c = requested[n]
      BY <1>13, <1>15, <2>3
    <3>3. n \in DOMAIN requested /\ u <= requested[n]
      BY <1>15, <3>2
    <3>4. u \in Range(requested)
      BY <1>1, <2>3, <3>1, <3>3 DEF RequestInv
    <3>5. PICK m \in DOMAIN requested : u = requested[m]
      BY <3>4 DEF Range
    <3>6. m \in 1 .. n
      <4>1. n < m => requested[n] < requested[m]
        BY <1>1, <3>3, <3>5 DEF RequestInv, Ascends
      <4> QED  BY <1>3, <3>3, <3>5, <4>1
    <3>7. u \in handled
      BY <3>2, <3>5, <3>6
    <3> QED  BY <1>1, <3>7 DEF HandledInv
  <2> QED  BY <2>1, <2>2, <2>3
<1> QED  BY <1>14, <1>15 DEF c

\* A recovery that is finished has passed over nothing of its range.
LEMMA FinishedFacts ==
    ASSUME FetchInv, pc = "done", Finished
    PROVE  \A u \in mail : u <= toUID => u \in confirmed \cup old
<1>1. TypeOK /\ RequestInv /\ HandledInv /\ CursorCovers /\ DeliverInv
  BY DEF FetchInv
<1>2. toUID # 0 /\ ~imapErr /\ ~handlerErr /\ ~more
  BY DEF Finished
<1>3. Range(requested) \cap mail \subseteq handled
  BY <1>1, <1>2 DEF DeliverInv
<1>4. \A u \in Searched : lastUID < u /\ u <= toUID => u \in Range(requested)
  BY <1>1, <1>2 DEF RequestInv
<1>5. ASSUME NEW u \in mail, u <= toUID PROVE u \in confirmed \cup old
  <2>1. CASE u <= lastUID
    BY <1>1, <2>1 DEF CursorCovers
  <2>2. CASE u \notin Searched
    BY <2>2 DEF Searched
  <2>3. CASE ~(u <= lastUID) /\ u \in Searched
    <3>1. lastUID < u
      BY <1>1, <2>3, TypeFacts
    <3>2. u \in handled
      BY <1>3, <1>4, <1>5, <2>3, <3>1
    <3> QED  BY <1>1, <3>2 DEF HandledInv
  <2> QED  BY <2>1, <2>2, <2>3
<1> QED  BY <1>5

\* The cursor is stored.
LEMMA CompletePollInv ==
    ASSUME RankFacts, FetchInv, CompletePoll
    PROVE  FetchInv'
<1>1. /\ TypeOK /\ BelowNext /\ StageInv /\ HandledInv /\ CursorCovers
  BY DEF FetchInv
<1>2. /\ pc = "done" /\ pc' = "idle"
      /\ start' = 0 /\ to' = 0 /\ found' = <<>> /\ bound' = 0
      /\ requested' = <<>> /\ more' = FALSE /\ left' = <<>>
      /\ handled' = {} /\ handlerErr' = FALSE /\ imapErr' = FALSE /\ given' = {}
      /\ UNCHANGED <<serverVars, f, rest, confirmed>>
  BY DEF CompletePoll, Goto
<1>3. UNCHANGED <<mail, uidNext, reports, old, arrivals, expunged, f, rest, confirmed>>
  BY <1>2, Zenon DEF serverVars
<1>4. stage' \in {"closed", "ready"} /\ sequentialFetch' \in BOOLEAN
  <2>1. stage = "ready" /\ sequentialFetch \in BOOLEAN
    BY <1>1, <1>2 DEF StageInv, TypeOK
  <2> QED  BY <2>1, Zenon DEF CompletePoll, DropSession, connVars
<1>5. /\ lastUID \in 0 .. MaxUID /\ toUID \in 0 .. MaxUID /\ faults \in 0 .. MaxFaults
      /\ lastUID < uidNext /\ toUID < uidNext /\ uidNext \in Nat /\ uidNext # 0
  BY <1>1, TypeFacts DEF TypeOK, BelowNext
<1>6. /\ lastUID' \in 0 .. MaxUID /\ toUID' \in 0 .. MaxUID /\ faults' \in 0 .. MaxFaults
      /\ lastUID' < uidNext /\ toUID' < uidNext
      /\ \A u \in mail : u <= lastUID' => u \in confirmed \cup old
  <2>1. CASE Fault /\ UNCHANGED cursorVars
    <3>1. lastUID' = lastUID /\ toUID' = toUID
      BY <2>1 DEF cursorVars
    <3>2. faults' \in 0 .. MaxFaults
      BY <1>1, <2>1, FaultType
    <3> QED  BY <1>1, <1>5, <3>1, <3>2 DEF CursorCovers
  <2>2. CASE /\ lastUID' = IF Finished THEN toUID ELSE advanceConfirmed
             /\ toUID' = IF Finished THEN 0 ELSE toUID
             /\ UNCHANGED faults
    <3>1. CASE Finished
      <4>1. lastUID' = toUID /\ toUID' = 0 /\ faults' = faults
        BY <2>2, <3>1
      <4>2. \A u \in mail : u <= toUID => u \in confirmed \cup old
        BY <1>2, <3>1, FinishedFacts
      <4> QED  BY <1>5, <4>1, <4>2, Constants
    <3>2. CASE ~Finished
      <4>1. lastUID' = advanceConfirmed /\ toUID' = toUID /\ faults' = faults
        BY <2>2, <3>2
      <4>2. /\ advanceConfirmed \in 0 .. MaxUID /\ advanceConfirmed < uidNext
            /\ \A u \in mail : u <= advanceConfirmed => u \in confirmed \cup old
        BY <1>2, AdvanceFacts
      <4> QED  BY <1>5, <4>1, <4>2
    <3> QED  BY <3>1, <3>2
  <2> QED  BY <2>1, <2>2, Zenon DEF CompletePoll
<1>7. TypeOK'
  <2>1. pc' \in Steps /\ 0 \in 0 .. MaxUID
    BY <1>2, Constants DEF Steps
  <2>2. stage' \in {"closed", "plain", "secure", "ready"}
    BY <1>4
  <2> QED  BY <1>1, <1>2, <1>3, <1>4, <1>6, <2>1, <2>2, EmptyFacts, Zenon DEF TypeOK
<1>8. BelowNext'
  <2>1. bound' < uidNext
    BY <1>2, <1>5
  <2> QED  BY <1>1, <1>2, <1>3, <1>6, <2>1, EmptyFacts, Zenon DEF BelowNext
<1>9. StageInv' /\ SearchInv' /\ BatchInv' /\ DeliverInv'
  BY <1>2, <1>4, Zenon DEF StageInv, SearchInv, BatchInv, DeliverInv
<1>10. BlankInv' /\ RequestInv'
  BY <1>2 DEF BlankInv, RequestInv, Fetching
<1>11. HandledInv' /\ CursorCovers'
  BY <1>2, <1>3, <1>6, Zenon DEF HandledInv, CursorCovers
<1> QED  BY <1>7, <1>8, <1>9, <1>10, <1>11 DEF FetchInv

-----------------------------------------------------------------------------
(* Every step.                                                             *)

\* The first poll.
LEMMA InitInv ==
    ASSUME RankFacts, Init
    PROVE  FetchInv
<1>1. mail \in Mailboxes /\ uidNext = Max({0} \cup mail) + 1 /\ reports \in BOOLEAN /\ lastUID = 0
  BY DEF Init
<1>2. mail \subseteq Uids
  BY <1>1, FetchAssumption
<1> DEFINE S == {0} \cup mail
<1>3. S \in SUBSET Nat /\ S # {} /\ \A x \in S : x <= MaxUID
  BY <1>2, Constants
<1>4. S \in SUBSET (0 .. MaxUID) /\ MaxUID \in Nat
  BY <1>2, Constants
<1>5. uidNext = Max(S) + 1
  BY <1>1
<1>6. \A u \in mail : u \in S
  OBVIOUS
<1>7. lastUIDOf(mail, UIDNext) = IF UIDNext > 0 THEN UIDNext - 1 ELSE Max(S)
  BY DEF lastUIDOf
<1> HIDE DEF S
<1>8. Max(S) \in S /\ \A y \in S : y <= Max(S)
  BY <1>3, <1>4, MaxFacts, Zenon
<1>9. Max(S) \in Nat /\ Max(S) <= MaxUID
  BY <1>3, <1>8, Zenon
<1>10. uidNext \in 1 .. MaxUID + 1 /\ \A u \in mail : u < uidNext
  BY <1>2, <1>5, <1>6, <1>8, <1>9, Constants
<1>11. lastUIDOf(mail, UIDNext) = Max(S)
  BY <1>5, <1>7, <1>9, <1>10 DEF UIDNext
<1>12. (toUID = 0 /\ old = {}) \/ (toUID = lastUIDOf(mail, UIDNext) /\ old = mail \cap ReadBefore)
  BY DEF Init
<1>13. toUID \in 0 .. MaxUID /\ toUID < uidNext /\ old \subseteq Uids
  <2>1. old \subseteq Uids
    BY <1>2, <1>12
  <2>2. toUID = 0 \/ toUID = Max(S)
    BY <1>11, <1>12, Zenon
  <2> QED  BY <1>5, <1>9, <2>1, <2>2, Constants
<1>14. /\ stage = "closed" /\ sequentialFetch = FALSE /\ pc = "idle"
       /\ start = 0 /\ to = 0 /\ found = <<>> /\ bound = 0
       /\ requested = <<>> /\ more = FALSE /\ left = <<>>
       /\ handled = {} /\ handlerErr = FALSE /\ imapErr = FALSE /\ given = {}
       /\ f = NoFetch /\ rest = <<>> /\ confirmed = {}
       /\ arrivals = 0 /\ expunged = 0 /\ faults = 0
  BY DEF Init
<1>15. TypeOK
  <2>1. pc \in Steps /\ stage \in {"closed", "plain", "secure", "ready"}
    BY <1>14 DEF Steps
  <2>2. 0 \in 0 .. MaxUID /\ 0 \in 0 .. MaxArrivals /\ 0 \in 0 .. MaxExpunged /\ 0 \in 0 .. MaxFaults
    BY Constants
  <2> QED  BY <1>1, <1>2, <1>10, <1>13, <1>14, <2>1, <2>2, EmptyFacts, NoFetchType, Zenon DEF TypeOK
<1>16. BelowNext
  <2>1. 0 < uidNext
    BY <1>10, Constants
  <2> QED  BY <1>1, <1>10, <1>13, <1>14, <2>1, EmptyFacts, Zenon DEF BelowNext
<1>17. StageInv /\ SearchInv /\ BatchInv /\ DeliverInv
  BY <1>14, Zenon DEF StageInv, SearchInv, BatchInv, DeliverInv
<1>18. BlankInv /\ RequestInv /\ HandledInv
  BY <1>14 DEF BlankInv, RequestInv, Fetching, HandledInv
<1>19. CursorCovers
  <2>1. \A u \in mail : ~(u <= 0)
    BY <1>2, Constants
  <2> QED  BY <1>1, <2>1 DEF CursorCovers
<1> QED  BY <1>15, <1>16, <1>17, <1>18, <1>19 DEF FetchInv

\* Nothing happens.
LEMMA StutterInv ==
    ASSUME FetchInv, UNCHANGED vars
    PROVE  FetchInv'
<1>1. UNCHANGED <<old, stage, cursorVars, searchVars, pollVars, pc, rest, confirmed>>
  BY Zenon DEF vars, serverVars, connVars
<1>2. /\ UNCHANGED <<mail, uidNext, reports, old, arrivals, expunged, stage, sequentialFetch, lastUID, toUID>>
      /\ UNCHANGED <<start, to, found, bound, requested, more, left, handled, handlerErr, imapErr, given>>
      /\ UNCHANGED <<pc, f, rest, confirmed, faults>>
  BY Zenon DEF vars, serverVars, connVars, cursorVars, searchVars, pollVars
<1>3. TypeOK /\ BelowNext
  BY DEF FetchInv
<1>4. TypeOK'
  BY <1>2, <1>3, Zenon DEF TypeOK
<1>5. uidNext <= uidNext' /\ \A u \in mail' : u < uidNext' /\ u \in mail
  BY <1>2, <1>3, TypeFacts DEF BelowNext
<1> QED  BY <1>1, <1>2, <1>4, <1>5, ServerInv, Zenon

\* Every step keeps the invariant.
LEMMA NextInv ==
    ASSUME RankFacts, FetchInv, [Next]_vars
    PROVE  FetchInv'
<1>1. CASE Client
  BY <1>1, PollInv, StartTLSInv, AuthenticateInv, DialInv, ExamineInv, SearchStep, RecoverInv,
     NextBatchInv, EndBatchInv, SequentialInv, CompletePollInv, AnswerInv, Zenon DEF Client
<1>2. CASE Environment
  BY <1>2, ArriveInv, ExpungeInv, NoBodyInv, Zenon DEF Environment
<1>3. CASE UNCHANGED vars
  BY <1>3, StutterInv
<1> QED  BY <1>1, <1>2, <1>3 DEF Next

\* What searchUIDs requests has no gap.
LEMMA ExactFacts ==
    ASSUME FetchInv, Fetching
    PROVE  SearchExact
<1>1. TypeOK /\ RequestInv
  BY DEF FetchInv
<1>2. /\ Ascends(requested)
      /\ \A n \in DOMAIN requested : lastUID < requested[n]
      /\ \A u \in Searched, n \in DOMAIN requested :
            lastUID < u /\ u <= requested[n] => u \in Range(requested)
      /\ ~more =>
            \A u \in Searched :
               lastUID < u /\ u <= (IF toUID # 0 THEN toUID ELSE bound) => u \in Range(requested)
      /\ more => requested # <<>>
  BY <1>1 DEF RequestInv
<1>3. requested \in Seq(Uids) /\ lastUID \in Nat
  BY <1>1, TypeFacts DEF TypeOK
<1>4. PICK k : /\ k = Len(requested) /\ k \in Nat /\ DOMAIN requested = 1 .. k
               /\ \A n \in DOMAIN requested : requested[n] \in Nat
               /\ requested # <<>> => k # 0
  BY <1>3, UidSeq
<1>5. ASSUME NEW n \in DOMAIN requested
      PROVE  requested[n] > (IF n = 1 THEN lastUID ELSE requested[n - 1])
  <2>1. CASE n = 1
    BY <1>2, <1>3, <1>4, <2>1
  <2>2. CASE n # 1
    <3>1. n - 1 \in DOMAIN requested /\ n - 1 < n
      BY <1>4, <2>2
    <3>2. requested[n - 1] < requested[n]
      BY <1>2, <3>1 DEF Ascends
    <3> QED  BY <1>4, <2>2, <3>1, <3>2
  <2> QED  BY <2>1, <2>2
<1>6. CASE more
  <2>1. Len(requested) = k /\ k \in DOMAIN requested
    BY <1>2, <1>4, <1>6
  <2>2. \A u \in Searched : lastUID < u /\ u <= requested[Len(requested)] => u \in Range(requested)
    BY <1>2, <2>1, Zenon
  <2> QED  BY <1>5, <1>6, <2>2, Zenon DEF SearchExact
<1>7. CASE ~more
  BY <1>2, <1>5, <1>7, Zenon DEF SearchExact
<1> QED  BY <1>6, <1>7

-----------------------------------------------------------------------------
(* The order of the emails handed over.                                    *)

\* What the callback hands over comes after all that was handed over.
LEMMA HandOverStep ==
    ASSUME NEW u, Callback(u),
           ~handlerErr =>
              /\ \A v \in given : v < u
              /\ \A v \in Range(requested) \cap mail : v < u => v \in given \cup handled
    PROVE  \A w \in given' \ given :
              /\ \A v \in given : v < w
              /\ \A v \in Range(requested) \cap mail : v < w => v \in given \cup handled
<1>1. handlerErr => given' = given
  BY DEF Callback
<1>2. given' \subseteq given \cup {u}
  BY DEF Callback
<1> QED  BY <1>1, <1>2

\* An answer in the order of the batch.
LEMMA AnswerOrder ==
    ASSUME FetchInv, pc = "batch", Expected(f.batch[f.next + 1]), ~handlerErr
    PROVE  LET u == f.batch[f.next + 1] IN
           /\ \A v \in given : v < u
           /\ \A v \in Range(requested) \cap mail : v < u => v \in given \cup handled
<1> DEFINE u == f.batch[f.next + 1]
<1>1. TypeOK /\ DeliverInv /\ BatchInv
  BY DEF FetchInv
<1>2. f.next \in Nat /\ f.batch \in Seq(Uids)
  BY <1>1 DEF TypeOK, FetchState
<1>3. PICK k : /\ k = Len(f.batch) /\ k \in Nat /\ DOMAIN f.batch = 1 .. k
               /\ \A n \in DOMAIN f.batch : f.batch[n] \in Nat
  BY <1>2, UidSeq
<1>4. f.next < Len(f.batch)
  BY DEF Expected
<1>5. f.next + 1 \in DOMAIN f.batch /\ f.next < f.next + 1
  BY <1>2, <1>3, <1>4
<1>6. /\ \A n \in DOMAIN f.batch : n <= f.next => f.batch[n] \in handled
      /\ \A v \in given, n \in DOMAIN f.batch : f.next < n => v < f.batch[n]
  BY <1>1 DEF BatchInv
<1>7. Todo = f.batch
  BY DEF Todo
<1>8. /\ Ascends(f.batch) /\ Before(f.batch, left)
      /\ \A v \in Range(requested) \cap mail : v \in handled \cup Range(f.batch) \cup Range(left)
  BY <1>1, <1>7 DEF DeliverInv
<1>9. \A v \in given : v < u
  BY <1>5, <1>6, Zenon
<1>10. u \in Nat
  BY <1>3, <1>5
<1> HIDE DEF u
<1>11. ASSUME NEW v \in Range(requested) \cap mail, v < u PROVE v \in handled
  <2>1. v \in Nat
    BY <1>1, TypeFacts
  <2>2. CASE v \in Range(left)
    <3>1. PICK n \in DOMAIN left : v = left[n]
      BY <2>2 DEF Range
    <3>2. u < v
      BY <1>5, <1>8, <3>1, Zenon DEF Before, u
    <3> QED  BY <1>10, <1>11, <2>1, <3>2
  <2>3. CASE v \in Range(f.batch)
    <3>1. PICK n \in DOMAIN f.batch : v = f.batch[n]
      BY <2>3 DEF Range
    <3>2. f.next + 1 < n => u < v
      BY <1>5, <1>8, <3>1, Zenon DEF Ascends, u
    <3>3. f.next + 1 = n => u = v
      BY <3>1 DEF u
    <3>4. n <= f.next
      BY <1>2, <1>3, <1>10, <1>11, <2>1, <3>2, <3>3
    <3> QED  BY <1>6, <3>1, <3>4
  <2> QED  BY <1>8, <2>2, <2>3, Zenon
<1>12. \A v \in Range(requested) \cap mail : v < u => v \in given \cup handled
  BY <1>11
<1> QED  BY <1>9, <1>12 DEF u

\* The next email of fetchRawSequential.
LEMMA SequentialOrder ==
    ASSUME FetchInv, pc = "single", ~handlerErr
    PROVE  LET u == Head(rest) IN
           /\ \A v \in given : v < u
           /\ \A v \in Range(requested) \cap mail : v < u => v \in given \cup handled
<1> DEFINE u == Head(rest)
<1>1. TypeOK /\ DeliverInv
  BY DEF FetchInv
<1>2. rest \in Seq(Uids) /\ rest # <<>>
  BY <1>1 DEF TypeOK, DeliverInv
<1>3. Todo = rest
  BY DEF Todo
<1>4. /\ Ascends(rest) /\ Before(rest, left)
      /\ \A v \in Range(requested) \cap mail : v \in handled \cup Range(rest) \cup Range(left)
      /\ \A v \in given, n \in DOMAIN rest : v < rest[n]
  BY <1>1, <1>3 DEF DeliverInv
<1>5. /\ u \in Uids /\ Range(rest) = {u} \cup Range(Tail(rest))
      /\ \A n \in DOMAIN Tail(rest) : u < Tail(rest)[n]
  BY <1>2, <1>4, TailFacts
<1> HIDE DEF u
<1>6. u \in Nat
  BY <1>5, Constants
<1>7. PICK m \in DOMAIN rest : u = rest[m]
  <2>1. u \in Range(rest)
    BY <1>5
  <2> QED  BY <2>1 DEF Range
<1>8. \A v \in given : v < u
  BY <1>4, <1>7, Zenon
<1>9. ASSUME NEW v \in Range(requested) \cap mail, v < u PROVE v \in handled
  <2>1. v \in Nat
    BY <1>1, TypeFacts
  <2>2. v # u
    BY <1>6, <1>9
  <2>3. CASE v \in Range(left)
    <3>1. PICK n \in DOMAIN left : v = left[n]
      BY <2>3 DEF Range
    <3>2. u < v
      BY <1>4, <1>7, <3>1, Zenon DEF Before
    <3> QED  BY <1>6, <1>9, <2>1, <3>2
  <2>4. CASE v \in Range(Tail(rest))
    <3>1. PICK n \in DOMAIN Tail(rest) : v = Tail(rest)[n]
      BY <2>4 DEF Range
    <3>2. u < v
      BY <1>5, <3>1, Zenon
    <3> QED  BY <1>6, <1>9, <2>1, <3>2
  <2> QED  BY <1>4, <1>5, <2>2, <2>3, <2>4
<1>10. \A v \in Range(requested) \cap mail : v < u => v \in given \cup handled
  BY <1>9
<1> QED  BY <1>8, <1>10 DEF u

\* Every other step hands nothing over.
LEMMA GivenStep ==
    ASSUME [Next]_vars
    PROVE  \/ given' \subseteq given
           \/ pc = "batch" /\ \E u \in f.pending : Expected(u) /\ Callback(u)
           \/ pc = "single" /\ Callback(Head(rest))
<1>1. ASSUME UNCHANGED pollVars PROVE given' \subseteq given
  BY <1>1 DEF pollVars
<1>2. CASE Poll \/ StartTLS \/ Authenticate \/ (\E security \in {"tls", "starttls"} : Dial(security)) \/ Examine
  BY <1>1, <1>2, Zenon DEF Poll, StartTLS, Authenticate, Dial, Examine
<1>3. CASE Search
  <2>1. given' = given
    BY <1>3, Zenon DEF Search, Request, SearchFailed, pollVars
  <2> QED  BY <2>1
<1>4. CASE Recover \/ NextBatch \/ EndBatch
  <2>1. given' = given
    BY <1>4, Zenon DEF Recover, NextBatch, EndBatch
  <2> QED  BY <2>1
<1>5. CASE fetchRawSequential
  <2>1. given' = given \/ Callback(Head(rest))
    BY <1>5, Zenon DEF fetchRawSequential
  <2>2. pc = "single"
    BY <1>5 DEF fetchRawSequential
  <2> QED  BY <2>1, <2>2
<1>6. CASE CompletePoll
  <2>1. given' = {}
    BY <1>6 DEF CompletePoll
  <2> QED  BY <2>1
<1>7. CASE \E u \in f.pending : Answer(u)
  <2>1. PICK u \in f.pending : Answer(u)
    BY <1>7
  <2>2. pc = "batch" /\ (given' = given \/ (Expected(u) /\ Callback(u)))
    BY <2>1, Zenon DEF Answer
  <2> QED  BY <2>2
<1>8. CASE Environment
  <2>1. UNCHANGED pollVars
    BY <1>8, Zenon DEF Environment, Arrive, Expunge, NoBody
  <2> QED  BY <1>1, <2>1
<1>9. CASE UNCHANGED vars
  <2>1. UNCHANGED pollVars
    BY <1>9, Zenon DEF vars
  <2> QED  BY <1>1, <2>1
<1> QED  BY <1>2, <1>3, <1>4, <1>5, <1>6, <1>7, <1>8, <1>9, Zenon DEF Next, Client

-----------------------------------------------------------------------------
(* Finite sets of naturals.                                                *)
INSTANCE FiniteSetTheorems

\* A bounded set is finite, so its ranks are distinct numbers below its size, and
\* as many as those.
LEMMA BoundedSetsAreRanked == RankFacts
<1> SUFFICES ASSUME NEW b \in Nat, NEW S \in SUBSET (0 .. b)
             PROVE  /\ Cardinality(S) \in Nat
                    /\ \A u \in S : Rank(S, u) \in 0 .. Cardinality(S) - 1
                    /\ \A u, w \in S : u < w => Rank(S, u) < Rank(S, w)
                    /\ \A k \in 0 .. Cardinality(S) - 1 : \E u \in S : Rank(S, u) = k
  BY Zenon DEF RankFacts
<1> DEFINE N == Cardinality(S)
           g == [u \in S |-> Rank(S, u)]
<1>1. S \in SUBSET Nat /\ IsFiniteSet(S)
  <2>1. 0 \in Int /\ b \in Int /\ S \in SUBSET Nat
    OBVIOUS
  <2> QED  BY <2>1, FS_Interval, FS_Subset, Zenon
<1>2. N \in Nat
  BY <1>1, FS_CardinalityType
<1>3. ASSUME NEW u \in S
      PROVE  Rank(S, u) \in 0 .. N - 1
  <2> DEFINE T == {v \in S : v < u}
             R == S \ {u}
  <2>1. IsFiniteSet(R) /\ Cardinality(R) = N - 1
    BY <1>1, FS_RemoveElement
  <2>2. T \in SUBSET R
    BY <1>1, SMT
  <2> HIDE DEF T, R, N
  <2>3. IsFiniteSet(T) /\ Cardinality(T) <= Cardinality(R)
    BY <2>1, <2>2, FS_Subset
  <2>4. Cardinality(T) \in Nat
    BY <2>3, FS_CardinalityType
  <2>5. Cardinality(T) \in 0 .. N - 1
    BY <1>2, <2>1, <2>3, <2>4
  <2> QED  BY <2>5, Zenon DEF Rank, T
<1>4. ASSUME NEW u \in S, NEW w \in S, u < w
      PROVE  Rank(S, u) < Rank(S, w)
  <2> DEFINE A == {v \in S : v < u}
             B == {v \in S : v < w}
  <2>1. A \in SUBSET B /\ u \in B /\ u \notin A
    <3>1. u \in Nat /\ w \in Nat /\ ~(u < u)
      BY <1>1
    <3>2. \A v \in S : v < u => v < w
      BY <1>1, <1>4, <3>1
    <3> QED  BY <1>4, <3>1, <3>2, Zenon
  <2>2. A \in SUBSET S /\ B \in SUBSET S
    OBVIOUS
  <2> HIDE DEF A, B
  <2>3. IsFiniteSet(A) /\ IsFiniteSet(B)
    BY <1>1, <2>2, FS_Subset, Zenon
  <2>4. Cardinality(A) \in Nat /\ Cardinality(B) \in Nat
    BY <2>3, FS_CardinalityType
  <2>5. Cardinality(A) <= Cardinality(B) /\ Cardinality(A) # Cardinality(B)
    BY <2>1, <2>3, FS_Subset, Zenon
  <2>6. Cardinality(A) < Cardinality(B)
    BY <2>4, <2>5
  <2> QED  BY <2>6, Zenon DEF Rank, A, B
<1>5. g \in Injection(S, 0 .. N - 1)
  <2>1. g \in [S -> 0 .. N - 1]
    BY <1>3, Zenon
  <2>2. ASSUME NEW u \in S, NEW w \in S, g[u] = g[w]
        PROVE  u = w
    <3>1. u \in Nat /\ w \in Nat
      BY <1>1
    <3>2. Rank(S, u) = Rank(S, w) /\ Rank(S, u) \in 0 .. N - 1
      BY <1>3, <2>2, Zenon
    <3>3. ~(Rank(S, u) < Rank(S, w)) /\ ~(Rank(S, w) < Rank(S, u))
      BY <1>2, <3>2
    <3>4. ~(u < w) /\ ~(w < u)
      BY <1>4, <3>3
    <3> QED  BY <3>1, <3>4
  <2> QED  BY <2>1, <2>2 DEF Injection, IsInjective
<1>6. g \in Surjection(S, 0 .. N - 1)
  <2> HIDE DEF N, g
  <2>1. 0 \in Int /\ N - 1 \in Int /\ IF 0 > N - 1 THEN 0 = N ELSE (N - 1) - 0 + 1 = N
    BY <1>2
  <2>2. IsFiniteSet(0 .. N - 1) /\ Cardinality(0 .. N - 1) = N
    BY <1>2, <2>1, FS_Interval
  <2> QED  BY <1>1, <1>5, <2>2, FS_Injection DEF N
<1>7. \A k \in 0 .. N - 1 : \E u \in S : Rank(S, u) = k
  BY <1>6, Zenon DEF Surjection
<1> QED  BY <1>2, <1>3, <1>4, <1>7, Zenon

-----------------------------------------------------------------------------
(* The theorems.                                                           *)

\* The inductive invariant: the search has no gap, what is requested is handled, in
\* work or left in UID order until a handler fails, and the loop of fetchRawBatch
\* loses none of what the server has yet to answer.
THEOREM FetchInvariant == Spec => []FetchInv
<1>1. Init => FetchInv
  BY BoundedSetsAreRanked, InitInv
<1>2. FetchInv /\ [Next]_vars => FetchInv'
  BY BoundedSetsAreRanked, NextInv
<1> QED  BY <1>1, <1>2, PTL DEF Spec

\* For every size of the words, the windows, the limit and the batches, and for any
\* number of faults: the cursor never passes an email that is still in the mailbox
\* and was not confirmed, and a recovery that jumps to the end of its range has
\* passed over nothing (sync.go:150, recovery.go:132-133).
THEOREM CursorCoversMail == Spec => []CursorCovers
<1>1. FetchInv => CursorCovers
  BY DEF FetchInv
<1> QED  BY <1>1, FetchInvariant, PTL

\* Connect: credentials and commands go over a secured connection only, and a poll
\* leaves no half-made connection behind (imap.go:155-159).
THEOREM ConnectionIsClean == Spec => []ConnectClean
<1>1. FetchInv => ConnectClean
  BY DEF FetchInv, StageInv, ConnectClean
<1> QED  BY <1>1, FetchInvariant, PTL

\* searchUIDs is exact, wherever its windows end and although their sums wrap
\* around: the requested UIDs ascend from the cursor and none is missing.
THEOREM SearchIsExact == Spec => []SearchExact
<1>1. FetchInv => SearchExact
  BY ExactFacts DEF SearchExact
<1> QED  BY <1>1, FetchInvariant, PTL

\* sync hands new messages to the handler in UID order, whatever the order of the
\* server's answers, and an email only after every requested one before it that still
\* exists (sync.go:22).
THEOREM HandedOverInOrder == Spec => InUIDOrder
<1>1. FetchInv /\ [Next]_vars =>
         [\A u \in given' \ given :
             /\ \A v \in given : v < u
             /\ \A v \in Range(requested) \cap mail : v < u => v \in given \cup handled]_vars
  <2> SUFFICES ASSUME FetchInv, [Next]_vars
               PROVE  \A u \in given' \ given :
                         /\ \A v \in given : v < u
                         /\ \A v \in Range(requested) \cap mail : v < u => v \in given \cup handled
    OBVIOUS
  <2>1. CASE given' \subseteq given
    BY <2>1
  <2>2. CASE pc = "batch" /\ \E u \in f.pending : Expected(u) /\ Callback(u)
    <3>1. PICK u \in f.pending : Expected(u) /\ Callback(u)
      BY <2>2, Zenon
    <3>2. u = f.batch[f.next + 1]
      BY <3>1 DEF Expected
    <3>3. ~handlerErr =>
              /\ \A v \in given : v < u
              /\ \A v \in Range(requested) \cap mail : v < u => v \in given \cup handled
      BY <2>2, <3>1, <3>2, AnswerOrder, Zenon
    <3> QED  BY <3>1, <3>3, HandOverStep
  <2>3. CASE pc = "single" /\ Callback(Head(rest))
    <3>1. ~handlerErr =>
              /\ \A v \in given : v < Head(rest)
              /\ \A v \in Range(requested) \cap mail : v < Head(rest) => v \in given \cup handled
      BY <2>3, SequentialOrder
    <3> QED  BY <2>3, <3>1, HandOverStep
  <2> QED  BY <2>1, <2>2, <2>3, GivenStep
<1> QED  BY <1>1, FetchInvariant, PTL DEF Spec, InUIDOrder
=============================================================================
