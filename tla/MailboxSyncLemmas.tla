------------------------- MODULE MailboxSyncLemmas --------------------------
(***************************************************************************)
(* The types and the shape of MailboxSync, what its steps change, and what *)
(* cursors and polls keep through the steps of others.                     *)
(***************************************************************************)
EXTENDS MailboxSync, FiniteSetTheorems, TLAPS

\* Leaves that need arithmetic or many updates at once cite SMT.
USE Zenon
-----------------------------------------------------------------------------
(* Induction over the naturals, for a set, and the maximum of a finite set. *)

\* A set of naturals that has 0 and the successor of each of its elements has them all:
\* otherwise the successor would map its part below a missing one into fewer elements.
LEMMA SetInduction ==
    ASSUME NEW A \in SUBSET Nat, 0 \in A, \A k \in A : k + 1 \in A
    PROVE  Nat \subseteq A
<1> SUFFICES ASSUME NEW n \in Nat, n \notin A PROVE FALSE
  OBVIOUS
<1> DEFINE S == A \cap (0 .. n)
           f == [k \in S |-> k + 1]
<1>1. IsFiniteSet(S) /\ Cardinality(S) \in Nat
  <2>1. IsFiniteSet(0 .. n)
    <3>1. 0 \in Int /\ n \in Int
      BY SMT
    <3> QED
      BY <3>1, FS_Interval
  <2> QED
    BY <2>1, FS_Subset, FS_CardinalityType
<1>2. 0 \in S
  BY SMT
<1>3. /\ IsFiniteSet(S \ {0}) /\ Cardinality(S \ {0}) \in Nat
      /\ Cardinality(S \ {0}) < Cardinality(S)
  <2>1. IsFiniteSet(S \ {0}) /\ Cardinality(S \ {0}) = Cardinality(S) - 1
    BY <1>1, <1>2, FS_RemoveElement
  <2> HIDE DEF S
  <2> QED
    BY <1>1, <2>1, FS_CardinalityType, SMT
<1>4. f \in [S -> S \ {0}]
  <2> SUFFICES ASSUME NEW k \in S PROVE k + 1 \in S \ {0}
    OBVIOUS
  <2>1. k + 1 \in A
    OBVIOUS
  <2>2. k \in Nat /\ k <= n /\ k # n
    BY SMT
  <2> QED
    BY <2>1, <2>2, SMT
<1>5. PICK x \in S, y \in S : x # y /\ f[x] = f[y]
  <2> HIDE DEF S, f
  <2> QED
    BY <1>1, <1>3, <1>4, FS_PigeonHole
<1>6. x \in Nat /\ y \in Nat /\ x + 1 = y + 1
  BY <1>5
<1> QED
  BY <1>5, <1>6, SMT

\* A finite set of naturals with an element has a greatest one.
LEMMA MaxExists ==
    ASSUME NEW S \in SUBSET Nat, IsFiniteSet(S), S # {}
    PROVE  \E x \in S : \A y \in S : y <= x
<1> DEFINE Bounded(T) == \E x \in T : \A y \in T : y <= x
           A == {n \in Nat : \A T \in SUBSET Nat :
                    IsFiniteSet(T) /\ Cardinality(T) = n + 1 => Bounded(T)}
<1>1. 0 \in A
  <2> SUFFICES ASSUME NEW T \in SUBSET Nat, IsFiniteSet(T), Cardinality(T) = 0 + 1
               PROVE  Bounded(T)
    BY SMT
  <2>1. PICK x : T = {x}
    <3>1. Cardinality(T) = 1
      BY SMT
    <3> QED
      BY <3>1, FS_Singleton
  <2> QED
    BY <2>1, SMT
<1>2. ASSUME NEW k \in A
      PROVE  k + 1 \in A
  <2>1. k \in Nat /\ k + 1 \in Nat
    BY SMT
  <2> SUFFICES ASSUME NEW T \in SUBSET Nat, IsFiniteSet(T), Cardinality(T) = (k + 1) + 1
               PROVE  Bounded(T)
    BY <2>1
  <2>2. PICK z \in T : TRUE
    <3>1. (k + 1) + 1 # 0
      BY <2>1, SMT
    <3> QED
      BY <3>1, FS_EmptySet
  <2>3. IsFiniteSet(T \ {z}) /\ Cardinality(T \ {z}) = k + 1
    <3>1. IsFiniteSet(T \ {z}) /\ Cardinality(T \ {z}) = Cardinality(T) - 1
      BY FS_RemoveElement
    <3> QED
      BY <2>1, <3>1, SMT
  <2>4. Bounded(T \ {z})
    <3>1. T \ {z} \in SUBSET Nat
      OBVIOUS
    <3> QED
      BY <2>3, <3>1
  <2>5. PICK x \in T \ {z} : \A y \in T \ {z} : y <= x
    BY <2>4
  <2>6. x \in Nat /\ z \in Nat
    OBVIOUS
  <2>7. CASE z <= x
    BY <2>5, <2>7
  <2>8. CASE x < z
    <3>1. \A y \in T \ {z} : y <= z
      BY <2>5, <2>6, <2>8, SMT
    <3>2. z <= z
      BY <2>6, SMT
    <3> QED
      BY <3>1, <3>2
  <2> QED
    BY <2>6, <2>7, <2>8, SMT
<1>3. Nat \subseteq A
  <2> HIDE DEF A
  <2>1. A \in SUBSET Nat
    BY DEF A
  <2> QED
    BY <1>1, <1>2, <2>1, SetInduction
<1>4. Cardinality(S) \in Nat /\ Cardinality(S) # 0
  BY FS_CardinalityType, FS_EmptySet
<1>5. Cardinality(S) - 1 \in Nat /\ (Cardinality(S) - 1) + 1 = Cardinality(S)
  BY <1>4, SMT
<1> QED
  BY <1>3, <1>5

\* What Max computes.
LEMMA MaxFacts ==
    ASSUME NEW S \in SUBSET Nat, IsFiniteSet(S), S # {}
    PROVE  Max(S) \in S /\ \A y \in S : y <= Max(S)
<1>1. PICK x \in S : \A y \in S : y <= x
  BY MaxExists
<1>2. \A y \in S : x >= y
  BY <1>1, SMT
<1>3. Max(S) \in S /\ \A y \in S : Max(S) >= y
  BY <1>2 DEF Max
<1> QED
  BY <1>3, SMT

\* A set of naturals with an element has a least one.
LEMMA MinFacts ==
    ASSUME NEW S \in SUBSET Nat, S # {}
    PROVE  Min(S) \in S /\ \A y \in S : Min(S) <= y
<1>1. \E x \in S : \A y \in S : x <= y
  <2> SUFFICES ASSUME \A x \in S : \E y \in S : ~(x <= y) PROVE FALSE
    OBVIOUS
  <2> DEFINE A == {n \in Nat : \A y \in S : n <= y}
  <2>1. 0 \in A
    BY SMT
  <2>2. ASSUME NEW k \in A
        PROVE  k + 1 \in A
    <3> SUFFICES ASSUME NEW y \in S PROVE k + 1 <= y
      BY SMT
    <3>1. k <= y /\ k \in Nat /\ y \in Nat
      OBVIOUS
    <3>2. k # y
      OBVIOUS
    <3> QED
      BY <3>1, <3>2, SMT
  <2>3. Nat \subseteq A
    <3> HIDE DEF A
    <3>1. A \in SUBSET Nat
      BY DEF A
    <3> QED
      BY <2>1, <2>2, <3>1, SetInduction
  <2>4. PICK z \in S : TRUE
    OBVIOUS
  <2>5. z \in Nat /\ z + 1 \in A
    BY <2>3, SMT
  <2>6. z + 1 <= z
    BY <2>5
  <2> QED
    BY <2>5, <2>6, SMT
<1> QED
  BY <1>1 DEF Min

-----------------------------------------------------------------------------
(* The steps of the mailbox, and what a cursor keeps through them.         *)

\* The numbers of the model.
LEMMA Numbers ==
    ASSUME TypeOK
    PROVE  /\ Len(DateOf) \in Nat /\ Emails = 1 .. Len(DateOf) /\ Uids = Emails
           /\ \A e \in Emails : e \in Nat /\ e # 0 /\ DateOf[e] \in Nat
           /\ arrived \in Nat /\ arrived <= Len(DateOf) /\ validity \in Nat /\ validity # 0
           /\ Len(box) \in Nat /\ Len(box) <= Len(DateOf) /\ DOMAIN box = 1 .. Len(box)
           /\ \A u \in DOMAIN box : box[u] \in Emails \cup {0} /\ box[u] \in Nat
           /\ Dates \subseteq Nat
<1>1. DateOf \in Seq(Nat \ {0})
  BY MailboxAssumption
<1>2. Len(DateOf) \in Nat /\ DOMAIN DateOf = 1 .. Len(DateOf) /\ \A e \in DOMAIN DateOf : DateOf[e] \in Nat
  BY <1>1, SMT
<1>3. Emails = 1 .. Len(DateOf) /\ Uids = Emails
  BY <1>2 DEF Emails, Uids
<1>4. \A e \in Emails : e \in Nat /\ e # 0 /\ DateOf[e] \in Nat
  BY <1>2, <1>3, SMT
<1>5. arrived \in Nat /\ arrived <= Len(DateOf) /\ validity \in Nat /\ validity # 0
  <2>1. arrived \in {0} \cup Emails /\ validity \in 1 .. MaxValidity
    BY DEF TypeOK
  <2> QED
    BY <2>1, <1>2, <1>3, SMT
<1>6. box \in Seq(Emails \cup {0}) /\ Len(box) <= Len(DateOf)
  BY DEF TypeOK
<1>7. Len(box) \in Nat /\ DOMAIN box = 1 .. Len(box) /\ \A u \in DOMAIN box : box[u] \in Emails \cup {0}
  BY <1>6, SMT
<1>8. \A u \in DOMAIN box : box[u] \in Nat
  <2>1. 0 \in Nat
    BY SMT
  <2> QED
    BY <1>7, <1>4, <2>1
<1>9. Dates \subseteq Nat
  <2>1. 0 \in Nat
    BY SMT
  <2> QED
    BY <1>2, <2>1 DEF Dates, Range
<1> QED
  BY <1>2, <1>3, <1>4, <1>5, <1>6, <1>7, <1>8, <1>9

\* The fields of a cursor.
LEMMA CursorFields ==
    ASSUME TypeOK, NEW c \in Cursors
    PROVE  /\ c.validity \in Nat /\ c.last \in Nat /\ c.to \in Nat
           /\ c.date \in Nat /\ c.checkpoint \in Nat
<1>1. c.validity \in 0 .. MaxValidity /\ c.last \in {0} \cup Uids /\ c.to \in {0} \cup Uids
      /\ c.date \in Dates /\ c.checkpoint \in Dates
  BY SMT DEF Cursors
<1>2. Dates \subseteq Nat /\ Uids \subseteq Nat /\ 0 \in Nat
  BY Numbers, SMT
<1>3. 0 .. MaxValidity \subseteq Nat
  BY SMT
<1> QED
  BY <1>1, <1>2, <1>3

\* What a step does to the mailbox: nothing becomes pending, and as long as the numbering
\* stays, emails are only expunged or appended in the order of arrival.
Ahead ==
    /\ Pending' \subseteq Pending
    /\ validity' \in Nat /\ validity <= validity'
    /\ validity' = validity =>
          /\ Len(box') \in Nat /\ Len(box) <= Len(box') /\ DOMAIN box' = 1 .. Len(box')
          /\ \A u \in DOMAIN box : box'[u] \in {box[u], 0}
          /\ \A n \in Nat : n <= Len(box) =>
                Later(n)' \subseteq Later(n) /\ (InOrderFrom(n) => InOrderFrom(n)')

\* What is pending is an email that has arrived or will, never a tombstone.
LEMMA PendingEmails ==
    ASSUME TypeOK
    PROVE  Pending \subseteq Emails /\ 0 \notin Pending
  BY Numbers DEF Pending, Unread, Arrived, Range

\* An email that arrives gets the next UID and moves the mailbox ahead.
LEMMA ArriveAhead ==
    ASSUME TypeOK, TypeOK', ShapeInv, Arrive
    PROVE  Ahead
<1>1. /\ arrived' = arrived + 1 /\ box' = Append(box, arrived + 1)
      /\ validity' = validity /\ done' = done /\ baseline' = baseline
  BY DEF Arrive, pollVars, rowVars
<1>2. /\ Len(box') = Len(box) + 1 /\ DOMAIN box' = 1 .. Len(box) + 1
      /\ \A u \in DOMAIN box : u \in DOMAIN box' /\ box'[u] = box[u]
      /\ box'[Len(box) + 1] = arrived + 1
  <2>1. box \in Seq(Emails \cup {0})
    BY DEF TypeOK
  <2> QED
    BY <1>1, <2>1, SMT
<1>3. \A v \in DOMAIN box' : v \in DOMAIN box \/ v = Len(box) + 1
  BY <1>2, Numbers, SMT
<1>4. Pending' \subseteq Pending
  <2> SUFFICES ASSUME NEW e \in Pending' PROVE e \in Pending
    OBVIOUS
  <2>1. CASE e \in Emails /\ e > arrived'
    <3>1. e > arrived
      BY <1>1, <2>1, Numbers, SMT
    <3> QED
      BY <2>1, <3>1 DEF Pending
  <2>2. CASE e \in Unread'
    <3>1. PICK u \in DOMAIN box' : e = box'[u] /\ e # 0 /\ e \notin done \cup baseline
      BY <1>1, <2>2 DEF Unread, Arrived, Range
    <3>2. CASE u \in DOMAIN box
      BY <1>2, <3>1, <3>2 DEF Pending, Unread, Arrived, Range
    <3>3. CASE u = Len(box) + 1
      <4>1. e = arrived + 1 /\ e \in Emails
        <5>1. e \in Emails \cup {0}
          <6>1. box' \in Seq(Emails \cup {0})
            BY DEF TypeOK
          <6> QED
            BY <3>1, <6>1, SMT
        <5> QED
          BY <1>2, <3>1, <3>3, <5>1
      <4>2. e > arrived
        BY <4>1, Numbers, SMT
      <4> QED
        BY <4>1, <4>2 DEF Pending
    <3> QED
      BY <1>3, <3>2, <3>3
  <2> QED
    BY <2>1, <2>2 DEF Pending
<1>5. ASSUME NEW n \in Nat, n <= Len(box)
      PROVE  Later(n)' \subseteq Later(n)
  <2> SUFFICES ASSUME NEW e \in Emails, e > arrived' \/ \E v \in DOMAIN box' : v > n /\ box'[v] = e
               PROVE  e > arrived \/ \E v \in DOMAIN box : v > n /\ box[v] = e
    BY <1>4, PendingEmails DEF Later
  <2>1. CASE e > arrived'
    BY <1>1, <2>1, Numbers, SMT
  <2>2. CASE \E v \in DOMAIN box' : v > n /\ box'[v] = e
    <3>1. PICK v \in DOMAIN box' : v > n /\ box'[v] = e
      BY <2>2
    <3>2. CASE v \in DOMAIN box
      BY <1>2, <3>1, <3>2
    <3>3. CASE v = Len(box) + 1
      <4>1. e = arrived + 1
        BY <1>2, <3>1, <3>3
      <4> QED
        BY <4>1, Numbers, SMT
    <3> QED
      BY <1>3, <3>2, <3>3
  <2> QED
    BY <2>1, <2>2
<1>6. ASSUME NEW n \in Nat, InOrderFrom(n)
      PROVE  InOrderFrom(n)'
  <2> SUFFICES ASSUME NEW u \in DOMAIN box', NEW v \in DOMAIN box',
                      u < v, n < v, box'[u] # 0, box'[v] # 0
               PROVE  box'[u] < box'[v]
    BY DEF InOrderFrom
  <2>1. CASE v \in DOMAIN box
    <3>1. u \in DOMAIN box
      BY <1>2, <2>1, Numbers, SMT
    <3> QED
      BY <1>2, <1>6, <2>1, <3>1 DEF InOrderFrom
  <2>2. CASE v = Len(box) + 1
    <3>1. u \in DOMAIN box
      BY <1>2, <2>2, Numbers, SMT
    <3>2. box[u] <= arrived /\ box[u] \in Nat
      BY <3>1, Numbers DEF ShapeInv
    <3>3. box'[u] = box[u] /\ box'[v] = arrived + 1
      BY <1>2, <2>2, <3>1
    <3> QED
      BY <3>2, <3>3, Numbers, SMT
  <2> QED
    BY <1>3, <2>1, <2>2
<1>7. /\ Len(box') \in Nat /\ Len(box) <= Len(box') /\ DOMAIN box' = 1 .. Len(box')
      /\ validity' \in Nat /\ validity <= validity'
  BY <1>1, <1>2, Numbers, SMT
<1> QED
  BY <1>2, <1>4, <1>5, <1>6, <1>7 DEF Ahead

\* Expunging an email leaves the UIDs of the others alone.
LEMMA ExpungeAhead ==
    ASSUME TypeOK, NEW w \in 1 .. Len(box), Expunge(w)
    PROVE  Ahead
<1>1. /\ box' = [box EXCEPT ![w] = 0]
      /\ arrived' = arrived /\ validity' = validity /\ done' = done /\ baseline' = baseline
  BY DEF Expunge
<1>2. /\ Len(box') = Len(box) /\ DOMAIN box' = DOMAIN box
      /\ \A u \in DOMAIN box : box'[u] = IF u = w THEN 0 ELSE box[u]
  <2>1. box \in Seq(Emails \cup {0})
    BY DEF TypeOK
  <2> QED
    BY <1>1, <2>1, SMT
<1>3. \A u \in DOMAIN box : box'[u] \in {box[u], 0} /\ (box'[u] # 0 => box'[u] = box[u])
  BY <1>2
<1>4. Pending' \subseteq Pending
  BY <1>1, <1>2, <1>3 DEF Pending, Unread, Arrived, Range
<1>5. ASSUME NEW n \in Nat
      PROVE  Later(n)' \subseteq Later(n)
  <2> SUFFICES ASSUME NEW e \in Emails, e > arrived' \/ \E v \in DOMAIN box' : v > n /\ box'[v] = e
               PROVE  e > arrived \/ \E v \in DOMAIN box : v > n /\ box[v] = e
    BY <1>4, PendingEmails DEF Later
  <2>1. e # 0
    BY Numbers
  <2> QED
    BY <1>1, <1>2, <1>3, <2>1
<1>6. ASSUME NEW n \in Nat, InOrderFrom(n)
      PROVE  InOrderFrom(n)'
  BY <1>2, <1>3, <1>6 DEF InOrderFrom
<1>7. /\ Len(box') \in Nat /\ Len(box) <= Len(box') /\ DOMAIN box' = 1 .. Len(box')
      /\ validity' \in Nat /\ validity <= validity'
  BY <1>1, <1>2, Numbers, SMT
<1> QED
  BY <1>3, <1>4, <1>5, <1>6, <1>7 DEF Ahead

\* Renumbering changes UIDVALIDITY, and what has arrived stays the same.
LEMMA RenumberAhead ==
    ASSUME TypeOK, Renumber
    PROVE  Ahead
<1>1. /\ arrived' = arrived /\ done' = done /\ baseline' = baseline
      /\ box' \in [1 .. Cardinality(Arrived) -> Arrived] /\ validity' = validity + 1
  BY DEF Renumber, rowVars
<1>2. validity' \in Nat /\ validity <= validity' /\ validity' # validity
  BY <1>1, Numbers, SMT
<1>3. Range(box') \subseteq Arrived
  BY <1>1 DEF Range
<1>4. Pending' \subseteq Pending
  BY <1>1, <1>3 DEF Pending, Unread, Arrived
<1> QED
  BY <1>2, <1>4 DEF Ahead

\* A step that leaves the mailbox alone and takes nothing back.
LEMMA SameAhead ==
    ASSUME TypeOK, UNCHANGED mailVars, done \subseteq done', baseline \subseteq baseline'
    PROVE  Ahead
<1>1. box' = box /\ arrived' = arrived /\ validity' = validity
  BY DEF mailVars
<1>2. Pending' \subseteq Pending
  BY <1>1 DEF Pending, Unread, Arrived
<1>3. ASSUME NEW n \in Nat
      PROVE  Later(n)' \subseteq Later(n) /\ (InOrderFrom(n) => InOrderFrom(n)')
  BY <1>1, <1>2 DEF Later, InOrderFrom
<1>4. Len(box) <= Len(box) /\ validity <= validity
  BY Numbers, SMT
<1> QED
  BY <1>1, <1>2, <1>3, <1>4, Numbers DEF Ahead

-----------------------------------------------------------------------------
(* What is kept of the cursors and of the polls a step does not touch.     *)

\* A good cursor stays good.
LEMMA GoodKept ==
    ASSUME TypeOK, Ahead, NEW c \in Cursors, Good(c)
    PROVE  Good(c)'
<1>0. /\ c.validity \in Nat /\ c.last \in Nat /\ c.to \in Nat /\ c.checkpoint \in Nat
      /\ validity \in Nat /\ validity' \in Nat /\ validity <= validity' /\ c.validity <= validity
  BY CursorFields, Numbers DEF Ahead, Good, Within
<1>1. c.validity <= validity'
  BY <1>0, SMT
<1>2. (\A e \in Pending : DateOf[e] >= recoveryCheckpoint(c))'
  BY DEF Ahead, Good, recoveryCheckpoint
<1>3. ASSUME c.validity = validity'
      PROVE  /\ c.last <= Len(box') /\ c.to <= Len(box') /\ Placed(c)'
             /\ (\A u \in 1 .. c.last : box[u] \notin Pending)'
             /\ (c.checkpoint # 0 => \A e \in Later(c.to) : DateOf[e] >= c.date)'
  <2>1. validity' = validity /\ c.validity = validity
    BY <1>0, <1>3, SMT
  <2>2. Placed(c) /\ c.last <= Len(box) /\ c.to <= Len(box)
    BY <2>1 DEF Good, Within
  <2>3. /\ Len(box) \in Nat /\ Len(box') \in Nat /\ Len(box) <= Len(box')
        /\ \A u \in DOMAIN box : box'[u] \in {box[u], 0}
        /\ DOMAIN box = 1 .. Len(box)
    BY <2>1, Numbers DEF Ahead
  <2>4. Later(c.to)' \subseteq Later(c.to)
    BY <1>0, <2>1, <2>2 DEF Ahead
  <2>5. c.last <= Len(box') /\ c.to <= Len(box')
    BY <1>0, <2>2, <2>3, SMT
  <2>6. Placed(c)'
    <3>1. CASE c.checkpoint # 0
      <4>1. InOrderFrom(c.to)'
        BY <1>0, <2>1, <2>2, <3>1 DEF Ahead, Placed
      <4> QED
        BY <3>1, <4>1 DEF Placed
    <3>2. CASE c.checkpoint = 0
      <4>1. InOrderFrom(c.last)'
        BY <1>0, <2>1, <2>2, <3>2 DEF Ahead, Placed
      <4> QED
        BY <3>2, <4>1 DEF Placed
    <3> QED
      BY <3>1, <3>2
  <2>7. ASSUME NEW u \in 1 .. c.last
        PROVE  box'[u] \notin Pending'
    <3>1. u \in DOMAIN box
      BY <1>0, <2>2, <2>3, SMT
    <3>2. box[u] \notin Pending /\ 0 \notin Pending
      BY <2>1, Numbers DEF Good, Pending, Unread, Arrived
    <3> QED
      BY <2>3, <3>1, <3>2 DEF Ahead
  <2>8. c.checkpoint # 0 => \A e \in Later(c.to)' : DateOf[e] >= c.date
    BY <2>1, <2>4 DEF Good
  <2> QED
    BY <2>5, <2>7, <2>8, <2>6
<1> QED
  BY <1>1, <1>2, <1>3 DEF Good, Within

\* The fields of the poll of i are left alone.
SamePoll(i) ==
    /\ work'[i] = work[i] /\ requested'[i] = requested[i] /\ left'[i] = left[i]
    /\ handled'[i] = handled[i] /\ limited'[i] = limited[i] /\ how'[i] = how[i]
    /\ seen'[i] = seen[i]

\* The types of the poll of i.
LEMMA PollTypes ==
    ASSUME TypeOK, NEW i \in Instances
    PROVE  /\ work[i] \in Cursors /\ listed[i].cursor \in Cursors
           /\ requested[i] \subseteq Uids /\ left[i] \subseteq Uids
           /\ \A u \in Uids : handled[i][u] \in Nat
           /\ limited[i] \in BOOLEAN /\ seen[i] \subseteq Emails
<1>1. listed[i] \in [generation : 0 .. MaxGeneration, cursor : Cursors]
  BY DEF TypeOK
<1>2. listed[i].cursor \in Cursors
  BY <1>1, SMT
<1>3. handled[i] \in [Uids -> Dates] /\ Dates \subseteq Nat
  BY Numbers DEF TypeOK
<1>4. seen[i] \in SUBSET Emails /\ requested[i] \in SUBSET Uids /\ left[i] \in SUBSET Uids
  BY DEF TypeOK
<1> QED
  BY <1>2, <1>3, <1>4 DEF TypeOK

\* What is pending stays as recent as the emails a poll has handled.
LEMMA DatesKept ==
    ASSUME TypeOK, Ahead, NEW i \in Instances, SamePoll(i), DatesInv(i)
    PROVE  DatesInv(i)'
  BY DEF Ahead, SamePoll, DatesInv

\* What a poll knows of the UIDs it requested stays true while others step.
LEMMA RequestKept ==
    ASSUME TypeOK, Ahead, NEW i \in Instances, SamePoll(i), Good(work[i]), InBox(i),
           work[i].validity = validity, validity' = validity, RequestInv(i)
    PROVE  RequestInv(i)'
<1> PICK c \in Cursors : c = work[i]
  BY PollTypes
<1>0. /\ c.validity \in Nat /\ c.last \in Nat /\ c.to \in Nat /\ c.to <= Len(box)
      /\ c.last <= Len(box)
  BY CursorFields DEF Good, Within
<1>1. /\ Len(box) \in Nat /\ Len(box') \in Nat /\ Len(box) <= Len(box')
      /\ \A u \in DOMAIN box : box'[u] \in {box[u], 0}
      /\ DOMAIN box = 1 .. Len(box) /\ DOMAIN box' = 1 .. Len(box')
      /\ Later(c.to)' \subseteq Later(c.to)
      /\ 0 \notin Pending
  BY <1>0, Numbers DEF Ahead, Pending, Unread, Arrived
<1>2. DOMAIN box \subseteq DOMAIN box'
  BY <1>1, SMT
<1>3. requested[i] \subseteq DOMAIN box
  BY DEF InBox
<1>4. ASSUME NEW u \in requested[i], box'[u] \in Pending'
      PROVE  u \in left[i] /\ handled[i][u] = 0
  <2>1. box[u] \in Pending
    BY <1>1, <1>3, <1>4 DEF Ahead
  <2> QED
    BY <2>1 DEF RequestInv
<1>5. ASSUME NEW u \in DOMAIN box', c.last < u, box'[u] # 0,
             (\E w \in requested[i] : u <= w) \/ (c.checkpoint # 0 /\ ~limited[i] /\ u <= c.to)
      PROVE  u \in requested[i]
  <2>1. u \in DOMAIN box
    <3>1. CASE \E w \in requested[i] : u <= w
      BY <1>1, <1>3, <3>1, SMT
    <3>2. CASE u <= c.to
      BY <1>0, <1>1, <3>2, SMT
    <3> QED
      BY <1>5, <3>1, <3>2
  <2>2. box[u] # 0
    BY <1>1, <1>5, <2>1
  <2> QED
    BY <1>5, <2>1, <2>2 DEF RequestInv
<1>6. c.checkpoint # 0 => /\ \A u \in requested[i] : u <= c.to
                          /\ \A e \in Later(c.to)', u \in Uids : DateOf[e] >= handled[i][u]
  BY <1>1 DEF RequestInv
<1>7. /\ work'[i] = c /\ requested'[i] = requested[i] /\ left'[i] = left[i]
      /\ handled'[i] = handled[i] /\ limited'[i] = limited[i]
  BY DEF SamePoll
<1> QED
  BY <1>4, <1>5, <1>6, <1>7 DEF RequestInv, Later

\* A cursor that is good after the step is good wherever the step puts it.
LEMMA GoodWork ==
    ASSUME NEW c, NEW i, Good(c)', work'[i] = c
    PROVE  Good(work[i])'
  BY DEF Good, Within, Placed, InOrderFrom, Later, recoveryCheckpoint

\* A cursor that is good after the step is good where the step lists it.
LEMMA GoodListed ==
    ASSUME NEW c, NEW i, Good(c)', listed'[i].cursor = c
    PROVE  Good(listed[i].cursor)'
  BY DEF Good, Within, Placed, InOrderFrom, Later, recoveryCheckpoint

\* A cursor that is good after the step is good where the step stores it.
LEMMA GoodStored ==
    ASSUME NEW c, Good(c)', cursor' = c
    PROVE  Good(cursor)'
  BY DEF Good, Within, Placed, InOrderFrom, Later, recoveryCheckpoint

\* No cursor is a good one.
LEMMA GoodNone ==
    ASSUME TypeOK
    PROVE  NoCursor \in Cursors /\ Good(NoCursor)
<1>1. /\ NoCursor.validity = 0 /\ NoCursor.date = 0 /\ NoCursor.checkpoint = 0
      /\ NoCursor.last = 0 /\ NoCursor.to = 0
  BY SMT DEF NoCursor, Cursor
<1>2. recoveryCheckpoint(NoCursor) = 0
  BY <1>1 DEF recoveryCheckpoint
<1>3. \A e \in Pending : DateOf[e] >= 0
  <2>1. Pending \subseteq Emails
    BY Numbers DEF Pending, Unread, Arrived, Range
  <2>2. \A e \in Emails : DateOf[e] \in Nat
    BY Numbers
  <2> QED
    BY <2>1, <2>2, SMT
<1>4. 0 <= validity /\ validity # 0
  BY Numbers, SMT
<1>5. NoCursor \in Cursors
  <2>1. 0 \in 0 .. MaxValidity /\ 0 \in Dates
    BY MailboxAssumption, SMT DEF Dates
  <2> QED
    BY <2>1, SMT DEF NoCursor, Cursor, Cursors
<1> QED
  BY <1>1, <1>2, <1>3, <1>4, <1>5 DEF Good, Within

\* A first poll still has only emails it saw in the mailbox behind it when others step.
LEMMA FirstKept ==
    ASSUME TypeOK, Ahead, NEW i \in Instances, SamePoll(i), FirstInv(i)
    PROVE  FirstInv(i)'
<1> PICK c \in Cursors : c = work[i]
  BY PollTypes
<1>0. /\ c.validity \in Nat /\ c.last \in Nat /\ c.to \in Nat
      /\ validity \in Nat /\ validity' \in Nat /\ validity <= validity'
      /\ c.validity <= validity /\ c.date = 0 /\ c.checkpoint = 0
      /\ work'[i] = c /\ seen'[i] = seen[i]
  BY CursorFields, Numbers DEF Ahead, FirstInv, SamePoll, Within
<1>1. c.validity <= validity'
  BY <1>0, SMT
<1>2. ASSUME c.validity = validity'
      PROVE  /\ c.last <= Len(box') /\ c.to <= Len(box') /\ InOrderFrom(c.last)'
             /\ \A u \in 1 .. c.last : box'[u] # 0 => box'[u] \in seen[i]
  <2>1. validity' = validity /\ c.validity = validity
    BY <1>0, <1>2, SMT
  <2>2. /\ c.last <= Len(box) /\ c.to <= Len(box) /\ InOrderFrom(c.last)
        /\ \A u \in 1 .. c.last : box[u] # 0 => box[u] \in seen[i]
    BY <1>0, <2>1 DEF FirstInv, Placed, Within
  <2>3. /\ Len(box) \in Nat /\ Len(box') \in Nat /\ Len(box) <= Len(box')
        /\ \A u \in DOMAIN box : box'[u] \in {box[u], 0}
        /\ DOMAIN box = 1 .. Len(box)
        /\ InOrderFrom(c.last)'
    BY <1>0, <2>1, <2>2, Numbers DEF Ahead
  <2>4. c.last <= Len(box') /\ c.to <= Len(box') /\ 1 .. c.last \subseteq DOMAIN box
    BY <1>0, <2>2, <2>3, SMT
  <2> QED
    BY <2>2, <2>3, <2>4
<1> QED
  BY <1>0, <1>1, <1>2 DEF FirstInv, Placed, InOrderFrom, Within

\* What holds of a poll that delivers stays true when others step.
LEMMA DeliverKept ==
    ASSUME TypeOK, Ahead, NEW i \in Instances, SamePoll(i), InBox(i), DeliverInv(i)
    PROVE  DeliverInv(i)'
<1> PICK c \in Cursors : c = work[i]
  BY PollTypes
<1>1. Good(c) /\ work'[i] = c
  BY DEF DeliverInv, SamePoll
<1>2. Good(work[i])'
  BY <1>1, GoodKept, GoodWork
<1>3. DatesInv(i)'
  BY DatesKept DEF DeliverInv
<1>4. ASSUME work'[i].validity = validity'
      PROVE  RequestInv(i)'
  <2>1. /\ c.validity \in Nat /\ validity \in Nat /\ validity' \in Nat
        /\ validity <= validity' /\ c.validity <= validity
    BY <1>1, CursorFields, Numbers DEF Ahead, Good, Within
  <2>2. c.validity = validity /\ validity' = validity
    BY <1>1, <1>4, <2>1, SMT
  <2> QED
    BY <1>1, <2>2, RequestKept DEF DeliverInv
<1> QED
  BY <1>2, <1>3, <1>4 DEF DeliverInv

\* The poll of an instance that the step does not touch, whatever becomes of the listed row.
LEMMA WorkKept ==
    ASSUME TypeOK, Ahead, NEW i \in Instances, PollInv(i), SamePoll(i), InBox(i),
           pc'[i] = pc[i], Good(listed[i].cursor)'
    PROVE  PollInv(i)'
<1> PICK c \in Cursors : c = work[i]
  BY PollTypes
<1>1. work'[i] = c /\ how'[i] = how[i]
  BY DEF SamePoll
<1>2. Good(c) => Good(work[i])'
  BY <1>1, GoodKept, GoodWork
<1>3. Sound(i)' <=> Sound(i)
  BY <1>1 DEF Sound
<1>4. DeliverInv(i) => DeliverInv(i)'
  BY DeliverKept
<1>5. FirstInv(i) => FirstInv(i)'
  BY FirstKept
<1> QED
  BY <1>1, <1>2, <1>3, <1>4, <1>5 DEF PollInv

\* What holds of a poll stays true when its instance takes no step.
LEMMA PollKept ==
    ASSUME TypeOK, Ahead, NEW i \in Instances, PollInv(i), SamePoll(i), InBox(i),
           pc'[i] = pc[i], listed'[i] = listed[i]
    PROVE  PollInv(i)'
<1>1. PICK d \in Cursors : d = listed[i].cursor /\ listed'[i].cursor = d
  BY PollTypes
<1>2. Good(listed[i].cursor)'
  BY <1>1, GoodKept, GoodListed DEF PollInv
<1> QED
  BY <1>2, WorkKept
-----------------------------------------------------------------------------
(* Helpers of the search.                                                  *)

\* The first n of a set of UIDs are a lower part of it, and all of it if it has no more.
LEMMA FirstFacts ==
    ASSUME NEW S \in SUBSET Nat, IsFiniteSet(S), NEW n \in Nat
    PROVE  /\ First(S, n) \subseteq S
           /\ \A u \in First(S, n), v \in S : v <= u => v \in First(S, n)
           /\ Cardinality(S) <= n => First(S, n) = S
<1> DEFINE Upto(u) == {v \in S : v <= u}
<1>1. \A u \in S : IsFiniteSet(Upto(u)) /\ Cardinality(Upto(u)) \in Nat
  BY FS_Subset, FS_CardinalityType
<1>2. ASSUME NEW u \in First(S, n), NEW v \in S, v <= u
      PROVE  v \in First(S, n)
  <2>1. u \in S /\ Cardinality(Upto(u)) <= n
    BY DEF First
  <2>2. Upto(v) \subseteq Upto(u)
    <3> SUFFICES ASSUME NEW x \in S, x <= v PROVE x <= u
      OBVIOUS
    <3>1. x \in Nat /\ v \in Nat /\ u \in Nat
      BY <2>1
    <3> QED
      BY <1>2, <3>1, SMT
  <2>3. Cardinality(Upto(v)) <= Cardinality(Upto(u))
    BY <1>1, <2>1, <2>2, FS_Subset
  <2>4. Cardinality(Upto(v)) <= n
    BY <1>1, <2>1, <2>3, SMT
  <2> QED
    BY <2>4 DEF First
<1>3. ASSUME Cardinality(S) <= n, NEW u \in S
      PROVE  u \in First(S, n)
  <2>1. Cardinality(Upto(u)) <= Cardinality(S) /\ Cardinality(S) \in Nat
    BY FS_Subset, FS_CardinalityType
  <2>2. Cardinality(Upto(u)) <= n
    BY <1>1, <1>3, <2>1, SMT
  <2> QED
    BY <2>2 DEF First
<1>4. First(S, n) \subseteq S
  BY DEF First
<1> QED
  BY <1>2, <1>3, <1>4

\* A search finds the UIDs of the range that have an email.
LEMMA SearchFacts ==
    ASSUME TypeOK, NEW after \in Nat, NEW to \in Nat, to <= Len(box)
    PROVE  LET found == searchUIDs(after, to) IN
           /\ found \subseteq DOMAIN box /\ found \subseteq Uids /\ found \in SUBSET Nat
           /\ IsFiniteSet(found)
           /\ \A u \in found : u <= to /\ after < u /\ box[u] # 0 /\ box[u] \in Emails
           /\ \A u \in DOMAIN box : after < u /\ u <= to /\ box[u] # 0 => u \in found
<1> DEFINE found == searchUIDs(after, to)
<1>1. \A u \in found : u \in Nat /\ u <= to /\ after < u /\ box[u] # 0
  BY SMT DEF searchUIDs
<1>2. \A u \in Nat : u <= to /\ after < u => u \in 1 .. Len(box) /\ u \in 1 .. Len(DateOf)
  BY Numbers, SMT
<1>3. found \subseteq DOMAIN box /\ found \subseteq Uids
  BY <1>1, <1>2, Numbers
<1>4. IsFiniteSet(found)
  <2>1. found \in SUBSET Nat /\ \A u \in found : u <= to
    BY <1>1
  <2> QED
    BY <2>1, FS_BoundedSetOfNaturals
<1>5. ASSUME NEW u \in DOMAIN box, after < u, u <= to, box[u] # 0
      PROVE  u \in found
  <2>1. u \in after + 1 .. to
    BY <1>5, Numbers, SMT
  <2> QED
    BY <1>5, <2>1 DEF searchUIDs
<1>6. \A u \in found : box[u] \in Emails
  BY <1>1, <1>3, Numbers
<1> QED
  BY <1>1, <1>3, <1>4, <1>5, <1>6

\* The newest stored email that did not fail.
LEMMA LastReceivedFacts ==
    ASSUME TypeOK
    PROVE  /\ LastReceivedAt \in Dates
           /\ LastReceivedAt = 0 \/ \E d \in done : LastReceivedAt = DateOf[d]
<1> DEFINE S == {0} \cup {DateOf[e] : e \in done \ Failing}
<1>1. S \subseteq Dates /\ S \in SUBSET Nat /\ S # {}
  <2>1. done \subseteq Emails
    BY DEF TypeOK
  <2>2. \A e \in done : DateOf[e] \in Range(DateOf)
    BY <2>1 DEF Emails, Range
  <2> QED
    BY <2>2, Numbers DEF Dates
<1>2. IsFiniteSet(S)
  <2>1. IsFiniteSet(Emails)
    <3>1. Emails \in SUBSET Nat /\ \A e \in Emails : e <= Len(DateOf)
      BY Numbers, SMT
    <3> QED
      BY <3>1, Numbers, FS_BoundedSetOfNaturals
  <2>2. IsFiniteSet(done \ Failing)
    <3>1. done \ Failing \subseteq Emails
      BY DEF TypeOK
    <3> QED
      BY <2>1, <3>1, FS_Subset
  <2>3. IsFiniteSet({DateOf[e] : e \in done \ Failing})
    <3> DEFINE f == [e \in done \ Failing |-> DateOf[e]]
    <3>1. f \in Surjection(done \ Failing, {DateOf[e] : e \in done \ Failing})
      BY DEF Surjection
    <3> QED
      BY <2>2, <3>1, FS_Surjection
  <2>4. S = {DateOf[e] : e \in done \ Failing} \cup {0}
    OBVIOUS
  <2> QED
    BY <2>3, <2>4, FS_AddElement
<1>3. Max(S) \in S
  BY <1>1, <1>2, MaxFacts
<1>4. LastReceivedAt = Max(S)
  BY DEF LastReceivedAt
<1> QED
  BY <1>1, <1>3, <1>4

\* finishRecovery drops the checkpoint and puts LastUID at the recovered range.
LEMMA FinishMade ==
    ASSUME TypeOK, NEW c \in Cursors
    PROVE  /\ finishRecovery(c) \in Cursors
           /\ finishRecovery(c).validity = c.validity /\ finishRecovery(c).last = c.to
           /\ finishRecovery(c).date = c.date /\ finishRecovery(c).checkpoint = 0
           /\ finishRecovery(c).to = 0
<1>1. 0 \in Dates /\ c.validity \in 0 .. MaxValidity /\ c.to \in {0} \cup Uids /\ c.date \in Dates
  BY SMT DEF Dates, Cursors
<1>2. 0 \in {0} \cup Uids
  OBVIOUS
<1> DEFINE d == Cursor(c.validity, c.to, c.date, 0, 0)
<1>3. /\ d \in Cursors /\ d.validity = c.validity /\ d.last = c.to /\ d.date = c.date
      /\ d.checkpoint = 0 /\ d.to = 0
  BY <1>1, <1>2, SMT DEF Cursor, Cursors
<1>4. finishRecovery(c) = d
  BY DEF finishRecovery
<1> HIDE DEF d
<1> QED
  BY <1>3, <1>4
-----------------------------------------------------------------------------
(* Types.                                                                  *)

\* The types of the mailbox and the row, and those of the polls.
MailOK ==
    /\ box \in Seq(Emails \cup {0}) /\ Len(box) <= Len(DateOf)
    /\ validity \in 1 .. MaxValidity /\ arrived \in {0} \cup Emails /\ expunged \in 0 .. MaxExpunged

\* The row of the profile.
RowOK ==
    /\ owner \in Instances \cup {NoInstance} /\ generation \in 0 .. MaxGeneration
    /\ cursor \in Cursors
    /\ baseline \subseteq Emails
    /\ lapses \subseteq {"restarted", "no_checkpoint", "newest_stored"}

\* What the instances have read of the row.
ListOK == listed \in [Instances -> [generation : 0 .. MaxGeneration, cursor : Cursors]]

\* The polls that run.
PollOK ==
    /\ pc \in [Instances -> {"idle", "start", "examine", "deliver", "complete"}]
    /\ token \in [Instances -> 0 .. MaxGeneration]
    /\ work \in [Instances -> Cursors]
    /\ requested \in [Instances -> SUBSET Uids] /\ left \in [Instances -> SUBSET Uids]
    /\ handled \in [Instances -> [Uids -> Dates]]
    /\ limited \in [Instances -> BOOLEAN]
    /\ how \in [Instances -> {"none", "first", "end", "stored", "recover", "read"}]
    /\ seen \in [Instances -> SUBSET Emails]
    /\ older \in [Instances -> SUBSET Emails]

\* The types, by the part of the system.
LEMMA TypeParts == TypeOK <=> MailOK /\ RowOK /\ done \subseteq Emails /\ ListOK /\ PollOK
  BY DEF TypeOK, MailOK, RowOK, ListOK, PollOK

\* The same of the state after a step.
LEMMA TypePartsNext == TypeOK' <=> MailOK' /\ RowOK' /\ done' \subseteq Emails /\ ListOK' /\ PollOK'
  BY DEF TypeOK, MailOK, RowOK, ListOK, PollOK

\* What the actions leave alone keeps its type.
LEMMA SameTypes ==
    /\ MailOK /\ UNCHANGED mailVars => MailOK'
    /\ RowOK /\ UNCHANGED <<rowVars, baseline, lapses>> => RowOK'
    /\ ListOK /\ listed' = listed => ListOK'
    /\ PollOK /\ UNCHANGED <<pc, pollVars>> => PollOK'
  BY DEF MailOK, mailVars, RowOK, rowVars, ListOK, PollOK, pollVars

\* Small facts about the sets.
LEMMA ZeroFacts ==
    /\ 0 \in Dates /\ 0 \in {0} \cup Uids
    /\ 0 \in 0 .. MaxGeneration /\ 0 \in 0 .. MaxValidity
    /\ Unhandled \in [Uids -> Dates]
<1>1. 0 \in Dates /\ 0 \in {0} \cup Uids
  BY DEF Dates
<1>2. 0 \in 0 .. MaxGeneration /\ 0 \in 0 .. MaxValidity
  BY MailboxAssumption, SMT
<1> QED
  BY <1>1, <1>2 DEF Unhandled

\* A poll that ends keeps the types.
LEMMA EndTypes ==
    ASSUME TypeOK, NEW i \in Instances, EndPoll(i)
    PROVE  PollOK'
<1>1. NoCursor \in Cursors /\ PollOK
  BY GoodNone, TypeParts
<1> QED
  BY <1>1, ZeroFacts DEF EndPoll, PollOK

\* The steps of the mail server keep the types.
LEMMA MailTypes ==
    ASSUME TypeOK, ShapeInv, Arrive \/ (\E u \in 1 .. Len(box) : Expunge(u)) \/ Renumber
    PROVE  MailOK'
<1>0. /\ box \in Seq(Emails \cup {0}) /\ Len(box) <= arrived /\ arrived \in Nat
      /\ validity \in 1 .. MaxValidity /\ expunged \in 0 .. MaxExpunged /\ Len(DateOf) \in Nat
      /\ Emails = 1 .. Len(DateOf) /\ arrived <= Len(DateOf) /\ Len(box) \in Nat
      /\ Len(box) <= Len(DateOf) /\ arrived \in {0} \cup Emails
  BY Numbers DEF TypeOK, ShapeInv
<1>1. CASE Arrive
  <2>1. /\ arrived < Len(DateOf) /\ arrived' = arrived + 1 /\ box' = Append(box, arrived + 1)
        /\ validity' = validity /\ expunged' = expunged
    BY <1>1 DEF Arrive
  <2>2. arrived + 1 \in Emails
    BY <1>0, <2>1, SMT
  <2>3. box' \in Seq(Emails \cup {0}) /\ Len(box') = Len(box) + 1
    <3>1. arrived + 1 \in Emails \cup {0}
      BY <2>2
    <3> QED
      BY <1>0, <2>1, <3>1, SMT
  <2>4. Len(box') <= Len(DateOf)
    BY <1>0, <2>1, <2>3, SMT
  <2> QED
    BY <1>0, <2>1, <2>2, <2>3, <2>4 DEF MailOK
<1>2. ASSUME NEW u \in 1 .. Len(box), Expunge(u)
      PROVE  MailOK'
  <2>1. /\ expunged < MaxExpunged /\ expunged' = expunged + 1 /\ box' = [box EXCEPT ![u] = 0]
        /\ validity' = validity /\ arrived' = arrived
    BY <1>2 DEF Expunge
  <2>2. box' \in Seq(Emails \cup {0}) /\ Len(box') = Len(box)
    BY <1>0, <2>1, SMT
  <2>3. expunged' \in 0 .. MaxExpunged
    BY <1>0, <2>1, MailboxAssumption, SMT
  <2> QED
    BY <1>0, <2>1, <2>2, <2>3 DEF MailOK
<1>3. CASE Renumber
  <2>1. /\ validity < MaxValidity /\ validity' = validity + 1
        /\ box' \in [1 .. Cardinality(Arrived) -> Arrived]
        /\ arrived' = arrived /\ expunged' = expunged
    BY <1>3 DEF Renumber
  <2>2. /\ Arrived \subseteq Emails /\ Arrived \in SUBSET Nat
        /\ Cardinality(Arrived) \in Nat /\ Cardinality(Arrived) <= arrived
    <3>1. Arrived \subseteq 1 .. arrived
      <4> SUFFICES ASSUME NEW u \in DOMAIN box, box[u] # 0 PROVE box[u] \in 1 .. arrived
        BY DEF Arrived, Range
      <4>1. box[u] \in Nat /\ box[u] <= arrived
        BY Numbers DEF ShapeInv
      <4> QED
        BY <1>0, <4>1, SMT
    <3>2. IsFiniteSet(1 .. arrived) /\ Cardinality(1 .. arrived) = arrived
      <4>1. 1 \in Int /\ arrived \in Int
        BY <1>0, SMT
      <4>2. /\ IsFiniteSet(1 .. arrived)
            /\ Cardinality(1 .. arrived) = IF 1 > arrived THEN 0 ELSE arrived - 1 + 1
        BY <4>1, FS_Interval
      <4> QED
        BY <1>0, <4>2, SMT
    <3>3. Cardinality(Arrived) <= arrived /\ Cardinality(Arrived) \in Nat
      BY <3>1, <3>2, FS_Subset, FS_CardinalityType
    <3>4. 1 .. arrived \subseteq Emails /\ 1 .. arrived \subseteq Nat
      BY <1>0, SMT
    <3> QED
      BY <3>1, <3>3, <3>4
  <2>3. box' \in Seq(Emails \cup {0}) /\ Len(box') = Cardinality(Arrived)
    <3>1. box' \in [1 .. Cardinality(Arrived) -> Emails \cup {0}]
      BY <2>1, <2>2
    <3> QED
      BY <2>2, <3>1, SMT
  <2>4. Len(box') <= Len(DateOf)
    BY <1>0, <2>2, <2>3, SMT
  <2>5. validity' \in 1 .. MaxValidity
    BY <1>0, <2>1, MailboxAssumption, SMT
  <2> QED
    BY <1>0, <2>1, <2>3, <2>4, <2>5 DEF MailOK
<1> QED
  BY <1>1, <1>2, <1>3
-----------------------------------------------------------------------------
\* startRecovery makes a cursor of the new numbering that carries the checkpoint.
LEMMA StartMade ==
    ASSUME TypeOK, NEW x \in Dates
    PROVE  /\ startRecovery(x) \in Cursors
           /\ startRecovery(x).validity = validity /\ startRecovery(x).last = 0
           /\ startRecovery(x).date = x /\ startRecovery(x).checkpoint = x
           /\ startRecovery(x).to = Len(box)
<1>1. validity \in 0 .. MaxValidity
  <2>1. validity \in 1 .. MaxValidity
    BY DEF TypeOK
  <2> QED
    BY <2>1, SMT
<1>2. Len(box) \in {0} \cup Uids /\ 0 \in {0} \cup Uids
  BY Numbers, SMT
<1> DEFINE d == Cursor(validity, 0, x, x, Len(box))
<1>3. /\ d \in Cursors /\ d.validity = validity /\ d.last = 0 /\ d.date = x
      /\ d.checkpoint = x /\ d.to = Len(box)
  BY <1>1, <1>2, SMT DEF Cursor, Cursors
<1>4. startRecovery(x) = d
  BY DEF startRecovery, lastUID
<1> HIDE DEF d
<1> QED
  BY <1>3, <1>4

\* The cursor of a poll that starts at the end of the mailbox.
LEMMA EndMade ==
    ASSUME TypeOK
    PROVE  LET d == Cursor(validity, lastUID, 0, 0, 0) IN
           /\ d \in Cursors /\ d.validity = validity /\ d.last = Len(box) /\ d.date = 0
           /\ d.checkpoint = 0 /\ d.to = 0
<1>1. validity \in 0 .. MaxValidity
  <2>1. validity \in 1 .. MaxValidity
    BY DEF TypeOK
  <2> QED
    BY <2>1, SMT
<1>2. Len(box) \in {0} \cup Uids /\ 0 \in {0} \cup Uids
  BY Numbers, SMT
<1>3. 0 \in Dates
  BY DEF Dates
<1> QED
  BY <1>1, <1>2, <1>3, SMT DEF Cursor, Cursors, lastUID

\* The time a recovery resumes from is a date.
LEMMA ResumeType ==
    ASSUME TypeOK, NEW c \in Cursors
    PROVE  recoveryCheckpoint(c) \in Dates /\ ResumeFrom(c) \in Dates
<1>1. c.checkpoint \in Dates /\ c.date \in Dates
  BY SMT DEF Cursors
<1> QED
  BY <1>1, LastReceivedFacts DEF recoveryCheckpoint, ResumeFrom

\* The progress a poll keeps.
LEMMA AdvanceFacts ==
    ASSUME TypeOK, NEW i \in Instances, NEW c, c = work[i]
    PROVE  /\ advanceConfirmed(i) \in Cursors
           /\ advanceConfirmed(i).validity = c.validity
           /\ advanceConfirmed(i).checkpoint = c.checkpoint /\ advanceConfirmed(i).to = c.to
           /\ advanceConfirmed(i).last \in {c.last} \cup Confirmed(i)
           /\ c.last <= advanceConfirmed(i).last
           /\ \/ advanceConfirmed(i).date = c.date
              \/ \E u \in Uids : advanceConfirmed(i).date = handled[i][u]
<1>0. c \in Cursors /\ Confirmed(i) \subseteq Uids /\ handled[i] \in [Uids -> Dates]
  BY PollTypes DEF Confirmed, TypeOK
<1>1. /\ c.validity \in 0 .. MaxValidity /\ c.last \in {0} \cup Uids /\ c.to \in {0} \cup Uids
      /\ c.date \in Dates /\ c.checkpoint \in Dates
  BY <1>0, SMT DEF Cursors
<1> DEFINE L == {c.last} \cup Confirmed(i)
           H == {handled[i][u] : u \in Confirmed(i)}
           D == {c.date} \cup H
<1>2. Dates \subseteq Nat /\ Uids \subseteq Nat /\ 0 \in Nat /\ IsFiniteSet(Uids)
  <2>1. Dates \subseteq Nat /\ Uids \in SUBSET Nat /\ 0 \in Nat /\ Len(DateOf) \in Nat
        /\ \A u \in Uids : u <= Len(DateOf)
    BY Numbers, SMT
  <2> QED
    BY <2>1, FS_BoundedSetOfNaturals
<1>3. Max(L) \in L /\ c.last <= Max(L)
  <2>1. L \in SUBSET Nat /\ L # {} /\ c.last \in L
    BY <1>0, <1>1, <1>2
  <2>2. IsFiniteSet(Confirmed(i))
    BY <1>0, <1>2, FS_Subset
  <2>3. IsFiniteSet(L)
    <3>1. L = Confirmed(i) \cup {c.last}
      OBVIOUS
    <3> QED
      BY <2>2, <3>1, FS_AddElement
  <2> HIDE DEF L
  <2> QED
    BY <2>1, <2>3, MaxFacts
<1>4. Max(D) \in D
  <2>1. D \in SUBSET Nat /\ D # {}
    BY <1>0, <1>1, <1>2
  <2>2. IsFiniteSet(Confirmed(i))
    BY <1>0, <1>2, FS_Subset
  <2>3. IsFiniteSet(H)
    <3> DEFINE f == [u \in Confirmed(i) |-> handled[i][u]]
    <3>1. f \in Surjection(Confirmed(i), H)
      BY DEF Surjection
    <3> QED
      BY <2>2, <3>1, FS_Surjection
  <2>4. IsFiniteSet(D)
    <3>1. D = H \cup {c.date}
      OBVIOUS
    <3> HIDE DEF H
    <3> QED
      BY <2>3, <3>1, FS_AddElement
  <2> HIDE DEF D
  <2> QED
    BY <2>1, <2>4, MaxFacts
<1>5. Max(L) \in {0} \cup Uids /\ Max(D) \in Dates
  BY <1>0, <1>1, <1>3, <1>4
<1>6. advanceConfirmed(i) = Cursor(c.validity, Max(L), Max(D), c.checkpoint, c.to)
  BY DEF advanceConfirmed
<1>7. Max(D) = c.date \/ \E u \in Uids : Max(D) = handled[i][u]
  BY <1>0, <1>4
<1>8. ASSUME NEW l \in {0} \cup Uids, NEW m \in Dates, l = Max(L), m = Max(D)
      PROVE  /\ advanceConfirmed(i) \in Cursors
             /\ advanceConfirmed(i).validity = c.validity
             /\ advanceConfirmed(i).checkpoint = c.checkpoint /\ advanceConfirmed(i).to = c.to
             /\ advanceConfirmed(i).last = l /\ advanceConfirmed(i).date = m
  <2>1. advanceConfirmed(i) = Cursor(c.validity, l, m, c.checkpoint, c.to)
    BY <1>6, <1>8
  <2> HIDE DEF L, D, H
  <2> QED
    BY <1>1, <2>1, SMT DEF Cursor, Cursors
<1> HIDE DEF D, H
<1> QED
  BY <1>3, <1>5, <1>7, <1>8

\* The cursor d that a recovery works on: its own, or a new one from the checkpoint.
Resumes(i, d, reason) ==
    /\ d \in Cursors /\ d.validity = validity /\ d.checkpoint # 0 /\ d.to <= Len(box)
    /\ \/ d = work[i] /\ reason = "recover"
       \/ /\ work[i].validity # validity /\ ResumeFrom(work[i]) # 0
          /\ d = startRecovery(ResumeFrom(work[i]))
          /\ reason = IF recoveryCheckpoint(work[i]) = 0 THEN "stored" ELSE "recover"

\* The outcomes of Examine.
LEMMA ExamineCases ==
    ASSUME TypeOK, ShapeInv, NEW i \in Instances, Examine(i)
    PROVE  \/ work[i] = NoCursor /\ PlaceAtEnd(i, "first")
           \/ PlaceAtEnd(i, "end")
           \/ \E d \in Cursors, reason \in {"stored", "recover"} :
                 Resumes(i, d, reason) /\ Recover(i, d, reason)
           \/ /\ work[i].validity = validity /\ work[i].checkpoint = 0 /\ work[i].last <= Len(box)
              /\ Request(i, work[i], searchUIDs(work[i].last, Len(box)), {}, "read")
<1>1. work[i] \in Cursors /\ Within(work[i])
  BY PollTypes DEF ShapeInv, PollShape
<1>2. CASE work[i] # NoCursor /\ work[i].validity # validity /\ ResumeFrom(work[i]) # 0
           /\ Recover(i, startRecovery(ResumeFrom(work[i])),
                      IF recoveryCheckpoint(work[i]) = 0 THEN "stored" ELSE "recover")
  <2>1. PICK x \in Dates : x = ResumeFrom(work[i])
    BY <1>1, ResumeType
  <2>2. PICK reason \in {"stored", "recover"} :
            reason = IF recoveryCheckpoint(work[i]) = 0 THEN "stored" ELSE "recover"
    OBVIOUS
  <2>3. Resumes(i, startRecovery(x), reason)
    <3>1. Len(box) <= Len(box)
      BY Numbers, SMT
    <3> QED
      BY <1>2, <2>1, <2>2, <3>1, StartMade DEF Resumes
  <2> QED
    BY <1>2, <2>1, <2>2, <2>3, StartMade
<1>3. CASE work[i].validity = validity /\ work[i].checkpoint # 0 /\ Recover(i, work[i], "recover")
  <2>1. Resumes(i, work[i], "recover")
    BY <1>1, <1>3 DEF Resumes, Within
  <2> QED
    BY <1>1, <1>3, <2>1
<1>4. CASE /\ work[i].validity = validity /\ work[i].checkpoint = 0
           /\ Request(i, work[i], searchUIDs(work[i].last, Len(box)), {}, "read")
  BY <1>1, <1>4 DEF Within
<1> QED
  BY <1>2, <1>3, <1>4 DEF Examine
-----------------------------------------------------------------------------
\* What a request asks for.
LEMMA RequestFacts ==
    ASSUME TypeOK, NEW found \in SUBSET Uids
    PROVE  LET uids == First(found, MaxMessagesPerPoll) IN
           /\ uids \subseteq found
           /\ \A u \in uids, v \in found : v <= u => v \in uids
           /\ ~(Cardinality(found) > MaxMessagesPerPoll) => uids = found
<1>1. /\ found \in SUBSET Nat /\ \A u \in found : u <= Len(DateOf)
      /\ Len(DateOf) \in Nat /\ MaxMessagesPerPoll \in Nat
  <2>1. \A u \in Uids : u \in Nat /\ u <= Len(DateOf)
    BY Numbers, SMT
  <2> QED
    BY <2>1, Numbers, MailboxAssumption
<1>2. IsFiniteSet(found) /\ Cardinality(found) \in Nat
  BY <1>1, FS_BoundedSetOfNaturals, FS_CardinalityType
<1>3. ~(Cardinality(found) > MaxMessagesPerPoll) => Cardinality(found) <= MaxMessagesPerPoll
  BY <1>1, <1>2, SMT
<1> QED
  BY <1>1, <1>2, <1>3, FirstFacts

\* Placing the cursor at the end of the mailbox keeps the types.
LEMMA PlaceTypes ==
    ASSUME TypeOK, NEW i \in Instances, NEW reason \in {"first", "end"}, PlaceAtEnd(i, reason)
    PROVE  PollOK'
<1>1. Cursor(validity, lastUID, 0, 0, 0) \in Cursors
  BY EndMade
<1>2. Arrived \in SUBSET Emails
  BY Numbers DEF Arrived, Range
<1>3. PollOK
  BY TypeParts
<1> QED
  BY <1>1, <1>2, <1>3 DEF PlaceAtEnd, PollOK

\* Requesting UIDs keeps the types.
LEMMA RequestTypes ==
    ASSUME TypeOK, NEW i \in Instances, NEW c \in Cursors, NEW found \in SUBSET Uids,
           found \subseteq DOMAIN box, \A u \in found : box[u] \in Emails,
           NEW skipped, NEW reason \in {"read", "recover", "stored"},
           Request(i, c, found, skipped, reason)
    PROVE  PollOK'
<1> DEFINE uids == First(found, MaxMessagesPerPoll)
           dates == [u \in Uids |-> IF u \in skipped \cap uids THEN DateOf[box[u]] ELSE 0]
           old == {box[u] : u \in skipped \cap uids}
<1>1. uids \in SUBSET Uids /\ uids \ skipped \in SUBSET Uids /\ uids \subseteq found
  BY RequestFacts
<1>2. dates \in [Uids -> Dates]
  <2> SUFFICES ASSUME NEW u \in Uids, u \in uids PROVE DateOf[box[u]] \in Dates
    BY ZeroFacts
  <2>1. box[u] \in Emails
    BY <1>1
  <2> QED
    BY <2>1 DEF Dates, Emails, Range
<1>3. old \in SUBSET Emails
  BY <1>1
<1>4. PollOK
  BY TypeParts
<1>5. (Cardinality(found) > MaxMessagesPerPoll) \in BOOLEAN
  BY SMT
<1>6. /\ work' = [work EXCEPT ![i] = c] /\ requested' = [requested EXCEPT ![i] = uids]
      /\ left' = [left EXCEPT ![i] = uids \ skipped] /\ handled' = [handled EXCEPT ![i] = dates]
      /\ limited' = [limited EXCEPT ![i] = Cardinality(found) > MaxMessagesPerPoll]
      /\ how' = [how EXCEPT ![i] = reason] /\ older' = [older EXCEPT ![i] = old]
      /\ pc' = [pc EXCEPT ![i] = "deliver"] /\ token' = token /\ seen' = seen
  BY DEF Request
<1> HIDE DEF uids, dates, old
<1> QED
  BY <1>1, <1>2, <1>3, <1>4, <1>5, <1>6 DEF PollOK

\* What a search of a recovery or of a read finds.
LEMMA Searched ==
    ASSUME TypeOK, NEW c \in Cursors, NEW to \in Nat, to <= Len(box)
    PROVE  /\ searchUIDs(c.last, to) \in SUBSET Uids /\ searchUIDs(c.last, to) \subseteq DOMAIN box
           /\ \A u \in searchUIDs(c.last, to) :
                 u <= to /\ c.last < u /\ box[u] # 0 /\ box[u] \in Emails
           /\ \A u \in DOMAIN box : c.last < u /\ u <= to /\ box[u] # 0 => u \in searchUIDs(c.last, to)
<1>1. c.last \in Nat
  BY CursorFields
<1> QED
  BY <1>1, SearchFacts

\* Comparing UIDVALIDITY and searching keeps the types.
LEMMA ExamineTypes ==
    ASSUME TypeOK, ShapeInv, NEW i \in Instances, Examine(i)
    PROVE  PollOK'
<1>1. CASE \/ work[i] = NoCursor /\ PlaceAtEnd(i, "first")
           \/ PlaceAtEnd(i, "end")
  BY <1>1, PlaceTypes
<1>2. ASSUME NEW d \in Cursors, NEW reason \in {"stored", "recover"},
             Resumes(i, d, reason), Recover(i, d, reason)
      PROVE  PollOK'
  <2>1. d.to \in Nat /\ d.to <= Len(box)
    BY <1>2, CursorFields DEF Resumes
  <2>2. CASE Request(i, d, searchUIDs(d.last, d.to), OlderThan(d.checkpoint, searchUIDs(d.last, d.to)), reason)
    BY <2>1, <2>2, Searched, RequestTypes
  <2>3. CASE /\ work' = [work EXCEPT ![i] = finishRecovery(d)]
             /\ how' = [how EXCEPT ![i] = reason]
             /\ pc' = [pc EXCEPT ![i] = "complete"]
             /\ UNCHANGED <<token, requested, left, handled, limited, seen, older>>
    <3>1. finishRecovery(d) \in Cursors /\ PollOK
      BY FinishMade, TypeParts
    <3> QED
      BY <2>3, <3>1 DEF PollOK
  <2> QED
    BY <1>2, <2>2, <2>3 DEF Recover
<1>3. CASE /\ work[i].validity = validity /\ work[i].checkpoint = 0
           /\ Request(i, work[i], searchUIDs(work[i].last, Len(box)), {}, "read")
  <2>1. Len(box) \in Nat /\ Len(box) <= Len(box)
    BY Numbers, SMT
  <2>2. work[i] \in Cursors
    BY PollTypes
  <2> QED
    BY <1>3, <2>1, <2>2, Searched, RequestTypes
<1> QED
  BY <1>1, <1>2, <1>3, ExamineCases

\* Handling an email keeps the types.
LEMMA HandleTypes ==
    ASSUME TypeOK, ShapeInv, NEW i \in Instances, Handle(i)
    PROVE  /\ PollOK' /\ done' \subseteq Emails
           /\ Min(left[i]) \in left[i] /\ Min(left[i]) \in requested[i]
           /\ Min(left[i]) \in DOMAIN box /\ \A v \in left[i] : Min(left[i]) <= v
           /\ Min(left[i]) \in Uids
<1>1. left[i] \in SUBSET Nat /\ left[i] # {} /\ work[i].validity = validity /\ left[i] \subseteq Uids
  BY PollTypes, Numbers DEF Handle
<1>2. Min(left[i]) \in left[i] /\ \A v \in left[i] : Min(left[i]) <= v
  BY <1>1, MinFacts
<1>3. Min(left[i]) \in requested[i] /\ Min(left[i]) \in DOMAIN box /\ Min(left[i]) \in Uids
  BY <1>1, <1>2 DEF ShapeInv, PollShape, InBox
<1>4. PICK u \in Uids : u = Min(left[i])
  BY <1>3
<1>5. box[u] # 0 => box[u] \in Emails /\ DateOf[box[u]] \in Dates
  <2>1. box[u] # 0 => box[u] \in Emails
    BY <1>3, <1>4, Numbers
  <2> QED
    BY <2>1 DEF Dates, Emails, Range
<1>6. done' \subseteq Emails
  <2>1. done \subseteq Emails
    BY DEF TypeOK
  <2> QED
    BY <1>4, <1>5, <2>1 DEF Handle
<1>7. handled' \in [Instances -> [Uids -> Dates]]
  <2>1. handled \in [Instances -> [Uids -> Dates]]
    BY DEF TypeOK
  <2>2. CASE box[u] # 0
    <3>1. handled' = [handled EXCEPT ![i] = [handled[i] EXCEPT ![u] = DateOf[box[u]]]]
      BY <1>4, <2>2 DEF Handle
    <3>2. [handled[i] EXCEPT ![u] = DateOf[box[u]]] \in [Uids -> Dates]
      BY <1>5, <2>1, <2>2
    <3> QED
      BY <2>1, <3>1, <3>2
  <2>3. CASE box[u] = 0
    BY <1>4, <2>1, <2>3 DEF Handle
  <2> QED
    BY <2>2, <2>3
<1>8. left' \in [Instances -> SUBSET Uids]
  <2>1. left \in [Instances -> SUBSET Uids]
    BY DEF TypeOK
  <2>2. left' = [left EXCEPT ![i] = left[i] \ {u}] /\ left[i] \ {u} \in SUBSET Uids
    BY <1>1, <1>4 DEF Handle
  <2> QED
    BY <2>1, <2>2
<1>9. PollOK'
  <2>1. PollOK
    BY TypeParts
  <2>2. UNCHANGED <<pc, token, work, requested, limited, how, seen, older>>
    BY DEF Handle
  <2> QED
    BY <1>7, <1>8, <2>1, <2>2 DEF PollOK
<1> QED
  BY <1>2, <1>3, <1>6, <1>9

\* Advancing the cursor over the confirmed emails keeps the types.
LEMMA ConfirmTypes ==
    ASSUME TypeOK, NEW i \in Instances, Delivered(i) \/ Stopped(i)
    PROVE  PollOK'
<1>1. PICK a \in Cursors : a = advanceConfirmed(i)
  BY AdvanceFacts
<1>2. PICK w \in Cursors : work' = [work EXCEPT ![i] = w]
  <2>1. finishRecovery(a) \in Cursors
    BY FinishMade
  <2> QED
    BY <1>1, <2>1 DEF Delivered, Stopped
<1>3. /\ pc' = [pc EXCEPT ![i] = "complete"]
      /\ UNCHANGED <<token, requested, left, handled, limited, how, seen, older>>
  BY DEF Delivered, Stopped
<1>4. PollOK
  BY TypeParts
<1> QED
  BY <1>2, <1>3, <1>4 DEF PollOK

\* Every step keeps the types.
LEMMA TypeStep ==
    ASSUME TypeOK, ShapeInv, [Next]_vars
    PROVE  TypeOK'
<1>0. MailOK /\ RowOK /\ done \subseteq Emails /\ ListOK /\ PollOK
  BY TypeParts
<1>1. CASE Arrive \/ (\E u \in 1 .. Len(box) : Expunge(u)) \/ Renumber
  <2>1. UNCHANGED <<rowVars, done, listed, pc, pollVars, baseline, lapses>>
    BY <1>1 DEF Arrive, Expunge, Renumber
  <2> QED
    BY <1>0, <1>1, <2>1, MailTypes, SameTypes, TypePartsNext
<1>2. ASSUME NEW i \in Instances, Assign(i) \/ Unassign
      PROVE  TypeOK'
  <2>1. UNCHANGED <<mailVars, cursor, done, listed, pc, pollVars, baseline, lapses>>
    BY <1>2 DEF Assign, Unassign
  <2>2. owner' \in Instances \cup {NoInstance}
    BY <1>2 DEF Assign, Unassign
  <2>3. generation' \in 0 .. MaxGeneration
    <3>1. generation \in 0 .. MaxGeneration
      BY <1>0 DEF RowOK
    <3>2. generation' = generation \/ (generation < MaxGeneration /\ generation' = generation + 1)
      BY <1>2 DEF Assign, Unassign
    <3> QED
      BY <3>1, <3>2, MailboxAssumption, SMT
  <2>4. RowOK'
    BY <1>0, <2>1, <2>2, <2>3 DEF RowOK
  <2> QED
    BY <1>0, <2>1, <2>4, SameTypes, TypePartsNext
<1>3. CASE Unassign
  <2>1. UNCHANGED <<mailVars, generation, cursor, done, listed, pc, pollVars, baseline, lapses>>
        /\ owner' = NoInstance
    BY <1>3 DEF Unassign
  <2>2. RowOK'
    BY <1>0, <2>1 DEF RowOK
  <2> QED
    BY <1>0, <2>1, <2>2, SameTypes, TypePartsNext
<1>4. ASSUME NEW i \in Instances, ListDue(i) \/ AlreadyRunning(i) \/ Start(i)
      PROVE  TypeOK'
  <2>1. UNCHANGED <<mailVars, rowVars, done, requested, left, handled, limited, how, seen, older, baseline, lapses>>
    BY <1>4 DEF ListDue, AlreadyRunning, Start, pollVars
  <2>2. NotListed \in [generation : 0 .. MaxGeneration, cursor : Cursors]
    <3>1. NoCursor \in Cursors
      BY GoodNone
    <3> QED
      BY <3>1, ZeroFacts DEF NotListed
  <2>3. [generation |-> generation, cursor |-> cursor] \in [generation : 0 .. MaxGeneration, cursor : Cursors]
    BY <1>0 DEF RowOK
  <2>4. ListOK'
    BY <1>0, <1>4, <2>2, <2>3 DEF ListOK, ListDue, AlreadyRunning, Start
  <2>5. CASE ListDue(i) \/ AlreadyRunning(i)
    <3>1. UNCHANGED <<pc, pollVars>>
      BY <2>5 DEF ListDue, AlreadyRunning
    <3> QED
      BY <1>0, <2>1, <2>4, <3>1, SameTypes, TypePartsNext
  <2>6. CASE Start(i)
    <3>1. listed[i] \in [generation : 0 .. MaxGeneration, cursor : Cursors]
      BY <1>0 DEF ListOK
    <3>2. listed[i].generation \in 0 .. MaxGeneration /\ listed[i].cursor \in Cursors
      BY <3>1, SMT
    <3>3. PollOK'
      BY <1>0, <2>1, <2>6, <3>2 DEF PollOK, Start
    <3> QED
      BY <1>0, <2>1, <2>4, <3>3, SameTypes, TypePartsNext
  <2> QED
    BY <1>4, <2>5, <2>6
<1>5. ASSUME NEW i \in Instances, StartPoll(i) \/ Aborted(i) \/ Examine(i) \/ Delivered(i) \/ Stopped(i)
      PROVE  TypeOK'
  <2>1. UNCHANGED <<mailVars, rowVars, done, listed, baseline, lapses>>
    BY <1>5 DEF StartPoll, Aborted, Examine, Delivered, Stopped
  <2>2. PollOK'
    <3>1. CASE StartPoll(i)
      <4>1. CASE EndPoll(i)
        BY <4>1, EndTypes
      <4>2. CASE pc' = [pc EXCEPT ![i] = "examine"] /\ UNCHANGED pollVars
        BY <1>0, <4>2 DEF PollOK, pollVars
      <4> QED
        BY <3>1, <4>1, <4>2 DEF StartPoll
    <3>2. CASE Aborted(i)
      BY <3>2, EndTypes DEF Aborted
    <3> QED
      BY <1>5, <3>1, <3>2, ExamineTypes, ConfirmTypes
  <2> QED
    BY <1>0, <2>1, <2>2, SameTypes, TypePartsNext
<1>6. ASSUME NEW i \in Instances, Handle(i)
      PROVE  TypeOK'
  <2>1. UNCHANGED <<mailVars, rowVars, listed, baseline, lapses>>
    BY <1>6 DEF Handle
  <2> QED
    BY <1>0, <1>6, <2>1, HandleTypes, SameTypes, TypePartsNext
<1>7. ASSUME NEW i \in Instances, CompletePoll(i)
      PROVE  TypeOK'
  <2>1. UNCHANGED <<mailVars, owner, generation, done, listed>> /\ EndPoll(i)
    BY <1>7 DEF CompletePoll
  <2>2. work[i] \in Cursors /\ seen[i] \subseteq Emails
    BY PollTypes
  <2>3. RowOK'
    <3>1. cursor' \in Cursors /\ baseline' \subseteq Emails
      BY <1>0, <1>7, <2>2 DEF RowOK, CompletePoll
    <3>2. lapses' \subseteq {"restarted", "no_checkpoint", "newest_stored"}
      BY <1>0, <1>7 DEF RowOK, CompletePoll
    <3> QED
      BY <1>0, <2>1, <3>1, <3>2 DEF RowOK
  <2> QED
    BY <1>0, <2>1, <2>3, EndTypes, SameTypes, TypePartsNext
<1>8. CASE UNCHANGED vars
  <2>1. UNCHANGED <<mailVars, rowVars, done, listed, pc, pollVars, baseline, lapses>>
    BY <1>8 DEF vars
  <2> QED
    BY <1>0, <2>1, SameTypes, TypePartsNext
<1> QED
  BY <1>1, <1>2, <1>3, <1>4, <1>5, <1>6, <1>7, <1>8 DEF Next, Environment, Poll, Fault
-----------------------------------------------------------------------------
(* The shape of the mailbox and of the polls.                              *)

\* Every step goes ahead.
LEMMA AheadStep ==
    ASSUME TypeOK, TypeOK', ShapeInv, [Next]_vars
    PROVE  Ahead
<1>1. CASE Arrive
  BY <1>1, ArriveAhead
<1>2. ASSUME NEW u \in 1 .. Len(box), Expunge(u)
      PROVE  Ahead
  BY <1>2, ExpungeAhead
<1>3. CASE Renumber
  BY <1>3, RenumberAhead
<1>4. ASSUME NEW i \in Instances, Handle(i)
      PROVE  Ahead
  <2>1. UNCHANGED mailVars /\ done \subseteq done' /\ baseline' = baseline
    BY <1>4 DEF Handle
  <2> QED
    BY <2>1, SameAhead
<1>5. ASSUME NEW i \in Instances, CompletePoll(i)
      PROVE  Ahead
  <2>1. UNCHANGED mailVars /\ done' = done /\ baseline \subseteq baseline'
    BY <1>5 DEF CompletePoll, ShapeInv
  <2> QED
    BY <2>1, SameAhead
<1>6. CASE UNCHANGED <<mailVars, done, baseline>>
  BY <1>6, SameAhead
<1>7. ASSUME NEW i \in Instances,
             \/ Assign(i) \/ Unassign \/ ListDue(i) \/ Start(i) \/ AlreadyRunning(i) \/ StartPoll(i)
             \/ Aborted(i) \/ Examine(i) \/ Delivered(i) \/ Stopped(i)
      PROVE  UNCHANGED <<mailVars, done, baseline>>
  BY <1>7 DEF Assign, Unassign, ListDue, Start, AlreadyRunning, StartPoll, Aborted, Examine, Delivered, Stopped
<1>8. Unassign \/ UNCHANGED vars => UNCHANGED <<mailVars, done, baseline>>
  BY DEF Unassign, vars
<1> QED
  BY <1>1, <1>2, <1>3, <1>4, <1>5, <1>6, <1>7, <1>8 DEF Next, Environment, Poll, Fault

\* A cursor stays within the numbering it is of.
LEMMA WithinKept ==
    ASSUME TypeOK, Ahead, NEW c \in Cursors, Within(c)
    PROVE  Within(c)'
<1>1. /\ c.validity \in Nat /\ c.last \in Nat /\ c.to \in Nat /\ Len(box) \in Nat
      /\ validity \in Nat /\ validity' \in Nat /\ validity <= validity' /\ c.validity <= validity
  BY CursorFields, Numbers DEF Ahead, Within
<1>2. c.validity <= validity'
  BY <1>1, SMT
<1>3. ASSUME c.validity = validity'
      PROVE  c.last <= Len(box') /\ c.to <= Len(box')
  <2>1. validity' = validity /\ c.validity = validity
    BY <1>1, <1>3, SMT
  <2>2. c.last <= Len(box) /\ c.to <= Len(box) /\ Len(box) <= Len(box') /\ Len(box') \in Nat
    BY <2>1 DEF Ahead, Within
  <2> QED
    BY <1>1, <2>2, SMT
<1> QED
  BY <1>2, <1>3 DEF Within

\* The same cursor is within the mailbox wherever the step has put it.
LEMMA WithinMoved ==
    ASSUME NEW c, NEW i, Within(c)'
    PROVE  /\ work'[i] = c => Within(work[i])'
           /\ listed'[i].cursor = c => Within(listed[i].cursor)'
           /\ cursor' = c => Within(cursor)'
  BY DEF Within

\* The UIDs a poll requested stay in the mailbox of their numbering.
LEMMA InBoxKept ==
    ASSUME TypeOK, Ahead, NEW i \in Instances, Within(work[i]), InBox(i),
           work'[i].validity = work[i].validity, requested'[i] = requested[i], left'[i] \subseteq left[i]
    PROVE  InBox(i)'
<1>1. left'[i] \subseteq requested'[i]
  BY DEF InBox
<1>2. ASSUME work'[i].validity = validity'
      PROVE  requested'[i] \subseteq DOMAIN box'
  <2>0. work[i] \in Cursors
    BY PollTypes
  <2>1. /\ work[i].validity \in Nat /\ validity \in Nat /\ validity' \in Nat
        /\ validity <= validity' /\ work[i].validity <= validity
    BY <2>0, CursorFields, Numbers DEF Ahead, Within
  <2>2. validity' = validity /\ work[i].validity = validity
    BY <1>2, <2>1, SMT
  <2>3. DOMAIN box \subseteq DOMAIN box'
    <3>1. Len(box) \in Nat /\ Len(box') \in Nat /\ Len(box) <= Len(box')
          /\ DOMAIN box = 1 .. Len(box) /\ DOMAIN box' = 1 .. Len(box')
      BY <2>2, Numbers DEF Ahead
    <3> QED
      BY <3>1, SMT
  <2> QED
    BY <2>2, <2>3 DEF InBox
<1> QED
  BY <1>1, <1>2 DEF InBox

\* A poll the step does not touch.
LEMMA PollShapeKept ==
    ASSUME TypeOK, Ahead, NEW i \in Instances, PollShape(i), SamePoll(i),
           pc'[i] = pc[i], listed'[i] = listed[i]
    PROVE  PollShape(i)'
<1> PICK c \in Cursors, d \in Cursors : c = work[i] /\ d = listed[i].cursor
  BY PollTypes
<1>1. Within(work[i])' /\ Within(listed[i].cursor)'
  <2>1. Within(c)' /\ Within(d)' /\ work'[i] = c /\ listed'[i].cursor = d
    BY WithinKept DEF PollShape, SamePoll
  <2> QED
    BY <2>1, WithinMoved
<1>2. InBox(i)'
  BY InBoxKept DEF PollShape, SamePoll
<1> QED
  BY <1>1, <1>2 DEF PollShape, SamePoll

\* What a poll that ends leaves of its state.
LEMMA EndFields ==
    ASSUME TypeOK, NEW i \in Instances, EndPoll(i)
    PROVE  /\ pc'[i] = "idle" /\ work'[i] = NoCursor /\ requested'[i] = {} /\ left'[i] = {}
           /\ how'[i] = "none"
           /\ \A j \in Instances \ {i} : SamePoll(j) /\ pc'[j] = pc[j]
<1>1. PollOK
  BY TypeParts
<1> QED
  BY <1>1 DEF PollOK, EndPoll, SamePoll

\* A poll that ends.
LEMMA EndShape ==
    ASSUME TypeOK, TypeOK', Ahead, NEW i \in Instances, PollShape(i), EndPoll(i), listed' = listed
    PROVE  PollShape(i)'
<1>1. /\ pc'[i] = "idle" /\ work'[i] = NoCursor /\ requested'[i] = {} /\ left'[i] = {}
  BY EndFields
<1>2. Within(NoCursor)'
  <2>1. NoCursor \in Cursors /\ Within(NoCursor)
    BY GoodNone DEF Good
  <2> QED
    BY <2>1, WithinKept
<1>3. PICK d \in Cursors : d = listed[i].cursor
  BY PollTypes
<1>4. Within(work[i])' /\ Within(listed[i].cursor)'
  <2>1. Within(d)' /\ listed'[i].cursor = d
    BY <1>3, WithinKept DEF PollShape
  <2> QED
    BY <1>1, <1>2, <2>1, WithinMoved
<1>5. InBox(i)'
  BY <1>1 DEF InBox
<1> QED
  BY <1>1, <1>4, <1>5 DEF PollShape

\* The mailbox itself.
LEMMA MailShape ==
    ASSUME TypeOK, TypeOK', ShapeInv, Ahead, [Next]_vars
    PROVE  /\ (Len(box) <= arrived /\ \A u \in DOMAIN box : box[u] <= arrived)'
           /\ (~Reorders => InOrderFrom(0))'
<1>0. /\ Len(box) <= arrived /\ (\A u \in DOMAIN box : box[u] <= arrived)
      /\ (~Reorders => InOrderFrom(0)) /\ 0 \in Nat /\ 0 <= Len(box)
  BY Numbers, SMT DEF ShapeInv
<1>1. CASE UNCHANGED mailVars
  BY <1>0, <1>1 DEF mailVars, InOrderFrom
<1>2. CASE Arrive
  <2>1. arrived' = arrived + 1 /\ box' = Append(box, arrived + 1) /\ validity' = validity
    BY <1>2 DEF Arrive
  <2>2. /\ Len(box') = Len(box) + 1
        /\ \A u \in DOMAIN box' : (u \in DOMAIN box /\ box'[u] = box[u]) \/ box'[u] = arrived + 1
    <3>1. box \in Seq(Emails \cup {0})
      BY DEF TypeOK
    <3> QED
      BY <2>1, <3>1, SMT
  <2>3. Len(box') <= arrived' /\ \A u \in DOMAIN box' : box'[u] <= arrived'
    <3>1. Len(box') <= arrived'
      BY <1>0, <2>1, <2>2, Numbers, SMT
    <3>2. ASSUME NEW u \in DOMAIN box'
          PROVE  box'[u] <= arrived'
      <4>1. CASE u \in DOMAIN box /\ box'[u] = box[u]
        <5>1. box[u] \in Nat /\ box[u] <= arrived /\ arrived \in Nat
          BY <1>0, <4>1, Numbers
        <5> QED
          BY <2>1, <4>1, <5>1, SMT
      <4>2. CASE box'[u] = arrived + 1
        BY <2>1, <4>2, Numbers, SMT
      <4> QED
        BY <2>2, <4>1, <4>2
    <3> QED
      BY <3>1, <3>2
  <2> QED
    BY <1>0, <2>1, <2>3 DEF Ahead
<1>3. ASSUME NEW w \in 1 .. Len(box), Expunge(w)
      PROVE  /\ Len(box') <= arrived' /\ \A u \in DOMAIN box' : box'[u] <= arrived'
             /\ ~Reorders => InOrderFrom(0)'
  <2>1. /\ box' = [box EXCEPT ![w] = 0] /\ arrived' = arrived /\ validity' = validity
    BY <1>3 DEF Expunge
  <2>2. /\ Len(box') = Len(box) /\ DOMAIN box' = DOMAIN box
        /\ \A u \in DOMAIN box : box'[u] = 0 \/ box'[u] = box[u]
    <3>1. box \in Seq(Emails \cup {0})
      BY DEF TypeOK
    <3> QED
      BY <2>1, <3>1, SMT
  <2>3. 0 <= arrived
    BY Numbers, SMT
  <2> QED
    BY <1>0, <2>1, <2>2, <2>3 DEF Ahead
<1>4. CASE Renumber
  <2>1. /\ box' \in [1 .. Cardinality(Arrived) -> Arrived] /\ IsInjective(box')
        /\ Reorders \/ KeepsOrder(box')
        /\ arrived' = arrived
    BY <1>4 DEF Renumber
  <2>2. \A u \in DOMAIN box' : \E v \in DOMAIN box : box'[u] = box[v] /\ box[v] # 0
    BY <2>1 DEF Arrived, Range
  <2>3. \A u \in DOMAIN box' : box'[u] <= arrived'
    BY <1>0, <2>1, <2>2
  <2>4. Len(box') <= arrived'
    <3>1. IsFiniteSet(1 .. arrived) /\ Cardinality(1 .. arrived) = arrived
      <4>1. 1 \in Int /\ arrived \in Int /\ arrived \in Nat
        BY Numbers, SMT
      <4>2. /\ IsFiniteSet(1 .. arrived)
            /\ Cardinality(1 .. arrived) = IF 1 > arrived THEN 0 ELSE arrived - 1 + 1
        BY <4>1, FS_Interval
      <4> QED
        BY <4>1, <4>2, SMT
    <3>2. Arrived \subseteq 1 .. arrived
      <4> SUFFICES ASSUME NEW u \in DOMAIN box, box[u] # 0 PROVE box[u] \in 1 .. arrived
        BY DEF Arrived, Range
      <4>1. box[u] \in Nat /\ box[u] <= arrived /\ arrived \in Nat
        BY <1>0, Numbers
      <4> QED
        BY <4>1, SMT
    <3>3. Cardinality(Arrived) <= arrived /\ Cardinality(Arrived) \in Nat
      BY <3>1, <3>2, FS_Subset, FS_CardinalityType
    <3>4. Len(box') = Cardinality(Arrived)
      <4>1. box' \in Seq(Emails \cup {0})
        BY DEF TypeOK
      <4>2. DOMAIN box' = 1 .. Cardinality(Arrived)
        BY <2>1
      <4> QED
        BY <3>3, <4>1, <4>2, SMT
    <3> QED
      BY <2>1, <3>3, <3>4
  <2>5. ASSUME ~Reorders, NEW u \in DOMAIN box', NEW v \in DOMAIN box', u < v
        PROVE  box'[u] < box'[v]
    <3>1. PICK m \in DOMAIN box : box'[u] = box[m] /\ box[m] # 0
      BY <2>2
    <3>2. PICK n \in DOMAIN box : box'[v] = box[n] /\ box[n] # 0
      BY <2>2
    <3>3. m < n
      BY <2>1, <2>5, <3>1, <3>2 DEF KeepsOrder
    <3>4. 0 < n
      BY Numbers, SMT
    <3> QED
      BY <1>0, <2>5, <3>1, <3>2, <3>3, <3>4 DEF InOrderFrom
  <2> QED
    BY <2>3, <2>4, <2>5 DEF InOrderFrom
<1>5. ASSUME NEW i \in Instances,
             \/ Assign(i) \/ ListDue(i) \/ Start(i) \/ AlreadyRunning(i) \/ StartPoll(i)
             \/ Aborted(i) \/ Examine(i) \/ Delivered(i) \/ Stopped(i) \/ Handle(i) \/ CompletePoll(i)
      PROVE  UNCHANGED mailVars
  BY <1>5 DEF Assign, ListDue, Start, AlreadyRunning, StartPoll, Aborted, Examine, Delivered, Stopped,
              Handle, CompletePoll
<1>6. Unassign \/ UNCHANGED vars => UNCHANGED mailVars
  BY DEF Unassign, vars
<1> QED
  BY <1>1, <1>2, <1>3, <1>4, <1>5, <1>6 DEF Next, Environment, Poll, Fault
-----------------------------------------------------------------------------
(* What the steps of a poll change.                                        *)

\* The polls of the others.
Others(i) == \A j \in Instances \ {i} : SamePoll(j) /\ pc'[j] = pc[j] /\ listed'[j] = listed[j]

\* What placing the cursor at the end changes.
LEMMA PlaceFields ==
    ASSUME TypeOK, NEW i \in Instances, NEW reason, PlaceAtEnd(i, reason), listed' = listed
    PROVE  /\ work'[i] = Cursor(validity, lastUID, 0, 0, 0) /\ how'[i] = reason
           /\ pc'[i] = "complete" /\ seen'[i] = Arrived
           /\ requested' = requested /\ left' = left /\ Others(i)
<1>1. PollOK
  BY TypeParts
<1> QED
  BY <1>1 DEF PollOK, PlaceAtEnd, SamePoll, Others

\* What requesting UIDs changes.
LEMMA RequestFields ==
    ASSUME TypeOK, NEW i \in Instances, NEW c, NEW found, NEW skipped, NEW reason,
           Request(i, c, found, skipped, reason), listed' = listed
    PROVE  /\ work'[i] = c /\ how'[i] = reason /\ pc'[i] = "deliver"
           /\ requested'[i] = First(found, MaxMessagesPerPoll)
           /\ left'[i] = First(found, MaxMessagesPerPoll) \ skipped
           /\ Others(i)
<1>1. PollOK
  BY TypeParts
<1> DEFINE uids == First(found, MaxMessagesPerPoll)
           dates == [u \in Uids |-> IF u \in skipped \cap uids THEN DateOf[box[u]] ELSE 0]
           cut == Cardinality(found) > MaxMessagesPerPoll
<1>2. /\ work' = [work EXCEPT ![i] = c] /\ requested' = [requested EXCEPT ![i] = uids]
      /\ left' = [left EXCEPT ![i] = uids \ skipped] /\ handled' = [handled EXCEPT ![i] = dates]
      /\ limited' = [limited EXCEPT ![i] = cut]
      /\ how' = [how EXCEPT ![i] = reason]
      /\ pc' = [pc EXCEPT ![i] = "deliver"] /\ seen' = seen
  BY DEF Request
<1> HIDE DEF uids, dates, cut
<1>3. /\ work'[i] = c /\ how'[i] = reason /\ pc'[i] = "deliver"
      /\ requested'[i] = uids /\ left'[i] = uids \ skipped
  BY <1>1, <1>2 DEF PollOK
<1>4. Others(i)
  BY <1>1, <1>2 DEF PollOK, SamePoll, Others
<1> QED
  BY <1>3, <1>4 DEF uids

\* Only the requested UIDs the checkpoint filters out count as handled, with their dates.
LEMMA RequestDates ==
    ASSUME TypeOK, NEW i \in Instances, NEW c, NEW found, NEW skipped, NEW reason,
           Request(i, c, found, skipped, reason)
    PROVE  /\ \A u \in Uids :
                 \/ handled'[i][u] = 0
                 \/ /\ u \in skipped \cap First(found, MaxMessagesPerPoll)
                    /\ handled'[i][u] = DateOf[box[u]]
           /\ \A u \in Uids \ skipped : handled'[i][u] = 0
           /\ limited'[i] = (Cardinality(found) > MaxMessagesPerPoll)
<1>1. PollOK
  BY TypeParts
<1> DEFINE uids == First(found, MaxMessagesPerPoll)
           dates == [u \in Uids |-> IF u \in skipped \cap uids THEN DateOf[box[u]] ELSE 0]
           cut == Cardinality(found) > MaxMessagesPerPoll
<1>2. handled' = [handled EXCEPT ![i] = dates] /\ limited' = [limited EXCEPT ![i] = cut]
  BY DEF Request
<1> HIDE DEF uids, dates, cut
<1>3. handled'[i] = dates /\ limited'[i] = cut
  BY <1>1, <1>2 DEF PollOK
<1>4. \A u \in Uids : dates[u] = 0 \/ (u \in skipped \cap uids /\ dates[u] = DateOf[box[u]])
  BY DEF dates
<1>5. \A u \in Uids \ skipped : dates[u] = 0
  BY DEF dates
<1> QED
  BY <1>3, <1>4, <1>5 DEF uids, cut

\* A recovery with nothing to read.
Nothing(i, d, reason) ==
    /\ d.last >= d.to \/ searchUIDs(d.last, d.to) = {}
    /\ work' = [work EXCEPT ![i] = finishRecovery(d)]
    /\ how' = [how EXCEPT ![i] = reason]
    /\ pc' = [pc EXCEPT ![i] = "complete"]
    /\ UNCHANGED <<token, requested, left, handled, limited, seen, older>>

\* What a recovery that finds nothing changes.
LEMMA NothingFields ==
    ASSUME TypeOK, NEW i \in Instances, NEW d, NEW reason, Nothing(i, d, reason), listed' = listed
    PROVE  /\ work'[i] = finishRecovery(d) /\ how'[i] = reason /\ pc'[i] = "complete"
           /\ requested' = requested /\ left' = left /\ Others(i)
<1>1. PollOK
  BY TypeParts
<1> QED
  BY <1>1 DEF PollOK, Nothing, SamePoll, Others

\* A recovery finds nothing, or requests what it finds.
LEMMA RecoverCases ==
    ASSUME NEW i, NEW d, NEW reason, Recover(i, d, reason)
    PROVE  \/ Nothing(i, d, reason)
           \/ Request(i, d, searchUIDs(d.last, d.to),
                      OlderThan(d.checkpoint, searchUIDs(d.last, d.to)), reason)
  BY DEF Recover, Nothing

\* What handling an email changes.
LEMMA HandleFields ==
    ASSUME TypeOK, NEW i \in Instances, Handle(i)
    PROVE  /\ pc'[i] = "deliver" /\ pc' = pc /\ work' = work /\ requested' = requested
           /\ limited' = limited /\ how' = how /\ listed' = listed /\ seen' = seen
           /\ left'[i] = left[i] \ {Min(left[i])} /\ Others(i)
<1>1. PollOK
  BY TypeParts
<1>2. /\ pc' = pc /\ work' = work /\ requested' = requested
      /\ limited' = limited /\ how' = how /\ listed' = listed /\ seen' = seen
      /\ left' = [left EXCEPT ![i] = left[i] \ {Min(left[i])}] /\ pc[i] = "deliver"
  BY DEF Handle
<1>3. \A j \in Instances \ {i} : handled'[j] = handled[j]
  BY <1>1 DEF Handle, PollOK
<1> QED
  BY <1>1, <1>2, <1>3 DEF PollOK, SamePoll, Others

\* What the end of a delivery changes: the cursor advances, and a recovery that is
\* through is finished.
LEMMA ConfirmFields ==
    ASSUME TypeOK, NEW i \in Instances, Delivered(i) \/ Stopped(i)
    PROVE  /\ pc[i] = "deliver" /\ pc'[i] = "complete"
           /\ \/ work'[i] = advanceConfirmed(i)
              \/ /\ work[i].checkpoint # 0 /\ ~limited[i] /\ left[i] = {}
                 /\ work'[i] = finishRecovery(advanceConfirmed(i))
           /\ requested' = requested /\ left' = left /\ how' = how /\ listed' = listed
           /\ Others(i)
<1>1. PollOK
  BY TypeParts
<1>2. PICK w : /\ work' = [work EXCEPT ![i] = w]
               /\ \/ w = advanceConfirmed(i)
                  \/ /\ work[i].checkpoint # 0 /\ ~limited[i] /\ left[i] = {}
                     /\ w = finishRecovery(advanceConfirmed(i))
  BY DEF Delivered, Stopped
<1>3. /\ pc[i] = "deliver" /\ pc' = [pc EXCEPT ![i] = "complete"]
      /\ requested' = requested /\ left' = left /\ how' = how /\ listed' = listed
      /\ seen' = seen /\ handled' = handled /\ limited' = limited
  BY DEF Delivered, Stopped
<1> QED
  BY <1>1, <1>2, <1>3 DEF PollOK, SamePoll, Others

\* What starting a poll changes.
LEMMA StartFields ==
    ASSUME TypeOK, NEW i \in Instances, Start(i)
    PROVE  /\ pc[i] = "idle" /\ pc'[i] = "start" /\ work'[i] = listed[i].cursor
           /\ listed'[i] = NotListed /\ requested' = requested /\ left' = left /\ Others(i)
<1>1. PollOK /\ ListOK
  BY TypeParts
<1> QED
  BY <1>1 DEF PollOK, ListOK, Start, SamePoll, Others

\* What reading the row changes.
LEMMA ListFields ==
    ASSUME TypeOK, NEW i \in Instances, ListDue(i) \/ AlreadyRunning(i)
    PROVE  /\ pc' = pc /\ UNCHANGED pollVars /\ SamePoll(i) /\ Others(i)
           /\ listed'[i].cursor = cursor \/ listed'[i].cursor = NoCursor
<1>1. PollOK /\ ListOK
  BY TypeParts
<1>2. /\ pc' = pc /\ UNCHANGED pollVars
      /\ \/ listed' = [listed EXCEPT ![i] = [generation |-> generation, cursor |-> cursor]]
         \/ listed' = [listed EXCEPT ![i] = NotListed]
  BY DEF ListDue, AlreadyRunning
<1>3. /\ SamePoll(i) /\ \A j \in Instances : SamePoll(j)
  BY <1>2 DEF pollVars, SamePoll
<1>4. \A j \in Instances \ {i} : listed'[j] = listed[j]
  BY <1>1, <1>2 DEF ListOK
<1>5. listed'[i].cursor = cursor \/ listed'[i].cursor = NoCursor
  BY <1>1, <1>2, SMT DEF ListOK, NotListed
<1> QED
  BY <1>2, <1>3, <1>4, <1>5 DEF Others

\* What a poll whose start the fence admits changes.
LEMMA ExaminedFields ==
    ASSUME TypeOK, NEW i \in Instances, StartPoll(i), ~EndPoll(i)
    PROVE  /\ pc[i] = "start" /\ pc'[i] = "examine" /\ SamePoll(i) /\ listed' = listed /\ Others(i)
<1>1. PollOK
  BY TypeParts
<1>2. pc[i] = "start" /\ pc' = [pc EXCEPT ![i] = "examine"] /\ UNCHANGED pollVars /\ listed' = listed
  BY DEF StartPoll
<1>3. \A j \in Instances : SamePoll(j)
  BY <1>2 DEF pollVars, SamePoll
<1> QED
  BY <1>1, <1>2, <1>3 DEF PollOK, Others
-----------------------------------------------------------------------------
\* A step of one instance keeps the shape of the polls of the others.
LEMMA OthersShape ==
    ASSUME TypeOK, Ahead, ShapeInv, NEW i \in Instances, Others(i), PollShape(i)'
    PROVE  (\A j \in Instances : PollShape(j))'
<1> SUFFICES ASSUME NEW j \in Instances \ {i} PROVE PollShape(j)'
  OBVIOUS
<1> QED
  BY PollShapeKept DEF Others, ShapeInv

\* A poll that works on cursor d after the step, and has nothing or the same to fetch.
LEMMA NewWorkShape ==
    ASSUME TypeOK, Ahead, NEW i \in Instances, PollShape(i), listed'[i] = listed[i],
           NEW d \in Cursors, Within(d), work'[i] = d, d.validity # 0,
           requested'[i] = requested[i], left'[i] = left[i],
           requested[i] = {} \/ d.validity = work[i].validity,
           pc'[i] = "complete", how'[i] # "none"
    PROVE  PollShape(i)'
<1>1. Within(work[i])' /\ Within(listed[i].cursor)'
  <2>1. PICK l \in Cursors : l = listed[i].cursor
    BY PollTypes
  <2>2. Within(d)' /\ Within(l)' /\ listed'[i].cursor = l
    BY <2>1, WithinKept DEF PollShape
  <2> QED
    BY <2>2, WithinMoved
<1>2. InBox(i)'
  <2>1. CASE requested[i] = {}
    BY <2>1 DEF InBox, PollShape
  <2>2. CASE d.validity = work[i].validity
    <3>1. Within(work[i]) /\ InBox(i) /\ left'[i] \subseteq left[i] /\ work'[i].validity = work[i].validity
      BY <2>2 DEF PollShape
    <3> QED
      BY <3>1, InBoxKept
  <2> QED
    BY <2>1, <2>2
<1> QED
  BY <1>1, <1>2 DEF PollShape

\* Comparing UIDVALIDITY and searching keeps the shape of the polls.
LEMMA ExamineShape ==
    ASSUME TypeOK, TypeOK', Ahead, ShapeInv, NEW i \in Instances, Examine(i)
    PROVE  (\A j \in Instances : PollShape(j))'
<1>0. /\ listed' = listed /\ pc[i] = "examine" /\ box' = box /\ validity' = validity
      /\ PollShape(i) /\ requested[i] = {} /\ validity # 0
  BY Numbers DEF Examine, mailVars, ShapeInv, PollShape
<1>1. ASSUME NEW reason \in {"first", "end"}, PlaceAtEnd(i, reason)
      PROVE  (\A j \in Instances : PollShape(j))'
  <2>1. PICK d \in Cursors : /\ d = Cursor(validity, lastUID, 0, 0, 0) /\ d.validity = validity
                             /\ d.last = Len(box) /\ d.to = 0
    BY EndMade
  <2>2. Within(d)
    <3>1. validity <= validity /\ Len(box) <= Len(box) /\ 0 <= Len(box)
      BY Numbers, SMT
    <3> QED
      BY <2>1, <3>1 DEF Within
  <2>3. PollShape(i)' /\ Others(i)
    BY <1>0, <1>1, <2>1, <2>2, PlaceFields, NewWorkShape
  <2> QED
    BY <2>3, OthersShape
<1>2. ASSUME NEW c \in Cursors, Within(c), c.validity = validity, NEW found \in SUBSET Uids,
             found \subseteq DOMAIN box, NEW skipped, NEW reason \in {"read", "recover", "stored"},
             Request(i, c, found, skipped, reason)
      PROVE  (\A j \in Instances : PollShape(j))'
  <2> DEFINE uids == First(found, MaxMessagesPerPoll)
  <2>1. /\ work'[i] = c /\ how'[i] = reason /\ pc'[i] = "deliver"
        /\ requested'[i] = uids /\ left'[i] = uids \ skipped /\ Others(i)
    BY <1>0, <1>2, RequestFields, ZenonT(40)
  <2>2. uids \subseteq found
    BY RequestFacts
  <2> HIDE DEF uids
  <2>3. InBox(i)'
    BY <1>0, <1>2, <2>1, <2>2 DEF InBox
  <2>4. Within(work[i])' /\ Within(listed[i].cursor)'
    <3>1. PICK l \in Cursors : l = listed[i].cursor
      BY PollTypes
    <3>2. Within(c)' /\ Within(l)' /\ listed'[i].cursor = l
      BY <1>0, <1>2, <3>1, WithinKept DEF PollShape
    <3> QED
      BY <2>1, <3>2, WithinMoved
  <2>5. PollShape(i)'
    BY <1>0, <1>2, <2>1, <2>3, <2>4 DEF PollShape
  <2> QED
    BY <2>1, <2>5, OthersShape
<1>3. ASSUME NEW d \in Cursors, NEW reason \in {"stored", "recover"},
             Resumes(i, d, reason), Recover(i, d, reason)
      PROVE  (\A j \in Instances : PollShape(j))'
  <2>1. d.to \in Nat /\ d.last \in Nat /\ d.to <= Len(box) /\ d.validity = validity
    BY <1>3, CursorFields DEF Resumes
  <2>2. Within(d)
    <3>1. CASE d = work[i]
      BY <1>0, <3>1 DEF PollShape
    <3>2. CASE d = startRecovery(ResumeFrom(work[i]))
      <4>1. d.last = 0
        BY <3>2, PollTypes, ResumeType, StartMade
      <4>2. 0 <= Len(box) /\ validity <= validity
        BY Numbers, SMT
      <4> QED
        BY <2>1, <4>1, <4>2 DEF Within
    <3> QED
      BY <1>3, <3>1, <3>2 DEF Resumes
  <2>3. CASE Nothing(i, d, reason)
    <3>1. PICK f \in Cursors : f = finishRecovery(d) /\ f.validity = validity /\ f.last = d.to /\ f.to = 0
      BY <2>1, FinishMade
    <3>2. Within(f)
      <4>1. 0 <= Len(box) /\ validity <= validity
        BY Numbers, SMT
      <4> QED
        BY <2>1, <3>1, <4>1 DEF Within
    <3>3. listed' = listed
      BY <1>0
    <3>4. /\ work'[i] = finishRecovery(d) /\ how'[i] = reason /\ pc'[i] = "complete"
          /\ requested' = requested /\ left' = left /\ Others(i)
      BY <2>3, <3>3, NothingFields
    <3>5. /\ work'[i] = f /\ requested'[i] = requested[i] /\ left'[i] = left[i]
      BY <3>1, <3>4
    <3>6. /\ PollShape(i) /\ listed'[i] = listed[i] /\ requested[i] = {}
          /\ f.validity # 0 /\ how'[i] # "none"
      BY <1>0, <3>1, <3>4
    <3>7. PollShape(i)'
      BY <3>2, <3>4, <3>5, <3>6, NewWorkShape
    <3> QED
      BY <3>4, <3>7, OthersShape
  <2>4. CASE Request(i, d, searchUIDs(d.last, d.to),
                     OlderThan(d.checkpoint, searchUIDs(d.last, d.to)), reason)
    BY <1>2, <2>1, <2>2, <2>4, Searched
  <2> QED
    BY <1>3, <2>3, <2>4, RecoverCases
<1>4. CASE /\ work[i].validity = validity /\ work[i].checkpoint = 0
           /\ Request(i, work[i], searchUIDs(work[i].last, Len(box)), {}, "read")
  <2>1. Len(box) \in Nat /\ Len(box) <= Len(box)
    BY Numbers, SMT
  <2>2. work[i] \in Cursors /\ Within(work[i])
    BY <1>0, PollTypes DEF PollShape
  <2> QED
    BY <1>2, <1>4, <2>1, <2>2, Searched
<1> QED
  BY <1>1, <1>3, <1>4, ExamineCases

\* Every step keeps the shape of the mailbox and of the polls.
LEMMA ShapeStep ==
    ASSUME TypeOK, TypeOK', Ahead, ShapeInv, [Next]_vars
    PROVE  ShapeInv'
<1> DEFINE Polls == \A j \in Instances : PollShape(j)
           Row == (cursor = NoCursor => baseline = {}) /\ Within(cursor)
<1>0. cursor \in Cursors /\ Row /\ Polls /\ \A j \in Instances : PollShape(j)
  BY TypeParts DEF ShapeInv, RowOK
<1>1. SUFFICES Polls' /\ Row'
  BY MailShape DEF ShapeInv
<1>2. cursor' = cursor /\ baseline' = baseline => Row'
  <2>1. PICK c \in Cursors : c = cursor
    BY <1>0
  <2>2. Within(c)'
    BY <1>0, <2>1, WithinKept
  <2> QED
    BY <1>0, <2>1, <2>2, WithinMoved
<1>3. CASE UNCHANGED <<cursor, baseline, listed, pc, pollVars>>
  <2>1. \A j \in Instances : SamePoll(j) /\ pc'[j] = pc[j] /\ listed'[j] = listed[j]
    BY <1>3 DEF SamePoll, pollVars
  <2> QED
    BY <1>0, <1>2, <1>3, <2>1, PollShapeKept
<1>4. CASE Arrive \/ Renumber \/ Unassign \/ (\E u \in 1 .. Len(box) : Expunge(u))
           \/ (\E i \in Instances : Assign(i)) \/ UNCHANGED vars
  <2>1. UNCHANGED <<cursor, baseline, listed, pc, pollVars>>
    BY <1>4 DEF Arrive, Renumber, Unassign, Expunge, Assign, vars, rowVars
  <2> QED
    BY <1>3, <2>1
<1>5. ASSUME NEW i \in Instances, ListDue(i) \/ AlreadyRunning(i)
      PROVE  Polls' /\ Row'
  <2>1. cursor' = cursor /\ baseline' = baseline
    BY <1>5 DEF ListDue, AlreadyRunning, rowVars
  <2>2. PICK l \in Cursors : listed'[i].cursor = l /\ Within(l)
    <3>1. NoCursor \in Cursors /\ Within(NoCursor)
      BY GoodNone DEF Good
    <3> QED
      BY <1>0, <1>5, <3>1, ListFields
  <2>3. PICK c \in Cursors : c = work[i] /\ Within(c) /\ work'[i] = c
    BY <1>0, <1>5, PollTypes, ListFields DEF PollShape, SamePoll
  <2>4. Within(work[i])' /\ Within(listed[i].cursor)'
    <3>1. Within(l)' /\ Within(c)'
      BY <2>2, <2>3, WithinKept
    <3> QED
      BY <2>2, <2>3, <3>1, WithinMoved
  <2>5. /\ pc' = pc /\ SamePoll(i) /\ Others(i)
    BY <1>5, ListFields
  <2>6. InBox(i)'
    <3>1. Within(work[i]) /\ InBox(i)
      BY <1>0 DEF PollShape
    <3> QED
      BY <2>5, <3>1, InBoxKept DEF SamePoll
  <2>7. PollShape(i)'
    BY <1>0, <2>4, <2>5, <2>6 DEF PollShape, SamePoll
  <2> QED
    BY <1>2, <2>1, <2>5, <2>7, OthersShape
<1>6. ASSUME NEW i \in Instances, Start(i)
      PROVE  Polls' /\ Row'
  <2>1. cursor' = cursor /\ baseline' = baseline
    BY <1>6 DEF Start, rowVars
  <2>2. /\ pc[i] = "idle" /\ pc'[i] = "start" /\ work'[i] = listed[i].cursor
        /\ listed'[i] = NotListed /\ requested' = requested /\ left' = left /\ Others(i)
    BY <1>6, StartFields
  <2>3. PICK l \in Cursors : l = listed[i].cursor /\ Within(l)
    BY <1>0, PollTypes DEF PollShape
  <2>4. NoCursor \in Cursors /\ Within(NoCursor) /\ NotListed.cursor = NoCursor
    BY GoodNone, SMT DEF Good, NotListed
  <2>5. Within(work[i])' /\ Within(listed[i].cursor)'
    <3>1. Within(l)' /\ Within(NoCursor)'
      BY <2>3, <2>4, WithinKept
    <3> QED
      BY <2>2, <2>3, <2>4, <3>1, WithinMoved
  <2>6. requested'[i] = {} /\ left'[i] = {}
    BY <1>0, <2>2 DEF PollShape, InBox
  <2>7. PollShape(i)'
    BY <2>2, <2>5, <2>6 DEF PollShape, InBox
  <2> QED
    BY <1>2, <2>1, <2>2, <2>7, OthersShape
<1>7. ASSUME NEW i \in Instances, EndPoll(i), listed' = listed
      PROVE  Polls'
  <2>1. PollShape(i)' /\ Others(i)
    BY <1>0, <1>7, EndShape, EndFields DEF Others
  <2> QED
    BY <2>1, OthersShape
<1>8. ASSUME NEW i \in Instances, StartPoll(i) \/ Aborted(i)
      PROVE  Polls' /\ Row'
  <2>1. cursor' = cursor /\ baseline' = baseline /\ listed' = listed
    BY <1>8 DEF StartPoll, Aborted, rowVars
  <2>2. CASE StartPoll(i) /\ ~EndPoll(i)
    <3>1. pc[i] = "start" /\ pc'[i] = "examine" /\ SamePoll(i) /\ listed' = listed /\ Others(i)
      BY <2>2, ExaminedFields
    <3>2. PICK c \in Cursors, l \in Cursors : c = work[i] /\ l = listed[i].cursor /\ Within(c) /\ Within(l)
      BY <1>0, PollTypes DEF PollShape
    <3>3. Within(work[i])' /\ Within(listed[i].cursor)'
      <4>1. Within(c)' /\ Within(l)' /\ work'[i] = c /\ listed'[i].cursor = l
        BY <3>1, <3>2, WithinKept DEF SamePoll
      <4> QED
        BY <4>1, WithinMoved
    <3>4. InBox(i)'
      <4>1. Within(work[i]) /\ InBox(i)
        BY <1>0 DEF PollShape
      <4> QED
        BY <3>1, <4>1, InBoxKept DEF SamePoll
    <3>5. PollShape(i)'
      BY <1>0, <3>1, <3>3, <3>4 DEF PollShape, SamePoll
    <3> QED
      BY <1>2, <2>1, <3>1, <3>5, OthersShape
  <2>3. CASE EndPoll(i)
    BY <1>2, <1>7, <2>1, <2>3
  <2> QED
    BY <1>8, <2>2, <2>3 DEF Aborted
<1>9. ASSUME NEW i \in Instances, Examine(i)
      PROVE  Polls' /\ Row'
  <2>1. cursor' = cursor /\ baseline' = baseline
    BY <1>9 DEF Examine, rowVars
  <2> QED
    BY <1>2, <1>9, <2>1, ExamineShape
<1>10. ASSUME NEW i \in Instances, Handle(i)
       PROVE  Polls' /\ Row'
  <2>1. cursor' = cursor /\ baseline' = baseline
    BY <1>10 DEF Handle, rowVars
  <2>2. /\ pc'[i] = "deliver" /\ pc' = pc /\ work' = work /\ requested' = requested
        /\ how' = how /\ listed' = listed /\ left'[i] \subseteq left[i] /\ Others(i)
    BY <1>10, HandleFields
  <2>3. PICK c \in Cursors, l \in Cursors : c = work[i] /\ l = listed[i].cursor /\ Within(c) /\ Within(l)
    BY <1>0, PollTypes DEF PollShape
  <2>4. Within(work[i])' /\ Within(listed[i].cursor)'
    <3>1. Within(c)' /\ Within(l)' /\ work'[i] = c /\ listed'[i].cursor = l
      BY <2>2, <2>3, WithinKept
    <3> QED
      BY <3>1, WithinMoved
  <2>5. InBox(i)'
    <3>1. Within(work[i]) /\ InBox(i)
      BY <1>0 DEF PollShape
    <3> QED
      BY <2>2, <3>1, InBoxKept
  <2>6. PollShape(i)'
    BY <1>0, <2>2, <2>4, <2>5 DEF PollShape
  <2> QED
    BY <1>2, <2>1, <2>2, <2>6, OthersShape
<1>11. ASSUME NEW i \in Instances, Delivered(i) \/ Stopped(i)
       PROVE  Polls' /\ Row'
  <2>1. cursor' = cursor /\ baseline' = baseline /\ validity' = validity /\ box' = box
    BY <1>11 DEF Delivered, Stopped, rowVars, mailVars
  <2>2. /\ pc[i] = "deliver" /\ pc'[i] = "complete"
        /\ requested' = requested /\ left' = left /\ listed' = listed /\ Others(i)
        /\ how'[i] # "none"
    BY <1>0, <1>11, ConfirmFields DEF PollShape
  <2>3. PICK c \in Cursors : c = work[i] /\ Within(c) /\ c.validity # 0
    BY <1>0, <2>2, PollTypes DEF PollShape
  <2>4. PICK a \in Cursors : /\ a = advanceConfirmed(i)
                             /\ a.validity = c.validity /\ a.to = c.to
                             /\ a.last \in {c.last} \cup Confirmed(i)
    BY <2>3, AdvanceFacts
  <2>5. PICK d \in Cursors : /\ work'[i] = d /\ d.validity = c.validity
                             /\ d.last \in {a.last, c.to} /\ d.to \in {0, c.to}
    <3>1. CASE work'[i] = a
      BY <2>4, <3>1
    <3>2. CASE work'[i] = finishRecovery(a)
      <4>1. PICK f \in Cursors : f = finishRecovery(a) /\ f.validity = a.validity /\ f.last = a.to /\ f.to = 0
        BY FinishMade
      <4> QED
        BY <2>4, <3>2, <4>1
    <3> QED
      BY <1>11, <2>4, <3>1, <3>2, ConfirmFields
  <2>6. Within(d)
    <3>1. ASSUME d.validity = validity
          PROVE  d.last <= Len(box) /\ d.to <= Len(box)
      <4>1. c.last <= Len(box) /\ c.to <= Len(box)
        BY <2>3, <2>5, <3>1 DEF Within
      <4>2. requested[i] \subseteq DOMAIN box
        BY <1>0, <2>3, <2>5, <3>1 DEF PollShape, InBox
      <4>3. \A u \in Confirmed(i) : u <= Len(box)
        <5>1. \A u \in DOMAIN box : u <= Len(box)
          BY Numbers, SMT
        <5> QED
          BY <4>2, <5>1 DEF Confirmed
      <4>4. 0 <= Len(box)
        BY Numbers, SMT
      <4> QED
        BY <2>4, <2>5, <4>1, <4>3, <4>4
    <3> QED
      BY <2>3, <2>5, <3>1 DEF Within
  <2>7. PollShape(i)'
    <3>1. PollShape(i)
      BY <1>0
    <3> QED
      BY <2>2, <2>3, <2>5, <2>6, <3>1, NewWorkShape
  <2> QED
    BY <1>2, <2>1, <2>2, <2>7, OthersShape
<1>12. ASSUME NEW i \in Instances, CompletePoll(i)
       PROVE  Polls' /\ Row'
  <2>1. EndPoll(i) /\ listed' = listed /\ pc[i] = "complete"
    BY <1>12 DEF CompletePoll
  <2>2. PICK c \in Cursors : c = work[i] /\ Within(c) /\ c.validity # 0
    BY <1>0, <2>1, PollTypes DEF PollShape
  <2>3. CASE cursor' = work[i]
    <3>1. NoCursor.validity = 0
      BY SMT DEF NoCursor, Cursor
    <3>2. Within(c)' /\ cursor' = c /\ c # NoCursor
      BY <2>2, <2>3, <3>1, WithinKept
    <3>3. Within(cursor)'
      BY <3>2, WithinMoved
    <3> QED
      BY <1>7, <2>1, <3>2, <3>3
  <2>4. CASE cursor' = cursor /\ baseline' = baseline
    BY <1>2, <1>7, <2>1, <2>4
  <2> QED
    BY <1>12, <2>3, <2>4 DEF CompletePoll
<1> QED
  BY <1>4, <1>5, <1>6, <1>8, <1>9, <1>10, <1>11, <1>12 DEF Next, Environment, Poll, Fault
-----------------------------------------------------------------------------
(* Good cursors make good cursors.                                         *)

\* A step of one instance keeps what holds of the polls of the others.
LEMMA OthersPoll ==
    ASSUME TypeOK, Ahead, ShapeInv, \A j \in Instances : PollInv(j),
           NEW i \in Instances, Others(i), PollInv(i)'
    PROVE  (\A j \in Instances : PollInv(j))'
<1> SUFFICES ASSUME NEW j \in Instances \ {i} PROVE PollInv(j)'
  OBVIOUS
<1> QED
  BY PollKept DEF Others, ShapeInv, PollShape

\* Where a pending email is.
LEMMA PendingPlace ==
    ASSUME TypeOK, NEW e \in Pending
    PROVE  e \in Emails /\ (e > arrived \/ \E v \in DOMAIN box : box[v] = e /\ e # 0)
  BY PendingEmails DEF Pending, Unread, Arrived, Range

\* The order behind the end of the mailbox says nothing.
LEMMA InOrderEnd ==
    ASSUME TypeOK
    PROVE  InOrderFrom(Len(box))
<1>1. \A v \in DOMAIN box : ~(Len(box) < v)
  BY Numbers, SMT
<1> QED
  BY <1>1 DEF InOrderFrom

\* A recovery that begins, or goes on, from a good cursor.
LEMMA ResumesGood ==
    ASSUME TypeOK, NEW i \in Instances, Good(work[i]), NEW d, NEW reason, Resumes(i, d, reason),
           reason = "recover" \/ OrderInv
    PROVE  Good(d)
<1>1. CASE d = work[i]
  BY <1>1
<1>2. CASE /\ work[i].validity # validity /\ ResumeFrom(work[i]) # 0
           /\ d = startRecovery(ResumeFrom(work[i]))
           /\ reason = IF recoveryCheckpoint(work[i]) = 0 THEN "stored" ELSE "recover"
  <2>1. PICK x \in Dates : x = ResumeFrom(work[i])
    BY PollTypes, ResumeType
  <2>2. /\ d \in Cursors /\ d.validity = validity /\ d.last = 0
        /\ d.date = x /\ d.checkpoint = x /\ d.to = Len(box) /\ x # 0
    BY <1>2, <2>1, StartMade
  <2>3. \A e \in Pending : DateOf[e] >= x
    <3>1. CASE recoveryCheckpoint(work[i]) # 0
      BY <2>1, <3>1 DEF ResumeFrom, Good
    <3>2. CASE recoveryCheckpoint(work[i]) = 0
      <4>1. x = LastReceivedAt /\ OrderInv
        BY <1>2, <2>1, <3>2 DEF ResumeFrom
      <4>2. PICK r \in done : x = DateOf[r]
        BY <2>2, <4>1, LastReceivedFacts
      <4>3. \A e \in Pending : x <= DateOf[e]
        BY <4>1, <4>2 DEF OrderInv
      <4>4. x \in Nat /\ \A e \in Pending : DateOf[e] \in Nat
        BY PendingEmails, Numbers
      <4> QED
        BY <4>3, <4>4, SMT
    <3> QED
      BY <3>1, <3>2
  <2>4. Within(d)
    <3>1. validity <= validity /\ 0 <= Len(box) /\ Len(box) <= Len(box)
      BY Numbers, SMT
    <3> QED
      BY <2>2, <3>1 DEF Within
  <2>5. recoveryCheckpoint(d) = x
    BY <2>2 DEF recoveryCheckpoint
  <2>6. Placed(d)
    BY <2>2, InOrderEnd DEF Placed
  <2>7. \A u \in 1 .. d.last : box[u] \notin Pending
    <3>1. 1 .. 0 = {}
      BY SMT
    <3> QED
      BY <2>2, <3>1
  <2>8. \A e \in Later(d.to) : DateOf[e] >= d.date
    BY <2>2, <2>3 DEF Later
  <2> QED
    BY <2>3, <2>4, <2>5, <2>6, <2>7, <2>8 DEF Good
<1> QED
  BY <1>1, <1>2 DEF Resumes

\* A recovery that leaves nothing pending in its range.
LEMMA FinishGood ==
    ASSUME TypeOK, NEW d \in Cursors, Good(d), d.checkpoint # 0,
           \A e \in Pending : DateOf[e] >= d.date,
           d.validity = validity =>
               \A u \in DOMAIN box : d.last < u /\ u <= d.to => box[u] \notin Pending
    PROVE  Good(finishRecovery(d))
<1>1. PICK f \in Cursors : /\ f = finishRecovery(d) /\ f.validity = d.validity /\ f.last = d.to
                           /\ f.date = d.date /\ f.checkpoint = 0 /\ f.to = 0
  BY FinishMade
<1>2. d.last \in Nat /\ d.to \in Nat
  BY CursorFields
<1>3. Within(f)
  <2>1. 0 <= Len(box)
    BY Numbers, SMT
  <2> QED
    BY <1>1, <2>1 DEF Good, Within
<1>4. recoveryCheckpoint(f) = d.date
  BY <1>1 DEF recoveryCheckpoint
<1>5. ASSUME f.validity = validity
      PROVE  Placed(f) /\ \A u \in 1 .. f.last : box[u] \notin Pending
  <2>1. Placed(f)
    BY <1>1, <1>5 DEF Good, Placed
  <2>2. ASSUME NEW u \in 1 .. d.to
        PROVE  box[u] \notin Pending
    <3>1. u \in DOMAIN box /\ u <= d.to /\ (u \in 1 .. d.last \/ d.last < u)
      <4>1. d.to <= Len(box)
        BY <1>1, <1>5 DEF Good, Within
      <4> QED
        BY <1>2, <4>1, Numbers, SMT
    <3> QED
      BY <1>1, <1>5, <3>1 DEF Good
  <2> QED
    BY <1>1, <2>1, <2>2
<1> QED
  BY <1>1, <1>3, <1>4, <1>5 DEF Good

\* A recovery whose range has nothing pending left has all that is pending behind it.
LEMMA RangeRead ==
    ASSUME TypeOK, NEW d \in Cursors, Good(d), d.validity = validity,
           \A u \in DOMAIN box : d.last < u /\ u <= d.to => box[u] \notin Pending
    PROVE  Pending \subseteq Later(d.to)
<1> SUFFICES ASSUME NEW e \in Pending PROVE e > arrived \/ \E v \in DOMAIN box : v > d.to /\ box[v] = e
  BY DEF Later
<1>1. d.last \in Nat /\ d.to \in Nat
  BY CursorFields
<1>2. CASE \E v \in DOMAIN box : box[v] = e
  <2>1. PICK v \in DOMAIN box : box[v] = e
    BY <1>2
  <2>2. v \in Nat /\ (v \in 1 .. d.last \/ d.last < v)
    BY <1>1, Numbers, SMT
  <2>3. d.last < v
    BY <2>1, <2>2 DEF Good
  <2>4. ~(v <= d.to)
    BY <2>1, <2>3
  <2>5. v > d.to
    BY <1>1, <2>2, <2>4, SMT
  <2> QED
    BY <2>1, <2>5
<1> QED
  BY <1>2, PendingPlace

\* A recovery that finds nothing.
LEMMA NothingGood ==
    ASSUME TypeOK, NEW d \in Cursors, Good(d), d.checkpoint # 0, d.validity = validity,
           d.last >= d.to \/ searchUIDs(d.last, d.to) = {}
    PROVE  Good(finishRecovery(d))
<1>1. d.last \in Nat /\ d.to \in Nat /\ d.to <= Len(box)
  BY CursorFields DEF Good, Within
<1>2. ASSUME NEW u \in DOMAIN box, d.last < u, u <= d.to
      PROVE  box[u] \notin Pending
  <2>1. u \in Nat /\ ~(d.last >= d.to)
    BY <1>1, <1>2, Numbers, SMT
  <2>2. box[u] = 0
    BY <1>1, <1>2, <2>1, Searched
  <2> QED
    BY <2>2, PendingEmails
<1>3. \A e \in Pending : DateOf[e] >= d.date
  <2>1. Pending \subseteq Later(d.to)
    BY <1>2, RangeRead
  <2> QED
    BY <2>1 DEF Good
<1> QED
  BY <1>2, <1>3, FinishGood
=============================================================================
