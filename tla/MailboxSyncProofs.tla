------------------------- MODULE MailboxSyncProofs --------------------------
(***************************************************************************)
(* No email is skipped, for any number of instances, emails, renumberings  *)
(* and reassignments and any limit per poll: every cursor in circulation   *)
(* has only read emails behind it, and the checkpoint it would resume from *)
(* is not later than a pending email.                                      *)
(***************************************************************************)
EXTENDS MailboxSyncLemmas

USE Zenon
-----------------------------------------------------------------------------
(* What a search requests and what is confirmed.                           *)

\* A request from a good cursor leaves no pending email of its range out.
LEMMA RequestGood ==
    ASSUME TypeOK, Ahead, UNCHANGED <<mailVars, done, baseline>>, listed' = listed,
           NEW i \in Instances, NEW c \in Cursors, Good(c), c.validity = validity,
           NEW to \in Nat, to <= Len(box), NEW skipped, NEW reason,
           Request(i, c, searchUIDs(c.last, to), skipped, reason),
           c.checkpoint # 0 => to = c.to,
           \A u \in skipped : c.checkpoint # 0 /\ DateOf[box[u]] < c.checkpoint
    PROVE  DeliverInv(i)'
<1> DEFINE found == searchUIDs(c.last, to)
           uids == First(found, MaxMessagesPerPoll)
<1>1. box' = box /\ arrived' = arrived /\ validity' = validity /\ Pending' = Pending
  BY DEF mailVars, Pending, Unread, Arrived
<1>2. /\ found \in SUBSET Uids /\ found \subseteq DOMAIN box
      /\ \A u \in found : u <= to /\ c.last < u /\ box[u] # 0 /\ box[u] \in Emails
      /\ \A u \in DOMAIN box : c.last < u /\ u <= to /\ box[u] # 0 => u \in found
  BY Searched
<1>3. /\ uids \subseteq found /\ \A u \in uids, v \in found : v <= u => v \in uids
      /\ ~(Cardinality(found) > MaxMessagesPerPoll) => uids = found
  BY <1>2, RequestFacts
<1>4. /\ work'[i] = c /\ requested'[i] = uids /\ left'[i] = uids \ skipped
  BY RequestFields, SMTT(30)
<1>5. /\ \A u \in Uids : \/ handled'[i][u] = 0
                         \/ /\ u \in skipped \cap uids
                            /\ handled'[i][u] = DateOf[box[u]]
      /\ \A u \in Uids \ skipped : handled'[i][u] = 0
      /\ limited'[i] = (Cardinality(found) > MaxMessagesPerPoll)
  BY RequestDates
<1>6. ~limited'[i] => uids = found
  BY <1>3, <1>5
<1>7. /\ Pending \subseteq Emails /\ 0 \notin Pending
      /\ \A e \in Pending : DateOf[e] >= recoveryCheckpoint(c)
      /\ \A e \in Emails : DateOf[e] \in Nat
      /\ c.checkpoint \in Nat /\ c.last \in Nat /\ c.to \in Nat /\ c.to <= Len(box)
  BY PendingEmails, Numbers, CursorFields DEF Good, Within
<1> HIDE DEF found, uids
<1>8. ASSUME NEW u \in skipped, u \in uids
       PROVE  box[u] \notin Pending /\ \A e \in Pending : DateOf[e] >= DateOf[box[u]]
  <2>1. c.checkpoint # 0 /\ DateOf[box[u]] < c.checkpoint /\ recoveryCheckpoint(c) = c.checkpoint
    BY DEF recoveryCheckpoint
  <2>2. DateOf[box[u]] \in Nat
    BY <1>2, <1>3, <1>7, <1>8
  <2>3. \A e \in Pending : DateOf[e] \in Nat /\ DateOf[e] >= c.checkpoint
    BY <1>7, <2>1
  <2>4. \A e \in Pending : DateOf[e] >= DateOf[box[u]]
    BY <1>7, <2>1, <2>2, <2>3, SMT
  <2>5. ~(DateOf[box[u]] >= c.checkpoint)
    BY <1>7, <2>1, <2>2, SMT
  <2> QED
    BY <2>3, <2>4, <2>5
<1>9. ASSUME NEW u \in Uids, NEW e \in Pending
       PROVE  DateOf[e] >= handled'[i][u]
  <2>1. CASE handled'[i][u] = 0
    <3>1. DateOf[e] \in Nat
      BY <1>7
    <3> QED
      BY <2>1, <3>1, SMT
  <2> QED
    BY <1>5, <1>8, <2>1
<1>10. Good(work[i])'
  BY <1>4, GoodKept, GoodWork
<1>11. ASSUME c.checkpoint # 0, left'[i] = {}, ~limited'[i]
       PROVE  \A e \in Pending : DateOf[e] >= c.date
  <2>1. ASSUME NEW u \in DOMAIN box, c.last < u, u <= c.to
        PROVE  box[u] \notin Pending
    <3>1. CASE box[u] = 0
      BY <1>7, <3>1
    <3>2. CASE box[u] # 0
      <4>1. u \in found
        BY <1>2, <1>11, <2>1, <3>2
      <4>2. u \in uids /\ u \in skipped
        BY <1>4, <1>6, <1>11, <4>1
      <4> QED
        BY <1>8, <4>2
    <3> QED
      BY <3>1, <3>2
  <2>2. Pending \subseteq Later(c.to)
    BY <2>1, RangeRead
  <2> QED
    BY <1>11, <2>2 DEF Good
<1>12. DatesInv(i)'
  BY <1>1, <1>4, <1>9, <1>11 DEF DatesInv
<1>13. ASSUME NEW u \in uids, box[u] \in Pending
       PROVE  u \in left'[i] /\ handled'[i][u] = 0
  <2>1. u \notin skipped /\ u \in Uids
    BY <1>2, <1>3, <1>8, <1>13
  <2> QED
    BY <1>4, <1>5, <2>1
<1>14. ASSUME NEW u \in DOMAIN box, c.last < u, box[u] # 0,
              (\E w \in uids : u <= w) \/ (c.checkpoint # 0 /\ ~limited'[i] /\ u <= c.to)
       PROVE  u \in uids
  <2>1. CASE \E w \in uids : u <= w
    <3>1. PICK w \in uids : u <= w
      BY <2>1
    <3>2. w \in Nat /\ w <= to
      BY <1>2, <1>3, Numbers
    <3>3. u <= to
      BY <3>1, <3>2, Numbers, SMT
    <3>4. u \in found
      BY <1>2, <1>14, <3>3
    <3> QED
      BY <1>3, <3>1, <3>4
  <2>2. CASE c.checkpoint # 0 /\ ~limited'[i] /\ u <= c.to
    <3>1. u \in found
      BY <1>2, <1>14, <2>2
    <3> QED
      BY <1>6, <2>2, <3>1
  <2> QED
    BY <1>14, <2>1, <2>2
<1>15. c.checkpoint # 0 => \A u \in uids : u <= c.to
  BY <1>2, <1>3
<1>16. Later(c.to)' \subseteq Pending
  BY <1>1 DEF Later
<1>17. RequestInv(i)'
  BY <1>1, <1>4, <1>9, <1>13, <1>14, <1>15, <1>16 DEF RequestInv, Later
<1> QED
  BY <1>10, <1>12, <1>17 DEF DeliverInv

\* The progress of a poll is a good cursor, and so is the end of its recovery.
LEMMA AdvanceGood ==
    ASSUME TypeOK, NEW i \in Instances, DeliverInv(i), InBox(i), NEW a, a = advanceConfirmed(i)
    PROVE  /\ Good(a)
           /\ work[i].checkpoint # 0 /\ ~limited[i] /\ left[i] = {} => Good(finishRecovery(a))
<1>1. PICK c \in Cursors : c = work[i] /\ Good(c)
  BY PollTypes DEF DeliverInv
<1>2. /\ a \in Cursors /\ a.validity = c.validity /\ a.checkpoint = c.checkpoint /\ a.to = c.to
      /\ a.last \in {c.last} \cup Confirmed(i) /\ c.last <= a.last
      /\ a.date = c.date \/ \E u \in Uids : a.date = handled[i][u]
  BY <1>1, AdvanceFacts
<1>3. /\ c.last \in Nat /\ a.last \in Nat /\ c.to \in Nat /\ a.to \in Nat
  BY <1>2, CursorFields
<1>4. Within(a)
  <2>1. ASSUME c.validity = validity
        PROVE  a.last <= Len(box) /\ a.to <= Len(box)
    <3>1. c.last <= Len(box) /\ c.to <= Len(box) /\ requested[i] \subseteq DOMAIN box
      BY <1>1, <2>1 DEF Good, Within, InBox
    <3>2. \A u \in DOMAIN box : u <= Len(box)
      BY Numbers, SMT
    <3> QED
      BY <1>2, <3>1, <3>2 DEF Confirmed
  <2> QED
    BY <1>1, <1>2, <2>1 DEF Good, Within
<1>5. \A e \in Pending : DateOf[e] >= recoveryCheckpoint(a)
  <2>1. CASE c.checkpoint # 0
    BY <1>1, <1>2, <2>1 DEF recoveryCheckpoint, Good
  <2>2. CASE c.checkpoint = 0
    <3>1. recoveryCheckpoint(a) = a.date /\ recoveryCheckpoint(c) = c.date
      BY <1>2, <2>2 DEF recoveryCheckpoint
    <3>2. \A u \in Uids, e \in Pending : DateOf[e] >= handled[i][u]
      BY <1>1, <2>2 DEF DeliverInv, DatesInv
    <3> QED
      BY <1>1, <1>2, <3>1, <3>2 DEF Good
  <2> QED
    BY <2>1, <2>2
<1>6. ASSUME c.validity = validity
      PROVE  /\ Placed(a) /\ \A u \in 1 .. a.last : box[u] \notin Pending
             /\ a.checkpoint # 0 => \A e \in Later(a.to) : DateOf[e] >= a.date
  <2>0. RequestInv(i) /\ a.last <= Len(box)
    BY <1>1, <1>2, <1>4, <1>6 DEF DeliverInv, Within
  <2>1. Placed(a)
    <3>1. CASE c.checkpoint # 0
      BY <1>1, <1>2, <1>6, <3>1 DEF Good, Placed
    <3>2. CASE c.checkpoint = 0
      <4>1. InOrderFrom(c.last)
        BY <1>1, <1>6, <3>2 DEF Good, Placed
      <4>2. \A v \in DOMAIN box : a.last < v => c.last < v
        BY <1>2, <1>3, Numbers, SMT
      <4>3. InOrderFrom(a.last)
        BY <4>1, <4>2 DEF InOrderFrom
      <4> QED
        BY <1>2, <3>2, <4>3 DEF Placed
    <3> QED
      BY <3>1, <3>2
  <2>2. ASSUME NEW u \in 1 .. a.last
        PROVE  box[u] \notin Pending
    <3>1. u \in DOMAIN box /\ u <= a.last /\ (u \in 1 .. c.last \/ c.last < u)
      BY <1>3, <2>0, Numbers, SMT
    <3>2. CASE u \in 1 .. c.last
      BY <1>1, <1>6, <3>2 DEF Good
    <3>3. CASE c.last < u
      <4>1. a.last \in Confirmed(i)
        <5>1. u \in Nat /\ a.last # c.last
          BY <1>3, <3>1, <3>3, Numbers, SMT
        <5> QED
          BY <1>2, <5>1
      <4>2. a.last \in requested[i] /\ \A v \in requested[i] : v <= a.last => handled[i][v] # 0
        BY <4>1 DEF Confirmed
      <4>3. SUFFICES ASSUME box[u] \in Pending PROVE FALSE
        OBVIOUS
      <4>4. box[u] # 0
        BY <4>3, PendingEmails
      <4>5. u \in requested[i]
        BY <1>1, <2>0, <3>1, <3>3, <4>2, <4>4 DEF RequestInv
      <4>6. handled[i][u] = 0
        BY <2>0, <4>3, <4>5 DEF RequestInv
      <4> QED
        BY <3>1, <4>2, <4>5, <4>6
    <3> QED
      BY <3>1, <3>2, <3>3
  <2>3. a.checkpoint # 0 => \A e \in Later(a.to) : DateOf[e] >= a.date
    <3>1. c.checkpoint # 0 => \A e \in Later(c.to), u \in Uids : DateOf[e] >= handled[i][u]
      BY <1>1, <2>0 DEF RequestInv
    <3>2. c.checkpoint # 0 => \A e \in Later(c.to) : DateOf[e] >= c.date
      BY <1>1, <1>6 DEF Good
    <3> QED
      BY <1>2, <3>1, <3>2
  <2> QED
    BY <2>1, <2>2, <2>3
<1>7. Good(a)
  BY <1>2, <1>4, <1>5, <1>6 DEF Good
<1>8. ASSUME c.checkpoint # 0, ~limited[i], left[i] = {}
      PROVE  Good(finishRecovery(a))
  <2>1. \A e \in Pending : DateOf[e] >= a.date
    <3>1. \A e \in Pending : DateOf[e] >= c.date /\ \A u \in Uids : DateOf[e] >= handled[i][u]
      BY <1>1, <1>8 DEF DeliverInv, DatesInv
    <3> QED
      BY <1>2, <3>1
  <2>2. ASSUME a.validity = validity, NEW u \in DOMAIN box, a.last < u, u <= a.to
        PROVE  box[u] \notin Pending
    <3>1. SUFFICES ASSUME box[u] \in Pending PROVE FALSE
      OBVIOUS
    <3>2. box[u] # 0 /\ RequestInv(i)
      BY <1>1, <1>2, <2>2, <3>1, PendingEmails DEF DeliverInv
    <3>3. c.last < u
      BY <1>2, <1>3, <2>2, Numbers, SMT
    <3>4. u \in requested[i]
      BY <1>1, <1>2, <1>8, <2>2, <3>2, <3>3 DEF RequestInv
    <3> QED
      BY <1>8, <3>1, <3>2, <3>4 DEF RequestInv
  <2> QED
    BY <1>2, <1>7, <1>8, <2>1, <2>2, FinishGood
<1> QED
  BY <1>1, <1>7, <1>8
-----------------------------------------------------------------------------
(* An email is handled.                                                    *)

\* Email e is to arrive, or has its place behind u and behind the cursor c of poll i, behind
\* the range of its recovery too if u is the last to fetch.
Behind(e, u, c, i) ==
    e > arrived \/ \E v \in DOMAIN box :
        /\ box[v] = e /\ u < v /\ c.last < v
        /\ c.checkpoint # 0 /\ ~limited[i] /\ (\A w \in left[i] : w = u) => v > c.to

\* The other pending emails are behind the one that is fetched.
LEMMA HandleAfter ==
    ASSUME TypeOK, ShapeInv, NEW i \in Instances, Handle(i), DeliverInv(i), NEW c, c = work[i],
           NEW e \in Pending, NEW u, u = Min(left[i]), e # box[u]
    PROVE  Behind(e, u, c, i)
<1>1. c \in Cursors /\ Good(c) /\ c.validity = validity /\ RequestInv(i)
  BY PollTypes DEF Handle, DeliverInv
<1>2. /\ u \in left[i] /\ u \in requested[i] /\ u \in DOMAIN box /\ \A v \in left[i] : u <= v
  BY HandleTypes
<1>3. c.last \in Nat /\ c.to \in Nat /\ u \in Nat
  BY <1>1, <1>2, CursorFields, Numbers, SMT
<1>4. SUFFICES ASSUME NEW v \in DOMAIN box, box[v] = e, e # 0
               PROVE  /\ u < v /\ c.last < v
                      /\ c.checkpoint # 0 /\ ~limited[i] /\ (\A w \in left[i] : w = u) => v > c.to
  BY <1>1, PendingPlace DEF Behind
<1>5. v \in Nat /\ v # u /\ c.last < v
  <2>1. v \in Nat /\ (v \in 1 .. c.last \/ c.last < v)
    BY <1>3, Numbers, SMT
  <2>2. v \notin 1 .. c.last
    BY <1>1, <1>4 DEF Good
  <2> QED
    BY <1>4, <2>1, <2>2
<1>6. u < v
  <2>1. SUFFICES ASSUME v <= u PROVE FALSE
    BY <1>3, <1>5, SMT
  <2>2. v \in requested[i]
    BY <1>1, <1>2, <1>4, <1>5, <2>1 DEF RequestInv
  <2>3. u <= v
    BY <1>1, <1>2, <1>4, <2>2 DEF RequestInv
  <2> QED
    BY <1>3, <1>5, <2>1, <2>3, SMT
<1>7. ASSUME c.checkpoint # 0, ~limited[i], (\A w \in left[i] : w = u)
      PROVE  v > c.to
  <2>1. SUFFICES ASSUME v <= c.to PROVE FALSE
    BY <1>3, <1>5, SMT
  <2>2. v \in requested[i]
    BY <1>1, <1>4, <1>5, <1>7, <2>1 DEF RequestInv
  <2>3. v \in left[i]
    BY <1>1, <1>4, <2>2 DEF RequestInv
  <2> QED
    BY <1>5, <1>7, <2>3
<1> QED
  BY <1>5, <1>6, <1>7

\* An email that is to arrive, or behind place u in the order of arrival, is not older.
LEMMA NotOlder ==
    ASSUME TypeOK, ShapeInv, DatesInOrder, NEW n, InOrderFrom(n), NEW u \in DOMAIN box, box[u] # 0,
           NEW e \in Pending,
           e > arrived \/ \E v \in DOMAIN box : box[v] = e /\ u < v /\ n < v
    PROVE  DateOf[e] >= DateOf[box[u]]
<1>1. /\ box[u] \in Emails /\ box[u] \in Nat /\ box[u] <= arrived /\ e \in Emails /\ e # 0 /\ e \in Nat
      /\ arrived \in Nat
  BY PendingEmails, Numbers DEF ShapeInv
<1>2. box[u] < e
  <2>1. CASE e > arrived
    BY <1>1, <2>1, SMT
  <2>2. CASE \E v \in DOMAIN box : box[v] = e /\ u < v /\ n < v
    BY <1>1, <2>2 DEF InOrderFrom
  <2> QED
    BY <2>1, <2>2
<1>3. DateOf[box[u]] <= DateOf[e]
  BY <1>1, <1>2 DEF DatesInOrder
<1>4. DateOf[box[u]] \in Nat /\ DateOf[e] \in Nat
  BY <1>1, Numbers
<1> QED
  BY <1>3, <1>4, SMT

\* Handling one email keeps what holds of the delivery, and the order of the emails
\* read where the server does not reorder them.
LEMMA HandleGood ==
    ASSUME TypeOK, ShapeInv, Ahead, DatesInOrder, NEW i \in Instances, Handle(i), DeliverInv(i)
    PROVE  DeliverInv(i)' /\ (~Reorders /\ OrderInv => OrderInv')
<1>1. PICK c \in Cursors : c = work[i] /\ Good(c) /\ c.validity = validity /\ RequestInv(i)
  BY PollTypes DEF Handle, DeliverInv
<1>2. PICK u \in Uids : /\ u = Min(left[i]) /\ u \in left[i] /\ u \in requested[i] /\ u \in DOMAIN box
  BY HandleTypes
<1>3. /\ work' = work /\ requested' = requested /\ limited' = limited
      /\ left'[i] = left[i] \ {u}
  BY <1>2, HandleFields
<1>4. box' = box /\ arrived' = arrived /\ validity' = validity /\ baseline' = baseline
  BY DEF Handle, mailVars
<1>5. /\ (box[u] # 0 /\ done' = done \cup {box[u]}) \/ (box[u] = 0 /\ done' = done)
      /\ \A v \in Uids \ {u} : handled'[i][v] = handled[i][v]
      /\ handled'[i][u] = handled[i][u] \/ (box[u] # 0 /\ handled'[i][u] = DateOf[box[u]])
  <2>1. handled \in [Instances -> [Uids -> Dates]]
    BY DEF TypeOK
  <2> QED
    BY <1>2, <2>1, ZenonT(40) DEF Handle
<1>6. /\ Pending' \subseteq Pending /\ box[u] \notin Pending'
  <2>1. Pending' \subseteq Pending
    BY DEF Ahead
  <2>2. CASE box[u] = 0
    BY <2>1, <2>2, PendingEmails
  <2>3. CASE box[u] # 0
    <3>1. box[u] \in done' /\ ~(box[u] > arrived)
      <4>1. box[u] \in Nat /\ box[u] <= arrived /\ arrived \in Nat
        BY <1>2, Numbers DEF ShapeInv
      <4> QED
        BY <1>5, <2>3, <4>1, SMT
    <3> QED
      BY <1>4, <2>1, <3>1 DEF Pending, Unread
  <2> QED
    BY <2>1, <2>2, <2>3
<1>7. \A e \in Pending' : e \in Pending /\ e # box[u]
  BY <1>6
<1>8. ASSUME NEW e \in Pending'
      PROVE  e > arrived \/ \E v \in DOMAIN box :
                /\ box[v] = e /\ u < v /\ c.last < v
                /\ c.checkpoint # 0 /\ ~limited[i] /\ (\A w \in left[i] : w = u) => v > c.to
  <2>1. Behind(e, u, c, i)
    BY <1>1, <1>2, <1>7, HandleAfter
  <2> QED
    BY <2>1 DEF Behind
<1>9. /\ c.to \in Nat /\ c.last \in Nat /\ Later(c.to)' \subseteq Later(c.to)
      /\ Later(c.to)' \subseteq Pending' /\ u \in Nat
      /\ InOrderFrom(IF c.checkpoint # 0 THEN c.to ELSE c.last)
  <2>1. c.to \in Nat /\ c.last \in Nat /\ c.to <= Len(box) /\ validity' = validity /\ u \in Nat
    BY <1>1, <1>2, <1>4, CursorFields, Numbers DEF Good, Within
  <2> QED
    BY <1>1, <2>1 DEF Ahead, Later, Good, Placed
<1>10. ASSUME c.checkpoint = 0, box[u] # 0, NEW e \in Pending'
       PROVE  DateOf[e] >= DateOf[box[u]]
  <2>1. InOrderFrom(c.last)
    BY <1>9, <1>10
  <2> QED
    BY <1>2, <1>7, <1>8, <1>10, <2>1, NotOlder
<1>11. ASSUME c.checkpoint # 0, box[u] # 0, NEW e \in Later(c.to)'
       PROVE  DateOf[e] >= DateOf[box[u]]
  <2>1. InOrderFrom(c.to)
    BY <1>9, <1>11
  <2>2. e \in Pending /\ (e > arrived \/ \E v \in DOMAIN box : v > c.to /\ box[v] = e)
    BY <1>4, <1>7, <1>9 DEF Later
  <2>3. u <= c.to
    BY <1>1, <1>2, <1>11 DEF RequestInv
  <2>4. \A v \in DOMAIN box : v > c.to => u < v /\ c.to < v
    BY <1>9, <2>3, Numbers, SMT
  <2> QED
    BY <1>2, <1>11, <2>1, <2>2, <2>4, NotOlder
<1>12. ASSUME c.checkpoint # 0, ~limited[i], (\A w \in left[i] : w = u), NEW e \in Pending'
       PROVE  e \in Later(c.to)'
  BY <1>4, <1>8, <1>12 DEF Later
<1>13. Good(work[i])'
  BY <1>1, <1>3, GoodKept, GoodWork
<1>14. ASSUME c.checkpoint = 0, NEW w \in Uids, NEW e \in Pending'
       PROVE  DateOf[e] >= handled'[i][w]
  <2>1. DateOf[e] >= handled[i][w]
    BY <1>1, <1>7, <1>14 DEF DeliverInv, DatesInv
  <2> QED
    BY <1>5, <1>10, <1>14, <2>1
<1>15. ASSUME c.checkpoint # 0, NEW w \in Uids, NEW e \in Later(c.to)'
       PROVE  DateOf[e] >= handled'[i][w]
  <2>1. DateOf[e] >= handled[i][w]
    BY <1>1, <1>9, <1>15 DEF RequestInv
  <2> QED
    BY <1>5, <1>11, <1>15, <2>1
<1>16. DatesInv(i)'
  <2>1. ASSUME c.checkpoint # 0, left'[i] = {}, ~limited[i], NEW e \in Pending'
        PROVE  DateOf[e] >= c.date /\ \A w \in Uids : DateOf[e] >= handled'[i][w]
    <3>1. e \in Later(c.to)'
      BY <1>3, <1>12, <2>1
    <3>2. DateOf[e] >= c.date
      BY <1>1, <1>9, <2>1, <3>1 DEF Good
    <3> QED
      BY <1>15, <2>1, <3>1, <3>2
  <2> QED
    BY <1>1, <1>3, <1>14, <2>1 DEF DatesInv
<1>17. RequestInv(i)'
  <2>1. ASSUME NEW w \in requested[i], box[w] \in Pending'
        PROVE  w \in left'[i] /\ handled'[i][w] = 0
    <3>1. w # u /\ box[w] \in Pending /\ w \in Uids
      BY <1>6, <2>1, PollTypes
    <3>2. w \in left[i] /\ handled[i][w] = 0
      BY <1>1, <3>1 DEF RequestInv
    <3> QED
      BY <1>3, <1>5, <3>1, <3>2
  <2>2. \A w \in DOMAIN box :
          /\ c.last < w /\ box[w] # 0
          /\ (\E x \in requested[i] : w <= x) \/ (c.checkpoint # 0 /\ ~limited[i] /\ w <= c.to)
          => w \in requested[i]
    BY <1>1 DEF RequestInv
  <2>3. c.checkpoint # 0 => \A w \in requested[i] : w <= c.to
    BY <1>1 DEF RequestInv
  <2> QED
    BY <1>1, <1>3, <1>4, <1>15, <2>1, <2>2, <2>3 DEF RequestInv, Later
<1>18. DeliverInv(i)'
  BY <1>13, <1>16, <1>17 DEF DeliverInv
<1>19. ASSUME ~Reorders, OrderInv
       PROVE  OrderInv'
  <2> SUFFICES ASSUME NEW d \in done', NEW e \in Pending' PROVE DateOf[d] <= DateOf[e]
    BY DEF OrderInv
  <2>1. CASE d \in done
    BY <1>7, <1>19, <2>1 DEF OrderInv
  <2>2. CASE d = box[u] /\ box[u] # 0
    <3>1. InOrderFrom(0)
      BY <1>19 DEF ShapeInv
    <3>2. \A v \in DOMAIN box : 0 < v
      BY Numbers, SMT
    <3>3. DateOf[e] >= DateOf[box[u]]
      BY <1>2, <1>7, <1>8, <2>2, <3>1, <3>2, NotOlder
    <3>4. DateOf[e] \in Nat /\ DateOf[box[u]] \in Nat
      <4>1. e \in Emails /\ box[u] \in Emails
        BY <1>2, <1>7, <2>2, PendingEmails, Numbers
      <4> QED
        BY <4>1, Numbers
    <3> QED
      BY <2>2, <3>3, <3>4, SMT
  <2> QED
    BY <1>5, <2>1, <2>2
<1> QED
  BY <1>18, <1>19
-----------------------------------------------------------------------------
(* The steps keep the cursors good.                                        *)

\* No step forgets a lapse.
LEMMA LapsesStay ==
    ASSUME [Next]_vars
    PROVE  lapses \subseteq lapses'
<1>1. ASSUME NEW i \in Instances, CompletePoll(i)
      PROVE  lapses \subseteq lapses'
  BY <1>1 DEF CompletePoll
<1>2. ASSUME NEW i \in Instances,
             \/ Assign(i) \/ ListDue(i) \/ Start(i) \/ AlreadyRunning(i) \/ StartPoll(i)
             \/ Aborted(i) \/ Examine(i) \/ Delivered(i) \/ Stopped(i) \/ Handle(i)
      PROVE  lapses' = lapses
  BY <1>2 DEF Assign, ListDue, Start, AlreadyRunning, StartPoll, Aborted, Examine, Delivered, Stopped, Handle
<1>3. CASE Arrive \/ Renumber \/ Unassign \/ (\E u \in 1 .. Len(box) : Expunge(u)) \/ UNCHANGED vars
  BY <1>3 DEF Arrive, Renumber, Unassign, Expunge, vars
<1> QED
  BY <1>1, <1>2, <1>3 DEF Next, Environment, Poll, Fault

\* A lapse is for good.
LEMMA LapsedStays ==
    ASSUME lapses \subseteq lapses', Lapsed
    PROVE  Lapsed'
  BY DEF Lapsed

\* No cursor is still a good one after the step.
LEMMA NoneKept ==
    ASSUME TypeOK, Ahead
    PROVE  NoCursor \in Cursors /\ Good(NoCursor)'
  BY GoodNone, GoodKept

\* A listed row that stays.
LEMMA ListedKept ==
    ASSUME TypeOK, Ahead, NEW i \in Instances, PollInv(i), listed'[i] = listed[i]
    PROVE  Good(listed[i].cursor)'
<1>1. PICK d \in Cursors : d = listed[i].cursor /\ listed'[i].cursor = d
  BY PollTypes
<1> QED
  BY <1>1, GoodKept, GoodListed DEF PollInv

\* A poll that ends keeps what holds of the polls.
LEMMA EndGood ==
    ASSUME TypeOK, Ahead, ShapeInv, \A j \in Instances : PollInv(j),
           NEW i \in Instances, EndPoll(i), listed' = listed
    PROVE  (\A j \in Instances : PollInv(j))'
<1>1. pc'[i] = "idle" /\ Others(i)
  BY EndFields DEF Others
<1>2. PollInv(i)'
  BY <1>1, ListedKept DEF PollInv
<1> QED
  BY <1>1, <1>2, OthersPoll

\* Comparing UIDVALIDITY and searching keeps what holds of the polls.
LEMMA ExamineGood ==
    ASSUME TypeOK, Ahead, ShapeInv, CoverInv, NEW i \in Instances, Examine(i)
    PROVE  (\A j \in Instances : PollInv(j))'
<1>0. /\ UNCHANGED <<mailVars, done, baseline>> /\ listed' = listed /\ pc[i] = "examine"
      /\ box' = box /\ arrived' = arrived /\ validity' = validity
  BY DEF Examine, mailVars
<1>1. /\ \A j \in Instances : PollInv(j)
      /\ Good(work[i]) /\ work[i] \in Cursors /\ Good(listed[i].cursor)'
      /\ ~Reorders => OrderInv
  BY <1>0, PollTypes, ListedKept DEF CoverInv, PollInv
<1>2. CASE PlaceAtEnd(i, "first")
  <2>1. PICK d \in Cursors :
            /\ d = Cursor(validity, lastUID, 0, 0, 0) /\ d.validity = validity /\ d.last = Len(box)
            /\ d.date = 0 /\ d.checkpoint = 0 /\ d.to = 0
    BY EndMade
  <2>2. /\ work'[i] = d /\ how'[i] = "first" /\ pc'[i] = "complete" /\ seen'[i] = Arrived /\ Others(i)
    BY <1>0, <1>2, <2>1, PlaceFields
  <2>3. Within(d)'
    <3>1. validity <= validity /\ Len(box) <= Len(box) /\ 0 <= Len(box)
      BY Numbers, SMT
    <3> QED
      BY <1>0, <2>1, <3>1 DEF Within
  <2>4. Placed(d)'
    BY <1>0, <2>1, InOrderEnd DEF Placed, InOrderFrom
  <2>5. \A u \in 1 .. d.last : box[u] # 0 => box[u] \in seen'[i]
    <3>1. 1 .. Len(box) = DOMAIN box
      BY Numbers
    <3> QED
      BY <2>1, <2>2, <3>1 DEF Arrived, Range
  <2>6. FirstInv(i)'
    BY <1>0, <2>1, <2>2, <2>3, <2>4, <2>5 DEF FirstInv, Within, Placed, InOrderFrom
  <2>7. ~Sound(i)'
    BY <2>2 DEF Sound
  <2>8. PollInv(i)'
    BY <1>1, <2>2, <2>6, <2>7 DEF PollInv
  <2> QED
    BY <1>1, <2>2, <2>8, OthersPoll
<1>3. CASE PlaceAtEnd(i, "end")
  <2>1. how'[i] = "end" /\ pc'[i] = "complete" /\ Others(i)
    BY <1>0, <1>3, PlaceFields
  <2>2. ~Sound(i)'
    BY <2>1 DEF Sound
  <2>3. PollInv(i)'
    BY <1>1, <2>1, <2>2 DEF PollInv
  <2> QED
    BY <1>1, <2>1, <2>3, OthersPoll
<1>4. ASSUME NEW d \in Cursors, NEW reason \in {"stored", "recover"},
             Resumes(i, d, reason), Recover(i, d, reason)
      PROVE  (\A j \in Instances : PollInv(j))'
  <2>1. /\ d.validity = validity /\ d.checkpoint # 0 /\ d.to \in Nat /\ d.to <= Len(box)
    BY <1>4, CursorFields DEF Resumes
  <2>2. CASE Nothing(i, d, reason)
    <3>1. /\ work'[i] = finishRecovery(d) /\ how'[i] = reason /\ pc'[i] = "complete" /\ Others(i)
      BY <1>0, <2>2, NothingFields
    <3>2. ASSUME Sound(i)'
          PROVE  Good(work[i])'
      <4>1. reason = "recover" \/ OrderInv
        BY <1>1, <3>1, <3>2 DEF Sound
      <4>2. Good(d)
        BY <1>1, <1>4, <4>1, ResumesGood
      <4>3. PICK f \in Cursors : f = finishRecovery(d)
        BY FinishMade
      <4>4. Good(f)
        BY <2>1, <2>2, <4>2, <4>3, NothingGood DEF Nothing
      <4> QED
        BY <3>1, <4>3, <4>4, GoodKept, GoodWork
    <3>3. PollInv(i)'
      BY <1>1, <1>4, <3>1, <3>2 DEF PollInv
    <3> QED
      BY <1>1, <3>1, <3>3, OthersPoll
  <2>3. CASE Request(i, d, searchUIDs(d.last, d.to),
                     OlderThan(d.checkpoint, searchUIDs(d.last, d.to)), reason)
    <3>1. /\ how'[i] = reason /\ pc'[i] = "deliver" /\ Others(i)
      BY <1>0, <2>3, RequestFields, SMTT(30)
    <3>2. ASSUME Sound(i)'
          PROVE  DeliverInv(i)'
      <4>1. reason = "recover" \/ OrderInv
        BY <1>1, <3>1, <3>2 DEF Sound
      <4>2. Good(d)
        BY <1>1, <1>4, <4>1, ResumesGood
      <4>3. \A u \in OlderThan(d.checkpoint, searchUIDs(d.last, d.to)) :
                d.checkpoint # 0 /\ DateOf[box[u]] < d.checkpoint
        BY <2>1 DEF OlderThan
      <4> QED
        BY <1>0, <2>1, <2>3, <4>2, <4>3, RequestGood
    <3>3. PollInv(i)'
      BY <1>1, <3>1, <3>2 DEF PollInv
    <3> QED
      BY <1>1, <3>1, <3>3, OthersPoll
  <2> QED
    BY <1>4, <2>2, <2>3, RecoverCases
<1>5. CASE /\ work[i].validity = validity /\ work[i].checkpoint = 0
           /\ Request(i, work[i], searchUIDs(work[i].last, Len(box)), {}, "read")
  <2>1. PICK c \in Cursors : c = work[i]
    BY <1>1
  <2>2. pc'[i] = "deliver" /\ Others(i)
    BY <1>0, <1>5, RequestFields
  <2>3. Len(box) \in Nat /\ Len(box) <= Len(box)
    BY Numbers, SMT
  <2>4. DeliverInv(i)'
    <3>1. PICK none : none = {}
      OBVIOUS
    <3>2. /\ Good(c) /\ c.validity = validity
          /\ Request(i, c, searchUIDs(c.last, Len(box)), none, "read")
          /\ c.checkpoint # 0 => Len(box) = c.to
          /\ \A u \in none : c.checkpoint # 0 /\ DateOf[box[u]] < c.checkpoint
      BY <1>1, <1>5, <2>1, <3>1
    <3> QED
      BY <1>0, <2>3, <3>2, RequestGood
  <2>5. PollInv(i)'
    BY <1>1, <2>2, <2>4 DEF PollInv
  <2> QED
    BY <1>1, <2>2, <2>5, OthersPoll
<1> QED
  BY <1>2, <1>3, <1>4, <1>5, ExamineCases

\* The cursor a poll stores is good.
LEMMA CompleteGood ==
    ASSUME TypeOK, Ahead, ShapeInv, CoverInv, NEW i \in Instances, CompletePoll(i), ~Lapsed'
    PROVE  Good(cursor)'
<1>0. cursor \in Cursors /\ Good(cursor)
  BY TypeParts DEF CoverInv, RowOK
<1>1. CASE cursor' = cursor
  <2>1. PICK c \in Cursors : c = cursor
    BY <1>0
  <2> QED
    BY <1>0, <1>1, <2>1, GoodKept, GoodStored
<1>2. CASE Fenced(i)
  <2>0. PICK c \in Cursors : c = work[i] /\ c = cursor'
    BY <1>2, PollTypes DEF CompletePoll
  <2>1. /\ pc[i] = "complete" /\ PollInv(i) /\ PollShape(i)
        /\ UNCHANGED mailVars
        /\ box' = box /\ arrived' = arrived /\ validity' = validity
    BY DEF CompletePoll, CoverInv, ShapeInv, mailVars
  <2>2. CASE Sound(i)
    BY <2>0, <2>1, <2>2, GoodKept, GoodStored DEF PollInv
  <2>3. CASE how[i] = "first"
    <3>1. cursor = NoCursor
      <4>1. SUFFICES ASSUME cursor # NoCursor PROVE Lapsed'
        OBVIOUS
      <4>2. "restarted" \in lapses'
        BY <1>2, <2>3, <4>1 DEF CompletePoll
      <4>3. "restarted" # "newest_stored"
        OBVIOUS
      <4> QED
        BY <4>2, <4>3 DEF Lapsed
    <3>2. baseline' = seen[i]
      BY <1>2, <2>3, <3>1 DEF CompletePoll
    <3>3. /\ Within(c) /\ c.date = 0 /\ c.checkpoint = 0
          /\ c.validity = validity =>
                Placed(c) /\ \A u \in 1 .. c.last : box[u] # 0 => box[u] \in seen[i]
      BY <2>0, <2>1, <2>3 DEF PollInv, FirstInv
    <3>4. Within(c)'
      BY <2>1, <3>3 DEF Within
    <3>5. recoveryCheckpoint(c) = 0
      BY <3>3 DEF recoveryCheckpoint
    <3>6. \A e \in Pending' : DateOf[e] >= 0
      <4>1. Pending' \subseteq Emails
        BY PendingEmails DEF Ahead
      <4>2. \A e \in Emails : DateOf[e] \in Nat
        BY Numbers
      <4> QED
        BY <4>1, <4>2, SMT
    <3>7. ASSUME c.validity = validity
          PROVE  Placed(c)' /\ \A u \in 1 .. c.last : box[u] \notin Pending'
      <4>1. Placed(c)'
        BY <2>1, <3>3, <3>7 DEF Placed, InOrderFrom
      <4>2. ASSUME NEW u \in 1 .. c.last
            PROVE  box[u] \notin Pending'
        <5>1. u \in DOMAIN box
          <6>1. c.last <= Len(box) /\ c.last \in Nat
            BY <3>3, <3>7, CursorFields DEF Within
          <6> QED
            BY <6>1, Numbers, SMT
        <5>2. CASE box[u] = 0
          <6>1. 0 \notin Pending'
            BY PendingEmails DEF Ahead
          <6> QED
            BY <5>2, <6>1
        <5>3. CASE box[u] # 0
          <6>1. box[u] \in baseline'
            BY <3>2, <3>3, <3>7, <5>3
          <6>2. ~(box[u] > arrived)
            <7>1. box[u] \in Nat /\ box[u] <= arrived /\ arrived \in Nat
              BY <5>1, Numbers DEF ShapeInv
            <7> QED
              BY <7>1, SMT
          <6> QED
            BY <2>1, <6>1, <6>2 DEF Pending, Unread
        <5> QED
          BY <5>2, <5>3
      <4> QED
        BY <4>1, <4>2
    <3>8. Good(c)'
      BY <2>1, <3>3, <3>4, <3>5, <3>6, <3>7 DEF Good, recoveryCheckpoint
    <3> QED
      BY <2>0, <3>8, GoodStored
  <2>4. CASE how[i] = "end"
    <3>1. "no_checkpoint" \in lapses' /\ "no_checkpoint" # "newest_stored"
      BY <1>2, <2>4 DEF CompletePoll
    <3> QED
      BY <3>1 DEF Lapsed
  <2>5. CASE how[i] = "stored" /\ Reorders
    <3>1. "newest_stored" \in lapses'
      BY <1>2, <2>5 DEF CompletePoll
    <3> QED
      BY <2>5, <3>1 DEF Lapsed
  <2>6. how[i] # "none" /\ how[i] \in {"none", "first", "end", "stored", "recover", "read"}
    BY <2>1 DEF PollShape, TypeOK
  <2> QED
    BY <2>2, <2>3, <2>4, <2>5, <2>6 DEF Sound
<1> QED
  BY <1>1, <1>2 DEF CompletePoll
-----------------------------------------------------------------------------
\* Short of a lapse every step keeps the cursors good.
LEMMA CoverStep ==
    ASSUME DatesInOrder, TypeOK, ShapeInv, Ahead, ~Lapsed => CoverInv, [Next]_vars, ~Lapsed'
    PROVE  CoverInv'
<1>0. CoverInv
  BY LapsesStay, LapsedStays
<1>1. /\ Good(cursor) /\ cursor \in Cursors
      /\ \A j \in Instances : PollInv(j) /\ PollShape(j) /\ InBox(j)
      /\ ~Reorders => OrderInv
  BY <1>0, TypeParts DEF CoverInv, RowOK, ShapeInv, PollShape
<1>2. cursor' = cursor => Good(cursor)'
  <2>1. PICK c \in Cursors : c = cursor
    BY <1>1
  <2> QED
    BY <1>1, <2>1, GoodKept, GoodStored
<1>3. done' = done => (~Reorders => OrderInv)'
  BY <1>1 DEF OrderInv, Ahead
<1>4. CASE Arrive \/ Renumber \/ Unassign \/ (\E u \in 1 .. Len(box) : Expunge(u))
           \/ (\E i \in Instances : Assign(i)) \/ UNCHANGED vars
  <2>1. UNCHANGED <<cursor, done, listed, pc, pollVars>>
    BY <1>4 DEF Arrive, Renumber, Unassign, Expunge, Assign, vars, rowVars
  <2>2. \A j \in Instances : SamePoll(j) /\ pc'[j] = pc[j] /\ listed'[j] = listed[j]
    BY <2>1 DEF SamePoll, pollVars
  <2>3. (\A j \in Instances : PollInv(j))'
    BY <1>1, <2>2, PollKept
  <2> QED
    BY <1>2, <1>3, <2>1, <2>3 DEF CoverInv
<1>5. ASSUME NEW i \in Instances, ListDue(i) \/ AlreadyRunning(i)
      PROVE  CoverInv'
  <2>1. cursor' = cursor /\ done' = done
    BY <1>5 DEF ListDue, AlreadyRunning, rowVars
  <2>2. /\ pc' = pc /\ SamePoll(i) /\ Others(i)
        /\ listed'[i].cursor = cursor \/ listed'[i].cursor = NoCursor
    BY <1>5, ListFields
  <2>3. Good(listed[i].cursor)'
    <3>1. PICK l \in Cursors : l = listed'[i].cursor /\ Good(l)
      BY <1>1, <2>2, GoodNone
    <3> QED
      BY <3>1, GoodKept, GoodListed
  <2>4. PollInv(i)'
    BY <1>1, <2>2, <2>3, WorkKept
  <2>5. (\A j \in Instances : PollInv(j))'
    BY <1>1, <2>2, <2>4, OthersPoll
  <2> QED
    BY <1>2, <1>3, <2>1, <2>5 DEF CoverInv
<1>6. ASSUME NEW i \in Instances, Start(i)
      PROVE  CoverInv'
  <2>1. cursor' = cursor /\ done' = done
    BY <1>6 DEF Start, rowVars
  <2>2. /\ pc'[i] = "start" /\ work'[i] = listed[i].cursor /\ listed'[i] = NotListed /\ Others(i)
    BY <1>6, StartFields
  <2>3. PICK l \in Cursors : l = listed[i].cursor /\ Good(l)
    BY <1>1, PollTypes DEF PollInv
  <2>4. Good(work[i])' /\ Good(listed[i].cursor)'
    <3>1. NotListed.cursor = NoCursor
      BY SMT DEF NotListed
    <3>2. Good(l)' /\ Good(NoCursor)'
      BY <2>3, GoodKept, NoneKept
    <3> QED
      BY <2>2, <2>3, <3>1, <3>2, GoodWork, GoodListed
  <2>5. PollInv(i)'
    BY <2>2, <2>4 DEF PollInv
  <2>6. (\A j \in Instances : PollInv(j))'
    BY <1>1, <2>2, <2>5, OthersPoll
  <2> QED
    BY <1>2, <1>3, <2>1, <2>6 DEF CoverInv
<1>7. ASSUME NEW i \in Instances, StartPoll(i) \/ Aborted(i)
      PROVE  CoverInv'
  <2>1. cursor' = cursor /\ done' = done /\ listed' = listed
    BY <1>7 DEF StartPoll, Aborted, rowVars
  <2>2. CASE EndPoll(i)
    BY <1>1, <1>2, <1>3, <2>1, <2>2, EndGood DEF CoverInv
  <2>3. CASE StartPoll(i) /\ ~EndPoll(i)
    <3>1. pc[i] = "start" /\ pc'[i] = "examine" /\ SamePoll(i) /\ Others(i)
      BY <2>3, ExaminedFields
    <3>2. PICK c \in Cursors : c = work[i] /\ Good(c) /\ work'[i] = c
      BY <1>1, <3>1, PollTypes DEF PollInv, SamePoll
    <3>3. Good(work[i])' /\ Good(listed[i].cursor)'
      BY <1>1, <2>1, <3>2, GoodKept, GoodWork, ListedKept
    <3>4. PollInv(i)'
      BY <3>1, <3>3 DEF PollInv
    <3>5. (\A j \in Instances : PollInv(j))'
      BY <1>1, <3>1, <3>4, OthersPoll
    <3> QED
      BY <1>2, <1>3, <2>1, <3>5 DEF CoverInv
  <2> QED
    BY <1>7, <2>2, <2>3 DEF Aborted
<1>8. ASSUME NEW i \in Instances, Examine(i)
      PROVE  CoverInv'
  <2>1. cursor' = cursor /\ done' = done
    BY <1>8 DEF Examine, rowVars
  <2> QED
    BY <1>0, <1>2, <1>3, <1>8, <2>1, ExamineGood DEF CoverInv
<1>9. ASSUME NEW i \in Instances, Handle(i)
      PROVE  CoverInv'
  <2>1. cursor' = cursor /\ listed' = listed /\ pc[i] = "deliver"
    BY <1>9 DEF Handle, rowVars
  <2>2. pc'[i] = "deliver" /\ how' = how /\ Others(i)
    BY <1>9, HandleFields
  <2>3. Sound(i)' <=> Sound(i)
    BY <2>2 DEF Sound
  <2>4. Sound(i) => DeliverInv(i)
    BY <1>1, <2>1 DEF PollInv
  <2>5. ~Reorders => Sound(i)
    BY <1>1, <2>1 DEF PollShape, Sound
  <2>6. Sound(i) => DeliverInv(i)' /\ (~Reorders /\ OrderInv => OrderInv')
    BY <1>9, <2>4, HandleGood
  <2>7. PollInv(i)'
    BY <1>1, <2>1, <2>2, <2>3, <2>6, ListedKept DEF PollInv
  <2>8. (\A j \in Instances : PollInv(j))'
    BY <1>1, <2>2, <2>7, OthersPoll
  <2> QED
    BY <1>1, <1>2, <2>1, <2>5, <2>6, <2>8 DEF CoverInv
<1>10. ASSUME NEW i \in Instances, Delivered(i) \/ Stopped(i)
       PROVE  CoverInv'
  <2>1. cursor' = cursor /\ done' = done
    BY <1>10 DEF Delivered, Stopped, rowVars
  <2>2. /\ pc[i] = "deliver" /\ pc'[i] = "complete" /\ how' = how /\ listed' = listed /\ Others(i)
        /\ \/ work'[i] = advanceConfirmed(i)
           \/ /\ work[i].checkpoint # 0 /\ ~limited[i] /\ left[i] = {}
              /\ work'[i] = finishRecovery(advanceConfirmed(i))
    BY <1>10, ConfirmFields
  <2>3. ASSUME Sound(i)'
        PROVE  Good(work[i])'
    <3>1. DeliverInv(i)
      BY <1>1, <2>2, <2>3 DEF PollInv, Sound
    <3>2. PICK a \in Cursors : a = advanceConfirmed(i)
      BY AdvanceFacts
    <3>3. /\ Good(a)
          /\ work[i].checkpoint # 0 /\ ~limited[i] /\ left[i] = {} => Good(finishRecovery(a))
      BY <1>1, <3>1, <3>2, AdvanceGood
    <3>4. PICK d \in Cursors : d = work'[i] /\ Good(d)
      BY <2>2, <3>2, <3>3, FinishMade
    <3> QED
      BY <3>4, GoodKept, GoodWork
  <2>4. how'[i] # "first"
    BY <1>1, <2>2 DEF PollShape
  <2>5. PollInv(i)'
    BY <1>1, <2>2, <2>3, <2>4, ListedKept DEF PollInv
  <2>6. (\A j \in Instances : PollInv(j))'
    BY <1>1, <2>2, <2>5, OthersPoll
  <2> QED
    BY <1>2, <1>3, <2>1, <2>6 DEF CoverInv
<1>11. ASSUME NEW i \in Instances, CompletePoll(i)
       PROVE  CoverInv'
  <2>1. EndPoll(i) /\ listed' = listed /\ done' = done
    BY <1>11 DEF CompletePoll
  <2>2. (\A j \in Instances : PollInv(j))'
    BY <1>1, <2>1, EndGood
  <2>3. Good(cursor)'
    BY <1>0, <1>11, CompleteGood
  <2> QED
    BY <1>3, <2>1, <2>2, <2>3 DEF CoverInv
<1> QED
  BY <1>4, <1>5, <1>6, <1>7, <1>8, <1>9, <1>10, <1>11 DEF Next, Environment, Poll, Fault
-----------------------------------------------------------------------------
(* The beginning.                                                          *)

\* The stored cursor is good at the beginning, and no poll runs.
LEMMA MailInit ==
    ASSUME DatesInOrder, Init
    PROVE  MailInv
<1> DEFINE read == {DateOf[e] : e \in 1 .. ReadBefore}
<1>1. /\ Len(DateOf) \in Nat /\ Emails = 1 .. Len(DateOf) /\ Uids = Emails /\ ReadBefore \in Nat
      /\ ReadBefore <= Len(DateOf) /\ 1 .. ReadBefore \subseteq Emails
      /\ \A e \in Emails : DateOf[e] \in Nat /\ DateOf[e] \in Dates
      /\ 0 \in Dates /\ Dates \subseteq Nat /\ 1 \in 0 .. MaxValidity
  <2>1. /\ DateOf \in Seq(Nat \ {0}) /\ ReadBefore \in 0 .. Len(DateOf) /\ MaxValidity \in Nat \ {0}
    BY MailboxAssumption
  <2>2. /\ Len(DateOf) \in Nat /\ DOMAIN DateOf = 1 .. Len(DateOf)
        /\ \A e \in DOMAIN DateOf : DateOf[e] \in Nat
    BY <2>1, SMT
  <2>3. /\ ReadBefore \in Nat /\ ReadBefore <= Len(DateOf)
        /\ 1 .. ReadBefore \subseteq 1 .. Len(DateOf) /\ 1 \in 0 .. MaxValidity /\ 0 \in Nat
    BY <2>1, <2>2, SMT
  <2> QED
    BY <2>2, <2>3 DEF Emails, Uids, Dates, Range
<1>2. ReadBefore # 0 => Max(read) \in Dates /\ \E e \in 1 .. ReadBefore : Max(read) = DateOf[e]
  <2> SUFFICES ASSUME ReadBefore # 0
               PROVE  Max(read) \in Dates /\ \E e \in 1 .. ReadBefore : Max(read) = DateOf[e]
    OBVIOUS
  <2>1. read \in SUBSET Nat /\ read # {}
    <3>1. 1 \in 1 .. ReadBefore
      BY <1>1, SMT
    <3> QED
      BY <1>1, <3>1
  <2>2. IsFiniteSet(read)
    <3>1. IsFiniteSet(1 .. ReadBefore)
      <4>1. 1 \in Int /\ ReadBefore \in Int
        BY <1>1, SMT
      <4> QED
        BY <4>1, FS_Interval
    <3> DEFINE f == [e \in 1 .. ReadBefore |-> DateOf[e]]
    <3>2. f \in Surjection(1 .. ReadBefore, read)
      BY DEF Surjection
    <3> HIDE DEF f, read
    <3> QED
      BY <3>1, <3>2, FS_Surjection
  <2>3. Max(read) \in read
    <3> HIDE DEF read
    <3> QED
      BY <2>1, <2>2, MaxFacts
  <2> QED
    BY <1>1, <2>3
<1>3. NoCursor \in Cursors /\ NoCursor.validity = 0 /\ NoCursor.last = 0 /\ NoCursor.to = 0
      /\ NoCursor.date = 0 /\ NoCursor.checkpoint = 0
  <2>1. 0 \in 0 .. MaxValidity /\ 0 \in {0} \cup Uids
    BY ZeroFacts
  <2> QED
    BY <1>1, <2>1, SMT DEF NoCursor, Cursor, Cursors
<1>4. PICK c \in Cursors :
        /\ c = cursor /\ c.checkpoint = 0 /\ c.to = 0
        /\ \/ c = NoCursor
           \/ /\ ReadBefore # 0 /\ c.validity = 1 /\ c.last = ReadBefore
              /\ \E e \in 1 .. ReadBefore : c.date = DateOf[e]
  <2>1. CASE ReadBefore = 0
    BY <1>3, <2>1 DEF Init
  <2>2. CASE ReadBefore # 0
    <3>1. PICK m \in Dates : m = Max(read) /\ \E e \in 1 .. ReadBefore : m = DateOf[e]
      BY <1>2, <2>2
    <3>2. cursor = Cursor(1, ReadBefore, m, 0, 0)
      BY <2>2, <3>1 DEF Init
    <3>3. ReadBefore \in {0} \cup Uids /\ 0 \in {0} \cup Uids
      BY <1>1, SMT
    <3> HIDE DEF read
    <3>4. /\ cursor \in Cursors /\ cursor.checkpoint = 0 /\ cursor.to = 0 /\ cursor.validity = 1
          /\ cursor.last = ReadBefore /\ cursor.date = m
      BY <1>1, <3>2, <3>3, SMT DEF Cursor, Cursors
    <3> QED
      BY <2>2, <3>1, <3>4
  <2> QED
    BY <2>1, <2>2
<1>5. /\ box = [u \in 1 .. ReadBefore |-> 0] /\ validity = 1 /\ arrived = ReadBefore /\ expunged = 0
      /\ owner = NoInstance /\ generation = 0 /\ done = 1 .. ReadBefore /\ baseline = {} /\ lapses = {}
      /\ DOMAIN box = 1 .. ReadBefore /\ \A u \in DOMAIN box : box[u] = 0
  BY DEF Init
<1>6. box \in Seq(Emails \cup {0}) /\ Len(box) = ReadBefore
  <2>1. box \in [1 .. ReadBefore -> Emails \cup {0}]
    BY <1>5
  <2> QED
    BY <1>1, <1>5, <2>1, SMT
<1>7. \A i \in Instances :
        /\ listed[i] = NotListed /\ pc[i] = "idle" /\ work[i] = NoCursor
        /\ requested[i] = {} /\ left[i] = {}
  BY DEF Init
<1>8. TypeOK
  <2>1. MailOK
    <3>1. 1 \in 1 .. MaxValidity /\ 0 \in 0 .. MaxExpunged /\ arrived \in {0} \cup Emails
          /\ Len(box) <= Len(DateOf)
      BY <1>1, <1>5, <1>6, MailboxAssumption, SMT
    <3> QED
      BY <1>5, <1>6, <3>1 DEF MailOK
  <2>2. RowOK
    BY <1>4, <1>5, ZeroFacts DEF RowOK
  <2>3. ListOK
    <3>1. NotListed \in [generation : 0 .. MaxGeneration, cursor : Cursors]
      BY <1>3, ZeroFacts DEF NotListed
    <3> QED
      BY <3>1 DEF Init, ListOK
  <2>4. PollOK
    BY <1>3, ZeroFacts DEF Init, PollOK
  <2> QED
    BY <1>1, <1>5, <2>1, <2>2, <2>3, <2>4, TypeParts
<1>9. /\ \A e \in Pending : e \in Emails /\ e > ReadBefore
      /\ Arrived = {}
  <2>1. Arrived = {}
    BY <1>5 DEF Arrived, Range
  <2> QED
    BY <1>5, <2>1 DEF Pending, Unread
<1>10. \A d \in 1 .. ReadBefore, e \in Pending : DateOf[d] <= DateOf[e] /\ DateOf[e] >= DateOf[d]
  <2> SUFFICES ASSUME NEW d \in 1 .. ReadBefore, NEW e \in Pending
               PROVE  DateOf[d] <= DateOf[e] /\ DateOf[e] >= DateOf[d]
    OBVIOUS
  <2>1. d < e /\ d \in Emails /\ e \in Emails
    BY <1>1, <1>9, SMT
  <2>2. DateOf[d] <= DateOf[e] /\ DateOf[d] \in Nat /\ DateOf[e] \in Nat
    BY <1>1, <2>1 DEF DatesInOrder
  <2> QED
    BY <2>2, SMT
<1>11. \A n : InOrderFrom(n)
  BY <1>5 DEF InOrderFrom
<1>12. NotListed.cursor = NoCursor
  BY SMT DEF NotListed
<1>13. Good(NoCursor) /\ Within(NoCursor)
  BY <1>8, GoodNone DEF Good
<1>14. Good(cursor)
  <2>1. CASE c = NoCursor
    BY <1>4, <1>13, <2>1
  <2>2. CASE /\ ReadBefore # 0 /\ c.validity = 1 /\ c.last = ReadBefore
             /\ \E e \in 1 .. ReadBefore : c.date = DateOf[e]
    <3>1. Within(c)
      <4>1. 1 <= 1 /\ ReadBefore <= ReadBefore /\ 0 <= ReadBefore
        BY <1>1, SMT
      <4> QED
        BY <1>4, <1>5, <1>6, <2>2, <4>1 DEF Within
    <3>2. \A e \in Pending : DateOf[e] >= recoveryCheckpoint(c)
      BY <1>4, <1>10, <2>2 DEF recoveryCheckpoint
    <3>3. Placed(c)
      BY <1>11 DEF Placed
    <3>4. \A u \in 1 .. c.last : box[u] \notin Pending
      BY <1>5, <1>8, <2>2, PendingEmails
    <3> QED
      BY <1>4, <3>1, <3>2, <3>3, <3>4 DEF Good
  <2> QED
    BY <1>4, <2>1, <2>2
<1>15. ShapeInv
  <2>1. Len(box) <= arrived /\ \A u \in DOMAIN box : box[u] <= arrived
    <3>1. ReadBefore <= ReadBefore /\ 0 <= ReadBefore
      BY <1>1, SMT
    <3> QED
      BY <1>5, <1>6, <3>1
  <2>2. \A i \in Instances : PollShape(i)
    BY <1>7, <1>12, <1>13 DEF PollShape, InBox
  <2> QED
    BY <1>5, <1>11, <1>14, <2>1, <2>2 DEF ShapeInv, Good
<1>16. CoverInv
  <2>1. \A i \in Instances : PollInv(i)
    BY <1>7, <1>12, <1>13 DEF PollInv
  <2>2. OrderInv
    BY <1>5, <1>10 DEF OrderInv
  <2> QED
    BY <1>14, <2>1, <2>2 DEF CoverInv
<1> QED
  BY <1>8, <1>15, <1>16 DEF MailInv
-----------------------------------------------------------------------------
(* What is behind a good cursor.                                           *)

\* A good stored cursor has nothing unread behind it and a checkpoint that covers
\* what is unread.
LEMMA StoredCursor ==
    ASSUME MailInv
    PROVE  NothingSkipped /\ CheckpointCoversUnread
<1>1. TypeOK /\ (~Lapsed => Good(cursor)) /\ cursor \in Cursors
  BY TypeParts DEF MailInv, CoverInv, RowOK
<1>2. Unread \subseteq Pending
  BY DEF Pending
<1>3. ASSUME ~Lapsed
      PROVE  CursorConfirmed
  <2>1. CASE cursor.validity # validity
    BY <2>1 DEF CursorConfirmed, Passed
  <2>2. CASE cursor.validity = validity
    <3>1. cursor.last \in Nat /\ Len(box) \in Nat
      BY <1>1, CursorFields, Numbers
    <3>2. PICK m : m = Min({cursor.last, Len(box)})
      OBVIOUS
    <3>3. m \in Nat /\ m <= cursor.last
      <4>1. {cursor.last, Len(box)} \in SUBSET Nat /\ {cursor.last, Len(box)} # {}
        BY <3>1
      <4> QED
        BY <3>2, <4>1, MinFacts
    <3>4. 1 .. m \subseteq 1 .. cursor.last
      BY <3>1, <3>3, SMT
    <3>5. \A u \in 1 .. m : box[u] \notin Pending
      BY <1>1, <1>3, <2>2, <3>4 DEF Good
    <3>6. Passed = {box[u] : u \in 1 .. m}
      BY <2>2, <3>2 DEF Passed
    <3> QED
      BY <1>2, <3>5, <3>6 DEF CursorConfirmed
  <2> QED
    BY <2>1, <2>2
<1>4. CheckpointCoversUnread
  BY <1>1, <1>2 DEF CheckpointCoversUnread, Good, recoveryCheckpoint
<1> QED
  BY <1>3, <1>4 DEF NothingSkipped

\* What is known of every cursor in circulation holds in every reachable state, provided
\* that emails arrive in the order of their dates.
THEOREM MailInvariant ==
    ASSUME DatesInOrder
    PROVE  Spec => []MailInv
<1>1. Init => MailInv
  BY MailInit
<1>2. ASSUME MailInv, [Next]_vars
      PROVE  MailInv'
  <2>1. TypeOK /\ ShapeInv /\ (~Lapsed => CoverInv)
    BY <1>2 DEF MailInv
  <2>2. TypeOK'
    BY <1>2, <2>1, TypeStep
  <2>3. Ahead
    BY <1>2, <2>1, <2>2, AheadStep
  <2>4. ShapeInv'
    BY <1>2, <2>1, <2>2, <2>3, ShapeStep
  <2>5. ~Lapsed' => CoverInv'
    BY <1>2, <2>1, <2>3, CoverStep
  <2> QED
    BY <2>2, <2>4, <2>5 DEF MailInv
<1> QED
  BY <1>1, <1>2, PTL DEF Spec

\* LastUID is the highest UID confirmed by the handler: short of a lapse, no unread email
\* is behind the stored cursor, whatever the number of emails, renumberings, reassignments
\* and instances, and whatever the limit per poll.
THEOREM NothingIsSkipped ==
    ASSUME DatesInOrder
    PROVE  Spec => []NothingSkipped
<1>1. MailInv => NothingSkipped
  BY StoredCursor
<1> QED
  BY <1>1, MailInvariant, PTL

\* The checkpoint survives a UIDVALIDITY change: short of a lapse, no unread email is older
\* than the time a recovery from the stored cursor resumes from.
THEOREM CheckpointCovers ==
    ASSUME DatesInOrder
    PROVE  Spec => []CheckpointCoversUnread
<1>1. MailInv => CheckpointCoversUnread
  BY StoredCursor
<1> QED
  BY <1>1, MailInvariant, PTL
=============================================================================
