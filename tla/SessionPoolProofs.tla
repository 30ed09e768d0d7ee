-------------------------- MODULE SessionPoolProofs -------------------------
(***************************************************************************)
(* The permits of the connections, for any number of profiles and any      *)
(* limits: the accounting of connSlots is exact, the open connections stay *)
(* within the limit and a session in use is not closed.                    *)
(***************************************************************************)
EXTENDS SessionPool, FiniteSetTheorems, TLAPS

\* Leaves that need arithmetic or many updates at once cite SMT.
USE Zenon

\* Taking an element out of a sequence that has it once.
LEMMA WithoutRemoves ==
    ASSUME NEW S, NEW s \in Seq(S), IsInjective(s), NEW e \in Range(s)
    PROVE  /\ Without(s, e) \in Seq(S)
           /\ Len(Without(s, e)) = Len(s) - 1
           /\ Len(s) > 0
           /\ IsInjective(Without(s, e))
           /\ Range(Without(s, e)) = Range(s) \ {e}
<1> DEFINE i == CHOOSE i \in DOMAIN s : s[i] = e
           t == [k \in 1 .. Len(s) - 1 |-> IF k < i THEN s[k] ELSE s[k + 1]]
<1>1. i \in 1 .. Len(s) /\ s[i] = e
  BY SMT DEF Range
<1>2. Without(s, e) = t
  BY DEF Without
<1> HIDE DEF i
<1>3. Len(s) \in Nat /\ Len(s) > 0 /\ s \in [1 .. Len(s) -> S] /\ DOMAIN s = 1 .. Len(s)
  BY <1>1, SMT
<1>4. t \in Seq(S) /\ Len(t) = Len(s) - 1 /\ DOMAIN t = 1 .. Len(s) - 1
  BY <1>3, <1>1, SMT
<1>5. \A k \in 1 .. Len(s) - 1 : t[k] = IF k < i THEN s[k] ELSE s[k + 1]
  OBVIOUS
<1> HIDE DEF t
<1>6. IsInjective(t)
  <2> SUFFICES ASSUME NEW a \in 1 .. Len(s) - 1, NEW b \in 1 .. Len(s) - 1, t[a] = t[b]
               PROVE  a = b
    BY <1>4 DEF IsInjective
  <2> DEFINE Old(k) == IF k < i THEN k ELSE k + 1
  <2>1. Old(a) \in 1 .. Len(s) /\ Old(b) \in 1 .. Len(s)
    BY <1>1, <1>3, SMT
  <2>2. t[a] = s[Old(a)] /\ t[b] = s[Old(b)]
    BY <1>5
  <2>3. Old(a) = Old(b)
    BY <2>1, <2>2, <1>3 DEF IsInjective
  <2> QED
    BY <2>3, <1>1, <1>3, SMT
<1>7. Range(t) \subseteq Range(s) \ {e}
  BY <1>1, <1>3, <1>4, <1>5, SMT DEF IsInjective, Range
<1>8. ASSUME NEW x \in Range(s), x # e
      PROVE  x \in Range(t)
  <2>1. PICK k \in 1 .. Len(s) : s[k] = x
    BY <1>3 DEF Range
  <2>2. k < i \/ k > i
    BY <2>1, <1>1, <1>8, SMT
  <2>3. CASE k < i
    BY <2>1, <2>3, <1>1, <1>3, <1>4, <1>5, SMT DEF Range
  <2>4. CASE k > i
    <3>1. k - 1 \in 1 .. Len(s) - 1 /\ ~(k - 1 < i) /\ (k - 1) + 1 = k
      BY <2>1, <2>4, <1>1, <1>3, SMT
    <3> QED
      BY <3>1, <2>1, <1>4, <1>5 DEF Range
  <2> QED
    BY <2>2, <2>3, <2>4
<1> QED
  BY <1>2, <1>3, <1>4, <1>6, <1>7, <1>8

\* Taking out an element that may not be there.
LEMMA WithoutType ==
    ASSUME NEW S, NEW s \in Seq(S), IsInjective(s), NEW e
    PROVE  /\ Without(s, e) \in Seq(S)
           /\ IsInjective(Without(s, e))
           /\ Range(Without(s, e)) = Range(s) \ {e}
<1>1. CASE e \in Range(s)
  BY <1>1, WithoutRemoves
<1>2. CASE e \notin Range(s)
  BY <1>2 DEF Without
<1> QED
  BY <1>1, <1>2

\* Putting a new element at the end.
LEMMA AppendNew ==
    ASSUME NEW S, NEW s \in Seq(S), IsInjective(s), NEW e \in S, e \notin Range(s)
    PROVE  /\ Append(s, e) \in Seq(S)
           /\ Len(Append(s, e)) = Len(s) + 1
           /\ IsInjective(Append(s, e))
           /\ Range(Append(s, e)) = Range(s) \cup {e}
<1>1. Len(s) \in Nat /\ DOMAIN s = 1 .. Len(s)
  BY SMT
<1>2. Append(s, e) \in Seq(S) /\ Len(Append(s, e)) = Len(s) + 1
      /\ DOMAIN Append(s, e) = 1 .. Len(s) + 1
  BY SMT
<1>3. \A k \in 1 .. Len(s) + 1 : Append(s, e)[k] = IF k = Len(s) + 1 THEN e ELSE s[k]
  BY <1>1, SMT
<1>4. IsInjective(Append(s, e))
  BY <1>1, <1>2, <1>3, SMT DEF IsInjective, Range
<1>5. Range(Append(s, e)) = Range(s) \cup {e}
  BY <1>1, <1>2, <1>3, SMT DEF Range
<1> QED
  BY <1>2, <1>4, <1>5

\* Taking the head of a sequence.
LEMMA TailRemoves ==
    ASSUME NEW S, NEW s \in Seq(S), IsInjective(s), s # <<>>
    PROVE  /\ Tail(s) \in Seq(S)
           /\ IsInjective(Tail(s))
           /\ Head(s) \in Range(s)
           /\ Range(Tail(s)) = Range(s) \ {Head(s)}
<1>1. Len(s) \in Nat \ {0} /\ DOMAIN s = 1 .. Len(s) /\ Head(s) = s[1]
  BY SMT
<1>2. Tail(s) \in Seq(S) /\ Len(Tail(s)) = Len(s) - 1 /\ DOMAIN Tail(s) = 1 .. Len(s) - 1
  BY <1>1, SMT
<1>3. \A k \in 1 .. Len(s) - 1 : Tail(s)[k] = s[k + 1]
  BY <1>1, SMT
<1>4. IsInjective(Tail(s))
  BY <1>1, <1>2, <1>3, SMT DEF IsInjective
<1>5. Head(s) \in Range(s) /\ Range(Tail(s)) \subseteq Range(s) \ {Head(s)}
  BY <1>1, <1>2, <1>3, SMT DEF IsInjective, Range
<1>6. ASSUME NEW x \in Range(s), x # Head(s)
      PROVE  x \in Range(Tail(s))
  <2>1. PICK k \in 2 .. Len(s) : s[k] = x
    BY <1>1, <1>6, SMT DEF Range
  <2>2. k - 1 \in 1 .. Len(s) - 1 /\ (k - 1) + 1 = k
    BY <1>1, SMT
  <2> QED
    BY <2>1, <2>2, <1>2, <1>3 DEF Range
<1> QED
  BY <1>2, <1>4, <1>5, <1>6
-----------------------------------------------------------------------------
\* Moving one poll moves the number of connecting polls by its share.
LEMMA ConnectingMoves ==
    ASSUME NEW f \in [Profiles -> Step], NEW p \in Profiles, NEW x \in Step
    PROVE  /\ [f EXCEPT ![p] = x] \in [Profiles -> Step]
           /\ Connecting(f) \in Nat
           /\ f[p] = "connect" => Connecting(f) > 0
           /\ Connecting([f EXCEPT ![p] = x]) =
                 Connecting(f) - (IF f[p] = "connect" THEN 1 ELSE 0)
                               + (IF x = "connect" THEN 1 ELSE 0)
<1> DEFINE g == [f EXCEPT ![p] = x]
           F == {q \in Profiles : f[q] = "connect"}
           G == {q \in Profiles : g[q] = "connect"}
<1>1. IsFiniteSet(F)
  BY PoolAssumption, FS_Subset
<1>2. Cardinality(F) \in Nat
  BY <1>1, FS_CardinalityType
<1>3. CASE x = "connect"
  <2>1. G = F \cup {p}
    BY <1>3
  <2>2. p \in F <=> f[p] = "connect"
    OBVIOUS
  <2>3. Cardinality(G) = IF p \in F THEN Cardinality(F) ELSE Cardinality(F) + 1
    BY <2>1, <1>1, FS_AddElement
  <2>4. p \in F => Cardinality(F) > 0
    BY <1>1, <1>2, FS_EmptySet, SMT
  <2> QED
    BY <1>2, <1>3, <2>2, <2>3, <2>4, SMT DEF Connecting
<1>4. CASE x # "connect"
  <2>1. G = F \ {p}
    BY <1>4
  <2>2. p \in F <=> f[p] = "connect"
    OBVIOUS
  <2>3. Cardinality(G) = IF p \in F THEN Cardinality(F) - 1 ELSE Cardinality(F)
    BY <2>1, <1>1, FS_RemoveElement
  <2>4. p \in F => Cardinality(F) > 0
    BY <1>1, <1>2, FS_EmptySet, SMT
  <2> QED
    BY <1>2, <1>4, <2>2, <2>3, <2>4, SMT DEF Connecting
<1> QED
  BY <1>3, <1>4

\* A permit given back goes to nobody, or to the poll that heads the queue: the
\* permits are again those of the o connections that stay and of the connecting polls.
LEMMA ReleaseAccounts ==
    ASSUME NEW f \in [Profiles -> Step], releaseConnSlot(f),
           queue \in Seq(Profiles), IsInjective(queue),
           \A p \in Profiles : f[p] = "wait" <=> p \in Range(queue),
           NEW o \in Nat, permits = (o + 1) + Connecting(f)
    PROVE  /\ pc' \in [Profiles -> Step]
           /\ queue' \in Seq(Profiles) /\ IsInjective(queue')
           /\ \A p \in Profiles : pc'[p] = "wait" <=> p \in Range(queue')
           /\ \A p \in Profiles : pc'[p] = f[p] \/ (f[p] = "wait" /\ pc'[p] = "connect")
           /\ permits' \in Nat /\ permits' <= permits
           /\ permits' = o + Connecting(pc')
<1>0. Connecting(f) \in Nat
  BY PoolAssumption, FS_Subset, FS_CardinalityType DEF Connecting
<1>1. CASE queue = <<>>
  <2>1. permits' = permits - 1 /\ pc' = f /\ queue' = queue
    BY <1>1 DEF releaseConnSlot
  <2> QED
    BY <2>1, <1>0, SMT
<1>2. CASE queue # <<>>
  <2> DEFINE h == Head(queue)
  <2>1. pc' = [f EXCEPT ![h] = "connect"] /\ queue' = Tail(queue) /\ permits' = permits
    BY <1>2 DEF releaseConnSlot
  <2>2. /\ Tail(queue) \in Seq(Profiles) /\ IsInjective(Tail(queue)) /\ h \in Range(queue)
        /\ Range(Tail(queue)) = Range(queue) \ {h}
    BY <1>2, TailRemoves
  <2>3. h \in Profiles /\ f[h] = "wait"
    <3>1. h \in Profiles
      BY <1>2, SMT
    <3> QED
      BY <3>1, <2>2
  <2> HIDE DEF h
  <2>4. pc' \in [Profiles -> Step] /\ Connecting(pc') = Connecting(f) + 1
    <3>1. "connect" \in Step
      BY DEF Step
    <3>2. /\ [f EXCEPT ![h] = "connect"] \in [Profiles -> Step]
          /\ Connecting([f EXCEPT ![h] = "connect"]) =
                Connecting(f) - (IF f[h] = "connect" THEN 1 ELSE 0)
                              + (IF "connect" = "connect" THEN 1 ELSE 0)
      BY <3>1, <2>3, ConnectingMoves
    <3> QED
      BY <3>2, <2>1, <2>3, <1>0, SMT
  <2>5. \A p \in Profiles : pc'[p] = IF p = h THEN "connect" ELSE f[p]
    BY <2>1, <2>3
  <2>6. \A p \in Profiles : pc'[p] = "wait" <=> p \in Range(queue')
    BY <2>1, <2>2, <2>5
  <2>7. \A p \in Profiles : pc'[p] = f[p] \/ (f[p] = "wait" /\ pc'[p] = "connect")
    BY <2>3, <2>5
  <2> QED
    BY <2>1, <2>2, <2>4, <2>6, <2>7, <1>0, SMT
<1> QED
  BY <1>1, <1>2
-----------------------------------------------------------------------------
\* What Goto does to the polls.
LEMMA GotoFacts ==
    ASSUME TypeOK, NEW p \in Profiles, NEW x \in Step
    PROVE  /\ Goto(p, x) \in [Profiles -> Step]
           /\ \A q \in Profiles : Goto(p, x)[q] = IF q = p THEN x ELSE pc[q]
           /\ Connecting(pc) \in Nat
           /\ pc[p] = "connect" => Connecting(pc) > 0
           /\ Connecting(Goto(p, x)) = Connecting(pc) - (IF pc[p] = "connect" THEN 1 ELSE 0)
                                                     + (IF x = "connect" THEN 1 ELSE 0)
<1>1. pc \in [Profiles -> Step]
  BY DEF TypeOK
<1>2. \A q \in Profiles : Goto(p, x)[q] = IF q = p THEN x ELSE pc[q]
  BY <1>1 DEF Goto
<1> QED
  BY <1>1, <1>2, ConnectingMoves DEF Goto

\* A poll that moves on with the same session, and no permit in the making.
LEMMA MoveKeeps ==
    ASSUME PoolInv, NEW p \in Profiles, NEW x \in Step \ {"connect", "wait"},
           pc[p] \notin {"connect", "wait"},
           x \in {"acquire", "evict", "enqueue"} => ~Cached(p),
           x # "sync",
           pc' = Goto(p, x),
           UNCHANGED <<sessions, outdated, permits, queue, open, closing, phase>>
    PROVE  PoolInv'
<1> USE DEF PoolInv
<1>1. /\ pc' \in [Profiles -> Step]
      /\ \A q \in Profiles : pc'[q] = IF q = p THEN x ELSE pc[q]
      /\ Connecting(pc') = Connecting(pc)
  BY GotoFacts, SMT
<1>2. TypeOK'
  BY <1>1 DEF TypeOK
<1>3. PermitsExact'
  BY <1>1 DEF PermitsExact
<1>4. PollingKept' /\ (permits <= MaxOpenConnections)'
  BY <1>1 DEF PollingKept, Cached
<1>5. (\A q \in Profiles : pc[q] = "wait" <=> q \in Range(queue))'
  BY <1>1
<1>6. (\A q \in Profiles : pc[q] \in {"acquire", "evict", "enqueue", "wait", "connect"} => ~Cached(q))'
  BY <1>1 DEF Cached
<1> QED
  BY <1>2, <1>3, <1>4, <1>5, <1>6

\* dropSession, from a poll that holds no permit beyond that of its session.
LEMMA DropKeeps ==
    ASSUME PoolInv, NEW p \in Profiles, NEW graceful \in BOOLEAN, NEW x \in {"off", "acquire"},
           pc[p] \in {"session", "sync"},
           dropSession(p, graceful, x),
           UNCHANGED phase
    PROVE  PoolInv'
<1> USE DEF PoolInv
<1>0. /\ sessions \in Seq(Profiles) /\ IsInjective(sessions) /\ Len(sessions) \in Nat
      /\ queue \in Seq(Profiles) /\ IsInjective(queue)
      /\ permits \in Nat /\ open \in Nat /\ closing \in Nat
      /\ permits = open + Connecting(pc) /\ open = Len(sessions) + closing
  BY SMT DEF TypeOK, PermitsExact
<1>1. /\ x \in Step
      /\ Goto(p, x) \in [Profiles -> Step]
      /\ \A q \in Profiles : Goto(p, x)[q] = IF q = p THEN x ELSE pc[q]
      /\ Connecting(pc) \in Nat /\ Connecting(Goto(p, x)) = Connecting(pc)
  <2>1. x \in Step /\ x # "connect" /\ pc[p] # "connect"
    BY DEF Step
  <2> QED
    BY <2>1, GotoFacts, SMT
<1>2. /\ sessions' \in Seq(Profiles) /\ IsInjective(sessions')
      /\ Range(sessions') = Range(sessions) \ {p}
      /\ outdated' \subseteq Profiles
  <2>1. sessions' = Without(sessions, p) /\ outdated' = outdated \ {p}
    BY DEF dropSession
  <2> QED
    BY <2>1, <1>0, WithoutType DEF TypeOK
<1>3. Cached(p) => Len(sessions') = Len(sessions) - 1 /\ Len(sessions) > 0
  BY <1>0, WithoutRemoves DEF dropSession, Cached
<1>4. \A q \in Profiles : Goto(p, x)[q] = "wait" <=> q \in Range(queue)
  BY <1>1
\* the accounting, whichever way the session goes
<1>5. /\ pc' \in [Profiles -> Step]
      /\ \A q \in Profiles : \/ pc'[q] = Goto(p, x)[q]
                             \/ Goto(p, x)[q] = "wait" /\ pc'[q] = "connect"
      /\ queue' \in Seq(Profiles) /\ IsInjective(queue')
      /\ \A q \in Profiles : pc'[q] = "wait" <=> q \in Range(queue')
      /\ permits' \in Nat /\ permits' <= permits /\ open' \in Nat /\ closing' \in Nat
      /\ permits' = open' + Connecting(pc') /\ open' = Len(sessions') + closing'
  <2>1. CASE ~Cached(p)
    <3>1. pc' = Goto(p, x) /\ UNCHANGED <<permits, queue, open, closing>>
      BY <2>1 DEF dropSession
    <3>2. sessions' = sessions
      BY <2>1 DEF dropSession, Cached, Without
    <3>3. permits' = open' + Connecting(pc') /\ open' = Len(sessions') + closing'
      BY <3>1, <3>2, <1>0, <1>1
    <3>4. permits' \in Nat /\ permits' <= permits /\ open' \in Nat /\ closing' \in Nat
      BY <3>1, <1>0, SMT
    <3>5. /\ pc' = Goto(p, x)
          /\ queue' \in Seq(Profiles) /\ IsInjective(queue') /\ Range(queue') = Range(queue)
      BY <3>1, <1>0
    <3> QED
      BY <3>3, <3>4, <3>5, <1>1, <1>4
  <2>2. CASE Cached(p) /\ graceful
    <3>1. pc' = Goto(p, x) /\ closing' = closing + 1 /\ UNCHANGED <<permits, queue, open>>
      BY <2>2 DEF dropSession, logOut
    <3>2. permits' = open' + Connecting(pc')
      BY <3>1, <1>0, <1>1
    <3>3. closing' \in Nat /\ open' = Len(sessions') + closing'
      BY <3>1, <2>2, <1>0, <1>3, SMT
    <3>4. permits' \in Nat /\ permits' <= permits /\ open' \in Nat
      BY <3>1, <1>0, SMT
    <3>5. /\ pc' = Goto(p, x)
          /\ queue' \in Seq(Profiles) /\ IsInjective(queue') /\ Range(queue') = Range(queue)
      BY <3>1, <1>0
    <3> QED
      BY <3>2, <3>3, <3>4, <3>5, <1>1, <1>4
  <2>3. CASE Cached(p) /\ ~graceful
    <3>1. open' = open - 1 /\ closing' = closing /\ releaseConnSlot(Goto(p, x))
      BY <2>3 DEF dropSession, abort
    <3>2. open - 1 \in Nat /\ permits = ((open - 1) + 1) + Connecting(Goto(p, x))
      BY <2>3, <1>0, <1>1, <1>3, SMT
    <3>3. /\ pc' \in [Profiles -> Step]
          /\ queue' \in Seq(Profiles) /\ IsInjective(queue')
          /\ \A q \in Profiles : pc'[q] = "wait" <=> q \in Range(queue')
          /\ \A q \in Profiles : \/ pc'[q] = Goto(p, x)[q]
                                 \/ Goto(p, x)[q] = "wait" /\ pc'[q] = "connect"
          /\ permits' \in Nat /\ permits' <= permits
          /\ permits' = (open - 1) + Connecting(pc')
      BY <3>1, <3>2, <1>0, <1>1, <1>4, ReleaseAccounts
    <3>4. open' \in Nat /\ closing' \in Nat /\ open' = Len(sessions') + closing'
      BY <3>1, <3>2, <2>3, <1>0, <1>3, SMT
    <3> QED
      BY <3>1, <3>3, <3>4
  <2> QED
    BY <2>1, <2>2, <2>3
<1>6. TypeOK'
  BY <1>2, <1>5 DEF TypeOK
<1>7. PermitsExact' /\ (permits <= MaxOpenConnections)'
  BY <1>0, <1>5, PoolAssumption, SMT DEF PermitsExact
<1>8. PollingKept'
  BY <1>1, <1>2, <1>5 DEF PollingKept, Cached
<1>9. (\A q \in Profiles : pc[q] \in {"acquire", "evict", "enqueue", "wait", "connect"} => ~Cached(q))'
  BY <1>1, <1>2, <1>5 DEF Cached
<1> QED
  BY <1>5, <1>6, <1>7, <1>8, <1>9

\* The numbers of the invariant, for the lemmas below.
LEMMA PoolTypes ==
    ASSUME PoolInv
    PROVE  /\ sessions \in Seq(Profiles) /\ IsInjective(sessions) /\ Len(sessions) \in Nat
           /\ queue \in Seq(Profiles) /\ IsInjective(queue)
           /\ permits \in Nat /\ open \in Nat /\ closing \in Nat
           /\ permits = open + Connecting(pc) /\ open = Len(sessions) + closing
           /\ permits <= MaxOpenConnections
           /\ pc \in [Profiles -> Step] /\ outdated \subseteq Profiles /\ phase \in Phase
  BY SMT DEF PoolInv, TypeOK, PermitsExact

\* A session no poll is using is taken from the cache and logged out of.
LEMMA CloseIdleKeeps ==
    ASSUME PoolInv, NEW v \in Range(sessions), pc[v] = "off",
           sessions' = Without(sessions, v), outdated' = outdated \ {v},
           closing' = closing + 1,
           UNCHANGED <<permits, queue, open, phase>>,
           pc' \in [Profiles -> Step], Connecting(pc') = Connecting(pc),
           \A q \in Profiles : pc'[q] = pc[q] \/ (pc[q] = "evict" /\ pc'[q] = "enqueue")
    PROVE  PoolInv'
<1>0. /\ sessions \in Seq(Profiles) /\ IsInjective(sessions) /\ Len(sessions) \in Nat
      /\ permits \in Nat /\ open \in Nat /\ closing \in Nat
      /\ permits = open + Connecting(pc) /\ open = Len(sessions) + closing
  BY PoolTypes
<1>1. /\ sessions' \in Seq(Profiles) /\ IsInjective(sessions')
      /\ Len(sessions') = Len(sessions) - 1
      /\ Range(sessions') = Range(sessions) \ {v}
  BY <1>0, WithoutRemoves
<1>2. TypeOK'
  BY <1>0, <1>1, PoolTypes, SMT DEF TypeOK
<1>3. PermitsExact' /\ (permits <= MaxOpenConnections)'
  BY <1>0, <1>1, PoolTypes, SMT DEF PermitsExact
<1>4. PollingKept'
  BY <1>1 DEF PoolInv, PollingKept, Cached
<1>5. (\A q \in Profiles : pc[q] = "wait" <=> q \in Range(queue))'
  BY DEF PoolInv
<1>6. (\A q \in Profiles : pc[q] \in {"acquire", "evict", "enqueue", "wait", "connect"} => ~Cached(q))'
  BY <1>1 DEF PoolInv, Cached
<1> QED
  BY <1>2, <1>3, <1>4, <1>5, <1>6 DEF PoolInv

\* A free permit is taken.
LEMMA AcquireKeeps ==
    ASSUME PoolInv, NEW p \in Profiles, pc[p] \in {"acquire", "enqueue"}, FreePermit,
           permits' = permits + 1, pc' = Goto(p, "connect"),
           UNCHANGED <<sessions, outdated, queue, open, closing, phase>>
    PROVE  PoolInv'
<1>0. /\ permits \in Nat /\ open \in Nat /\ closing \in Nat
      /\ permits = open + Connecting(pc) /\ open = Len(sessions) + closing
  BY PoolTypes
<1>1. /\ pc' \in [Profiles -> Step]
      /\ \A q \in Profiles : pc'[q] = IF q = p THEN "connect" ELSE pc[q]
      /\ Connecting(pc) \in Nat /\ Connecting(pc') = Connecting(pc) + 1
  <2>1. "connect" \in Step /\ pc[p] # "connect"
    BY DEF Step
  <2> QED
    BY <2>1, GotoFacts, SMT DEF PoolInv
<1>2. permits' <= MaxOpenConnections
  BY <1>0, PoolAssumption, SMT DEF FreePermit
<1>3. TypeOK' /\ PermitsExact'
  <2>1. permits' \in Nat /\ permits' = open + Connecting(pc')
    <3>1. \A a, b \in Nat : (a + b) + 1 \in Nat /\ (a + b) + 1 = a + (b + 1)
      BY SMT
    <3>2. permits' = (open + Connecting(pc)) + 1
      BY <1>0
    <3>3. open \in Nat /\ Connecting(pc) \in Nat /\ Connecting(pc') = Connecting(pc) + 1
      BY <1>0, <1>1
    <3> QED
      BY <3>1, <3>2, <3>3
  <2>2. TypeOK'
    BY <1>1, <2>1, PoolTypes DEF TypeOK
  <2> QED
    BY <1>0, <2>1, <2>2 DEF PermitsExact
<1>4. PollingKept'
  BY <1>1 DEF PoolInv, PollingKept, Cached
<1>5. (\A q \in Profiles : pc[q] = "wait" <=> q \in Range(queue))'
  BY <1>1 DEF PoolInv
<1>6. (\A q \in Profiles : pc[q] \in {"acquire", "evict", "enqueue", "wait", "connect"} => ~Cached(q))'
  BY <1>1 DEF PoolInv, Cached
<1> QED
  BY <1>2, <1>3, <1>4, <1>5, <1>6 DEF PoolInv

\* A poll joins the queue of connSlots.
LEMMA WaitKeeps ==
    ASSUME PoolInv, NEW p \in Profiles, Enqueue(p), ~FreePermit
    PROVE  PoolInv'
<1>0. /\ pc[p] = "enqueue" /\ queue' = Append(queue, p) /\ pc' = Goto(p, "wait")
      /\ UNCHANGED <<sessions, outdated, permits, open, closing, phase>>
  BY DEF Enqueue
<1>1. /\ pc' \in [Profiles -> Step]
      /\ \A q \in Profiles : pc'[q] = IF q = p THEN "wait" ELSE pc[q]
      /\ Connecting(pc') = Connecting(pc)
  <2>1. "wait" \in Step /\ pc[p] # "connect"
    BY <1>0 DEF Step
  <2>2. pc' = Goto(p, "wait") /\ TypeOK
    BY <1>0 DEF PoolInv
  <2> QED
    BY <2>1, <2>2, GotoFacts, SMT
<1>2. /\ queue' \in Seq(Profiles) /\ IsInjective(queue')
      /\ Range(queue') = Range(queue) \cup {p}
  <2>1. p \notin Range(queue)
    BY <1>0 DEF PoolInv
  <2> QED
    BY <1>0, <2>1, PoolTypes, AppendNew, ZenonT(40)
<1>3. TypeOK' /\ PermitsExact' /\ (permits <= MaxOpenConnections)'
  BY <1>0, <1>1, <1>2, PoolTypes DEF TypeOK, PermitsExact
<1>4. PollingKept'
  BY <1>0, <1>1 DEF PoolInv, PollingKept, Cached
<1>5. (\A q \in Profiles : pc[q] = "wait" <=> q \in Range(queue))'
  BY <1>0, <1>1, <1>2 DEF PoolInv
<1>6. (\A q \in Profiles : pc[q] \in {"acquire", "evict", "enqueue", "wait", "connect"} => ~Cached(q))'
  BY <1>0, <1>1 DEF PoolInv, Cached
<1> QED
  BY <1>3, <1>4, <1>5, <1>6 DEF PoolInv

\* A poll leaves the queue because its context is done.
LEMMA GiveUpKeeps ==
    ASSUME PoolInv, NEW p \in Profiles, GiveUp(p)
    PROVE  PoolInv'
<1>0. /\ pc[p] \in {"enqueue", "wait"} /\ queue' = Without(queue, p) /\ pc' = Goto(p, "off")
      /\ UNCHANGED <<sessions, outdated, permits, open, closing, phase>>
  BY DEF GiveUp
<1>1. /\ pc' \in [Profiles -> Step]
      /\ \A q \in Profiles : pc'[q] = IF q = p THEN "off" ELSE pc[q]
      /\ Connecting(pc') = Connecting(pc)
  <2>1. "off" \in Step /\ pc[p] # "connect"
    BY <1>0 DEF Step
  <2> QED
    BY <2>1, <1>0, GotoFacts, SMT DEF PoolInv
<1>2. /\ queue' \in Seq(Profiles) /\ IsInjective(queue')
      /\ Range(queue') = Range(queue) \ {p}
  BY <1>0, PoolTypes, WithoutType
<1>3. TypeOK' /\ PermitsExact' /\ (permits <= MaxOpenConnections)'
  BY <1>0, <1>1, <1>2, PoolTypes DEF TypeOK, PermitsExact
<1>4. PollingKept'
  BY <1>0, <1>1 DEF PoolInv, PollingKept, Cached
<1>5. (\A q \in Profiles : pc[q] = "wait" <=> q \in Range(queue))'
  BY <1>1, <1>2 DEF PoolInv
<1>6. (\A q \in Profiles : pc[q] \in {"acquire", "evict", "enqueue", "wait", "connect"} => ~Cached(q))'
  BY <1>0, <1>1 DEF PoolInv, Cached
<1> QED
  BY <1>3, <1>4, <1>5, <1>6 DEF PoolInv

\* A connection is made with the permit of its poll.
LEMMA ConnectKeeps ==
    ASSUME PoolInv, NEW p \in Profiles, Connect(p)
    PROVE  PoolInv'
<1>0. /\ pc[p] = "connect" /\ open' = open + 1 /\ sessions' = Append(sessions, p)
      /\ pc' = Goto(p, "sync")
      /\ UNCHANGED <<outdated, permits, queue, closing, phase>>
  BY DEF Connect
<1>1. /\ pc' \in [Profiles -> Step]
      /\ \A q \in Profiles : pc'[q] = IF q = p THEN "sync" ELSE pc[q]
      /\ Connecting(pc) \in Nat /\ Connecting(pc) > 0 /\ Connecting(pc') = Connecting(pc) - 1
  <2>1. "sync" \in Step
    BY DEF Step
  <2> QED
    BY <2>1, <1>0, GotoFacts, SMT DEF PoolInv
<1>2. /\ sessions' \in Seq(Profiles) /\ IsInjective(sessions')
      /\ Len(sessions') = Len(sessions) + 1
      /\ Range(sessions') = Range(sessions) \cup {p}
  <2>1. p \notin Range(sessions)
    BY <1>0 DEF PoolInv, Cached
  <2>2. sessions \in Seq(Profiles) /\ IsInjective(sessions) /\ sessions' = Append(sessions, p)
    BY <1>0, PoolTypes
  <2> QED
    BY <2>1, <2>2, AppendNew, ZenonT(40)
<1>3. TypeOK' /\ (permits <= MaxOpenConnections)'
  <2>1. open' \in Nat
    BY <1>0, PoolTypes, SMT
  <2>2. (permits <= MaxOpenConnections)'
    BY <1>0, PoolTypes
  <2> QED
    BY <1>0, <1>1, <1>2, <2>1, <2>2, PoolTypes DEF TypeOK
<1>4. PermitsExact'
  <2>1. /\ permits \in Nat /\ open \in Nat /\ closing \in Nat /\ Len(sessions) \in Nat
        /\ permits = open + Connecting(pc) /\ open = Len(sessions) + closing
    BY PoolTypes
  <2>2. permits' = open' + Connecting(pc')
    BY <1>0, <1>1, <2>1, SMT
  <2>3. open' = Len(sessions') + closing'
    BY <1>0, <1>2, <2>1, SMT
  <2> QED
    BY <2>2, <2>3 DEF PermitsExact
<1>5. PollingKept'
  BY <1>0, <1>1, <1>2 DEF PoolInv, PollingKept, Cached
<1>6. (\A q \in Profiles : pc[q] = "wait" <=> q \in Range(queue))'
  BY <1>0, <1>1 DEF PoolInv
<1>7. (\A q \in Profiles : pc[q] \in {"acquire", "evict", "enqueue", "wait", "connect"} => ~Cached(q))'
  BY <1>0, <1>1, <1>2 DEF PoolInv, Cached
<1> QED
  BY <1>3, <1>4, <1>5, <1>6, <1>7 DEF PoolInv

\* The permit of a connection that was not made comes back.
LEMMA ConnectFailedKeeps ==
    ASSUME PoolInv, NEW p \in Profiles, ConnectFailed(p)
    PROVE  PoolInv'
<1>0. /\ pc[p] = "connect" /\ releaseConnSlot(Goto(p, "off"))
      /\ UNCHANGED <<sessions, outdated, open, closing, phase>>
  BY DEF ConnectFailed
<1>1. /\ Goto(p, "off") \in [Profiles -> Step]
      /\ \A q \in Profiles : Goto(p, "off")[q] = IF q = p THEN "off" ELSE pc[q]
      /\ Connecting(pc) \in Nat /\ Connecting(pc) > 0
      /\ Connecting(Goto(p, "off")) = Connecting(pc) - 1
  <2>1. "off" \in Step
    BY DEF Step
  <2> QED
    BY <2>1, <1>0, GotoFacts, SMT DEF PoolInv
<1>2. open \in Nat /\ permits = (open + 1) + Connecting(Goto(p, "off"))
  BY <1>1, PoolTypes, SMT
<1>3. \A q \in Profiles : Goto(p, "off")[q] = "wait" <=> q \in Range(queue)
  BY <1>0, <1>1 DEF PoolInv
<1>4. /\ pc' \in [Profiles -> Step]
      /\ queue' \in Seq(Profiles) /\ IsInjective(queue')
      /\ \A q \in Profiles : pc'[q] = "wait" <=> q \in Range(queue')
      /\ \A q \in Profiles : \/ pc'[q] = Goto(p, "off")[q]
                             \/ Goto(p, "off")[q] = "wait" /\ pc'[q] = "connect"
      /\ permits' \in Nat /\ permits' <= permits
      /\ permits' = open + Connecting(pc')
  BY <1>0, <1>1, <1>2, <1>3, PoolTypes, ReleaseAccounts
<1>5. TypeOK'
  BY <1>0, <1>4, PoolTypes DEF TypeOK
<1>6. PermitsExact' /\ (permits <= MaxOpenConnections)'
  BY <1>0, <1>4, PoolTypes, PoolAssumption, SMT DEF PermitsExact
<1>7. PollingKept'
  BY <1>0, <1>1, <1>4 DEF PoolInv, PollingKept, Cached
<1>8. (\A q \in Profiles : pc[q] \in {"acquire", "evict", "enqueue", "wait", "connect"} => ~Cached(q))'
  BY <1>0, <1>1, <1>4 DEF PoolInv, Cached
<1> QED
  BY <1>4, <1>5, <1>6, <1>7, <1>8 DEF PoolInv

\* A logout ends and its permit comes back.
LEMMA ClosedKeeps ==
    ASSUME PoolInv, Closed
    PROVE  PoolInv'
<1>0. /\ closing > 0 /\ closing' = closing - 1 /\ open' = open - 1 /\ releaseConnSlot(pc)
      /\ UNCHANGED <<sessions, outdated, phase>>
  BY DEF Closed
<1>1. /\ open' \in Nat /\ closing' \in Nat /\ open = open' + 1
      /\ open' = Len(sessions) + closing'
  BY <1>0, PoolTypes, SMT
<1>2. permits = (open' + 1) + Connecting(pc)
  BY <1>1, PoolTypes
<1>3. /\ pc' \in [Profiles -> Step]
      /\ queue' \in Seq(Profiles) /\ IsInjective(queue')
      /\ \A q \in Profiles : pc'[q] = "wait" <=> q \in Range(queue')
      /\ \A q \in Profiles : pc'[q] = pc[q] \/ (pc[q] = "wait" /\ pc'[q] = "connect")
      /\ permits' \in Nat /\ permits' <= permits
      /\ permits' = open' + Connecting(pc')
  <2>1. \A q \in Profiles : pc[q] = "wait" <=> q \in Range(queue)
    BY DEF PoolInv
  <2> QED
    BY <1>0, <1>1, <1>2, <2>1, PoolTypes, ReleaseAccounts
<1>4. TypeOK'
  BY <1>0, <1>1, <1>3, PoolTypes DEF TypeOK
<1>5. PermitsExact' /\ (permits <= MaxOpenConnections)'
  <2>1. permits \in Nat /\ permits <= MaxOpenConnections /\ MaxOpenConnections \in Nat
    BY PoolTypes, PoolAssumption
  <2>2. permits' <= MaxOpenConnections
    BY <1>3, <2>1, SMT
  <2>3. PermitsExact'
    BY <1>0, <1>1, <1>3 DEF PermitsExact
  <2> QED
    BY <2>2, <2>3
<1>6. PollingKept'
  BY <1>0, <1>3 DEF PoolInv, PollingKept, Cached
<1>7. (\A q \in Profiles : pc[q] \in {"acquire", "evict", "enqueue", "wait", "connect"} => ~Cached(q))'
  BY <1>0, <1>3 DEF PoolInv, Cached
<1> QED
  BY <1>3, <1>4, <1>5, <1>6, <1>7 DEF PoolInv

\* A cached session is used again and becomes the most recently used one.
LEMMA ReuseKeeps ==
    ASSUME PoolInv, NEW p \in Profiles, Reuse(p)
    PROVE  PoolInv'
<1>0. /\ pc[p] = "session" /\ p \in Range(sessions)
      /\ sessions' = Append(Without(sessions, p), p) /\ pc' = Goto(p, "sync")
      /\ UNCHANGED <<outdated, permits, queue, open, closing, phase>>
  BY DEF Reuse, touchSession, Cached
<1>1. /\ pc' \in [Profiles -> Step]
      /\ \A q \in Profiles : pc'[q] = IF q = p THEN "sync" ELSE pc[q]
      /\ Connecting(pc') = Connecting(pc)
  <2>1. "sync" \in Step /\ pc[p] # "connect"
    BY <1>0 DEF Step
  <2> QED
    BY <2>1, <1>0, GotoFacts, SMT DEF PoolInv
<1>2. /\ sessions' \in Seq(Profiles) /\ IsInjective(sessions')
      /\ Len(sessions') = Len(sessions) /\ Range(sessions') = Range(sessions)
  <2> DEFINE w == Without(sessions, p)
  <2>1. /\ w \in Seq(Profiles) /\ IsInjective(w)
        /\ Len(w) = Len(sessions) - 1 /\ Range(w) = Range(sessions) \ {p}
    BY <1>0, PoolTypes, WithoutRemoves
  <2>2. sessions' = Append(w, p) /\ p \notin Range(w)
    BY <1>0, <2>1
  <2> HIDE DEF w
  <2>3. /\ Append(w, p) \in Seq(Profiles) /\ IsInjective(Append(w, p))
        /\ Len(Append(w, p)) = Len(w) + 1 /\ Range(Append(w, p)) = Range(w) \cup {p}
    BY <2>1, <2>2, AppendNew, SMT
  <2> QED
    BY <1>0, <2>1, <2>2, <2>3, PoolTypes, SMT
<1>3. TypeOK' /\ PermitsExact' /\ (permits <= MaxOpenConnections)'
  BY <1>0, <1>1, <1>2, PoolTypes DEF TypeOK, PermitsExact
<1>4. PollingKept'
  BY <1>0, <1>1, <1>2 DEF PoolInv, PollingKept, Cached
<1>5. (\A q \in Profiles : pc[q] = "wait" <=> q \in Range(queue))'
  BY <1>0, <1>1 DEF PoolInv
<1>6. (\A q \in Profiles : pc[q] \in {"acquire", "evict", "enqueue", "wait", "connect"} => ~Cached(q))'
  BY <1>0, <1>1, <1>2 DEF PoolInv, Cached
<1> QED
  BY <1>3, <1>4, <1>5, <1>6 DEF PoolInv

\* The cache is emptied: every session in it is now being logged out of.
LEMMA CloseAllKeeps ==
    ASSUME PoolInv, closeAllSessions
    PROVE  PoolInv'
<1>0. /\ phase' = "stopped" /\ sessions' = <<>> /\ outdated' = {}
      /\ closing' = closing + Len(sessions)
      /\ UNCHANGED <<pc, permits, queue, open>>
  BY DEF closeAllSessions, logOut
<1>1. /\ sessions' \in Seq(Profiles) /\ IsInjective(sessions')
      /\ Len(sessions') = 0 /\ Range(sessions') = {}
  BY <1>0, SMT DEF IsInjective, Range
<1>2. TypeOK'
  <2>1. phase' \in Phase
    BY <1>0 DEF Phase
  <2> QED
    BY <1>0, <1>1, <2>1, PoolTypes, SMT DEF TypeOK
<1>3. PermitsExact' /\ (permits <= MaxOpenConnections)'
  BY <1>0, <1>1, PoolTypes, SMT DEF PermitsExact
<1>4. PollingKept'
  BY <1>0 DEF PollingKept
<1>5. (\A q \in Profiles : pc[q] = "wait" <=> q \in Range(queue))'
  BY <1>0 DEF PoolInv
<1>6. (\A q \in Profiles : pc[q] \in {"acquire", "evict", "enqueue", "wait", "connect"} => ~Cached(q))'
  BY <1>1 DEF Cached
<1> QED
  BY <1>2, <1>3, <1>4, <1>5, <1>6 DEF PoolInv

\* The dispatcher, the polls and the idle timer keep the accounting.
LEMMA PollKeeps ==
    ASSUME PoolInv, NEW p \in Profiles, tryStart(p) \/ poll(p) \/ Update(p) \/ closeIdleSession(p)
    PROVE  PoolInv'
<1>0. "off" \in Step \ {"connect", "wait"} /\ "session" \in Step \ {"connect", "wait"}
      /\ "evict" \in Step \ {"connect", "wait"} /\ "enqueue" \in Step \ {"connect", "wait"}
  BY DEF Step
<1>1. CASE tryStart(p)
  BY <1>0, <1>1, MoveKeeps DEF tryStart
<1>2. ASSUME NEW graceful \in BOOLEAN, Unpolled(p, graceful) \/ Drop(p, graceful)
      PROVE  PoolInv'
  BY <1>2, DropKeeps DEF Unpolled, Drop
<1>3. CASE Skipped(p) \/ NoCredentials(p) \/ Complete(p)
  BY <1>0, <1>3, MoveKeeps DEF Skipped, NoCredentials, Complete
<1>4. CASE Reuse(p)
  BY <1>4, ReuseKeeps
<1>5. CASE Reconnect(p)
  <2>1. pc[p] = "session" /\ dropSession(p, p \in outdated, "acquire") /\ UNCHANGED phase
    BY <1>5 DEF Reconnect
  <2>2. (p \in outdated) \in BOOLEAN
    BY SMT
  <2> QED
    BY <2>1, <2>2, DropKeeps
<1>6. CASE acquireConnSlot(p)
  <2>1. CASE FreePermit
    BY <1>6, <2>1, AcquireKeeps DEF acquireConnSlot
  <2>2. CASE ~FreePermit
    <3>1. pc[p] = "acquire" /\ pc' = Goto(p, "evict")
          /\ UNCHANGED <<sessions, outdated, permits, queue, open, closing, phase>>
      BY <1>6, <2>2 DEF acquireConnSlot
    <3>2. ~Cached(p)
      BY <3>1 DEF PoolInv
    <3> QED
      BY <1>0, <3>1, <3>2, MoveKeeps
  <2> QED
    BY <2>1, <2>2
<1>7. CASE evictForCapacity(p)
  <2>1. pc[p] = "evict" /\ pc' = Goto(p, "enqueue") /\ UNCHANGED <<permits, queue, phase>>
    BY <1>7 DEF evictForCapacity
  <2>2. CASE \E n \in DOMAIN sessions :
                /\ Evictable(sessions[n])
                /\ sessions' = Without(sessions, sessions[n])
                /\ outdated' = outdated \ {sessions[n]}
                /\ logOut(1)
    <3>1. PICK n \in DOMAIN sessions :
                /\ Evictable(sessions[n])
                /\ sessions' = Without(sessions, sessions[n])
                /\ outdated' = outdated \ {sessions[n]}
                /\ closing' = closing + 1 /\ open' = open
      BY <2>2 DEF logOut
    <3>2. sessions[n] \in Range(sessions) /\ pc[sessions[n]] = "off"
      <4>1. sessions[n] \in Range(sessions)
        BY DEF Range
      <4>2. sessions[n] \in Profiles
        BY PoolTypes, SMT
      <4> QED
        BY <3>1, <4>1, <4>2 DEF Evictable, running
    <3>3. /\ pc' \in [Profiles -> Step] /\ Connecting(pc') = Connecting(pc)
          /\ \A q \in Profiles : pc'[q] = pc[q] \/ (pc[q] = "evict" /\ pc'[q] = "enqueue")
      <4>1. TypeOK /\ pc[p] # "connect" /\ "enqueue" \in Step
        BY <1>0, <2>1 DEF PoolInv
      <4> QED
        BY <2>1, <4>1, GotoFacts, SMT
    <3> QED
      BY <2>1, <3>1, <3>2, <3>3, CloseIdleKeeps
  <2>3. CASE UNCHANGED <<sessions, outdated, open, closing>>
    <3>1. ~Cached(p)
      BY <2>1 DEF PoolInv
    <3> QED
      BY <1>0, <2>1, <2>3, <3>1, MoveKeeps
  <2> QED
    BY <1>7, <2>2, <2>3 DEF evictForCapacity
<1>8. CASE Enqueue(p)
  <2>1. CASE FreePermit
    BY <1>8, <2>1, AcquireKeeps DEF Enqueue
  <2>2. CASE ~FreePermit
    BY <1>8, <2>2, WaitKeeps
  <2> QED
    BY <2>1, <2>2
<1>9. CASE GiveUp(p) \/ Connect(p) \/ ConnectFailed(p)
  BY <1>9, GiveUpKeeps, ConnectKeeps, ConnectFailedKeeps
<1>10. CASE Update(p)
  BY <1>10 DEF Update, PoolInv, TypeOK, PermitsExact, PollingKept, Cached
<1>11. CASE closeIdleSession(p)
  <2>1. /\ p \in Range(sessions) /\ pc[p] = "off"
        /\ sessions' = Without(sessions, p) /\ outdated' = outdated \ {p}
        /\ closing' = closing + 1 /\ UNCHANGED <<permits, queue, open, phase>> /\ pc' = pc
    BY <1>11 DEF closeIdleSession, Cached, running, logOut
  <2> QED
    BY <2>1, PoolTypes, CloseIdleKeeps
<1> QED
  BY <1>1, <1>2, <1>3, <1>4, <1>5, <1>6, <1>7, <1>8, <1>9, <1>10, <1>11 DEF poll

LEMMA PoolStep ==
    ASSUME PoolInv, [Next]_vars
    PROVE  PoolInv'
<1>1. CASE \E p \in Profiles : tryStart(p) \/ poll(p) \/ Update(p) \/ closeIdleSession(p)
  BY <1>1, PollKeeps
<1>2. CASE Closed \/ closeAllSessions
  BY <1>2, ClosedKeeps, CloseAllKeeps
<1>3. CASE stop \/ interrupt
  <2>1. "draining" \in Phase /\ "interrupted" \in Phase
    BY DEF Phase
  <2>2. /\ UNCHANGED <<pc, sessions, outdated, permits, queue, open, closing>>
        /\ phase # "stopped" /\ phase' \in Phase
    BY <1>3, <2>1 DEF stop, interrupt
  <2> QED
    BY <2>2 DEF PoolInv, TypeOK, PermitsExact, PollingKept, Cached
<1>4. CASE UNCHANGED vars
  BY <1>4 DEF vars, PoolInv, TypeOK, PermitsExact, PollingKept, Cached
<1> QED
  BY <1>1, <1>2, <1>3, <1>4 DEF Next

LEMMA PoolInit ==
    ASSUME Init
    PROVE  PoolInv
<1>1. /\ sessions = <<>> /\ queue = <<>> /\ Len(sessions) = 0
      /\ sessions \in Seq(Profiles) /\ queue \in Seq(Profiles)
      /\ IsInjective(sessions) /\ IsInjective(queue)
      /\ Range(sessions) = {} /\ Range(queue) = {}
  BY SMT DEF Init, IsInjective, Range
<1>2. /\ pc \in [Profiles -> Step] /\ \A p \in Profiles : pc[p] = "off"
      /\ phase \in Phase /\ outdated = {}
  BY DEF Init, Step, Phase
<1>3. Connecting(pc) = 0
  <2>1. {p \in Profiles : pc[p] = "connect"} = {}
    BY <1>2
  <2> QED
    BY <2>1, FS_EmptySet DEF Connecting
<1>4. permits = 0 /\ open = 0 /\ closing = 0
  BY DEF Init
<1>5. TypeOK
  BY <1>1, <1>2, <1>4 DEF TypeOK
<1>6. PermitsExact /\ permits <= MaxOpenConnections
  BY <1>1, <1>3, <1>4, PoolAssumption, SMT DEF PermitsExact
<1> QED
  BY <1>1, <1>2, <1>5, <1>6 DEF PoolInv, PollingKept, Cached
-----------------------------------------------------------------------------
(* The polls never all wait.                                               *)

\* A step other than a start keeps GridInv when afterwards a connection is being closed, a
\* permit is free, a poll is on its way, a poll has ended, or nothing that matters changed.
LEMMA GridKept ==
    ASSUME GridInv, running' \subseteq running,
           queue' # <<>> => ~FreePermit',
           closing \in Nat, closing' \in Nat,
           \/ closing' > 0
           \/ FreePermit'
           \/ \E q \in running' : pc'[q] \notin {"enqueue", "wait"}
           \/ running' # running
           \/ /\ closing' = closing /\ permits' = permits
              /\ \A q \in running' : pc'[q] \in {"enqueue", "wait"} => pc[q] \in {"enqueue", "wait"}
    PROVE  GridInv'
<1>1. /\ IsFiniteSet(running) /\ Cardinality(running) \in Nat /\ Cardinality(running') \in Nat
      /\ Cardinality(running') <= Cardinality(running)
      /\ Cardinality(running') = Cardinality(running) => running' = running
  <2>1. running \subseteq Profiles
    BY DEF running
  <2>2. IsFiniteSet(running)
    BY <2>1, PoolAssumption, FS_Subset
  <2> QED
    BY <2>2, FS_Subset, FS_CardinalityType
<1>2. Cardinality(running') <= MaxConcurrency
  BY <1>1, PoolAssumption, SMT DEF GridInv
<1>3. ASSUME Cardinality(running') = MaxConcurrency,
             \A q \in running' : pc'[q] \in {"enqueue", "wait"}
      PROVE  closing' > 0 \/ FreePermit'
  <2>1. running' = running
    <3>1. Cardinality(running') = Cardinality(running)
      BY <1>1, <1>3, PoolAssumption, SMT DEF GridInv
    <3> QED
      BY <1>1, <3>1
  <2>2. CASE closing' = closing /\ permits' = permits
             /\ \A q \in running' : pc'[q] \in {"enqueue", "wait"} => pc[q] \in {"enqueue", "wait"}
    <3>1. Cardinality(running) = MaxConcurrency /\ \A q \in running : pc[q] \in {"enqueue", "wait"}
      BY <1>3, <2>1, <2>2
    <3> QED
      BY <2>2, <3>1 DEF GridInv, FreePermit
  <2> QED
    BY <1>3, <2>1, <2>2
<1> QED
  BY <1>2, <1>3 DEF GridInv

\* A permit given back: it is free, or the poll that heads the queue connects with it.
LEMMA ReleaseFrees ==
    ASSUME PoolInv, GridInv, NEW f \in [Profiles -> Step], releaseConnSlot(f),
           \A p \in Profiles : f[p] = "wait" <=> p \in Range(queue)
    PROVE  /\ queue' # <<>> => ~FreePermit'
           /\ pc' \in [Profiles -> Step]
           /\ \A p \in Profiles : pc'[p] = f[p] \/ (f[p] = "wait" /\ pc'[p] = "connect")
           /\ FreePermit' \/ \E h \in Profiles : pc'[h] = "connect"
<1>1. CASE queue = <<>>
  <2>1. permits' = permits - 1 /\ pc' = f /\ queue' = queue
    BY <1>1 DEF releaseConnSlot
  <2>2. FreePermit'
    BY <2>1, PoolTypes, PoolAssumption, SMT DEF FreePermit
  <2> QED
    BY <1>1, <2>1, <2>2
<1>2. CASE queue # <<>>
  <2>1. pc' = [f EXCEPT ![Head(queue)] = "connect"] /\ permits' = permits
    BY <1>2 DEF releaseConnSlot
  <2>2. Head(queue) \in Profiles /\ Head(queue) \in Range(queue) /\ "connect" \in Step
    <3>1. queue \in Seq(Profiles) /\ IsInjective(queue)
      BY PoolTypes
    <3>2. Head(queue) \in Profiles
      BY <1>2, <3>1, SMT
    <3> QED
      BY <1>2, <3>1, <3>2, TailRemoves DEF Step
  <2>3. ~FreePermit /\ ~FreePermit'
    BY <1>2, <2>1 DEF GridInv, FreePermit
  <2>4. \A p \in Profiles : pc'[p] = IF p = Head(queue) THEN "connect" ELSE f[p]
    BY <2>1, <2>2
  <2>5. pc' \in [Profiles -> Step]
    BY <2>1, <2>2
  <2> QED
    BY <2>2, <2>3, <2>4, <2>5
<1> QED
  BY <1>1, <1>2

\* Goto under the invariant of the pool.
LEMMA GotoMoves ==
    ASSUME PoolInv, NEW p \in Profiles
    PROVE  \A x \in Step : /\ Goto(p, x) \in [Profiles -> Step]
                           /\ Goto(p, x)[p] = x
                           /\ \A q \in Profiles : q # p => Goto(p, x)[q] = pc[q]
<1>1. pc \in [Profiles -> Step]
  BY DEF PoolInv, TypeOK
<1> QED
  BY <1>1 DEF Goto

\* The steps of a poll.
LEMMA StepNames == {"off", "session", "acquire", "evict", "enqueue", "wait", "connect", "sync"} \subseteq Step
  BY DEF Step

\* A poll that ends, or that goes on to a step where it does not wait.
LEMMA GridMove ==
    ASSUME PoolInv, GridInv, PoolInv', NEW p \in running, NEW f,
           f \in [Profiles -> Step], f[p] \notin {"enqueue", "wait"},
           \A q \in Profiles : q # p => f[q] = pc[q],
           \A q \in Profiles : pc'[q] = f[q] \/ (f[q] = "wait" /\ pc'[q] = "connect"),
           queue' # <<>> => ~FreePermit'
    PROVE  GridInv'
<1>1. p \in Profiles /\ pc'[p] = f[p]
  BY DEF running
<1>2. running' \subseteq running
  <2> SUFFICES ASSUME NEW q \in Profiles, pc'[q] # "off" PROVE pc[q] # "off"
    BY DEF running
  <2>1. CASE q = p
    BY <2>1 DEF running
  <2>2. CASE q # p
    BY <2>2
  <2> QED
    BY <2>1, <2>2
<1>3. running' # running \/ \E q \in running' : pc'[q] \notin {"enqueue", "wait"}
  BY <1>1 DEF running
<1>4. closing \in Nat /\ closing' \in Nat
  BY DEF PoolInv, TypeOK
<1> QED
  BY <1>2, <1>3, <1>4, GridKept
\* dropSession ends a poll's use of its session, whichever way the session goes.
LEMMA GridDrop ==
    ASSUME PoolInv, GridInv, PoolInv', NEW p \in Profiles, NEW graceful \in BOOLEAN,
           NEW x \in {"off", "acquire"}, pc[p] \in {"session", "sync"},
           dropSession(p, graceful, x)
    PROVE  GridInv'
<1>1. p \in running
  BY DEF running
<1>2. x \in Step /\ x # "wait" /\ x # "enqueue"
  BY StepNames
<1>3. /\ Goto(p, x) \in [Profiles -> Step] /\ Goto(p, x)[p] = x
      /\ \A q \in Profiles : q # p => Goto(p, x)[q] = pc[q]
  BY <1>2, GotoMoves
<1>4. /\ \A q \in Profiles :
            \/ pc'[q] = Goto(p, x)[q]
            \/ Goto(p, x)[q] = "wait" /\ pc'[q] = "connect"
      /\ queue' # <<>> => ~FreePermit'
  <2>1. CASE pc' = Goto(p, x) /\ UNCHANGED <<permits, queue>>
    BY <2>1 DEF GridInv, FreePermit
  <2>2. CASE releaseConnSlot(Goto(p, x))
    <3>1. \A q \in Profiles : Goto(p, x)[q] = "wait" <=> q \in Range(queue)
      BY <1>2, <1>3 DEF PoolInv
    <3> QED
      BY <1>3, <2>2, <3>1, ReleaseFrees
  <2> QED
    BY <2>1, <2>2 DEF dropSession, abort
<1> QED
  BY <1>1, <1>2, <1>3, <1>4, GridMove

\* The last poll to look for a session to evict finds one no poll is using, or a connection
\* is being closed, or nothing is open and a permit is free.
LEMMA GridEvict ==
    ASSUME PoolInv, GridInv, PoolInv', NEW p \in Profiles, evictForCapacity(p)
    PROVE  GridInv'
<1>1. /\ pc[p] = "evict" /\ pc' = Goto(p, "enqueue") /\ UNCHANGED <<permits, queue, phase>>
      /\ closing \in Nat /\ closing' \in Nat
  BY DEF evictForCapacity, PoolInv, TypeOK
<1>2. pc'[p] = "enqueue" /\ \A q \in Profiles : q # p => pc'[q] = pc[q]
  <2>1. "enqueue" \in Step
    BY StepNames
  <2> QED
    BY <1>1, <2>1, GotoMoves
<1>3. running' \subseteq running /\ (queue' # <<>> => ~FreePermit')
  BY <1>1, <1>2 DEF running, GridInv, FreePermit
<1>4. ASSUME closing' = 0, ~FreePermit', \A q \in running' : pc'[q] \in {"enqueue", "wait"}
      PROVE  FALSE
  <2>1. /\ \A q \in Range(sessions) : ~Evictable(q)
        /\ UNCHANGED <<sessions, closing>>
    <3>1. closing' # closing + 1
      BY <1>1, <1>4, SMT
    <3> QED
      BY <3>1 DEF evictForCapacity, logOut
  <2>2. ASSUME NEW q \in Profiles
        PROVE  pc[q] \in {"off", "evict", "enqueue", "wait"}
    <3>1. CASE q = p
      BY <1>1, <3>1
    <3>2. CASE q # p /\ pc[q] # "off"
      BY <1>2, <1>4, <3>2 DEF running
    <3> QED
      BY <3>1, <3>2
  <2>3. Range(sessions) = {}
    <3>1. sessions \in Seq(Profiles)
      BY PoolTypes
    <3>2. Range(sessions) \subseteq Profiles
      BY <3>1, SMT DEF Range
    <3> QED
      BY <2>1, <2>2, <3>2 DEF Evictable, running, PoolInv, Cached
  <2>4. Len(sessions) = 0
    <3>1. sessions \in Seq(Profiles) /\ Len(sessions) \in Nat
      BY PoolTypes
    <3>2. ASSUME Len(sessions) > 0
          PROVE  FALSE
      <4>1. 1 \in DOMAIN sessions
        BY <3>1, <3>2, SMT
      <4> QED
        BY <2>3, <4>1 DEF Range
    <3> QED
      BY <3>1, <3>2, SMT
  <2>5. Connecting(pc) = 0
    <3>1. {q \in Profiles : pc[q] = "connect"} = {}
      BY <2>2
    <3> QED
      BY <3>1, FS_EmptySet DEF Connecting
  <2>6. permits = 0
    BY <1>4, <2>1, <2>4, <2>5, PoolTypes, SMT
  <2> QED
    BY <1>1, <1>4, <2>6, PoolAssumption, SMT DEF FreePermit
<1>5. closing' > 0 \/ closing' = 0
  BY <1>1, SMT
<1> QED
  BY <1>1, <1>3, <1>4, <1>5, GridKept

\* The steps that give a permit back or take one.
LEMMA GridConnect ==
    ASSUME PoolInv, GridInv, PoolInv', NEW p \in Profiles,
           \/ acquireConnSlot(p) \/ Enqueue(p) \/ GiveUp(p) \/ Connect(p) \/ ConnectFailed(p)
    PROVE  GridInv'
<1>0. p \in running
  BY DEF running, acquireConnSlot, Enqueue, GiveUp, Connect, ConnectFailed
<1>1. \A x \in Step : /\ Goto(p, x) \in [Profiles -> Step]
                      /\ Goto(p, x)[p] = x
                      /\ \A q \in Profiles : q # p => Goto(p, x)[q] = pc[q]
  BY GotoMoves
<1>2. {"connect", "evict", "off", "sync", "wait"} \subseteq Step
  BY DEF Step
<1>3. CASE FreePermit /\ permits' = permits + 1 /\ queue' = queue /\ pc' = Goto(p, "connect")
  <2>1. queue' = <<>>
    BY <1>3 DEF GridInv
  <2> QED
    BY <1>0, <1>1, <1>2, <1>3, <2>1, GridMove
<1>4. CASE ~FreePermit /\ permits' = permits /\ queue' = queue /\ pc' = Goto(p, "evict")
  BY <1>0, <1>1, <1>2, <1>4, GridMove DEF FreePermit
<1>5. CASE Enqueue(p) /\ ~FreePermit
  <2>1. /\ pc[p] = "enqueue" /\ pc' = Goto(p, "wait")
        /\ permits' = permits /\ closing' = closing
    BY <1>5 DEF Enqueue
  <2>2. \A q \in Profiles : pc'[q] = IF q = p THEN "wait" ELSE pc[q]
    BY <2>1, <1>1, <1>2
  <2>3. running' = running /\ ~FreePermit'
    BY <1>5, <2>1, <2>2 DEF running, FreePermit
  <2>4. \A q \in running' : pc'[q] \in {"enqueue", "wait"} => pc[q] \in {"enqueue", "wait"}
    BY <2>1, <2>2 DEF running
  <2> QED
    BY <2>1, <2>3, <2>4, PoolTypes, GridKept
<1>6. CASE GiveUp(p)
  <2>1. pc' = Goto(p, "off") /\ permits' = permits /\ queue' = Without(queue, p)
    BY <1>6 DEF GiveUp
  <2>2. queue' # <<>> => queue # <<>>
    <3> SUFFICES ASSUME queue = <<>> PROVE queue' = <<>>
      OBVIOUS
    <3>1. p \notin Range(queue)
      BY SMT DEF Range
    <3> QED
      BY <2>1, <3>1 DEF Without
  <2> QED
    BY <1>0, <1>1, <1>2, <2>1, <2>2, GridMove DEF GridInv, FreePermit
<1>7. CASE Connect(p)
  <2>1. pc' = Goto(p, "sync") /\ permits' = permits /\ queue' = queue
    BY <1>7 DEF Connect
  <2> QED
    BY <1>0, <1>1, <1>2, <2>1, GridMove DEF GridInv, FreePermit
<1>8. CASE ConnectFailed(p)
  <2>1. releaseConnSlot(Goto(p, "off")) /\ pc[p] = "connect"
    BY <1>8 DEF ConnectFailed
  <2>2. \A q \in Profiles : Goto(p, "off")[q] = "wait" <=> q \in Range(queue)
    BY <1>1, <1>2, <2>1 DEF PoolInv
  <2>3. /\ queue' # <<>> => ~FreePermit'
        /\ \A q \in Profiles : \/ pc'[q] = Goto(p, "off")[q]
                               \/ Goto(p, "off")[q] = "wait" /\ pc'[q] = "connect"
    BY <1>1, <1>2, <2>1, <2>2, ReleaseFrees
  <2>4. Goto(p, "off") \in [Profiles -> Step] /\ Goto(p, "off")[p] \notin {"enqueue", "wait"}
    BY <1>1, <1>2
  <2>5. \A q \in Profiles : q # p => Goto(p, "off")[q] = pc[q]
    BY <1>1, <1>2
  <2> QED
    BY <1>0, <2>3, <2>4, <2>5, GridMove
<1> QED
  BY <1>3, <1>4, <1>5, <1>6, <1>7, <1>8 DEF acquireConnSlot, Enqueue

\* Every step keeps GridInv.
LEMMA GridStep ==
    ASSUME PoolInv, GridInv, PoolInv', [Next]_vars
    PROVE  GridInv'
<1>0. closing \in Nat /\ closing' \in Nat /\ pc \in [Profiles -> Step]
  BY DEF PoolInv, TypeOK
<1>1. ASSUME NEW p \in Profiles, tryStart(p)
      PROVE  GridInv'
  <2>1. /\ pc[p] = "off" /\ Cardinality(running) < MaxConcurrency
        /\ pc' = Goto(p, "session") /\ permits' = permits /\ queue' = queue
    BY <1>1 DEF tryStart
  <2>2. pc'[p] = "session" /\ \A q \in Profiles : q # p => pc'[q] = pc[q]
    <3>1. "session" \in Step
      BY StepNames
    <3> QED
      BY <2>1, <3>1, GotoMoves
  <2>3. running' = running \cup {p} /\ p \notin running
    BY <2>1, <2>2 DEF running
  <2>4. IsFiniteSet(running) /\ Cardinality(running) \in Nat
    <3>1. running \subseteq Profiles
      BY DEF running
    <3> QED
      BY <3>1, PoolAssumption, FS_Subset, FS_CardinalityType
  <2>5. Cardinality(running') = Cardinality(running) + 1
    BY <2>3, <2>4, FS_AddElement
  <2>6. Cardinality(running') <= MaxConcurrency
    BY <2>1, <2>4, <2>5, PoolAssumption, SMT
  <2>7. p \in running' /\ pc'[p] = "session"
    BY <2>2, <2>3
  <2> QED
    BY <2>1, <2>6, <2>7 DEF GridInv, FreePermit
<1>2. ASSUME NEW p \in Profiles, poll(p)
      PROVE  GridInv'
  <2>1. CASE \E graceful \in BOOLEAN : Unpolled(p, graceful) \/ Drop(p, graceful)
    BY <2>1, GridDrop DEF Unpolled, Drop
  <2>2. CASE Reconnect(p)
    <3>1. (p \in outdated) \in BOOLEAN
      BY SMT
    <3> QED
      BY <2>2, <3>1, GridDrop DEF Reconnect
  <2>3. CASE Skipped(p) \/ NoCredentials(p) \/ Complete(p) \/ Reuse(p)
    <3>1. PICK x \in {"off", "sync"} : pc' = Goto(p, x)
      BY <2>3 DEF Skipped, NoCredentials, Complete, Reuse
    <3>2. p \in running /\ permits' = permits /\ queue' = queue
      BY <2>3 DEF Skipped, NoCredentials, Complete, Reuse, running
    <3>3. /\ Goto(p, x) \in [Profiles -> Step]
          /\ Goto(p, x)[p] = x
          /\ \A q \in Profiles : q # p => Goto(p, x)[q] = pc[q]
      <4>1. x \in Step
        BY StepNames
      <4> QED
        BY <4>1, GotoMoves
    <3>4. queue' # <<>> => ~FreePermit'
      BY <3>2 DEF GridInv, FreePermit
    <3> QED
      BY <3>1, <3>2, <3>3, <3>4, GridMove
  <2>4. CASE evictForCapacity(p)
    BY <2>4, GridEvict
  <2>5. CASE acquireConnSlot(p) \/ Enqueue(p) \/ GiveUp(p) \/ Connect(p) \/ ConnectFailed(p)
    BY <2>5, GridConnect
  <2> QED
    BY <1>2, <2>1, <2>2, <2>3, <2>4, <2>5 DEF poll
<1>3. CASE Closed
  <2>1. releaseConnSlot(pc)
    BY <1>3 DEF Closed
  <2>2. /\ queue' # <<>> => ~FreePermit'
        /\ \A q \in Profiles : pc'[q] = pc[q] \/ (pc[q] = "wait" /\ pc'[q] = "connect")
        /\ FreePermit' \/ \E h \in Profiles : pc'[h] = "connect"
    BY <1>0, <2>1, ReleaseFrees DEF PoolInv
  <2>3. running' \subseteq running
    BY <2>2 DEF running
  <2>4. FreePermit' \/ \E h \in running' : pc'[h] \notin {"enqueue", "wait"}
    BY <2>2 DEF running
  <2> QED
    BY <1>0, <2>2, <2>3, <2>4, GridKept
<1>4. ASSUME pc' = pc, permits' = permits, queue' = queue, NEW n \in Nat, closing' = closing + n
      PROVE  GridInv'
  <2>1. running' = running /\ FreePermit' = FreePermit
    BY <1>4 DEF running, FreePermit
  <2>2. closing' > 0 \/ closing' = closing
    BY <1>0, <1>4, SMT
  <2>3. queue' # <<>> => ~FreePermit'
    BY <1>4, <2>1 DEF GridInv
  <2> QED
    BY <1>0, <1>4, <2>1, <2>2, <2>3, GridKept
<1>5. CASE \E p \in Profiles : Update(p) \/ closeIdleSession(p)
  <2>1. closing + 0 = closing /\ 0 \in Nat /\ 1 \in Nat
    BY <1>0, SMT
  <2> QED
    BY <1>4, <1>5, <2>1 DEF Update, closeIdleSession, logOut
<1>6. CASE stop \/ interrupt \/ closeAllSessions \/ UNCHANGED vars
  <2>1. closing + 0 = closing /\ 0 \in Nat /\ Len(sessions) \in Nat
    BY <1>0, PoolTypes, SMT
  <2> QED
    BY <1>4, <1>6, <2>1 DEF stop, interrupt, closeAllSessions, logOut, vars
<1> QED
  BY <1>1, <1>2, <1>3, <1>5, <1>6 DEF Next

LEMMA GridInit ==
    ASSUME Init
    PROVE  GridInv
<1>1. running = {} /\ queue = <<>>
  BY DEF Init, running
<1>2. Cardinality(running) = 0
  BY <1>1, FS_EmptySet
<1> QED
  BY <1>1, <1>2, PoolAssumption, SMT DEF GridInv

\* All polls waiting means the last one has looked, so a connection is being closed: a
\* permit cannot be free while a poll is in the queue.
LEMMA GridWaits ==
    ASSUME PoolInv, GridInv
    PROVE  NoGridlock
<1> DEFINE waiting == {p \in Profiles : pc[p] = "wait"}
<1> SUFFICES ASSUME Cardinality(waiting) = MaxConcurrency, closing = 0 PROVE FALSE
  BY DEF NoGridlock
<1>1. /\ waiting \subseteq running /\ IsFiniteSet(running) /\ IsFiniteSet(waiting)
      /\ Cardinality(running) \in Nat
  <2>1. waiting \subseteq running /\ running \subseteq Profiles
    BY DEF running
  <2> QED
    BY <2>1, PoolAssumption, FS_Subset, FS_CardinalityType
<1>2. Cardinality(waiting) <= Cardinality(running)
      /\ (Cardinality(running) = Cardinality(waiting) => running = waiting)
  BY <1>1, FS_Subset
<1>3. Cardinality(running) = MaxConcurrency /\ running = waiting
  <2>1. Cardinality(running) = MaxConcurrency
    BY <1>1, <1>2, PoolAssumption, SMT DEF GridInv
  <2> QED
    BY <1>2, <2>1
<1>4. FreePermit
  <2>1. ~(closing > 0)
    BY SMT
  <2> QED
    BY <1>3, <2>1 DEF GridInv
<1>5. PICK p \in waiting : TRUE
  <2>1. waiting # {}
    BY <1>1, FS_EmptySet, PoolAssumption, SMT
  <2> QED
    BY <2>1
<1>6. queue # <<>>
  <2>1. p \in Range(queue)
    BY DEF PoolInv
  <2> QED
    BY <2>1, SMT DEF Range
<1> QED
  BY <1>4, <1>6 DEF GridInv
-----------------------------------------------------------------------------
(* The theorems.                                                           *)

\* The permits, the cache, the queue of connSlots and the goroutines that log out agree
\* after every step of every poll, for any number of profiles and any limits that
\* IMAPPollingConfig.validate accepts (worker.go:118-238, scheduler.go:38-47).
THEOREM PoolInvariant == Spec => []PoolInv
<1>1. Init => PoolInv
  BY PoolInit
<1>2. PoolInv /\ [Next]_vars => PoolInv'
  BY PoolStep
<1> QED
  BY <1>1, <1>2, PTL DEF Spec

\* A permit is held for a connection's whole life: none is lost by a failed connection,
\* an eviction or a shutdown, and none is given back twice (scheduler.go:40-41).
THEOREM PermitsAccounted == Spec => []PermitsExact
<1>1. PoolInv => PermitsExact
  BY DEF PoolInv
<1> QED
  BY <1>1, PoolInvariant, PTL

\* The mail servers never see more than MaxOpenConnections connections of this instance,
\* the ones being logged out of and the ones being made included (worker.go:144-145).
THEOREM OpenConnectionsBounded == Spec => []ConnectionsBounded
<1>1. PoolInv => ConnectionsBounded
  <2> SUFFICES ASSUME PoolInv PROVE ConnectionsBounded
    OBVIOUS
  <2>1. Connecting(pc) \in Nat
    BY PoolAssumption, FS_Subset, FS_CardinalityType DEF Connecting
  <2> QED
    BY <2>1, PoolTypes, PoolAssumption, SMT DEF ConnectionsBounded
<1> QED
  BY <1>1, PoolInvariant, PTL

\* A session whose poll is running is in the cache until the scheduler has stopped:
\* evictForCapacity, closeIdleSessions and the drop of another profile's session leave
\* it alone (worker.go:167-168).
THEOREM PollingSessionKept == Spec => []PollingKept
<1>1. PoolInv => PollingKept
  BY DEF PoolInv
<1> QED
  BY <1>1, PoolInvariant, PTL

\* The polls never all wait for a permit that no connection on its way out would give back,
\* for any limits: every poll that waits has first evicted an idle session if there was
\* one, and the last of MaxConcurrency polls to look finds no session in use
\* (worker.go:146-201).
THEOREM PollsNeverAllWait == Spec => []NoGridlock
<1>1. Init => GridInv
  BY GridInit
<1>2. PoolInv /\ PoolInv' /\ GridInv /\ [Next]_vars => GridInv'
  BY GridStep
<1>3. PoolInv /\ GridInv => NoGridlock
  BY GridWaits
<1> QED
  BY <1>1, <1>2, <1>3, PoolInvariant, PTL DEF Spec
=============================================================================
