------------------------- MODULE OutboxRelayProofs --------------------------
(***************************************************************************)
(* The theorems about OutboxRelay, for any number of instances and events, *)
(* any lease of at least two publishes, and any number of faults: no step  *)
(* takes a row, a countdown or a backoff out of its range, the lease       *)
(* invariant RelayInv is inductive beside the types, and the relay         *)
(* implements Outbox.                                                      *)
(***************************************************************************)
EXTENDS OutboxRelay, TLAPS

USE ConfigAssumption, ModelAssumption

-----------------------------------------------------------------------------
(* Types.                                                                  *)

\* The countdowns that have run out.
LEMMA Bottoms ==
    /\ -1 \in -1 .. LeaseDuration
    /\ 0 \in 0 .. MaxPublish /\ 0 \in 0 .. RetryMax
OBVIOUS

\* A fault is one of the MaxFaults.
LEMMA FaultType ==
    ASSUME faults \in 0 .. MaxFaults, faults' = faults \/ SpendFault
    PROVE  faults' \in 0 .. MaxFaults
BY DEF SpendFault

\* pause() keeps the backoff between zero and outbox.retry_max_interval.
LEMMA GrowType ==
    ASSUME NEW b \in 0 .. RetryMax
    PROVE  Grow(b) \in 0 .. RetryMax
BY DEF Grow

LEMMA PauseType ==
    ASSUME TypeOK, NEW r \in Instances
    PROVE  /\ Pause(r) \in 0 .. RetryMax
           /\ Backoff(r) \in [Instances -> 0 .. RetryMax]
<1>1. backoff[r] \in 0 .. RetryMax
  BY DEF TypeOK
<1>2. Grow(backoff[r]) \in 0 .. RetryMax
  BY <1>1, GrowType
<1>. QED  BY <1>1, <1>2 DEF Pause, Backoff, TypeOK

\* A database call spends at most one fault.
LEMMA CallType ==
    ASSUME TypeOK, NEW r \in Instances, NEW o \in Outcome, Call(r, o)
    PROVE  faults' \in 0 .. MaxFaults
BY DEF TypeOK, Call, SpendFault

LEMMA FreeRowsType ==
    ASSUME TypeOK, NEW S, FreeRows(S)
    PROVE  /\ state' \in [Events -> RowState]
           /\ lockedBy' \in [Events -> Instances \cup {NoInstance}]
           /\ lease' \in [Events -> -1 .. LeaseDuration]
           /\ orphaned' \in SUBSET Events
BY DEF TypeOK, FreeRows, RowState

LEMMA SettleType ==
    ASSUME TypeOK, NEW r \in Instances, NEW e \in Events, NEW o \in Outcome,
           NEW final \in {"published", "failed"}, Settle(r, e, final, o)
    PROVE  TypeOK'
<1>1. faults' \in 0 .. MaxFaults
  BY CallType DEF Settle
<1>2. /\ state' \in [Events -> RowState]
      /\ lockedBy' \in [Events -> Instances \cup {NoInstance}]
      /\ lease' \in [Events -> -1 .. LeaseDuration]
  BY DEF Settle, TypeOK, RowState
<1>. /\ Pause(r) \in 0 .. RetryMax
     /\ Backoff(r) \in [Instances -> 0 .. RetryMax]
  BY PauseType
<1>3. recovered' \in [Instances -> BOOLEAN]
  BY Zenon DEF Settle, TypeOK
<1>4. /\ pc' \in [Instances -> Step]
      /\ batch' \in [Instances -> SUBSET Events]
      /\ current' \in [Instances -> Events \cup {NoEvent}]
  BY DEF Settle, TypeOK, Step
<1>5. backoff' \in [Instances -> 0 .. RetryMax]
  BY DEF Settle, TypeOK
<1>6. delay' \in [Instances -> 0 .. RetryMax]
  BY DEF Settle, TypeOK
<1>. QED  BY <1>1, <1>2, <1>3, <1>4, <1>5, <1>6 DEF Settle, TypeOK, envVars

LEMMA InitType == Init => TypeOK
BY DEF Init, TypeOK, RowState, Step

\* Every statement of the relay keeps the table and the fields of the term in
\* their types; in particular no countdown and no backoff leaves its range.
LEMMA LoopType ==
    ASSUME TypeOK, RelayInv, NEW r \in Instances, NEW o \in Outcome, Loop(r, o)
    PROVE  TypeOK'
<1>. /\ Pause(r) \in 0 .. RetryMax
     /\ Backoff(r) \in [Instances -> 0 .. RetryMax]
  BY PauseType
<1>1. CASE RecoverLeases(r, o)
  <2>1. faults' \in 0 .. MaxFaults
    BY <1>1, CallType DEF RecoverLeases
  <2>2. /\ state' \in [Events -> RowState]
        /\ lockedBy' \in [Events -> Instances \cup {NoInstance}]
        /\ lease' \in [Events -> -1 .. LeaseDuration]
        /\ orphaned' \in SUBSET Events
    BY <1>1, FreeRowsType DEF RecoverLeases
  <2>3. recovered' \in [Instances -> BOOLEAN]
    BY <1>1, Zenon DEF RecoverLeases, TypeOK
  <2>4. /\ pc' \in [Instances -> Step]
        /\ backoff' \in [Instances -> 0 .. RetryMax]
        /\ deadline' \in [Instances -> -1 .. LeaseDuration]
    BY <1>1 DEF RecoverLeases, StartClaim, PauseCycle, TypeOK, Step
  <2>. QED  BY <1>1, <2>1, <2>2, <2>3, <2>4 DEF RecoverLeases, TypeOK, envVars
<1>2. CASE DeclareTopology(r, o)
  <2>1. faults' \in 0 .. MaxFaults
    BY <1>2, CallType DEF DeclareTopology
  <2>2. declared' \in [Instances -> BOOLEAN]
    BY <1>2, Zenon DEF DeclareTopology, TypeOK
  <2>3. /\ pc' \in [Instances -> Step]
        /\ backoff' \in [Instances -> 0 .. RetryMax]
        /\ deadline' \in [Instances -> -1 .. LeaseDuration]
    <3>1. pc' \in [Instances -> Step]
      BY <1>2 DEF DeclareTopology, StartClaim, PauseCycle, TypeOK, Step
    <3>2. backoff' \in [Instances -> 0 .. RetryMax]
      BY <1>2 DEF DeclareTopology, StartClaim, PauseCycle, TypeOK
    <3>3. deadline' \in [Instances -> -1 .. LeaseDuration]
      BY <1>2 DEF DeclareTopology, StartClaim, PauseCycle, TypeOK
    <3>. QED  BY <3>1, <3>2, <3>3, Zenon
  <2>. QED  BY <1>2, <2>1, <2>2, <2>3 DEF DeclareTopology, TypeOK, rowVars, envVars
<1>3. CASE Claim(r, o)
  <2>1. faults' \in 0 .. MaxFaults
    BY <1>3, CallType DEF Claim
  <2>2. PICK S \in IF o = "failed" THEN {{}} ELSE Claimable : Claim(r, o)!3!(S)
    BY <1>3 DEF Claim
  <2>3. S \subseteq Events
    BY <2>2 DEF Claimable, Due
  <2>4. /\ state' \in [Events -> RowState]
        /\ lockedBy' \in [Events -> Instances \cup {NoInstance}]
        /\ lease' \in [Events -> -1 .. LeaseDuration]
    BY <2>2 DEF TypeOK, RowState
  <2>5. /\ batch' \in [Instances -> SUBSET Events]
        /\ pc' \in [Instances -> Step]
        /\ backoff' \in [Instances -> 0 .. RetryMax]
        /\ deadline' \in [Instances -> -1 .. LeaseDuration]
        /\ orphaned' \in SUBSET Events
    BY <2>2, <2>3, SMTT(30) DEF PauseCycle, TypeOK, Step
  <2>. QED  BY <1>3, <2>1, <2>4, <2>5 DEF Claim, TypeOK, envVars
<1>4. CASE Publish(r, o)
  <2>1. faults' \in 0 .. MaxFaults
    BY <1>4, CallType DEF Publish
  <2>2. current[r] \in Events
    BY <1>4 DEF Publish, Confirmed, RelayInv, TermInv, TypeOK
  <2>3. broker' \in SUBSET Events
    BY <1>4, <2>2 DEF Publish, Confirmed, TypeOK
  <2>4. declared' \in [Instances -> BOOLEAN]
    BY <1>4, Zenon DEF Publish, Confirmed, TypeOK
  <2>5. /\ pc' \in [Instances -> Step]
        /\ current' \in [Instances -> Events \cup {NoEvent}]
        /\ elapsed' \in [Instances -> 0 .. MaxPublish]
    <3>1. pc' \in [Instances -> Step]
      BY <1>4 DEF Publish, Confirmed, TypeOK, Step
    <3>2. current' \in [Instances -> Events \cup {NoEvent}]
      BY <1>4 DEF Publish, Confirmed, TypeOK
    <3>3. elapsed' \in [Instances -> 0 .. MaxPublish]
      <4>1. 0 \in 0 .. MaxPublish
        BY Bottoms
      <4>. QED  BY <1>4, <4>1, Zenon DEF Publish, Confirmed, TypeOK
    <3>. QED  BY <3>1, <3>2, <3>3, Zenon
  <2>6. /\ backoff' \in [Instances -> 0 .. RetryMax]
        /\ delay' \in [Instances -> 0 .. RetryMax]
    BY <1>4 DEF Publish, Confirmed, TypeOK
  <2>. QED  BY <1>4, <2>1, <2>3, <2>4, <2>5, <2>6 DEF Publish, Confirmed, TypeOK, rowVars
<1>5. CASE MarkPublished(r, o)
  <2>1. current[r] \in Events
    BY <1>5 DEF MarkPublished, RelayInv, TermInv, TypeOK
  <2>. QED  BY <1>5, <2>1, SettleType DEF MarkPublished
<1>6. ASSUME NEW e \in Events, MarkFailed(r, e, o) PROVE TypeOK'
  BY <1>6, SettleType DEF MarkFailed
<1>7. CASE Release(r, o)
  <2>1. faults' \in 0 .. MaxFaults
    BY <1>7 DEF Release, SpendFault, TypeOK
  <2>2. /\ state' \in [Events -> RowState]
        /\ lockedBy' \in [Events -> Instances \cup {NoInstance}]
        /\ lease' \in [Events -> -1 .. LeaseDuration]
        /\ orphaned' \in SUBSET Events
    <3>1. PICK S \in SUBSET Events : FreeRows(S)
      <4>1. batch[r] \in SUBSET Events
        BY Zenon DEF TypeOK
      <4>. QED  BY <1>7, <4>1 DEF Release
    <3>. QED  BY <3>1, FreeRowsType
  <2>. QED  BY <1>7, <2>1, <2>2 DEF Release, TypeOK, Step, envVars
<1>. QED  BY <1>1, <1>2, <1>3, <1>4, <1>5, <1>6, <1>7 DEF Loop

LEMMA OtherType ==
    ASSUME TypeOK,
           \/ \E e \in Events : AppendEvent(e)
           \/ \E r \in Instances :
                 \/ Local(r)
                 \/ \E S \in SUBSET Events : DeletePublishedBefore(r, S)
                 \/ Lead(r) \/ LoseKey(r) \/ EndTerm(r) \/ Crash(r)
           \/ Tick
    PROVE  TypeOK'
<1>. USE DEF TypeOK, RowState, Step, rowVars, termVars, loopVars, envVars
<1>1. ASSUME NEW e \in Events, AppendEvent(e) PROVE TypeOK'
  BY <1>1 DEF AppendEvent
<1>2. ASSUME NEW r \in Instances, Local(r) PROVE TypeOK'
  <2>1. CASE EndCycle(r) \/ StopEarly(r)
    BY <2>1, SMTT(30) DEF EndCycle, StopEarly
  <2>2. ASSUME NEW e \in Events, Send(r, e) PROVE TypeOK'
    BY <2>2 DEF Send
  <2>3. CASE Wake(r) \/ Return(r)
    BY <2>3 DEF Wake, Return
  <2>. QED  BY <1>2, <2>1, <2>2, <2>3 DEF Local
<1>3. ASSUME NEW r \in Instances, NEW S \in SUBSET Events, DeletePublishedBefore(r, S)
      PROVE  TypeOK'
  BY <1>3 DEF DeletePublishedBefore
<1>4. ASSUME NEW r \in Instances, Lead(r) PROVE TypeOK'
  <2>1. /\ live' \in [Instances -> BOOLEAN]
        /\ recovered' \in [Instances -> BOOLEAN]
        /\ declared' \in [Instances -> BOOLEAN]
    BY <1>4 DEF Lead
  <2>2. /\ pc' \in [Instances -> Step]
        /\ backoff' \in [Instances -> 0 .. RetryMax]
    BY <1>4 DEF Lead
  <2>. QED  BY <1>4, <2>1, <2>2 DEF Lead
<1>5. ASSUME NEW r \in Instances, LoseKey(r) \/ EndTerm(r) PROVE TypeOK'
  <2>1. faults' \in 0 .. MaxFaults
    <3>1. faults' = faults \/ SpendFault
      BY <1>5, Zenon DEF LoseKey, EndTerm
    <3>. QED  BY <3>1, FaultType
  <2>2. live' \in [Instances -> BOOLEAN]
    BY <1>5, Zenon DEF LoseKey, EndTerm
  <2>. QED  BY <1>5, <2>1, <2>2 DEF LoseKey, EndTerm
<1>6. ASSUME NEW r \in Instances, Crash(r) PROVE TypeOK'
  <2>1. faults' \in 0 .. MaxFaults
    <3>1. SpendFault
      BY <1>6, Zenon DEF Crash
    <3>. QED  BY <3>1, FaultType
  <2>2. /\ pc' \in [Instances -> Step] /\ live' \in [Instances -> BOOLEAN]
        /\ batch' \in [Instances -> SUBSET Events]
        /\ current' \in [Instances -> Events \cup {NoEvent}]
    BY <1>6, Zenon DEF Crash
  <2>3. /\ deadline' \in [Instances -> -1 .. LeaseDuration]
        /\ elapsed' \in [Instances -> 0 .. MaxPublish]
        /\ delay' \in [Instances -> 0 .. RetryMax]
    BY <1>6, Bottoms, Zenon DEF Crash
  <2>. QED  BY <1>6, <2>1, <2>2, <2>3, Zenon DEF Crash
<1>7. CASE Tick
  <2>1. lease' \in [Events -> -1 .. LeaseDuration]
    BY <1>7 DEF Tick, Down
  <2>2. dueIn' \in [Events -> 0 .. RetryMax]
    BY <1>7 DEF Tick, Down
  <2>3. deadline' \in [Instances -> -1 .. LeaseDuration]
    BY <1>7 DEF Tick, Down
  <2>4. elapsed' \in [Instances -> 0 .. MaxPublish]
    BY <1>7 DEF Tick
  <2>. QED  BY <1>7, <2>1, <2>2, <2>3, <2>4 DEF Tick
<1>. QED  BY <1>1, <1>2, <1>3, <1>4, <1>5, <1>6, <1>7

LEMMA NextType == TypeOK /\ RelayInv /\ [Next]_vars => TypeOK'
<1>. SUFFICES ASSUME TypeOK, RelayInv, [Next]_vars PROVE TypeOK'
  OBVIOUS
<1>1. CASE UNCHANGED vars
  BY <1>1 DEF vars, rowVars, termVars, loopVars, envVars, TypeOK
<1>2. CASE Next
  BY <1>2, LoopType, OtherType DEF Next
<1>. QED  BY <1>1, <1>2
-----------------------------------------------------------------------------
(* The lease invariant.                                                    *)

\* Leaves that need arithmetic or many updates at once cite SMT.
USE Zenon

-----------------------------------------------------------------------------
(* Recovering, claiming and publishing: the loop of relay.go.              *)

LEMMA InitInv == Init => RelayInv
BY DEF Init, RelayInv, TermInv, PublishedWasRouted, LeasesAccounted, Held, Busy

\* A statement that only frees rows cannot take a lease from a relay whose
\* deadline lies ahead, unless the relay itself asks for it.
LEMMA RecoverInv ==
    ASSUME TypeOK, RelayInv, NEW r \in Instances, NEW o \in Outcome, RecoverLeases(r, o)
    PROVE  RelayInv'
<1>. USE DEF RecoverLeases, RelayInv
<1>1. PublishedWasRouted'
  BY DEF PublishedWasRouted, FreeRows, Recoverable, envVars
<1>2. LeasesAccounted'
  BY SMT DEF LeasesAccounted, FreeRows, Recoverable, Held, StartClaim, PauseCycle, TypeOK
<1>3. ASSUME NEW q \in Instances PROVE TermInv(q)'
  <2>1. CASE q = r
    BY <2>1 DEF TermInv, Busy, StartClaim, PauseCycle, TypeOK
  <2>2. CASE q # r
    <3>1. UNCHANGED <<pc[q], batch[q], deadline[q], current[q], elapsed[q], broker>>
      BY <2>2 DEF StartClaim, PauseCycle, TypeOK, envVars
    <3>2. ASSUME NEW e \in batch[q], deadline[q] >= 0
          PROVE  (Held(q, e) /\ lease[e] >= deadline[q])'
      <4>1. Held(q, e) /\ lease[e] >= deadline[q] /\ e \in Events
        BY <3>2 DEF TermInv, TypeOK
      <4>2. e \notin Recoverable(r)
        BY <2>2, <4>1, <3>2, SMT DEF Recoverable, Held, TypeOK
      <4>. QED  BY <3>1, <4>1, <4>2 DEF FreeRows, Held
    <3>. QED  BY <3>1, <3>2 DEF TermInv
  <2>. QED  BY <2>1, <2>2
<1>. QED  BY <1>1, <1>2, <1>3

LEMMA DeclareInv ==
    ASSUME TypeOK, RelayInv, NEW r \in Instances, NEW o \in Outcome, DeclareTopology(r, o)
    PROVE  RelayInv'
<1>. USE DEF DeclareTopology, RelayInv, rowVars, envVars
<1>1. PublishedWasRouted'
  BY DEF PublishedWasRouted
<1>2. LeasesAccounted'
  BY ZenonT(40) DEF LeasesAccounted, Held, StartClaim, PauseCycle, TypeOK
<1>3. ASSUME NEW q \in Instances PROVE TermInv(q)'
  <2>1. CASE q = r
    BY <2>1 DEF TermInv, Busy, StartClaim, PauseCycle, TypeOK
  <2>2. CASE q # r
    <3>1. UNCHANGED <<pc[q], batch[q], deadline[q], current[q], elapsed[q], broker>>
      BY <2>2 DEF StartClaim, PauseCycle, TypeOK
    <3>. QED  BY <3>1, ZenonT(40) DEF TermInv, Held
  <2>. QED  BY <2>1, <2>2
<1>. QED  BY <1>1, <1>2, <1>3

\* A claim takes only pending rows, so it takes none from another relay; its
\* lease starts when its deadline has already started to run.
LEMMA ClaimInv ==
    ASSUME TypeOK, RelayInv, NEW r \in Instances, NEW o \in Outcome, Claim(r, o)
    PROVE  RelayInv'
<1>. USE DEF RelayInv
<1>1. PICK S \in IF o = "failed" THEN {{}} ELSE Claimable : Claim(r, o)!3!(S)
  BY DEF Claim
<1>2. S \subseteq Events /\ \A e \in S : state[e] = "pending"
  BY <1>1 DEF Claimable, Due
<1>3. PublishedWasRouted'
  BY <1>1, <1>2 DEF Claim, PublishedWasRouted, envVars
<1>4. LeasesAccounted'
  <2>. SUFFICES ASSUME NEW f \in Events, NEW q \in Instances, Held(q, f)',
                       pc'[q] \notin {"idle", "crashed"}
                PROVE  (f \in batch[q] \/ ~recovered[q] \/ f \in orphaned)'
    BY DEF LeasesAccounted
  <2>1. CASE f \in S
    BY <1>1, <2>1 DEF Claim, Held, PauseCycle, TypeOK
  <2>2. CASE f \notin S
    <3>1. Held(q, f) /\ pc[q] \notin {"idle", "crashed"}
      BY <1>1, <2>2 DEF Claim, Held, PauseCycle, TypeOK
    <3>2. f \in batch[q] => q # r
      BY DEF Claim, TermInv, Busy
    <3>. QED  BY <1>1, <3>1, <3>2 DEF Claim, LeasesAccounted, PauseCycle, TypeOK
  <2>. QED  BY <2>1, <2>2
<1>5. ASSUME NEW q \in Instances PROVE TermInv(q)'
  <2>1. CASE q = r
    <3>1. batch'[r] = {} \/ batch'[r] = S
      BY <1>1 DEF Claim, TermInv, Busy, TypeOK
    <3>2. ASSUME NEW e \in batch'[r] PROVE (Held(r, e) /\ lease[e] >= deadline[r])'
      <4>1. e \in S
        BY <3>1, <3>2
      <4>2. deadline'[r] \in -1 .. LeaseDuration
        BY <1>1, SMT DEF PauseCycle, TypeOK
      <4>3. state'[e] = "processing" /\ lockedBy'[e] = r /\ lease'[e] = LeaseDuration
        BY <1>1, <1>2, <4>1
      <4>. HIDE DEF RelayInv
      <4>4. LeaseDuration >= deadline'[r]
        BY <4>2, ConfigAssumption, SMT
      <4>5. lease'[e] >= deadline'[r]
        BY <4>3, <4>4
      <4>. QED  BY <4>3, <4>5 DEF Held
    <3>3. pc'[r] \in {"sleep", "publish"} /\ elapsed'[r] = 0
      BY <1>1 DEF Claim, PauseCycle, TermInv, TypeOK
    <3>4. pc'[r] = "sleep" => batch'[r] = {}
      <4>1. pc \in [Instances -> Step] /\ batch \in [Instances -> SUBSET Events]
        BY DEF TypeOK
      <4>2. pc[r] = "claim" /\ TermInv(r)
        BY <1>1 DEF Claim
      <4>3. batch[r] = {}
        BY <4>2 DEF TermInv, Busy
      <4>. HIDE DEF RelayInv
      <4>. QED  BY <1>1, <4>1, <4>3 DEF Claim, PauseCycle
    <3>. QED  BY <2>1, <3>2, <3>3, <3>4 DEF TermInv, Busy
  <2>2. CASE q # r
    <3>1. UNCHANGED <<pc[q], batch[q], deadline[q], current[q], elapsed[q], broker>>
      BY <1>1, <2>2 DEF Claim, PauseCycle, TypeOK, envVars
    <3>2. ASSUME NEW e \in batch[q], deadline[q] >= 0
          PROVE  (Held(q, e) /\ lease[e] >= deadline[q])'
      <4>1. Held(q, e) /\ lease[e] >= deadline[q] /\ e \in Events
        BY <3>2 DEF TermInv, TypeOK
      <4>2. e \notin S
        BY <1>2, <4>1 DEF Held
      <4>3. UNCHANGED <<state[e], lockedBy[e], lease[e]>>
        BY <1>1, <4>1, <4>2
      <4>. QED  BY <3>1, <4>1, <4>3 DEF Held
    <3>. QED  BY <3>1, <3>2 DEF TermInv
  <2>. QED  BY <2>1, <2>2
<1>. QED  BY <1>3, <1>4, <1>5

\* A step that changes neither the term of q nor a row keeps what is known of q.
LEMMA TermKept ==
    ASSUME NEW q \in Instances, TermInv(q),
           UNCHANGED <<pc[q], batch[q], deadline[q], current[q], elapsed[q]>>,
           UNCHANGED <<state, lockedBy, lease>>, broker \subseteq broker'
    PROVE  TermInv(q)'
BY DEF TermInv, Held

LEMMA PublishInv ==
    ASSUME TypeOK, RelayInv, NEW r \in Instances, NEW o \in Outcome, Publish(r, o)
    PROVE  RelayInv'
<1>. USE DEF Publish, Confirmed, RelayInv, rowVars
<1>1. PublishedWasRouted'
  BY DEF PublishedWasRouted
<1>2. LeasesAccounted'
  BY ZenonT(40) DEF LeasesAccounted, Held, TypeOK
<1>3. ASSUME NEW q \in Instances PROVE TermInv(q)'
  <2>1. TermInv(r)'
    <3>1. pc[r] = "sending" /\ UNCHANGED <<state, lockedBy, lease, batch, deadline>>
      OBVIOUS
    <3>2. elapsed'[r] = 0
      BY DEF TypeOK
    <3>3. \/ pc'[r] = "release"
          \/ pc'[r] = "mark" /\ current'[r] = current[r] /\ current[r] \in broker'
      BY DEF TypeOK
    <3>4. TermInv(r)
      OBVIOUS
    <3>. HIDE DEF Publish, Confirmed, RelayInv
    <3>5. \A e \in batch'[r] : deadline'[r] >= 0 => (Held(r, e) /\ lease[e] >= deadline[r])'
      BY <3>1, <3>4 DEF TermInv, Held
    <3>6. current[r] \in batch'[r] \ Invalid
      BY <3>1, <3>4 DEF TermInv
    <3>. QED  BY <3>2, <3>3, <3>5, <3>6 DEF TermInv, Busy
  <2>2. CASE q # r
    <3>1. UNCHANGED <<pc[q], batch[q], deadline[q], current[q], elapsed[q]>>
      BY <2>2 DEF TypeOK
    <3>2. UNCHANGED <<state, lockedBy, lease>> /\ broker \subseteq broker'
      OBVIOUS
    <3>3. TermInv(q)
      OBVIOUS
    <3>. HIDE DEF Publish, Confirmed, RelayInv
    <3>. QED  BY <3>1, <3>2, <3>3, TermKept
  <2>. QED  BY <2>1, <2>2
<1>. QED  BY <1>1, <1>2, <1>3
-----------------------------------------------------------------------------
(* The statements that settle or release rows.                             *)

\* A final state is written only over the lease of the writer, and only for
\* the row that is then dropped from its batch.
LEMMA SettleInv ==
    ASSUME TypeOK, RelayInv, NEW r \in Instances, NEW e \in batch[r], NEW o \in Outcome,
           NEW final \in {"published", "failed"}, final = "published" => e \in broker,
           Settle(r, e, final, o), pc[r] \in {"publish", "mark"}
    PROVE  RelayInv'
<1>. USE DEF Settle, RelayInv
<1>0. e \in Events
  BY DEF TypeOK
<1>1. PublishedWasRouted'
  BY <1>0 DEF PublishedWasRouted, Held, envVars, TypeOK
<1>2. LeasesAccounted'
  <2>. SUFFICES ASSUME NEW f \in Events, NEW q \in Instances, Held(q, f)',
                       pc'[q] \notin {"idle", "crashed"}
                PROVE  (f \in batch[q] \/ ~recovered[q] \/ f \in orphaned)'
    BY DEF LeasesAccounted
  <2>1. Held(q, f)
    BY <1>0 DEF Held, TypeOK
  <2>2. pc[q] \notin {"idle", "crashed"}
    BY DEF TypeOK
  <2>3. f \in batch[q] \/ ~recovered[q] \/ f \in orphaned
    BY <2>1, <2>2 DEF LeasesAccounted
  <2>4. CASE q = r /\ f = e
    BY <1>0, <2>1, <2>4 DEF Held, TypeOK
  <2>5. CASE q # r \/ f # e
    BY <2>3, <2>5 DEF TypeOK
  <2>. QED  BY <2>4, <2>5
<1>3. ASSUME NEW q \in Instances PROVE TermInv(q)'
  <2>1. ASSUME NEW f \in batch'[q], deadline'[q] >= 0
        PROVE  (Held(q, f) /\ lease[f] >= deadline[q])'
    <3>1. f \in batch[q] /\ deadline[q] >= 0 /\ f \in Events
      BY <2>1 DEF TypeOK
    <3>2. Held(q, f) /\ lease[f] >= deadline[q]
      BY <3>1 DEF TermInv
    <3>3. f # e \/ ~Held(r, e)
      BY <2>1, <3>2 DEF Held, TypeOK
    <3>. QED  BY <1>0, <3>1, <3>2, <3>3 DEF Held, TypeOK
  <2>2. CASE q = r
    BY <2>1, <2>2, ZenonT(40) DEF TermInv, Busy, TypeOK
  <2>3. CASE q # r
    <3>1. UNCHANGED <<pc[q], batch[q], deadline[q], current[q], elapsed[q], broker>>
      BY <2>3 DEF TypeOK, envVars
    <3>2. TermInv(q)
      OBVIOUS
    <3>. HIDE DEF Settle, RelayInv
    <3>. QED  BY <2>1, <3>1, <3>2 DEF TermInv
  <2>. QED  BY <2>2, <2>3
<1>. QED  BY <1>1, <1>2, <1>3

LEMMA ReleaseInv ==
    ASSUME TypeOK, RelayInv, NEW r \in Instances, NEW o \in Outcome, Release(r, o)
    PROVE  RelayInv'
<1>. DEFINE freed == IF o = "failed" THEN {} ELSE {e \in batch[r] : Held(r, e)}
<1>. USE DEF RelayInv
<1>0. FreeRows(freed) /\ \A e \in freed : Held(r, e)
  BY DEF Release
<1>. HIDE DEF freed
<1>1. PublishedWasRouted'
  BY <1>0 DEF PublishedWasRouted, FreeRows, Release, envVars
<1>2. LeasesAccounted'
  <2>. SUFFICES ASSUME NEW f \in Events, NEW q \in Instances, Held(q, f)',
                       pc'[q] \notin {"idle", "crashed"}
                PROVE  (f \in batch[q] \/ ~recovered[q] \/ f \in orphaned)'
    BY DEF LeasesAccounted
  <2>1. Held(q, f) /\ f \notin freed
    BY <1>0 DEF Held, FreeRows
  <2>2. f \in batch[q] \/ ~recovered[q] \/ f \in orphaned
    BY <2>1 DEF Release, LeasesAccounted, TypeOK
  <2>3. f \in orphaned => f \in orphaned'
    BY <1>0, <2>1 DEF FreeRows
  <2>4. CASE q = r
    <3>1. o = "ok" => f \notin batch[r]
      BY <2>1, <2>4 DEF freed
    <3>. QED  BY <2>2, <2>3, <2>4, <3>1 DEF Release, TypeOK
  <2>5. CASE q # r
    BY <2>2, <2>3, <2>5 DEF Release, TypeOK
  <2>. QED  BY <2>4, <2>5
<1>3. ASSUME NEW q \in Instances PROVE TermInv(q)'
  <2>1. CASE q = r
    BY <2>1 DEF Release, TermInv, Busy, TypeOK
  <2>2. CASE q # r
    <3>1. UNCHANGED <<pc[q], batch[q], deadline[q], current[q], elapsed[q], broker>>
      BY <2>2 DEF Release, TypeOK, envVars
    <3>2. ASSUME NEW e \in batch[q], deadline[q] >= 0
          PROVE  (Held(q, e) /\ lease[e] >= deadline[q])'
      <4>1. Held(q, e) /\ lease[e] >= deadline[q] /\ e \in Events
        BY <3>2 DEF TermInv, TypeOK
      <4>2. e \notin freed
        BY <1>0, <2>2, <4>1 DEF Held
      <4>. QED  BY <1>0, <3>1, <4>1, <4>2 DEF FreeRows, Held
    <3>. QED  BY <3>1, <3>2 DEF TermInv
  <2>. QED  BY <2>1, <2>2
<1>. QED  BY <1>1, <1>2, <1>3

LEMMA LoopInv ==
    ASSUME TypeOK, RelayInv, NEW r \in Instances, NEW o \in Outcome, Loop(r, o)
    PROVE  RelayInv'
<1>1. CASE MarkPublished(r, o)
  <2>1. current[r] \in batch[r] /\ current[r] \in broker
    BY <1>1 DEF MarkPublished, RelayInv, TermInv
  <2>. QED  BY <1>1, <2>1, SettleInv DEF MarkPublished
<1>2. ASSUME NEW e \in Events, MarkFailed(r, e, o) PROVE RelayInv'
  BY <1>2, SettleInv DEF MarkFailed
<1>. QED  BY <1>1, <1>2, RecoverInv, DeclareInv, ClaimInv, PublishInv, ReleaseInv DEF Loop
-----------------------------------------------------------------------------
(* Control steps of a term, writers, retention, elections, crashes, time.  *)

\* Steps without a call: only Send starts a publish, and it checks the deadline.
LEMMA LocalInv ==
    ASSUME TypeOK, RelayInv, NEW r \in Instances, Local(r)
    PROVE  RelayInv'
<1>. USE DEF RelayInv, rowVars, termVars, loopVars, envVars
<1>0. UNCHANGED <<state, lockedBy, lease, batch, recovered, orphaned, broker>>
  BY DEF Local, EndCycle, StopEarly, Send, Wake, Return
<1>1. PublishedWasRouted'
  BY <1>0 DEF PublishedWasRouted
<1>2. ASSUME NEW q \in Instances, q # r
      PROVE  UNCHANGED <<pc[q], deadline[q], current[q], elapsed[q]>>
  BY <1>2 DEF Local, EndCycle, StopEarly, Send, Wake, Return, TypeOK
<1>3. LeasesAccounted'
  <2>1. pc[r] \notin {"idle", "crashed"}
    BY DEF Local, EndCycle, StopEarly, Send, Wake, Return
  <2>. QED  BY <1>0, <1>2, <2>1 DEF LeasesAccounted, Held
<1>4. TermInv(r)'
  <2>0. TermInv(r)
    OBVIOUS
  <2>1. CASE EndCycle(r)
    <3>1. batch[r] = {} /\ elapsed[r] = 0 /\ elapsed'[r] = elapsed[r] /\ pc'[r] = "sleep"
      BY <2>0, <2>1 DEF EndCycle, TermInv, TypeOK
    <3>. QED  BY <1>0, <3>1 DEF TermInv, Busy
  <2>2. CASE StopEarly(r)
    <3>1. pc[r] = "publish" /\ pc'[r] = "release" /\ UNCHANGED <<deadline, current, elapsed>>
      BY <2>2 DEF StopEarly, TypeOK
    <3>. QED  BY <1>0, <2>0, <3>1 DEF TermInv, Held, Busy
  <2>3. ASSUME NEW e \in Events, Send(r, e) PROVE TermInv(r)'
    <3>1. pc[r] = "publish" /\ pc'[r] = "sending" /\ current'[r] = e
      BY <2>3 DEF Send, TypeOK
    <3>2. e \in batch[r] \ Invalid /\ UNCHANGED <<deadline, elapsed>> /\ ~MayOutliveLease(r)
      BY <2>3 DEF Send
    <3>3. elapsed[r] = 0 /\ deadline[r] >= MaxPublish
      <4>1. elapsed[r] = 0
        BY <2>0, <3>1 DEF TermInv
      <4>2. deadline[r] \in Int
        BY SMT DEF TypeOK
      <4>3. ~(deadline[r] < MaxPublish)
        BY <3>2 DEF MayOutliveLease
      <4>. HIDE DEF RelayInv, rowVars, termVars, loopVars, envVars
      <4>. QED  BY <4>1, <4>2, <4>3, SMT
    <3>4. \A f \in batch[r] : deadline[r] >= 0 => Held(r, f) /\ lease[f] >= deadline[r]
      BY <2>0 DEF TermInv
    <3>5. deadline'[r] + elapsed'[r] >= MaxPublish
      BY <3>2, <3>3, SMT DEF TypeOK
    <3>. QED  BY <1>0, <3>1, <3>2, <3>4, <3>5 DEF TermInv, Held, Busy
  <2>4. CASE Wake(r) \/ Return(r)
    <3>1. pc[r] \notin Busy /\ pc'[r] \notin Busy /\ elapsed'[r] = elapsed[r]
      BY <2>4 DEF Wake, Return, StartClaim, Busy, TypeOK
    <3>2. batch[r] = {} /\ elapsed[r] = 0
      BY <2>0, <3>1 DEF TermInv, Busy
    <3>. QED  BY <1>0, <3>1, <3>2 DEF TermInv, Busy
  <2>. QED  BY <2>1, <2>2, <2>3, <2>4 DEF Local
<1>5. ASSUME NEW q \in Instances, q # r PROVE TermInv(q)'
  <2>1. TermInv(q)
    OBVIOUS
  <2>2. UNCHANGED <<pc[q], deadline[q], current[q], elapsed[q]>>
    BY <1>2, <1>5
  <2>. QED  BY <1>0, <2>1, <2>2, TermKept
<1>. QED  BY <1>1, <1>3, <1>4, <1>5

\* Writers, the retention, elections, crashes: no lease changes hands.
LEMMA EnvironmentInv ==
    ASSUME TypeOK, RelayInv,
           \/ \E e \in Events : AppendEvent(e)
           \/ \E r \in Instances :
                 \/ \E S \in SUBSET Events : DeletePublishedBefore(r, S)
                 \/ Lead(r) \/ LoseKey(r) \/ EndTerm(r) \/ Crash(r)
    PROVE  RelayInv'
<1>. USE DEF RelayInv, rowVars, termVars, loopVars, envVars
<1>1. ASSUME NEW e \in Events, AppendEvent(e) PROVE RelayInv'
  <2>1. \A q \in Instances, f \in Events : Held(q, f)' <=> Held(q, f)
    BY <1>1 DEF AppendEvent, Held, TypeOK
  <2>2. PublishedWasRouted' /\ LeasesAccounted'
    BY <1>1, <2>1 DEF AppendEvent, PublishedWasRouted, LeasesAccounted, TypeOK
  <2>3. ASSUME NEW q \in Instances PROVE TermInv(q)'
    BY <1>1, <2>1 DEF AppendEvent, TermInv, TypeOK
  <2>. QED  BY <2>2, <2>3
<1>2. ASSUME NEW r \in Instances, NEW S \in SUBSET Events, DeletePublishedBefore(r, S)
      PROVE  RelayInv'
  <2>1. \A q \in Instances, f \in Events : Held(q, f)' <=> Held(q, f)
    BY <1>2 DEF DeletePublishedBefore, Held, TypeOK
  <2>2. PublishedWasRouted' /\ LeasesAccounted'
    BY <1>2, <2>1 DEF DeletePublishedBefore, PublishedWasRouted, LeasesAccounted, TypeOK
  <2>3. ASSUME NEW q \in Instances PROVE TermInv(q)'
    BY <1>2, <2>1 DEF DeletePublishedBefore, TermInv, TypeOK
  <2>. QED  BY <2>2, <2>3
<1>3. ASSUME NEW r \in Instances, Lead(r) PROVE RelayInv'
  <2>1. PublishedWasRouted' /\ LeasesAccounted'
    BY <1>3 DEF Lead, PublishedWasRouted, LeasesAccounted, Held, TypeOK
  <2>2. ASSUME NEW q \in Instances PROVE TermInv(q)'
    <3>1. UNCHANGED <<state, lockedBy, lease, batch, deadline, current, elapsed, broker>>
      BY <1>3 DEF Lead, rowVars, loopVars
    <3>2. TermInv(q)
      OBVIOUS
    <3>3. CASE q = r
      <4>1. pc[q] = "idle" /\ pc'[q] = "recover"
        BY <1>3, <3>3 DEF Lead, TypeOK
      <4>2. batch[q] = {} /\ elapsed[q] = 0
        BY <3>2, <4>1 DEF TermInv, Busy
      <4>. QED  BY <3>1, <4>1, <4>2 DEF TermInv
    <3>4. CASE q # r
      <4>1. pc'[q] = pc[q]
        BY <1>3, <3>4 DEF Lead, TypeOK
      <4>. QED  BY <3>1, <3>2, <4>1, TermKept
    <3>. QED  BY <3>3, <3>4
  <2>. QED  BY <2>1, <2>2
<1>4. ASSUME NEW r \in Instances, LoseKey(r) \/ EndTerm(r) PROVE RelayInv'
  <2>1. /\ UNCHANGED <<state, lockedBy, lease, pc, recovered, batch>>
        /\ UNCHANGED <<deadline, current, elapsed, broker, orphaned>>
    BY <1>4 DEF LoseKey, EndTerm, rowVars, loopVars, termVars
  <2>2. PublishedWasRouted' /\ LeasesAccounted'
    <3>1. PublishedWasRouted /\ LeasesAccounted
      OBVIOUS
    <3>2. PublishedWasRouted'
      BY <2>1, <3>1 DEF PublishedWasRouted
    <3>3. LeasesAccounted'
      BY <2>1, <3>1 DEF LeasesAccounted, Held
    <3>. QED  BY <3>2, <3>3
  <2>3. ASSUME NEW q \in Instances PROVE TermInv(q)'
    <3>1. TermInv(q)
      OBVIOUS
    <3>. QED  BY <2>1, <3>1, TermKept
  <2>. QED  BY <2>2, <2>3
<1>5. ASSUME NEW r \in Instances, Crash(r) PROVE RelayInv'
  <2>0. UNCHANGED <<state, lockedBy, lease, recovered, broker, orphaned>>
    BY <1>5 DEF Crash
  <2>1. pc'[r] = "crashed" /\ batch'[r] = {} /\ elapsed'[r] = 0
    <3>1. DOMAIN pc = Instances /\ DOMAIN batch = Instances /\ DOMAIN elapsed = Instances
      BY DEF TypeOK
    <3>2. /\ pc' = [pc EXCEPT ![r] = "crashed"] /\ batch' = [batch EXCEPT ![r] = {}]
          /\ elapsed' = [elapsed EXCEPT ![r] = 0]
      BY <1>5 DEF Crash
    <3>. HIDE DEF RelayInv
    <3>. QED  BY <3>1, <3>2
  <2>2. ASSUME NEW q \in Instances, q # r
        PROVE  UNCHANGED <<pc[q], batch[q], deadline[q], current[q], elapsed[q]>>
    <3>1. /\ DOMAIN pc = Instances /\ DOMAIN batch = Instances
          /\ DOMAIN deadline = Instances /\ DOMAIN current = Instances
          /\ DOMAIN elapsed = Instances
      BY DEF TypeOK
    <3>2. /\ pc' = [pc EXCEPT ![r] = "crashed"] /\ batch' = [batch EXCEPT ![r] = {}]
          /\ deadline' = [deadline EXCEPT ![r] = -1]
          /\ current' = [current EXCEPT ![r] = NoEvent]
          /\ elapsed' = [elapsed EXCEPT ![r] = 0]
      BY <1>5 DEF Crash
    <3>3. pc'[q] = pc[q] /\ batch'[q] = batch[q]
      BY <2>2, <3>1, <3>2
    <3>4. deadline'[q] = deadline[q] /\ current'[q] = current[q]
      BY <2>2, <3>1, <3>2
    <3>5. elapsed'[q] = elapsed[q]
      BY <2>2, <3>1, <3>2
    <3>. QED  BY <3>3, <3>4, <3>5
  <2>3. PublishedWasRouted' /\ LeasesAccounted'
    <3>1. PublishedWasRouted /\ LeasesAccounted
      OBVIOUS
    <3>2. PublishedWasRouted'
      BY <2>0, <3>1 DEF PublishedWasRouted
    <3>3. LeasesAccounted'
      BY <2>0, <2>1, <2>2, <3>1 DEF LeasesAccounted, Held
    <3>. QED  BY <3>2, <3>3
  <2>4. TermInv(r)'
    BY <2>1 DEF TermInv, Busy
  <2>5. ASSUME NEW q \in Instances, q # r PROVE TermInv(q)'
    <3>1. TermInv(q)
      OBVIOUS
    <3>2. UNCHANGED <<pc[q], batch[q], deadline[q], current[q], elapsed[q]>>
      BY <2>2, <2>5
    <3>. QED  BY <2>0, <3>1, <3>2, TermKept
  <2>. QED  BY <2>3, <2>4, <2>5
<1>. QED  BY <1>1, <1>2, <1>3, <1>4, <1>5

\* A countdown that is ahead of another stays ahead when time passes (Tick).
LEMMA DownKeepsOrder ==
    ASSUME NEW a \in Int, NEW b \in Int, a >= b, b >= 0
    PROVE  Down(a, -1) >= Down(b, -1)
BY SMT DEF Down

\* What the deadline of a publish loses, its duration gains (Tick).
LEMMA SameSum ==
    ASSUME NEW d \in Int, NEW x \in Int
    PROVE  (d - 1) + (x + 1) = d + x
BY SMT

\* Time passes at the same pace for a lease and for the deadline inside it.
LEMMA TickInv == TypeOK /\ RelayInv /\ Tick => RelayInv'
<1>. SUFFICES ASSUME TypeOK, RelayInv, Tick PROVE RelayInv'
  OBVIOUS
<1>. USE DEF Tick, RelayInv, envVars
<1>1. PublishedWasRouted' /\ LeasesAccounted'
  <2>1. UNCHANGED <<state, lockedBy, pc, recovered, batch, broker, orphaned>>
    BY DEF termVars
  <2>2. PublishedWasRouted /\ LeasesAccounted
    OBVIOUS
  <2>. HIDE DEF Tick, RelayInv
  <2>. QED  BY <2>1, <2>2 DEF PublishedWasRouted, LeasesAccounted, Held
<1>2. ASSUME NEW q \in Instances PROVE TermInv(q)'
  <2>1. deadline'[q] = Down(deadline[q], -1) /\ deadline[q] \in -1 .. LeaseDuration
    BY DEF TypeOK
  <2>2. ASSUME NEW e \in batch[q], deadline'[q] >= 0
        PROVE  (Held(q, e) /\ lease[e] >= deadline[q])'
    <3>1. e \in Events /\ lease[e] \in -1 .. LeaseDuration
      <4>. HIDE DEF Tick, RelayInv
      <4>1. batch[q] \in SUBSET Events /\ lease \in [Events -> -1 .. LeaseDuration]
        BY DEF TypeOK
      <4>. QED  BY <4>1
    <3>2. lease'[e] = Down(lease[e], -1)
      BY <3>1
    <3>3. TermInv(q)
      OBVIOUS
    <3>4. UNCHANGED <<state, lockedBy>>
      OBVIOUS
    <3>. HIDE DEF Tick, RelayInv
    <3>5. deadline[q] >= 0
      BY <2>1, <2>2, SMT DEF Down
    <3>6. Held(q, e) /\ lease[e] >= deadline[q]
      BY <3>3, <3>5 DEF TermInv
    <3>7. Held(q, e)'
      BY <3>4, <3>6 DEF Held
    <3>8. Down(lease[e], -1) >= Down(deadline[q], -1)
      <4>1. lease[e] \in Int
        BY <3>1, SMT
      <4>2. deadline[q] \in Int
        BY <2>1, SMT
      <4>. QED  BY <3>5, <3>6, <4>1, <4>2, DownKeepsOrder
    <3>. QED  BY <2>1, <3>2, <3>7, <3>8
  <2>3. pc[q] = "sending" => deadline'[q] + elapsed'[q] >= MaxPublish
    <3>. SUFFICES ASSUME pc[q] = "sending" PROVE deadline'[q] + elapsed'[q] >= MaxPublish
      OBVIOUS
    <3>1. elapsed'[q] = elapsed[q] + 1 /\ elapsed[q] \in 0 .. MaxPublish
      BY DEF TypeOK
    <3>2. deadline[q] + elapsed[q] >= MaxPublish
      BY DEF TermInv
    <3>3. elapsed[q] < MaxPublish
      OBVIOUS
    <3>. HIDE DEF Tick, RelayInv
    <3>4. deadline[q] >= 0 /\ deadline[q] \in Int
      BY <2>1, <3>1, <3>2, <3>3, ConfigAssumption, SMT
    <3>5. deadline'[q] = deadline[q] - 1
      BY <2>1, <3>4, SMT DEF Down
    <3>6. elapsed[q] \in Int
      BY <3>1, SMT
    <3>7. deadline'[q] + elapsed'[q] = deadline[q] + elapsed[q]
      BY <3>1, <3>4, <3>5, <3>6, SameSum, ZenonT(40)
    <3>. QED  BY <3>2, <3>7
  <2>4. pc[q] # "sending" => elapsed'[q] = 0
    BY DEF TermInv, TypeOK
  <2>. QED  BY <2>2, <2>3, <2>4 DEF TermInv
<1>. QED  BY <1>1, <1>2
-----------------------------------------------------------------------------
(* The theorems.                                                           *)

LEMMA NextInv == TypeOK /\ RelayInv /\ [Next]_vars => RelayInv'
<1>. SUFFICES ASSUME TypeOK, RelayInv, [Next]_vars PROVE RelayInv'
  OBVIOUS
<1>1. CASE UNCHANGED vars
  BY <1>1 DEF vars, rowVars, termVars, loopVars, envVars,
              RelayInv, PublishedWasRouted, LeasesAccounted, TermInv, Held
<1>2. CASE Next
  BY <1>2, LoopInv, LocalInv, EnvironmentInv, TickInv DEF Next
<1>. QED  BY <1>1, <1>2

\* Every countdown, backoff and row stays in its type, and the lease
\* bookkeeping of relay.go is invariant, in any system of any size.
THEOREM RelayInvariant == Spec => [](TypeOK /\ RelayInv)
<1>1. Init => TypeOK /\ RelayInv
  BY InitType, InitInv
<1>2. (TypeOK /\ RelayInv) /\ [Next]_vars => (TypeOK /\ RelayInv)'
  BY NextType, NextInv
<1>. QED  BY <1>1, <1>2, PTL DEF Spec

LEMMA SendCovered == TypeOK /\ RelayInv => LeaseCoversSend
<1>. SUFFICES ASSUME TypeOK, RelayInv, NEW r \in Instances, pc[r] = "sending"
              PROVE  Held(r, current[r])
  BY DEF LeaseCoversSend
<1>1. TermInv(r)
  BY DEF RelayInv
<1>2. deadline[r] >= 0
  <2>1. deadline[r] \in -1 .. LeaseDuration /\ elapsed[r] \in 0 .. MaxPublish
    BY DEF TypeOK
  <2>2. deadline[r] + elapsed[r] >= MaxPublish
    BY <1>1 DEF TermInv
  <2>. HIDE DEF TypeOK, RelayInv
  <2>. QED  BY <2>1, <2>2, ConfigAssumption, SMT
<1>. QED  BY <1>1, <1>2 DEF TermInv

\* relay.go:151: a row is leased to its sender until the publish returned.
THEOREM LeaseSafety == Spec => []LeaseCoversSend
BY RelayInvariant, SendCovered, PTL

\* MarkPublished: whatever is recorded as published is with the broker.
THEOREM NoPhantomPublish == Spec => []PublishedWasRouted
<1>1. RelayInv => PublishedWasRouted
  BY DEF RelayInv
<1>. QED  BY <1>1, RelayInvariant, PTL

\* relay.go:112 and 145: a term forgets no lease it knows it has.
THEOREM NoForgottenLease == Spec => []LeasesAccounted
<1>1. RelayInv => LeasesAccounted
  BY DEF RelayInv
<1>. QED  BY <1>1, RelayInvariant, PTL
-----------------------------------------------------------------------------
(* Refinement: the relay is an at-least-once Outbox.                       *)

LEMMA FreeRowsInvisible ==
    ASSUME TypeOK, NEW S, FreeRows(S), \A e \in S : state[e] = "processing"
    PROVE  outboxStatus' = outboxStatus
BY DEF FreeRows, outboxStatus

LEMMA SettleRefines ==
    ASSUME TypeOK, NEW r \in Instances, NEW e \in Events, NEW o \in Outcome,
           NEW final \in {"published", "failed"}, Settle(r, e, final, o),
           final = "published" => e \in broker,
           final = "failed" => e \in Invalid
    PROVE  Abstract!Next \/ UNCHANGED Abstract!outboxVars
<1>1. UNCHANGED broker
  BY DEF Settle, envVars
<1>2. CASE o # "failed" /\ Held(r, e)
  <2>1. state' = [state EXCEPT ![e] = final]
    BY <1>2 DEF Settle
  <2>2. outboxStatus[e] = "undelivered"
    BY <1>2 DEF Held, outboxStatus
  <2>3. outboxStatus' = [outboxStatus EXCEPT ![e] = final]
    BY <2>1 DEF outboxStatus, TypeOK
  <2>4. CASE final = "published"
    BY <1>1, <2>2, <2>3, <2>4 DEF Abstract!Next, Abstract!Record
  <2>5. CASE final = "failed"
    BY <1>1, <2>2, <2>3, <2>5 DEF Abstract!Next, Abstract!GiveUp
  <2>. QED  BY <2>4, <2>5
<1>3. CASE o = "failed" \/ ~Held(r, e)
  <2>1. UNCHANGED state
    BY <1>3 DEF Settle
  <2>. QED  BY <1>1, <2>1 DEF outboxStatus, Abstract!outboxVars
<1>. QED  BY <1>2, <1>3

LEMMA LoopRefines ==
    ASSUME TypeOK, RelayInv, NEW r \in Instances, NEW o \in Outcome, Loop(r, o)
    PROVE  Abstract!Next \/ UNCHANGED Abstract!outboxVars
<1>1. CASE RecoverLeases(r, o)
  <2>1. outboxStatus' = outboxStatus
    BY <1>1, FreeRowsInvisible DEF RecoverLeases, Recoverable
  <2>. QED  BY <1>1, <2>1 DEF RecoverLeases, envVars, Abstract!outboxVars
<1>2. CASE DeclareTopology(r, o)
  BY <1>2 DEF DeclareTopology, rowVars, envVars, outboxStatus, Abstract!outboxVars
<1>3. CASE Claim(r, o)
  <2>1. PICK S \in IF o = "failed" THEN {{}} ELSE Claimable : Claim(r, o)!3!(S)
    BY <1>3 DEF Claim
  <2>2. \A e \in S : state[e] = "pending"
    BY <2>1 DEF Claimable, Due
  <2>3. outboxStatus' = outboxStatus
    BY <2>1, <2>2 DEF outboxStatus
  <2>. QED  BY <1>3, <2>3 DEF Claim, envVars, Abstract!outboxVars
<1>4. CASE Publish(r, o)
  <2>1. /\ current[r] \in Events \ Invalid
        /\ Held(r, current[r])
    BY <1>4, SendCovered DEF Publish, Confirmed, RelayInv, TermInv, LeaseCoversSend, TypeOK
  <2>2. outboxStatus[current[r]] = "undelivered" /\ UNCHANGED outboxStatus
    BY <1>4, <2>1 DEF Publish, Confirmed, rowVars, outboxStatus, Held
  <2>3. CASE o = "failed"
    BY <1>4, <2>2, <2>3 DEF Publish, Confirmed, Abstract!outboxVars
  <2>4. CASE o # "failed"
    BY <1>4, <2>1, <2>2, <2>4 DEF Publish, Confirmed, Abstract!Next, Abstract!Deliver
  <2>. QED  BY <2>3, <2>4
<1>5. CASE MarkPublished(r, o)
  <2>1. current[r] \in Events /\ current[r] \in broker
    BY <1>5 DEF MarkPublished, RelayInv, TermInv, TypeOK
  <2>. QED  BY <1>5, <2>1, SettleRefines DEF MarkPublished
<1>6. ASSUME NEW e \in Events, MarkFailed(r, e, o)
      PROVE  Abstract!Next \/ UNCHANGED Abstract!outboxVars
  BY <1>6, SettleRefines DEF MarkFailed
<1>7. CASE Release(r, o)
  <2>1. outboxStatus' = outboxStatus
    BY <1>7, FreeRowsInvisible DEF Release, Held
  <2>. QED  BY <1>7, <2>1 DEF Release, envVars, Abstract!outboxVars
<1>. QED  BY <1>1, <1>2, <1>3, <1>4, <1>5, <1>6, <1>7 DEF Loop

LEMMA NextRefines ==
    TypeOK /\ RelayInv /\ [Next]_vars => [Abstract!Next]_(Abstract!outboxVars)
<1>. SUFFICES ASSUME TypeOK, RelayInv, [Next]_vars
              PROVE  Abstract!Next \/ UNCHANGED Abstract!outboxVars
  OBVIOUS
<1>. USE DEF rowVars, envVars
<1>1. ASSUME NEW e \in Events, AppendEvent(e) PROVE Abstract!Next
  <2>1. outboxStatus[e] = "absent" /\ outboxStatus' = [outboxStatus EXCEPT ![e] = "undelivered"]
    BY <1>1 DEF AppendEvent, outboxStatus, TypeOK
  <2>. QED  BY <1>1, <2>1 DEF AppendEvent, Abstract!Next, Abstract!Store
<1>2. ASSUME NEW r \in Instances, NEW S \in SUBSET Events, DeletePublishedBefore(r, S)
      PROVE  Abstract!Next
  <2>1. /\ \A e \in S : outboxStatus[e] = "published"
        /\ outboxStatus' = [e \in Events |-> IF e \in S THEN "purged" ELSE outboxStatus[e]]
    BY <1>2 DEF DeletePublishedBefore, outboxStatus
  <2>. QED  BY <1>2, <2>1 DEF DeletePublishedBefore, Abstract!Next, Abstract!Purge
<1>3. CASE UNCHANGED <<state, broker>>
  BY <1>3 DEF outboxStatus, Abstract!outboxVars
<1>4. ASSUME NEW r \in Instances, Local(r) PROVE UNCHANGED <<state, broker>>
  BY <1>4 DEF Local, EndCycle, StopEarly, Send, Wake, Return
<1>5. ASSUME NEW r \in Instances, Lead(r) \/ LoseKey(r) \/ EndTerm(r) \/ Crash(r)
      PROVE  UNCHANGED <<state, broker>>
  BY <1>5 DEF Lead, LoseKey, EndTerm, Crash
<1>6. Tick \/ UNCHANGED vars => UNCHANGED <<state, broker>>
  BY DEF Tick, vars
<1>. QED  BY <1>1, <1>2, <1>3, <1>4, <1>5, <1>6, LoopRefines DEF Next

\* docs/events.md: with all its leases, leaders and faults the relay is an
\* Outbox: delivery is at least once, and never after it was recorded.
THEOREM RelayImplementsOutbox == Spec => ImplementsOutbox
<1>1. Init => Abstract!Init
  BY DEF Init, Abstract!Init, outboxStatus
<1>. QED  BY <1>1, NextRefines, RelayInvariant, PTL DEF Spec, ImplementsOutbox, Abstract!Spec
=============================================================================
