------------------------- MODULE DistributionProofs -------------------------
(***************************************************************************)
(* The fence of the assignments, for any number of leaders, instances and  *)
(* profiles.  Which plans the leaders apply does not matter: the proof uses *)
(* the writes only.                                                        *)
(***************************************************************************)
EXTENDS Distribution, TLAPS

\* NoInstance is no instance: process ids are not empty.
LEMMA NoInstanceIsNone == NoInstance \notin Instances
  BY DistributionAssumption DEF NoInstance

\* The table an earlier deployment left has no ended assignment of this history.
LEMMA TokenInit == Init => TokenInv
<1> SUFFICES ASSUME Init PROVE TokenInv
  OBVIOUS
<1>1. generation \in [Profiles -> Nat]
  BY DEF Init
<1> QED
  BY <1>1 DEF Init, TokenInv

\* Ending the assignment of a profile and taking its owner away keeps the invariant.
LEMMA EndedByUnassign ==
    ASSUME TokenInv, NEW p \in Profiles,
           owner' = [owner EXCEPT ![p] = NoInstance],
           ended' = End(p),
           UNCHANGED generation
    PROVE  TokenInv'
<1>1. owner' \in [Profiles -> Owners]
  BY DEF TokenInv, Owners
<1>2. generation' \in [Profiles -> Nat]
  BY DEF TokenInv
<1>3. ASSUME NEW x \in ended'
      PROVE  /\ x \in Profiles \X Instances \X Nat
             /\ x[3] < generation'[x[1]] \/ (x[3] = generation'[x[1]] /\ owner'[x[1]] = NoInstance)
  <2>1. CASE x \in ended
    BY <2>1 DEF TokenInv
  <2>2. CASE x \notin ended
    <3>1. owner[p] # NoInstance /\ x = <<p, owner[p], generation[p]>>
      BY <1>3, <2>2 DEF End
    <3>2. owner[p] \in Instances /\ generation[p] \in Nat
      BY <3>1 DEF TokenInv, Owners
    <3> QED
      BY <3>1, <3>2 DEF TokenInv
  <2> QED
    BY <2>1, <2>2
<1> QED
  BY <1>1, <1>2, <1>3 DEF TokenInv

\* Assign moves the generation whenever it moves the owner.
LEMMA AssignKeepsToken ==
    ASSUME TokenInv, NEW r \in Leaders, NEW p \in Profiles, NEW i \in Instances,
           Assign(r, p, i)
    PROVE  TokenInv'
<1>0. CASE status[p] = "deleted"
  BY <1>0 DEF Assign, TokenInv
<1>1. CASE status[p] # "deleted" /\ owner[p] = i
  <2>1. generation' = generation /\ owner' = owner /\ ended' = ended
    BY <1>1, Zenon DEF Assign, NextGeneration, TokenInv
  <2> QED
    BY <2>1 DEF TokenInv
<1>2. CASE status[p] # "deleted" /\ owner[p] # i
  <2>1. /\ generation' = [generation EXCEPT ![p] = generation[p] + 1]
        /\ owner' = [owner EXCEPT ![p] = i]
        /\ ended' = End(p)
    BY <1>2 DEF Assign, NextGeneration
  <2>2. owner' \in [Profiles -> Owners]
    BY <2>1 DEF TokenInv, Owners
  <2>3. generation' \in [Profiles -> Nat]
    BY <2>1 DEF TokenInv
  <2>4. \A q \in Profiles : generation[q] <= generation'[q]
    BY <2>1 DEF TokenInv
  <2>5. ASSUME NEW x \in ended'
        PROVE  /\ x \in Profiles \X Instances \X Nat
               /\ x[3] < generation'[x[1]] \/ (x[3] = generation'[x[1]] /\ owner'[x[1]] = NoInstance)
    <3>1. CASE x \in ended
      <4>1. CASE x[1] = p
        BY <2>1, <3>1, <4>1 DEF TokenInv
      <4>2. CASE x[1] # p
        <5>1. x \in Profiles \X Instances \X Nat
          BY <3>1 DEF TokenInv
        <5>2. generation'[x[1]] = generation[x[1]] /\ owner'[x[1]] = owner[x[1]]
          BY <2>1, <4>2, <5>1 DEF TokenInv
        <5> QED
          BY <3>1, <5>2 DEF TokenInv
      <4> QED
        BY <4>1, <4>2
    <3>2. CASE x \notin ended
      <4>1. owner[p] # NoInstance /\ x = <<p, owner[p], generation[p]>>
        BY <2>1, <2>5, <3>2 DEF End
      <4>2. owner[p] \in Instances /\ generation[p] \in Nat
        BY <4>1 DEF TokenInv, Owners
      <4> QED
        BY <2>1, <4>1, <4>2 DEF TokenInv
    <3> QED
      BY <3>1, <3>2
  <2> QED
    BY <2>2, <2>3, <2>5 DEF TokenInv
<1> QED
  BY <1>0, <1>1, <1>2

\* Every step keeps the invariant; only Delete, Unassign and Assign write the rows.
LEMMA TokenStep == TokenInv /\ [Next]_vars => TokenInv'
<1> SUFFICES ASSUME TokenInv, [Next]_vars PROVE TokenInv'
  OBVIOUS
<1> DEFINE Untouched == UNCHANGED <<owner, generation, ended>>
<1>0. Untouched => TokenInv'
  BY DEF TokenInv
<1>1. CASE Environment
  <2>1. ASSUME NEW i \in Instances, Join(i) \/ Leave(i) PROVE Untouched
    BY <2>1 DEF Join, Leave, rowVars
  <2>2. ASSUME NEW p \in Profiles, Switch(p) PROVE Untouched
    BY <2>2 DEF Switch
  <2>3. ASSUME NEW p \in Profiles, Delete(p) PROVE TokenInv'
    BY <2>3, EndedByUnassign, Zenon DEF Delete
  <2>4. ASSUME LoseKey PROVE Untouched
    BY <2>4 DEF LoseKey, rowVars
  <2> QED
    BY <1>0, <1>1, <2>1, <2>2, <2>3, <2>4 DEF Environment
<1>2. ASSUME NEW r \in Leaders,
             Lead(r) \/ EndTerm(r) \/ reconcile(r) \/ ListFailed(r) \/ ChangeFailed(r)
      PROVE  TokenInv'
  <2>1. CASE Lead(r) \/ EndTerm(r) \/ ListFailed(r) \/ ChangeFailed(r)
    BY <1>0, <2>1 DEF Lead, EndTerm, ListFailed, ChangeFailed, rowVars
  <2>2. CASE GetService(r) \/ ListOwnership(r) \/ Wait(r)
    BY <1>0, <2>2 DEF GetService, ListOwnership, Wait, rowVars
  <2>3. ASSUME NEW p \in Profiles, Unassign(r, p) PROVE TokenInv'
    BY <2>3, EndedByUnassign, Zenon DEF Unassign
  <2>4. ASSUME NEW p \in Profiles, NEW i \in Instances, Assign(r, p, i) PROVE TokenInv'
    BY <2>4, AssignKeepsToken
  <2> QED
    BY <1>2, <2>1, <2>2, <2>3, <2>4 DEF reconcile
<1>3. CASE UNCHANGED vars
  BY <1>0, <1>3 DEF vars, rowVars
<1> QED
  BY <1>1, <1>2, <1>3 DEF Next

\* An assignment that ended has an older generation, or the current one of a profile
\* without an owner: Unassign keeps the generation and Assign moves past it.
THEOREM TokenInvariant == Spec => []TokenInv
  BY TokenInit, TokenStep, PTL DEF Spec

\* The fencing token of an assignment that ended is never current again, whatever
\* plans overlapping leaders apply (Assign and Unassign of the runtime store).
THEOREM FencingToken == Spec => []TokenNeverReused
<1>1. TokenInv => TokenNeverReused
  BY NoInstanceIsNone DEF TokenInv, TokenNeverReused
<1> QED
  BY <1>1, TokenInvariant, PTL
=============================================================================
