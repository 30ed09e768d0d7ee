---------------------------- MODULE Distribution ----------------------------
(***************************************************************************)
(* The leader task that spreads the Email Profiles over the healthy        *)
(* instances (internal/distribution): planDistribution, the reconciliation *)
(* that applies a plan change by change, and the assignments it writes     *)
(* (store/postgres/email_profile_runtime_store.go).                        *)
(*                                                                         *)
(* Instances and profiles are numbers, since the plan depends on their     *)
(* order.  An instance that lost the election key may go on reconciling    *)
(* until its term ends, so stale plans of two leaders interleave with each *)
(* other, with profiles that are switched, and with instances that come    *)
(* and go.  A restarted process is a new instance.                         *)
(***************************************************************************)
EXTENDS Naturals, Sequences, FiniteSets, SequencesExt

CONSTANTS
    Instances,   \* email-service processes, as Consul knows them
    Profiles,
    Leaders,     \* the instances that ever lead
    MaxChanges,  \* bound: how often the environment changes anything
    MaxFaults    \* bound: how many calls fail

ASSUME DistributionAssumption ==
    /\ Instances \subseteq Nat \ {0}
    /\ Profiles \subseteq Nat
    /\ Leaders \subseteq Instances
    /\ MaxChanges \in Nat /\ MaxFaults \in Nat

NoInstance == 0

VARIABLES
    \* email.profile and email.profile_runtime
    status, owner, generation,
    \* Consul: the healthy instances and the election key
    live, leader,
    \* the distributor of a leader: its step, the instances and the rows it read,
    \* and the changes it has still to make
    pc, healthy, rows, todo,
    \* bounds
    changes, faults,
    \* history: reconciliations nothing interfered with; assignments that ended
    undisturbed, ended

rowVars  == <<status, owner, generation>>
planVars == <<pc, healthy, rows, todo>>
vars == <<rowVars, live, leader, planVars, changes, faults, undisturbed, ended>>

Owners == Instances \cup {NoInstance}

Rows == [enabled : SUBSET Profiles, owner : [Profiles -> Owners]]

Changes == Seq([profile : Profiles, instance : Owners])

TypeOK ==
    /\ status \in [Profiles -> {"enabled", "disabled", "deleted"}]
    /\ owner \in [Profiles -> Owners]
    /\ generation \in [Profiles -> Nat]
    /\ live \subseteq Instances
    /\ leader \in Leaders \cup {NoInstance}
    /\ pc \in [Leaders -> {"off", "idle", "list", "apply"}]
    /\ healthy \in [Leaders -> SUBSET Instances]
    /\ rows \in [Leaders -> Rows]
    /\ todo \in [Leaders -> Changes]
    /\ changes \in 0 .. MaxChanges
    /\ faults \in 0 .. MaxFaults
    /\ undisturbed \in [Leaders -> BOOLEAN]
    /\ ended \subseteq Profiles \X Instances \X (Nat \ {0})

NoRows == [enabled |-> {}, owner |-> [p \in Profiles |-> NoInstance]]

\* The table is what earlier leaders left: any profile may be owned by any instance.
Init ==
    /\ status \in [Profiles -> {"enabled", "disabled"}]
    /\ owner \in [Profiles -> Owners]
    /\ generation = [p \in Profiles |-> IF owner[p] = NoInstance THEN 0 ELSE 1]
    /\ live \in SUBSET Instances
    /\ leader = NoInstance
    /\ pc = [r \in Leaders |-> "off"]
    /\ healthy = [r \in Leaders |-> {}]
    /\ rows = [r \in Leaders |-> NoRows]
    /\ todo = [r \in Leaders |-> <<>>]
    /\ changes = 0 /\ faults = 0
    /\ undisturbed = [r \in Leaders |-> FALSE]
    /\ ended = {}
-----------------------------------------------------------------------------
(* planDistribution, for the instances S and the rows t.                   *)

Load(t, i) == Cardinality({p \in t.enabled : t.owner[p] = i})

\* The place of an instance in byLoad: by load, then by id.
Rank(S, t, i) ==
    Cardinality({j \in S : Load(t, j) > Load(t, i) \/ (Load(t, j) = Load(t, i) /\ j < i)})

\* Bug: every instance may keep up to the rounded-up share.
RoundedUp(S, t, i) ==
    (Cardinality(t.enabled) + Cardinality(S) - 1) \div Cardinality(S)

\* Bug: the extra slots go to the first instances, whatever they own.
ExtraById(S, t, i) ==
    LET n == Cardinality(t.enabled)
        k == Cardinality(S)
    IN  n \div k + IF Cardinality({j \in S : j < i}) < n % k THEN 1 ELSE 0

\* The most loaded instances get the extra slot.
Quota(S, t, i) ==
    LET n == Cardinality(t.enabled)
        k == Cardinality(S)
    IN  n \div k + IF Rank(S, t, i) < n % k THEN 1 ELSE 0

\* An instance keeps its first profiles, up to its quota.
Kept(S, t, i) ==
    LET owned == {p \in t.enabled : t.owner[p] = i}
    IN  {p \in owned : Cardinality({q \in owned : q < p}) < Quota(S, t, i)}

Neediest(S, room) ==
    CHOOSE i \in S : \A j \in S : room[i] > room[j] \/ (room[i] = room[j] /\ i <= j)

\* Each pending profile, in order, goes to the instance with most room left.
Place(S, room, pending) ==
    LET step(acc, p) ==
            LET i == Neediest(S, acc.room) IN
            [room |-> [acc.room EXCEPT ![i] = @ - 1],
             assign |-> Append(acc.assign, [profile |-> p, instance |-> i])]
    IN  FoldLeft(step, [room |-> room, assign |-> <<>>], pending).assign

planDistribution(S, t) ==
    LET sorted(P) == SetToSortSeq(P, <)
        disabled == {p \in Profiles : p \notin t.enabled /\ t.owner[p] # NoInstance}
        pending == t.enabled \ UNION {Kept(S, t, i) : i \in S}
        room == [i \in S |-> Quota(S, t, i) - Cardinality(Kept(S, t, i))]
        unassign == [n \in 1 .. Cardinality(disabled) |->
                        [profile |-> sorted(disabled)[n], instance |-> NoInstance]]
    IN  unassign \o Place(S, room, sorted(pending))
-----------------------------------------------------------------------------
(* The environment.                                                        *)

Change ==
    /\ changes < MaxChanges
    /\ changes' = changes + 1
    /\ undisturbed' = [r \in Leaders |-> FALSE]

\* An instance registers, or Consul drops it.
Join(i) ==
    /\ i \notin live
    /\ Change
    /\ live' = live \cup {i}
    /\ UNCHANGED <<rowVars, leader, planVars, faults, ended>>

Leave(i) ==
    /\ i \in live
    /\ Change
    /\ live' = live \ {i}
    /\ UNCHANGED <<rowVars, leader, planVars, faults, ended>>

\* The profile service switches a profile on or off.
Switch(p) ==
    /\ status[p] # "deleted"
    /\ Change
    /\ status' = [status EXCEPT ![p] = IF @ = "enabled" THEN "disabled" ELSE "enabled"]
    /\ UNCHANGED <<owner, generation, live, leader, planVars, faults, ended>>

\* The current assignment of p is over.
End(p) == IF owner[p] = NoInstance THEN ended ELSE ended \cup {<<p, owner[p], generation[p]>>}

\* The runtime row goes with the profile; ids are not used again.
Delete(p) ==
    /\ status[p] # "deleted"
    /\ Change
    /\ status' = [status EXCEPT ![p] = "deleted"]
    /\ owner' = [owner EXCEPT ![p] = NoInstance]
    /\ ended' = End(p)
    /\ UNCHANGED <<generation, live, leader, planVars, faults>>
-----------------------------------------------------------------------------
(* Terms (infra/leader).                                                   *)

Lead(r) ==
    /\ leader = NoInstance
    /\ pc[r] = "off"
    /\ leader' = r
    /\ pc' = [pc EXCEPT ![r] = "idle"]
    /\ UNCHANGED <<rowVars, live, healthy, rows, todo, changes, faults, undisturbed, ended>>

\* Consul gives the key away before the term notices.
LoseKey ==
    /\ leader # NoInstance
    /\ changes < MaxChanges
    /\ changes' = changes + 1
    /\ leader' = NoInstance
    /\ UNCHANGED <<rowVars, live, planVars, faults, undisturbed, ended>>

\* The context of the term is cancelled, or the process is gone.
EndTerm(r) ==
    /\ pc[r] # "off"
    /\ leader # r
    /\ pc' = [pc EXCEPT ![r] = "off"]
    /\ healthy' = [healthy EXCEPT ![r] = {}]
    /\ rows' = [rows EXCEPT ![r] = NoRows]
    /\ todo' = [todo EXCEPT ![r] = <<>>]
    /\ undisturbed' = [undisturbed EXCEPT ![r] = FALSE]
    /\ UNCHANGED <<rowVars, live, leader, changes, faults, ended>>
-----------------------------------------------------------------------------
(* reconcile.                                                              *)

\* No healthy instance: the assignments are kept.
GetService(r) ==
    /\ pc[r] = "idle"
    /\ \/ /\ live # {}
          /\ healthy' = [healthy EXCEPT ![r] = live]
          /\ pc' = [pc EXCEPT ![r] = "list"]
          /\ undisturbed' = [undisturbed EXCEPT ![r] = TRUE]
       \/ /\ live = {}
          /\ UNCHANGED <<healthy, pc, undisturbed>>
    /\ UNCHANGED <<rowVars, live, leader, rows, todo, changes, faults, ended>>

\* Bug: disabled profiles are not listed, owned or not.
ListedEnabled(p) == status[p] = "enabled"

Listed(p) == status[p] = "enabled" \/ owner[p] # NoInstance

ListOwnership(r) ==
    LET t == [enabled |-> {p \in Profiles : status[p] = "enabled"},
              owner |-> [p \in Profiles |-> IF Listed(p) THEN owner[p] ELSE NoInstance]]
    IN
    /\ pc[r] = "list"
    /\ rows' = [rows EXCEPT ![r] = t]
    /\ todo' = [todo EXCEPT ![r] = planDistribution(healthy[r], t)]
    /\ pc' = [pc EXCEPT ![r] = "apply"]
    /\ UNCHANGED <<rowVars, live, leader, healthy, changes, faults, undisturbed, ended>>

Fail(r) ==
    /\ faults < MaxFaults
    /\ faults' = faults + 1
    /\ undisturbed' = [undisturbed EXCEPT ![r] = FALSE]

ListFailed(r) ==
    /\ pc[r] = "list"
    /\ Fail(r)
    /\ pc' = [pc EXCEPT ![r] = "idle"]
    /\ UNCHANGED <<rowVars, live, leader, healthy, rows, todo, changes, ended>>

\* A write of one leader interferes with the reconciliations of the others.
Interferes(r, p, i) ==
    undisturbed' = [q \in Leaders |-> undisturbed[q] /\ (q = r \/ owner[p] = i)]

Unassign(r, p) ==
    /\ pc[r] = "apply" /\ todo[r] # <<>>
    /\ Head(todo[r]) = [profile |-> p, instance |-> NoInstance]
    /\ owner' = [owner EXCEPT ![p] = NoInstance]
    /\ ended' = End(p)
    /\ Interferes(r, p, NoInstance)
    /\ todo' = [todo EXCEPT ![r] = Tail(@)]
    /\ UNCHANGED <<status, generation, live, leader, pc, healthy, rows, changes, faults>>

\* Bug: the owners are compared with <>, which is not true for NULL.
NextGenerationIfMoved(p, i) ==
    IF owner[p] \in {i, NoInstance} /\ generation[p] > 0 THEN generation[p] ELSE generation[p] + 1

\* IS DISTINCT FROM: the generation moves with the owner, also from NULL.
NextGeneration(p, i) == IF owner[p] = i THEN generation[p] ELSE generation[p] + 1

\* A deleted profile has no row to insert: an error, and the next change follows.
Assign(r, p, i) ==
    /\ pc[r] = "apply" /\ todo[r] # <<>>
    /\ Head(todo[r]) = [profile |-> p, instance |-> i]
    /\ IF status[p] = "deleted"
       THEN UNCHANGED <<owner, generation, ended, undisturbed>>
       ELSE /\ generation' = [generation EXCEPT ![p] = NextGeneration(p, i)]
            /\ owner' = [owner EXCEPT ![p] = i]
            /\ ended' = IF owner[p] = i THEN ended ELSE End(p)
            /\ Interferes(r, p, i)
    /\ todo' = [todo EXCEPT ![r] = Tail(@)]
    /\ UNCHANGED <<status, live, leader, pc, healthy, rows, changes, faults>>

\* A failed change is left to the next reconciliation.
ChangeFailed(r) ==
    /\ pc[r] = "apply" /\ todo[r] # <<>>
    /\ Fail(r)
    /\ todo' = [todo EXCEPT ![r] = Tail(@)]
    /\ UNCHANGED <<rowVars, live, leader, pc, healthy, rows, changes, ended>>

Reconciled(r) == pc[r] = "apply" /\ todo[r] = <<>>

\* The next reconciliation comes with the ticker or a change of the instances.
Wait(r) ==
    /\ Reconciled(r)
    /\ pc' = [pc EXCEPT ![r] = "idle"]
    /\ healthy' = [healthy EXCEPT ![r] = {}]
    /\ rows' = [rows EXCEPT ![r] = NoRows]
    /\ undisturbed' = [undisturbed EXCEPT ![r] = FALSE]
    /\ UNCHANGED <<rowVars, live, leader, todo, changes, faults, ended>>
-----------------------------------------------------------------------------
reconcile(r) ==
    \/ GetService(r) \/ ListOwnership(r) \/ Wait(r)
    \/ \E p \in Profiles : Unassign(r, p) \/ \E i \in Instances : Assign(r, p, i)

Environment ==
    \/ \E i \in Instances : Join(i) \/ Leave(i)
    \/ \E p \in Profiles : Switch(p) \/ Delete(p)
    \/ LoseKey

Next ==
    \/ Environment
    \/ \E r \in Leaders : Lead(r) \/ EndTerm(r) \/ reconcile(r) \/ ListFailed(r) \/ ChangeFailed(r)

Spec == Init /\ [][Next]_vars

\* Some instance leads, a term without the key ends, and a leader reconciles again
\* and again, with the ticker.
FairSpec ==
    /\ Spec
    /\ WF_vars(\E r \in Leaders : Lead(r))
    /\ \A r \in Leaders : WF_vars(EndTerm(r)) /\ WF_vars(reconcile(r))
-----------------------------------------------------------------------------
(* Properties.                                                             *)

Even(S, on, f) ==
    \A i, j \in S : Cardinality({p \in on : f[p] = i}) <= Cardinality({p \in on : f[p] = j}) + 1

Enabled == {p \in Profiles : status[p] = "enabled"}

Balanced ==
    /\ \A p \in Profiles \ Enabled : owner[p] = NoInstance
    /\ \A p \in Enabled : owner[p] \in live
    /\ Even(live, Enabled, owner)

\* plan.go:21 "gives every instance floor(N/K) or ceil(N/K) enabled profiles", with
\* reconcile: once a plan nothing interfered with is applied, every enabled profile has
\* one healthy owner, the shares differ by at most one, and no other profile is owned.
ReconcileBalances == \A r \in Leaders : Reconciled(r) /\ undisturbed[r] => Balanced

\* plan.go:21 "moving as few as possible": no even distribution of the rows that were
\* read over the same instances leaves more profiles where they are.
PlanMinimal ==
    \A r \in Leaders :
        LET t == rows[r]
            plan == planDistribution(healthy[r], t)
        IN  pc[r] = "apply" /\ todo[r] = plan =>
                \A f \in [t.enabled -> healthy[r]] :
                    Even(healthy[r], t.enabled, f) =>
                        Cardinality({n \in DOMAIN plan : plan[n].instance # NoInstance})
                            <= Cardinality({p \in t.enabled : f[p] # t.owner[p]})

\* The fence of every write of a poll: an assignment that ended is never current again,
\* not even when the profile comes back to the same instance (Unassign, "The next
\* Assign increments the generation, even for the same instance"), whatever stale
\* plans two leaders apply.
TokenNeverReused == \A p \in Profiles : <<p, owner[p], generation[p]>> \notin ended

\* The inductive invariant behind it: an assignment that ended has an older generation,
\* or the current one of a profile without an owner.
TokenInv ==
    /\ owner \in [Profiles -> Owners]
    /\ generation \in [Profiles -> Nat]
    /\ \A x \in ended :
          /\ x \in Profiles \X Instances \X Nat
          /\ x[3] < generation[x[1]] \/ (x[3] = generation[x[1]] /\ owner[x[1]] = NoInstance)

\* When instances, profiles and the election come to rest, the distribution is even
\* and stays so: stale plans of former leaders are repaired, and plans do not chase
\* each other.
EventuallyBalanced == <>[](live # {} => Balanced)
=============================================================================
