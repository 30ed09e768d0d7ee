\* Every table of four profiles and three instances, one leader.
SPECIFICATION Spec
CONSTANTS
    Instances = {1, 2, 3}
    Profiles = {1, 2, 3, 4}
    Leaders = {1}
    MaxChanges = 0
    MaxFaults = 0
INVARIANTS ReconcileBalances PlanMinimal
