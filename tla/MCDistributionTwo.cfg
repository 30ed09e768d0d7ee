\* Two leaders, two instances, two profiles, two changes and a failed call.
SPECIFICATION Spec
CONSTANTS
    Instances = {1, 2}
    Profiles = {1, 2}
    Leaders = {1, 2}
    MaxChanges = 2
    MaxFaults = 1
INVARIANTS TypeOK ReconcileBalances TokenNeverReused TokenInv
