\* Two leaders, two instances, two profiles, one change and a failed call.
SPECIFICATION FairSpec
CONSTANTS
    Instances = {1, 2}
    Profiles = {1, 2}
    Leaders = {1, 2}
    MaxChanges = 1
    MaxFaults = 1
INVARIANTS TokenNeverReused
PROPERTY EventuallyBalanced
