SPECIFICATION Spec
CONSTANTS
  OldRevisions = {7, 13}
  MaxFaults = 1
  MaxReloads = 1
  MaxRestores = 1
INVARIANT TypeOK StampKept ChangesAreBackedUp ConsistentUpgradeRuns KillLeavesConsistent ServesComplete
PROPERTY ConsistentIsServed
