SPECIFICATION Spec
CONSTANTS
  OldRevisions = {}
  MaxFaults = 0
  MaxReloads = 0
  MaxRestores = 0
INVARIANT StampedIsNotRefused
