SPECIFICATION Spec
CONSTANTS
  r1 = r1
  r2 = r2
  Requests <- MCRequests
  MaxFiles = 8
  Keep = 2
  MaxWrites = 1
  MaxEvents = 2
INVARIANT TypeOK
PROPERTY CompleteRemains ReplacesWhatIsSaved MaintenanceEnds ContentIsBackedUp
