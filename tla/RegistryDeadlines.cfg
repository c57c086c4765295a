SPECIFICATION FairSpec
CONSTANTS
  Call = {"migrations"}
  Probe = {"bounded", "unbounded"}
  Group = {"init"}
  Ungrouped = "ungrouped"
  RegistryWide = "registry_wide"
  GroupOf <- MCGroupOf
  Name <- MCName
  NameOf <- MCNameOf
  Deadline <- MCDeadline
  Lag = 1
  MaxElapsed = 3
  CheckOutcome = {"healthy", "error", "timed_out"}
INVARIANTS TimeoutsAreEarned
PROPERTIES EveryProbeEnds RegistrationResolves DroppedCallerRegisters
