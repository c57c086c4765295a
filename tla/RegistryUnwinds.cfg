SPECIFICATION Spec
CONSTANTS
  Call = {"cache"}
  Probe = {"bounded"}
  Group = {"init"}
  Ungrouped = "ungrouped"
  RegistryWide = "registry_wide"
  GroupOf <- MCGroupOf
  Name <- MCName
  NameOf <- MCNameOf
  Deadline <- MCDeadline
  Lag = 0
  MaxElapsed = 2
  CheckOutcome = {"healthy"}
INVARIANTS NeverUnwinds
