SPECIFICATION Spec
CONSTANTS
  Call = {"cache", "migrations"}
  Probe = {p1, p2}
  p1 = p1
  p2 = p2
  Group = {"init"}
  Ungrouped = "ungrouped"
  RegistryWide = "registry_wide"
  GroupOf <- MCGroupOf
  Name <- MCName
  NameOf <- MCNameOf
  Deadline <- MCDeadline
  Lag = 0
  MaxElapsed = 1
  CheckOutcome = {"degraded"}
SYMMETRY ProbeSymmetry
INVARIANTS FacadeCounts
PROPERTIES VerdictFinal ImplementsContract
