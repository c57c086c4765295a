SPECIFICATION Spec
CONSTANTS
  Name <- MCName
  Duration <- MCDuration
  MaxChecks = 2
INVARIANTS NamesReadBack SeriesAreUnique GaugesMatchAggregate HistogramsAreCumulative
