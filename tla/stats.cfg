SPECIFICATION Spec
CONSTANTS
  Requests = {r1, r2}
  MaxLatency = 2
SYMMETRY Symmetry
INVARIANTS
  TypeOK
  EachFigureIsOfTheCall
  AverageIsBounded
  ActiveWithinTotal
  QuietReportIsExact
