\* Two pipelines on one host or on two, one database.
SPECIFICATION Spec
CONSTANTS
  Pipelines = {p1, p2}
  Hosts = {h1, h2}
  Jobs <- Mixed
  Databases <- Dbs
SYMMETRY Symmetric
INVARIANTS Consistent ResultsAttributed Complete FreshIfRising
CHECK_DEADLOCK FALSE
