CONSTANTS
  MaxTyped = 6
  MaxSent = 4
  People = 3
  MaxFaces = 3
  Distances = {0, 1, 2}
  Limit = 2
SPECIFICATION Spec
INVARIANTS CommandsMeanText OnlyCutsConfuse FacesNamed
PROPERTIES EndsWhereItShould WholeMessageResyncs
CHECK_DEADLOCK FALSE
