SPECIFICATION Spec
CONSTANTS
  Groups = {"g1", "g2"}
  Ids = {"c1", "c2", "c3"}
  BackoffLimit = 2
INVARIANTS TypeOk SuccessIsDeployed ConfigRemoved
