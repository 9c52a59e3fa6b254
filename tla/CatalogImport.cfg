SPECIFICATION Spec
CONSTANTS
  k1 = k1  k2 = k2  k3 = k3  k4 = k4
  x = x  y = y  z = z  doc = doc  rule = rule
  None = None
  Commits = {k1, k2, k3, k4}
  Paths = {1, 2, 3}
  Contents = {x, y, z}
  Partial = {z}
  Artifacts = {doc, rule}
  ArtifactId <- Ids
  Trees <- SomeTrees
SYMMETRY CommitSymmetry
CHECK_DEADLOCK FALSE
INVARIANTS ChainStands CatalogHoldsSource ArtifactsFollowCatalog
