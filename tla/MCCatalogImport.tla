-------------------------- MODULE MCCatalogImport --------------------------
(***************************************************************************)
(* CatalogImport with three paths, two of them of one artifact, and three  *)
(* contents, one of which cannot be parsed.                                *)
(***************************************************************************)
EXTENDS CatalogImport

CONSTANTS k1, k2, k3, k4, x, y, z, doc, rule

CommitSymmetry == Permutations(Commits)

Ids == [p \in Paths |-> IF p = 3 THEN rule ELSE doc]

\* What commits hold: a first catalog, a change, moves of a source, two sources
\* of one content, a source that cannot be parsed.
SomeTrees ==
  {<<x, None, y>>, <<y, None, y>>, <<None, x, None>>, <<None, None, x>>, <<x, None, x>>, <<z, x, None>>}
=============================================================================
