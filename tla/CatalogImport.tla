--------------------------- MODULE CatalogImport ---------------------------
(***************************************************************************)
(* Catalog imports of the managed governance control plane                 *)
(* (tools/managed-governance-control-plane): the governed sources of a     *)
(* commit are planned against the active catalog of the repository and     *)
(* applied as a batch, and the active batch can be rolled back.            *)
(*                                                                         *)
(* Apply and rollback are PostgreSQL transactions under one advisory lock, *)
(* so each is a step.  A plan is made before and outside of them, by any   *)
(* process: the catalog it was made on need not be the active one when it  *)
(* is applied.                                                             *)
(***************************************************************************)
EXTENDS Naturals, Sequences, FiniteSets, SequencesExt

CONSTANTS
  Commits,       (* source commits, under one importer and one profile     *)
  Paths,         (* source paths, in their order                           *)
  Contents,      (* content digests                                        *)
  Partial,       (* those of sources that cannot be parsed                 *)
  Artifacts,
  ArtifactId,    (* artifactIdFor: of a path; some paths share one         *)
  Trees,         (* what a commit may hold                                 *)
  None

ASSUME CatalogAssumption ==
  /\ Paths \subseteq Nat /\ IsFiniteSet(Paths)
  /\ ArtifactId \in [Paths -> Artifacts]
  /\ Trees \subseteq [Paths -> Contents \cup {None}]
  /\ None \notin Commits \cup Contents \cup {"published", "draft", "deprecated"}
  /\ None \notin [artifact : Artifacts, content : Contents, version : Artifacts \X (Nat \ {0})]

VARIABLES
  tree,          (* what each commit holds                                 *)
  batch,         (* import_batches, one a commit                           *)
  snapshots,     (* catalog_source_snapshots of each batch                 *)
  activeBatch,   (* active_batch_id of the repository                      *)
  versions,      (* artifact_versions: the content of each                 *)
  current,       (* current_version                                        *)
  lifecycle      (* lifecycle_status                                       *)

vars == <<tree, batch, snapshots, activeBatch, versions, current, lifecycle>>

Discovered(c) == {p \in Paths : tree[c][p] # None}

Imported == {c \in Commits : batch[c].status # "none"}

Empty == [p \in Paths |-> None]

\* listCatalogEntries while a batch, or none, is active.
Catalog(b) == IF b = None THEN Empty ELSE snapshots[b]

-----------------------------------------------------------------------------
(* The plan for a commit, made on the catalog of a batch (buildImportItems) *)

\* The sources of the catalog that are gone and have the content of p.
Moved(c, b, p) ==
  {q \in Paths \ Discovered(c) : Catalog(b)[q] # None /\ Catalog(b)[q].content = tree[c][p]}

\* renameCandidates: the only one is consumed by the first new path.
RenameCandidates(c, b, p) ==
  LET moved == Moved(c, b, p)
      first == \A q \in Discovered(c) : q < p /\ tree[c][q] = tree[c][p] => Catalog(b)[q] # None
  IN  IF Cardinality(moved) # 1 \/ tree[c][p] \in Partial \/ first THEN moved ELSE {}

\* Mutant: a source that is still there is taken to be the same.
ItemOfPathOnly(c, b, p) ==
  LET old == Catalog(b)[p] IN
  IF old # None THEN [action |-> "noop", artifact |-> old.artifact, from |-> p]
  ELSE [action |-> "create", artifact |-> ArtifactId[p], from |-> p]

\* The item of a source that was discovered.
Item(c, b, p) ==
  LET old == Catalog(b)[p]
      candidates == RenameCandidates(c, b, p)
      action ==
        IF old # None THEN IF {tree[c][p], old.content} \cap Partial # {} THEN "review"
                           ELSE IF old.content = tree[c][p] THEN "noop" ELSE "version"
        ELSE IF Cardinality(candidates) > 1 THEN "ambiguous"
        ELSE IF tree[c][p] \in Partial THEN "review"
        ELSE IF candidates # {} THEN "rename" ELSE "create"
      from == IF action = "rename" THEN CHOOSE q \in candidates : TRUE ELSE p
  IN  [action |-> action, from |-> from,
       artifact |-> IF Catalog(b)[from] # None THEN Catalog(b)[from].artifact ELSE ArtifactId[p]]

\* prepareImportBatchCommand compares the items with the discovery: the issue
\* of an ambiguous rename is not among those of the source, and only a rename
\* may have an artifact that is not the one of its path.
Accepted(c, b) ==
  \A p \in Discovered(c) :
    LET item == Item(c, b, p) IN
    /\ item.action # "ambiguous"
    /\ item.action # "rename" => item.artifact = ArtifactId[p]

-----------------------------------------------------------------------------
(* The batch (applyImportBatch)                                            *)

Least(S) == CHOOSE p \in S : \A q \in S : p <= q
Greatest(S) == CHOOSE p \in S : \A q \in S : q <= p

Unchanged(c, b, p) == Item(c, b, p).action \in {"noop", "rename"}

\* The entry of the active catalog whose version an unchanged source keeps: by
\* path, by the path it was planned to come from, or by artifact and content.
Prior(c, b, p) ==
  LET item == Item(c, b, p)
      now == Catalog(activeBatch)
      alike == {q \in Paths : /\ now[q] # None /\ now[q].artifact = item.artifact
                              /\ now[q].content = tree[c][p]}
  IN  IF now[p] # None THEN now[p]
      ELSE IF now[item.from] # None THEN now[item.from]
      ELSE IF alike # {} THEN now[Least(alike)] ELSE None

\* MANAGED_GOVERNANCE_IMPORT_PLAN_STALE
Stale(c, b) == \E p \in Discovered(c) : Unchanged(c, b, p) /\ Prior(c, b, p) = None

\* The sources that bring an artifact a content it never had, the first of each.
Novel(c, b, a) ==
  LET bring == {p \in Discovered(c) : /\ ~Unchanged(c, b, p) /\ Item(c, b, p).artifact = a
                                      /\ tree[c][p] \notin Range(versions[a])}
  IN  {p \in bring : \A q \in bring : tree[c][q] = tree[c][p] => p <= q}

\* The member of a finite set of paths with k members up to it.
Nth(S, k) == CHOOSE p \in S : Cardinality({q \in S : q <= p}) = k

\* Their contents become its next versions, in the order of the paths.
Recorded(c, b, a) ==
  LET novel == Novel(c, b, a)
  IN  versions[a] \o [k \in 1..Cardinality(novel) |-> tree[c][Nth(novel, k)]]

\* catalog_source_snapshots of the batch.
Snapshot(c, b) ==
  [p \in Paths |->
    IF p \notin Discovered(c) THEN None
    ELSE LET a == Item(c, b, p).artifact
             vs == Recorded(c, b, a)
         IN  [artifact |-> a, content |-> tree[c][p],
              version |-> IF Unchanged(c, b, p) THEN Prior(c, b, p).version
                          ELSE <<a, CHOOSE n \in DOMAIN vs : vs[n] = tree[c][p]>>]]

\* The sources of an artifact in a catalog.
SourcesOf(catalog, a) == {p \in Paths : catalog[p] # None /\ catalog[p].artifact = a}

LifecycleOf(entry) == IF entry.content \in Partial THEN "draft" ELSE "published"

\* Mutant: artifacts that lost their source are left as they are.
WithdrawnNever(old, new) == {}

\* Artifacts of the old catalog that the new one has no source of.
Withdrawn(old, new) == {a \in Artifacts : SourcesOf(old, a) # {} /\ SourcesOf(new, a) = {}}

\* Mutant: the batch is chained to the one it was planned on.
PredecessorPlanned(b) == b

\* previous_batch_id is the batch that is active when the plan is applied.
Predecessor(b) == activeBatch

Activate(c, b) ==
  /\ batch' = [d \in Commits |->
       IF d = c THEN [status |-> "completed", active |-> TRUE, previous |-> Predecessor(b),
                      fresh |-> b = activeBatch /\ (b # None => batch[b].fresh)]
       ELSE IF d = activeBatch THEN [batch[d] EXCEPT !.active = FALSE] ELSE batch[d]]
  /\ activeBatch' = c

\* A plan for c, made while b was active, is applied.  A commit is imported
\* once: of one that has a batch, whatever became of it, only the report is
\* returned.  A plan that is refused changes nothing.
Apply(c, b) ==
  /\ b \in Imported \cup {None}
  /\ c \notin Imported /\ Accepted(c, b) /\ ~Stale(c, b)
  /\ LET catalog == Snapshot(c, b)
         last(a) == catalog[Greatest(SourcesOf(catalog, a))]
     IN  /\ snapshots' = [snapshots EXCEPT ![c] = catalog]
         /\ current' = [a \in Artifacts |->
              IF SourcesOf(catalog, a) # {} THEN last(a).version[2] ELSE current[a]]
         /\ lifecycle' = [a \in Artifacts |->
              IF SourcesOf(catalog, a) # {} THEN LifecycleOf(last(a))
              ELSE IF a \in Withdrawn(Catalog(activeBatch), catalog) THEN "deprecated"
              ELSE lifecycle[a]]
  /\ versions' = [a \in Artifacts |-> Recorded(c, b, a)]
  /\ Activate(c, b)
  /\ UNCHANGED tree

\* Mutant: any batch can be rolled back to its predecessor.
MayRollbackAny(c) == c \in Imported /\ batch[c].previous # None

\* Only the active batch can be rolled back, and not the first.
MayRollback(c) == c \in Imported /\ activeBatch = c /\ batch[c].previous # None

\* rollbackImportBatch.  The sources of the restored catalog are read in no
\* order, and the first of each artifact is restored.
Rollback(c) ==
  /\ MayRollback(c)
  /\ LET before == batch[c].previous
         restored == {a \in Artifacts : SourcesOf(Catalog(before), a) # {}}
     IN  /\ \E source \in [restored -> Paths] :
              /\ \A a \in restored : source[a] \in SourcesOf(Catalog(before), a)
              /\ current' = [a \in Artifacts |->
                   IF a \in restored THEN Catalog(before)[source[a]].version[2] ELSE current[a]]
         /\ lifecycle' = [a \in Artifacts |->
              IF a \in restored THEN "published"
              ELSE IF a \in Withdrawn(snapshots[c], Catalog(before)) THEN "deprecated"
              ELSE lifecycle[a]]
         /\ batch' = [batch EXCEPT ![c].status = "rolled-back", ![c].active = FALSE,
                                   ![before].active = TRUE]
         /\ activeBatch' = before
  /\ UNCHANGED <<tree, snapshots, versions>>

Init ==
  /\ tree \in [Commits -> Trees]
  /\ batch = [c \in Commits |-> [status |-> "none", active |-> FALSE, previous |-> None,
                                  fresh |-> FALSE]]
  /\ snapshots = [c \in Commits |-> Empty]
  /\ activeBatch = None
  /\ versions = [a \in Artifacts |-> <<>>]
  /\ current = [a \in Artifacts |-> 0]
  /\ lifecycle = [a \in Artifacts |-> None]

Next ==
  \/ \E c \in Commits, b \in Commits \cup {None} : Apply(c, b)
  \/ \E c \in Commits : Rollback(c)

Spec == Init /\ [][Next]_vars

-----------------------------------------------------------------------------
Batches == [status : {"none", "completed", "rolled-back"}, active : BOOLEAN,
            previous : Commits \cup {None}, fresh : BOOLEAN]

Entries == [artifact : Artifacts, content : Contents, version : Artifacts \X (Nat \ {0})]

\* Type invariant, a part of ArtifactsFollowCatalog.
TypeOK ==
  /\ tree \in [Commits -> Trees]
  /\ batch \in [Commits -> Batches]
  /\ snapshots \in [Commits -> [Paths -> Entries \cup {None}]]
  /\ activeBatch \in Commits \cup {None}
  /\ versions \in [Artifacts -> Seq(Contents)]
  /\ current \in [Artifacts -> Nat]
  /\ lifecycle \in [Artifacts -> {None, "published", "draft", "deprecated"}]

Standing == {c \in Commits : batch[c].status = "completed"}

\* The batches that were not rolled back form one line that ends in the active
\* one: each stands on one that was not rolled back either, no two stand on the
\* same and none on the active one, and the flags of the batches agree with the
\* pointer of the repository, in whatever order batches are applied and rolled
\* back (governance-repository.js:536-574).
ChainStands ==
  /\ activeBatch \in Standing \cup {None}
  /\ Imported # {} => activeBatch # None
  /\ \A c \in Imported : batch[c].active <=> c = activeBatch
  /\ \A c \in Standing : batch[c].previous \in (Standing \ {activeBatch}) \cup {None}
  /\ \A c, d \in Standing : batch[c].previous = batch[d].previous => c = d

\* A catalog lists the sources of its commit, and what it binds a source to is
\* a version of its artifact with the content of the source.  That is so as
\* long as no plan was applied to another catalog than it was made on
\* (import-plan.js:58-93, governance-repository.js:294-305).
CatalogHoldsSource ==
  \A c \in Imported :
    /\ \A p \in Paths : p \in Discovered(c) <=> snapshots[c][p] # None
    /\ \A p \in Discovered(c) :
         LET entry == snapshots[c][p] IN
         /\ entry.content = tree[c][p]
         /\ batch[c].fresh => /\ entry.version[1] = entry.artifact
                              /\ versions[entry.artifact][entry.version[2]] = entry.content

\* After any applies and rollbacks the artifacts in use are those of the active
\* catalog, each at the version of one of its sources; one that is a draft is at
\* a source that was not parsed (governance-repository.js:430-465, 545-563).
ArtifactsFollowCatalog ==
  /\ TypeOK
  /\ \A a \in Artifacts :
    LET sources == SourcesOf(Catalog(activeBatch), a)
        shown == {p \in sources : Catalog(activeBatch)[p].version[2] = current[a]}
    IN  /\ sources # {} <=> lifecycle[a] \in {"published", "draft"}
        /\ sources # {} => shown # {}
        /\ lifecycle[a] = "draft" => \E p \in shown : Catalog(activeBatch)[p].content \in Partial
=============================================================================
