------------------------ MODULE CatalogImportProofs ------------------------
(***************************************************************************)
(* For any commits, sources and orders of imports and rollbacks: the       *)
(* batches of a repository keep in one line, their catalogs bind sources   *)
(* to what they hold, and the artifacts in use are those of the active one.*)
(***************************************************************************)
EXTENDS CatalogImport, FiniteSetTheorems, WellFoundedInduction, TLAPS

\* The types of what the chain is made of.
BatchTypes == batch \in [Commits -> Batches] /\ activeBatch \in Commits \cup {None}

ChainInv == BatchTypes /\ ChainStands

\* None is no commit, so that a batch without predecessor has none.
LEMMA NoneIsNoCommit == None \notin Commits
BY CatalogAssumption DEF CatalogAssumption

\* An import puts a new batch on top of the active one.
LEMMA ApplyExtends ==
  ASSUME ChainInv, NEW c \in Commits, NEW b \in Commits \cup {None}, Apply(c, b)
  PROVE  ChainInv'
<1> USE NoneIsNoCommit
<1>1. c \notin Imported /\ Activate(c, b)
  BY DEF Apply
<1>2. activeBatch' = c
  BY <1>1 DEF Activate
<1>3. /\ batch'[c].status = "completed" /\ batch'[c].active /\ batch'[c].previous = activeBatch
      /\ batch'[c] \in Batches
  BY <1>1 DEF Activate, Predecessor, Batches, ChainInv, BatchTypes
<1>4. \A d \in Commits \ {c} :
        /\ batch'[d].status = batch[d].status /\ batch'[d].previous = batch[d].previous
        /\ batch'[d].active = (batch[d].active /\ d # activeBatch)
        /\ batch'[d] \in Batches
  BY <1>1 DEF Activate, Batches, ChainInv, BatchTypes
<1>5. BatchTypes'
  <2>1. \A d \in Commits : batch'[d] \in Batches
    BY <1>3, <1>4
  <2>2. batch' = [d \in Commits |-> batch'[d]]
    BY <1>1 DEF Activate
  <2> QED BY <1>2, <2>1, <2>2 DEF BatchTypes
<1>6. Standing' = Standing \cup {c} /\ c \notin Standing
  BY <1>1, <1>3, <1>4 DEF Standing, Imported
<1>7. Imported' = Imported \cup {c}
  BY <1>3, <1>4 DEF Imported
<1>8. ChainStands'
  <2>1. activeBatch' \in Standing' \cup {None} /\ (Imported' # {} => activeBatch' # None)
    BY <1>2, <1>6
  <2>2. ASSUME NEW d \in Imported'
        PROVE  batch'[d].active <=> d = activeBatch'
    BY <1>2, <1>3, <1>4, <1>7 DEF ChainInv, ChainStands, Imported
  <2>3. ASSUME NEW d \in Standing'
        PROVE  batch'[d].previous \in (Standing' \ {activeBatch'}) \cup {None}
    <3>1. CASE d = c
      BY <1>2, <1>3, <1>6, <3>1 DEF ChainInv, ChainStands
    <3>2. CASE d # c
      <4>1. d \in Standing /\ batch'[d].previous = batch[d].previous
        BY <1>4, <1>6, <3>2 DEF Standing
      <4> QED BY <1>2, <1>6, <4>1 DEF ChainInv, ChainStands
    <3> QED BY <3>1, <3>2
  <2>4. ASSUME NEW d \in Standing
        PROVE  batch'[d].previous # activeBatch
    <3>1. d \in Imported /\ d # c
      BY <1>6 DEF Standing, Imported
    <3>2. batch'[d].previous = batch[d].previous /\ activeBatch # None
      BY <1>4, <3>1 DEF Imported, ChainInv, ChainStands
    <3> QED BY <3>2 DEF ChainInv, ChainStands
  <2>5. ASSUME NEW d \in Standing', NEW e \in Standing', batch'[d].previous = batch'[e].previous
        PROVE  d = e
    <3>1. CASE d = c \/ e = c
      BY <1>3, <1>6, <2>4, <2>5, <3>1
    <3>2. CASE d # c /\ e # c
      BY <1>4, <1>6, <2>5, <3>2 DEF Standing, ChainInv, ChainStands
    <3> QED BY <3>1, <3>2
  <2> QED BY <2>1, <2>2, <2>3, <2>5 DEF ChainStands
<1> QED BY <1>5, <1>8 DEF ChainInv

\* A rollback takes the top of the line away.
LEMMA RollbackShortens ==
  ASSUME ChainInv, NEW c \in Commits, Rollback(c)
  PROVE  ChainInv'
<1> USE NoneIsNoCommit
<1> DEFINE before == batch[c].previous
<1>1. c \in Imported /\ activeBatch = c /\ before # None
  BY DEF Rollback, MayRollback
<1>2. c \in Standing /\ before \in Standing /\ before # c
  BY <1>1 DEF ChainInv, ChainStands
<1>3. before \in Commits
  BY <1>2 DEF Standing
<1>4. /\ batch' = [batch EXCEPT ![c].status = "rolled-back", ![c].active = FALSE,
                                ![before].active = TRUE]
      /\ activeBatch' = before
  BY DEF Rollback
<1>5. /\ batch'[c].status = "rolled-back" /\ ~batch'[c].active /\ batch'[c] \in Batches
      /\ batch'[before].status = batch[before].status /\ batch'[before].active
      /\ batch'[before].previous = batch[before].previous /\ batch'[before] \in Batches
  BY <1>2, <1>3, <1>4 DEF ChainInv, BatchTypes, Batches
<1>6. \A d \in Commits \ {c, before} : batch'[d] = batch[d]
  BY <1>4 DEF ChainInv, BatchTypes
<1>7. BatchTypes'
  <2>1. batch' \in [Commits -> Batches]
    BY <1>3, <1>4, <1>5, <1>6 DEF ChainInv, BatchTypes
  <2> QED BY <1>3, <1>4, <2>1 DEF BatchTypes
<1>8. Standing' = Standing \ {c}
  BY <1>5, <1>6 DEF Standing
<1>9. Imported' = Imported
  BY <1>1, <1>2, <1>5, <1>6 DEF Imported, Standing
<1>10. \A d \in Standing' : batch'[d].previous = batch[d].previous
  BY <1>5, <1>6, <1>8 DEF Standing
<1>11. ChainStands'
  <2>1. activeBatch' \in Standing' \cup {None} /\ (Imported' # {} => activeBatch' # None)
    BY <1>1, <1>2, <1>4, <1>8
  <2>2. ASSUME NEW d \in Imported'
        PROVE  batch'[d].active <=> d = activeBatch'
    <3>1. CASE d \in {c, before}
      BY <1>2, <1>4, <1>5, <3>1
    <3>2. CASE d \notin {c, before}
      BY <1>1, <1>4, <1>6, <1>9, <3>2 DEF ChainInv, ChainStands, Imported
    <3> QED BY <3>1, <3>2
  <2>3. ASSUME NEW d \in Standing'
        PROVE  batch'[d].previous \in (Standing' \ {activeBatch'}) \cup {None}
    <3>1. d \in Standing /\ d # c
      BY <1>8
    <3>2. batch[d].previous \in (Standing \ {c}) \cup {None} /\ batch[d].previous # before
      BY <1>1, <1>2, <3>1 DEF ChainInv, ChainStands
    <3> QED BY <1>4, <1>8, <1>10, <3>2
  <2>4. ASSUME NEW d \in Standing', NEW e \in Standing', batch'[d].previous = batch'[e].previous
        PROVE  d = e
    BY <1>8, <1>10, <2>4 DEF ChainInv, ChainStands
  <2> QED BY <2>1, <2>2, <2>3, <2>4 DEF ChainStands
<1> QED BY <1>7, <1>11 DEF ChainInv

LEMMA NextKeepsChain == ChainInv /\ [Next]_vars => ChainInv'
<1> SUFFICES ASSUME ChainInv, [Next]_vars PROVE ChainInv'
  OBVIOUS
<1>1. ASSUME NEW c \in Commits, NEW b \in Commits \cup {None}, Apply(c, b) PROVE ChainInv'
  BY <1>1, ApplyExtends
<1>2. ASSUME NEW c \in Commits, Rollback(c) PROVE ChainInv'
  BY <1>2, RollbackShortens
<1>3. CASE UNCHANGED vars
  BY <1>3 DEF vars, ChainInv, BatchTypes, ChainStands, Standing, Imported
<1> QED BY <1>1, <1>2, <1>3 DEF Next

LEMMA InitIsChain == Init => ChainInv
BY DEF Init, ChainInv, BatchTypes, ChainStands, Standing, Imported, Batches

\* Whatever is imported and rolled back, by whoever and on whichever plan, the
\* standing batches are one line that ends in the active one, and there is one
\* active batch (governance-repository.js:430-470, 536-574).
THEOREM ChainAlwaysStands == Spec => []ChainStands
<1>1. ChainInv => ChainStands
  BY DEF ChainInv
<1> QED BY <1>1, InitIsChain, NextKeepsChain, PTL DEF Spec
-----------------------------------------------------------------------------
(* Sets of paths.                                                          *)

LEMMA LeastNatural ==
  ASSUME NEW T, T \subseteq Nat, T # {}
  PROVE  \E m \in T : \A n \in T : m <= n
<1>1. IsWellFoundedOn(OpToRel(<, Nat), Nat)
  BY NatLessThanWellFounded
<1>2. PICK m \in T : \A n \in T : ~(<<n, m>> \in OpToRel(<, Nat))
  BY <1>1, WFMin
<1>3. \A n \in T : ~(n < m)
  BY <1>2 DEF OpToRel
<1> QED
  BY <1>3

LEMMA PathSets ==
  ASSUME NEW S \in SUBSET Paths
  PROVE  /\ S \subseteq Nat /\ IsFiniteSet(S) /\ Cardinality(S) \in Nat
         /\ S # {} => Cardinality(S) # 0
<1>1. S \subseteq Nat /\ IsFiniteSet(S)
  BY CatalogAssumption, FS_Subset DEF CatalogAssumption
<1> QED
  BY <1>1, FS_CardinalityType, FS_EmptySet

\* A set with an element more is larger.
LEMMA LargerSet ==
  ASSUME NEW S \in SUBSET Paths, NEW T \in SUBSET S, NEW x \in S, x \notin T
  PROVE  Cardinality(T) < Cardinality(S)
<1>1. IsFiniteSet(S) /\ Cardinality(S) \in Nat /\ Cardinality(T) \in Nat
  BY PathSets
<1>2. Cardinality(T) <= Cardinality(S) /\ Cardinality(T) # Cardinality(S)
  BY <1>1, FS_Subset
<1> QED
  BY <1>1, <1>2

LEMMA GreatestIsThere ==
  ASSUME NEW S \in SUBSET Paths, S # {}
  PROVE  Greatest(S) \in S
<1> DEFINE Above(p) == {r \in S : p < r}
           N == {Cardinality(Above(p)) : p \in S}
<1>1. \A p \in S : Above(p) \in SUBSET Paths
  OBVIOUS
<1>2. N \subseteq Nat /\ N # {}
  <2>1. \A p \in S : Cardinality(Above(p)) \in Nat
    BY <1>1, PathSets
  <2> HIDE DEF Above
  <2> QED
    BY <2>1
<1>3. PICK m \in N : \A n \in N : m <= n
  <2> HIDE DEF N
  <2> QED
    BY <1>2, LeastNatural
<1>4. PICK p \in S : m = Cardinality(Above(p))
  OBVIOUS
<1>5. ASSUME NEW q \in S, ~(q <= p)
      PROVE  FALSE
  <2>1. p < q /\ \A r \in S : q < r => p < r
    BY <1>5, PathSets
  <2>2. Above(q) \in SUBSET Above(p) /\ q \in Above(p) /\ q \notin Above(q)
    BY <2>1, PathSets
  <2>3. Cardinality(Above(q)) < Cardinality(Above(p))
    BY <1>1, <2>2, LargerSet
  <2>4. Cardinality(Above(q)) \in N
    OBVIOUS
  <2>5. m <= Cardinality(Above(q)) /\ m \in Nat /\ Cardinality(Above(q)) \in Nat
    BY <1>2, <1>3, <2>4
  <2> HIDE DEF Above, N
  <2> QED
    BY <1>4, <2>3, <2>5
<1> QED
  BY <1>5 DEF Greatest

UpTo(S, p) == {q \in S : q <= p}

LEMMA RanksGrow ==
  ASSUME NEW S \in SUBSET Paths, NEW p \in S, NEW q \in S, p < q
  PROVE  Cardinality(UpTo(S, p)) < Cardinality(UpTo(S, q))
<1>1. p \in Nat /\ q \in Nat /\ S \subseteq Nat
  BY PathSets
<1>2. UpTo(S, p) \in SUBSET UpTo(S, q) /\ q \in UpTo(S, q) /\ q \notin UpTo(S, p)
  <2>1. \A x \in S : x <= p => x <= q
    BY <1>1
  <2>2. q <= q /\ ~(q <= p)
    BY <1>1
  <2> QED
    BY <2>1, <2>2 DEF UpTo
<1>3. UpTo(S, q) \in SUBSET Paths
  BY DEF UpTo
<1> QED
  BY <1>2, <1>3, LargerSet

\* Every rank has its member, and every member its rank.
LEMMA NthIsThere ==
  ASSUME NEW S \in SUBSET Paths
  PROVE  /\ \A k \in 1..Cardinality(S) : Nth(S, k) \in S
         /\ \A p \in S : \E k \in 1..Cardinality(S) : Nth(S, k) = p
<1> DEFINE n == Cardinality(S)
           f == [p \in S |-> Cardinality(UpTo(S, p))]
<1>1. IsFiniteSet(S) /\ n \in Nat /\ S \subseteq Nat
  BY PathSets
<1>2. ASSUME NEW p \in S PROVE f[p] \in 1..n
  <2>1. UpTo(S, p) \in SUBSET S /\ p \in UpTo(S, p) /\ UpTo(S, p) \in SUBSET Paths
    <3>1. p <= p
      BY <1>1
    <3> QED
      BY <3>1 DEF UpTo
  <2>2. Cardinality(UpTo(S, p)) \in Nat /\ Cardinality(UpTo(S, p)) # 0
    BY <2>1, PathSets
  <2>3. Cardinality(UpTo(S, p)) <= n
    BY <1>1, <2>1, FS_Subset
  <2> QED
    BY <1>1, <2>2, <2>3
<1>3. \A p, q \in S : f[p] = f[q] => p = q
  <2> SUFFICES ASSUME NEW p \in S, NEW q \in S, f[p] = f[q], p < q PROVE FALSE
    BY <1>1
  <2>1. f[p] < f[q] /\ f[p] \in Nat
    BY <1>1, <1>2, RanksGrow
  <2> HIDE DEF f
  <2> QED
    BY <2>1
<1>4. f \in Injection(S, 1..n)
  <2>1. f \in [S -> 1..n]
    BY <1>2
  <2> HIDE DEF f, n
  <2> QED
    BY <1>3, <2>1 DEF Injection, IsInjective
<1>5. IsFiniteSet(1..n) /\ Cardinality(1..n) = n
  BY <1>1, FS_Interval
<1>6. f \in Surjection(S, 1..n)
  <2> HIDE DEF f
  <2> QED
    BY <1>4, <1>5, FS_Injection
<1>7. ASSUME NEW k \in 1..n PROVE Nth(S, k) \in S /\ f[Nth(S, k)] = k
  <2>1. \E p \in S : f[p] = k
    <3> HIDE DEF f, n
    <3> QED
      BY <1>6 DEF Surjection
  <2> QED
    BY <2>1 DEF Nth, UpTo
<1>8. ASSUME NEW p \in S PROVE Nth(S, f[p]) = p
  <2> HIDE DEF f, n
  <2> QED
    BY <1>2, <1>3, <1>7
<1> HIDE DEF f
<1> QED
  BY <1>2, <1>7, <1>8
-----------------------------------------------------------------------------
(* What a plan and a batch are made of.                                    *)

LEMMA NoneIsNoEntry == None \notin Entries /\ None \notin Contents
BY CatalogAssumption DEF CatalogAssumption, Entries

LEMMA CatalogTyped ==
  ASSUME TypeOK, NEW b \in Commits \cup {None}
  PROVE  Catalog(b) \in [Paths -> Entries \cup {None}]
<1>1. CASE b = None
  BY <1>1 DEF Catalog, Empty
<1>2. CASE b # None
  <2>1. b \in Commits /\ Catalog(b) = snapshots[b]
    BY <1>2 DEF Catalog
  <2> QED
    BY <2>1 DEF TypeOK
<1> QED
  BY <1>1, <1>2

LEMMA TreeTyped ==
  ASSUME TypeOK, NEW c \in Commits
  PROVE  /\ tree[c] \in [Paths -> Contents \cup {None}]
         /\ Discovered(c) \in SUBSET Paths
         /\ \A p \in Discovered(c) : tree[c][p] \in Contents
<1>1. tree[c] \in Trees /\ Trees \subseteq [Paths -> Contents \cup {None}]
  BY CatalogAssumption DEF TypeOK, CatalogAssumption
<1> QED
  BY <1>1 DEF Discovered

\* An item that is unchanged comes from an entry of the catalog it was planned
\* on: the one of its path, or the only one a rename can come from.
LEMMA ItemFacts ==
  ASSUME TypeOK, NEW c \in Commits, NEW b \in Commits \cup {None}, NEW p \in Discovered(c)
  PROVE  LET item == Item(c, b, p)
             source == Catalog(b)[item.from]
         IN  /\ item.artifact \in Artifacts
             /\ item.from \in Paths
             /\ item.action = "noop" => item.from = p
             /\ item.action = "rename" => Catalog(b)[p] = None
             /\ Unchanged(c, b, p) =>
                  /\ source # None /\ source.content = tree[c][p]
                  /\ source.artifact = item.artifact
<1> DEFINE old == Catalog(b)[p]
           candidates == RenameCandidates(c, b, p)
           action ==
             IF old # None THEN IF {tree[c][p], old.content} \cap Partial # {} THEN "review"
                                ELSE IF old.content = tree[c][p] THEN "noop" ELSE "version"
             ELSE IF Cardinality(candidates) > 1 THEN "ambiguous"
             ELSE IF tree[c][p] \in Partial THEN "review"
             ELSE IF candidates # {} THEN "rename" ELSE "create"
           from == IF action = "rename" THEN CHOOSE q \in candidates : TRUE ELSE p
           artifact == IF Catalog(b)[from] # None THEN Catalog(b)[from].artifact ELSE ArtifactId[p]
<1>1. /\ Item(c, b, p).action = action /\ Item(c, b, p).from = from
      /\ Item(c, b, p).artifact = artifact
  BY DEF Item
<1>2. Catalog(b) \in [Paths -> Entries \cup {None}] /\ p \in Paths
  BY CatalogTyped, TreeTyped
<1>3. \A q \in candidates : /\ q \in Paths /\ Catalog(b)[q] # None
                            /\ Catalog(b)[q].content = tree[c][p]
  BY DEF RenameCandidates, Moved
<1>4. action = "rename" => old = None /\ candidates # {}
  <2> HIDE DEF candidates, old
  <2> QED
    OBVIOUS
<1>5. action = "noop" => old # None /\ old.content = tree[c][p]
  <2> HIDE DEF candidates, old
  <2> QED
    OBVIOUS
<1> HIDE DEF action, candidates
<1>6. action = "rename" => from \in candidates
  BY <1>4
<1>7. action # "rename" => from = p
  OBVIOUS
<1>8. from \in Paths
  BY <1>2, <1>3, <1>6, <1>7
<1> HIDE DEF from
<1>9. artifact \in Artifacts
  <2>1. ArtifactId[p] \in Artifacts
    BY <1>2, CatalogAssumption DEF CatalogAssumption
  <2>2. Catalog(b)[from] # None => Catalog(b)[from].artifact \in Artifacts
    BY <1>2, <1>8 DEF Entries
  <2> QED
    BY <2>1, <2>2
<1>10. Unchanged(c, b, p) => action = "noop" \/ action = "rename"
  BY <1>1 DEF Unchanged
<1>11. Unchanged(c, b, p) => /\ Catalog(b)[from] # None /\ Catalog(b)[from].content = tree[c][p]
                             /\ Catalog(b)[from].artifact = artifact
  BY <1>3, <1>5, <1>6, <1>7, <1>10
<1> HIDE DEF artifact
<1> QED
  BY <1>1, <1>4, <1>7, <1>8, <1>9, <1>11

LEMMA PriorTyped ==
  ASSUME TypeOK, NEW c \in Commits, NEW b \in Commits \cup {None}, NEW p \in Discovered(c),
         Prior(c, b, p) # None
  PROVE  Prior(c, b, p) \in Entries
<1> DEFINE now == Catalog(activeBatch)
           alike == {q \in Paths : /\ now[q] # None /\ now[q].artifact = Item(c, b, p).artifact
                                   /\ now[q].content = tree[c][p]}
<1>1. now \in [Paths -> Entries \cup {None}]
  <2>1. activeBatch \in Commits \cup {None}
    BY DEF TypeOK
  <2> QED
    BY <2>1, CatalogTyped
<1>2. p \in Paths /\ Item(c, b, p).from \in Paths
  BY TreeTyped, ItemFacts
<1>3. alike # {} => Least(alike) \in alike
  <2>1. alike \subseteq Nat
    BY PathSets
  <2> HIDE DEF alike
  <2> QED
    BY <2>1, LeastNatural DEF Least
<1>4. Prior(c, b, p) = IF now[p] # None THEN now[p]
                       ELSE IF now[Item(c, b, p).from] # None THEN now[Item(c, b, p).from]
                       ELSE IF alike # {} THEN now[Least(alike)] ELSE None
  BY Zenon DEF Prior
<1>5. alike # {} => now[Least(alike)] \in Entries
  BY <1>1, <1>3
<1> HIDE DEF alike, now
<1> QED
  BY <1>1, <1>2, <1>4, <1>5

\* The versions an artifact has after a batch: those it had, and each content a
\* changed source brings is among them.
LEMMA RecordedFacts ==
  ASSUME TypeOK, NEW c \in Commits, NEW b \in Commits \cup {None}, NEW a \in Artifacts
  PROVE  /\ Recorded(c, b, a) \in Seq(Contents)
         /\ \A n \in DOMAIN versions[a] : /\ n \in DOMAIN Recorded(c, b, a)
                                          /\ Recorded(c, b, a)[n] = versions[a][n]
         /\ \A p \in Discovered(c) : ~Unchanged(c, b, p) /\ Item(c, b, p).artifact = a =>
              \E n \in DOMAIN Recorded(c, b, a) : Recorded(c, b, a)[n] = tree[c][p]
<1> DEFINE novel == Novel(c, b, a)
           k == Cardinality(novel)
           more == [i \in 1..k |-> tree[c][Nth(novel, i)]]
           bring == {p \in Discovered(c) : /\ ~Unchanged(c, b, p) /\ Item(c, b, p).artifact = a
                                           /\ tree[c][p] \notin Range(versions[a])}
<1>1. novel = {p \in bring : \A q \in bring : tree[c][q] = tree[c][p] => p <= q}
  BY Zenon DEF Novel
<1>2. bring \in SUBSET Discovered(c) /\ bring \in SUBSET Paths
  BY TreeTyped
<1>3. novel \in SUBSET bring /\ novel \in SUBSET Paths
  BY <1>1, <1>2
<1>4. k \in Nat
  BY <1>3, PathSets
<1>5. \A i \in 1..k : Nth(novel, i) \in novel
  BY <1>3, NthIsThere
<1>6. more \in Seq(Contents) /\ Len(more) = k
  <2>1. \A i \in 1..k : tree[c][Nth(novel, i)] \in Contents
    BY <1>2, <1>3, <1>5, TreeTyped
  <2> HIDE DEF novel, k
  <2> QED
    BY <1>4, <2>1
<1>7. versions[a] \in Seq(Contents)
  BY DEF TypeOK
<1>8. Recorded(c, b, a) = versions[a] \o more
  BY Zenon DEF Recorded
<1>9. \A i \in 1..k : more[i] = tree[c][Nth(novel, i)]
  OBVIOUS
<1> HIDE DEF more
<1>10. /\ Recorded(c, b, a) \in Seq(Contents)
       /\ \A n \in DOMAIN versions[a] : /\ n \in DOMAIN Recorded(c, b, a)
                                        /\ Recorded(c, b, a)[n] = versions[a][n]
       /\ \A i \in 1..k : /\ Len(versions[a]) + i \in DOMAIN Recorded(c, b, a)
                          /\ Recorded(c, b, a)[Len(versions[a]) + i] = more[i]
  <2> HIDE DEF k
  <2> QED
    BY <1>4, <1>6, <1>7, <1>8
<1>11. ASSUME NEW p \in Discovered(c), ~Unchanged(c, b, p), Item(c, b, p).artifact = a
       PROVE  \E n \in DOMAIN Recorded(c, b, a) : Recorded(c, b, a)[n] = tree[c][p]
  <2>1. CASE tree[c][p] \in Range(versions[a])
    <3>1. PICK n \in DOMAIN versions[a] : versions[a][n] = tree[c][p]
      BY <2>1 DEF Range
    <3> QED
      BY <1>10, <3>1
  <2>2. CASE tree[c][p] \notin Range(versions[a])
    <3> DEFINE same == {q \in bring : tree[c][q] = tree[c][p]}
    <3>1. p \in bring
      BY <1>11, <2>2
    <3>2. same \subseteq Nat /\ same # {}
      <4> HIDE DEF bring
      <4> QED
        BY <1>2, <3>1, PathSets
    <3>3. PICK q \in same : \A r \in same : q <= r
      <4> HIDE DEF same
      <4> QED
        BY <3>2, LeastNatural
    <3>4. q \in novel /\ tree[c][q] = tree[c][p]
      <4> HIDE DEF bring, novel
      <4> QED
        BY <1>1, <3>3
    <3>5. PICK i \in 1..k : Nth(novel, i) = q
      <4> HIDE DEF novel
      <4> QED
        BY <1>3, <3>4, NthIsThere
    <3> HIDE DEF bring, novel, k
    <3> QED
      BY <1>9, <1>10, <3>4, <3>5
  <2> QED
    BY <2>1, <2>2
<1> QED
  BY <1>10, <1>11
-----------------------------------------------------------------------------
(* Catalogs and the artifacts that follow them.                            *)

\* The version of an entry is one of its artifact, with its content.
IsBound(entry) ==
  /\ entry.version[1] = entry.artifact
  /\ entry.version[2] \in DOMAIN versions[entry.artifact]
  /\ versions[entry.artifact][entry.version[2]] = entry.content

\* A catalog lists the sources of its commit and, as long as no plan was
\* applied to another catalog than its own, binds them.
CatalogsInv ==
  \A c \in Imported, p \in Paths :
    /\ p \in Discovered(c) <=> snapshots[c][p] # None
    /\ p \in Discovered(c) =>
         /\ snapshots[c][p].content = tree[c][p]
         /\ batch[c].fresh => IsBound(snapshots[c][p])

CatalogInv == ArtifactsFollowCatalog /\ CatalogsInv

\* The entry of a source that is kept, and of one that is recorded.
LEMMA SnapshotFacts ==
  ASSUME TypeOK, NEW c \in Commits, NEW b \in Commits \cup {None}, ~Stale(c, b),
         NEW p \in Discovered(c)
  PROVE  LET entry == Snapshot(c, b)[p]
         IN  /\ entry \in Entries
             /\ entry.content = tree[c][p] /\ entry.artifact = Item(c, b, p).artifact
             /\ Unchanged(c, b, p) => /\ Prior(c, b, p) \in Entries
                                      /\ entry.version = Prior(c, b, p).version
             /\ ~Unchanged(c, b, p) =>
                  /\ entry.version[1] = entry.artifact
                  /\ entry.version[2] \in DOMAIN Recorded(c, b, entry.artifact)
                  /\ Recorded(c, b, entry.artifact)[entry.version[2]] = entry.content
<1> DEFINE a == Item(c, b, p).artifact
           vs == Recorded(c, b, a)
           n == CHOOSE n \in DOMAIN vs : vs[n] = tree[c][p]
           version == IF Unchanged(c, b, p) THEN Prior(c, b, p).version ELSE <<a, n>>
           entry == Snapshot(c, b)[p]
<1>1. p \in Paths /\ tree[c][p] \in Contents /\ a \in Artifacts
  BY TreeTyped, ItemFacts
<1>2. entry = [artifact |-> a, content |-> tree[c][p], version |-> version]
  BY <1>1 DEF Snapshot
<1>3. CASE Unchanged(c, b, p)
  <2>1. Prior(c, b, p) # None
    BY <1>3 DEF Stale
  <2>2. Prior(c, b, p) \in Entries
    BY <2>1, PriorTyped
  <2>3. version = Prior(c, b, p).version
    BY <1>3
  <2>4. version \in Artifacts \X (Nat \ {0})
    BY <2>2, <2>3 DEF Entries
  <2> HIDE DEF a, version
  <2>5. entry \in Entries
    BY <1>1, <1>2, <2>4 DEF Entries
  <2> HIDE DEF entry
  <2> QED
    BY <1>2, <1>3, <2>2, <2>3, <2>5 DEF a, entry
<1>4. CASE ~Unchanged(c, b, p)
  <2>1. vs \in Seq(Contents) /\ \E m \in DOMAIN vs : vs[m] = tree[c][p]
    BY <1>1, <1>4, RecordedFacts
  <2>2. n \in DOMAIN vs /\ vs[n] = tree[c][p]
    <3> HIDE DEF vs
    <3> QED
      BY <2>1
  <2>3. n \in Nat \ {0}
    <3> HIDE DEF vs, n
    <3> QED
      BY <2>1, <2>2
  <2>4. version = <<a, n>>
    BY <1>4
  <2> HIDE DEF n, version
  <2>5. version \in Artifacts \X (Nat \ {0}) /\ version[1] = a /\ version[2] = n
    BY <1>1, <2>3, <2>4
  <2>6. entry \in Entries
    <3> HIDE DEF a
    <3> QED
      BY <1>1, <1>2, <2>5 DEF Entries
  <2> HIDE DEF entry
  <2>7. entry.artifact = a /\ entry.content = tree[c][p] /\ entry.version = version
    BY <1>2
  <2> QED
    BY <1>4, <2>2, <2>5, <2>6, <2>7 DEF entry
<1> QED
  BY <1>3, <1>4

LEMMA SnapshotTyped ==
  ASSUME TypeOK, NEW c \in Commits, NEW b \in Commits \cup {None}, ~Stale(c, b)
  PROVE  /\ Snapshot(c, b) \in [Paths -> Entries \cup {None}]
         /\ \A p \in Paths : p \in Discovered(c) <=> Snapshot(c, b)[p] # None
<1>1. \A p \in Paths \ Discovered(c) : Snapshot(c, b)[p] = None
  BY DEF Snapshot
<1>2. \A p \in Discovered(c) : Snapshot(c, b)[p] \in Entries
  BY SnapshotFacts
<1>3. Snapshot(c, b) = [p \in Paths |-> Snapshot(c, b)[p]]
  BY DEF Snapshot
<1>4. Discovered(c) \subseteq Paths
  BY TreeTyped
<1> QED
  BY <1>1, <1>2, <1>3, <1>4, NoneIsNoEntry

\* A plan applied to the catalog it was made on binds the sources of its commit.
LEMMA FreshIsBound ==
  ASSUME TypeOK, CatalogsInv, NEW c \in Commits, NEW b \in Imported \cup {None}, ~Stale(c, b),
         b = activeBatch, b # None => batch[b].fresh, NEW p \in Discovered(c)
  PROVE  LET entry == Snapshot(c, b)[p]
         IN  /\ entry.version[1] = entry.artifact
             /\ entry.version[2] \in DOMAIN Recorded(c, b, entry.artifact)
             /\ Recorded(c, b, entry.artifact)[entry.version[2]] = entry.content
<1> DEFINE entry == Snapshot(c, b)[p]
           source == Catalog(b)[Item(c, b, p).from]
<1>1. b \in Commits \cup {None} /\ p \in Paths
  BY TreeTyped DEF Imported
<1>2. CASE ~Unchanged(c, b, p)
  BY <1>1, <1>2, SnapshotFacts
<1>3. CASE Unchanged(c, b, p)
  <2>1. /\ source # None /\ source.content = tree[c][p]
        /\ source.artifact = Item(c, b, p).artifact
        /\ Item(c, b, p).from \in Paths
        /\ Item(c, b, p).action = "noop" => Item(c, b, p).from = p
        /\ Item(c, b, p).action = "rename" => Catalog(b)[p] = None
    BY <1>1, <1>3, ItemFacts
  <2>2. Prior(c, b, p) = source
    <3>1. Item(c, b, p).action \in {"noop", "rename"}
      BY <1>3 DEF Unchanged
    <3>2. CASE Item(c, b, p).from = p
      BY <2>1, <3>2 DEF Prior
    <3>3. CASE Catalog(b)[p] = None
      BY <2>1, <3>3 DEF Prior
    <3> QED
      BY <2>1, <3>1, <3>2, <3>3
  <2>3. b # None
    BY <2>1 DEF Catalog, Empty
  <2>4. b \in Imported /\ source = snapshots[b][Item(c, b, p).from]
    BY <2>3 DEF Catalog
  <2>5. Item(c, b, p).from \in Discovered(b)
    BY <2>1, <2>4 DEF CatalogsInv
  <2>6. IsBound(source)
    BY <2>1, <2>3, <2>4, <2>5 DEF CatalogsInv
  <2>7. /\ entry.content = tree[c][p] /\ entry.artifact = Item(c, b, p).artifact
        /\ entry.version = source.version
    BY <1>1, <1>3, <2>2, SnapshotFacts
  <2>8. Item(c, b, p).artifact \in Artifacts
    BY <1>1, ItemFacts
  <2>9. \A n \in DOMAIN versions[Item(c, b, p).artifact] :
          /\ n \in DOMAIN Recorded(c, b, Item(c, b, p).artifact)
          /\ Recorded(c, b, Item(c, b, p).artifact)[n] = versions[Item(c, b, p).artifact][n]
    BY <1>1, <2>8, RecordedFacts
  <2> HIDE DEF entry, source
  <2> QED
    BY <2>1, <2>6, <2>7, <2>9 DEF IsBound, entry
<1> QED
  BY <1>2, <1>3
\* What ArtifactsFollowCatalog says of an artifact.
Follows(a) ==
  LET sources == SourcesOf(Catalog(activeBatch), a)
      shown == {p \in sources : Catalog(activeBatch)[p].version[2] = current[a]}
  IN  /\ sources # {} <=> lifecycle[a] \in {"published", "draft"}
      /\ sources # {} => shown # {}
      /\ lifecycle[a] = "draft" => \E p \in shown : Catalog(activeBatch)[p].content \in Partial

LEMMA ArtifactByArtifact == ArtifactsFollowCatalog <=> TypeOK /\ \A a \in Artifacts : Follows(a)
BY Zenon DEF ArtifactsFollowCatalog, Follows

\* An import: the new catalog, its artifacts and its versions.
LEMMA ApplyKeepsCatalogs ==
  ASSUME ChainInv, ChainInv', CatalogInv, NEW c \in Commits, NEW b \in Commits \cup {None},
         Apply(c, b)
  PROVE  CatalogInv'
<1> DEFINE catalog == Snapshot(c, b)
           last(a) == catalog[Greatest(SourcesOf(catalog, a))]
<1>1. /\ b \in Imported \cup {None} /\ c \notin Imported /\ ~Stale(c, b) /\ Activate(c, b)
      /\ UNCHANGED tree
      /\ snapshots' = [snapshots EXCEPT ![c] = catalog]
      /\ current' = [a \in Artifacts |->
           IF SourcesOf(catalog, a) # {} THEN last(a).version[2] ELSE current[a]]
      /\ lifecycle' = [a \in Artifacts |->
           IF SourcesOf(catalog, a) # {} THEN LifecycleOf(last(a))
           ELSE IF a \in Withdrawn(Catalog(activeBatch), catalog) THEN "deprecated"
           ELSE lifecycle[a]]
      /\ versions' = [a \in Artifacts |-> Recorded(c, b, a)]
  BY Zenon DEF Apply
<1>2. TypeOK /\ (\A a \in Artifacts : Follows(a)) /\ CatalogsInv
  BY ArtifactByArtifact DEF CatalogInv
<1>3. /\ catalog \in [Paths -> Entries \cup {None}]
      /\ \A p \in Paths : p \in Discovered(c) <=> catalog[p] # None
  BY <1>1, <1>2, SnapshotTyped
<1>4. \A p \in Discovered(c) : /\ p \in Paths /\ catalog[p] \in Entries
                               /\ catalog[p].content = tree[c][p]
  BY <1>1, <1>2, <1>3, SnapshotFacts, TreeTyped
<1>5. ASSUME NEW p \in Discovered(c), b = activeBatch, b # None => batch[b].fresh
      PROVE  /\ catalog[p].version[1] = catalog[p].artifact
             /\ catalog[p].version[2] \in DOMAIN Recorded(c, b, catalog[p].artifact)
             /\ Recorded(c, b, catalog[p].artifact)[catalog[p].version[2]] = catalog[p].content
  BY <1>1, <1>2, <1>5, FreshIsBound
<1> HIDE DEF catalog
<1>6. ASSUME NEW a \in Artifacts, SourcesOf(catalog, a) # {}
      PROVE  /\ Greatest(SourcesOf(catalog, a)) \in SourcesOf(catalog, a)
             /\ last(a) \in Entries
  <2>1. SourcesOf(catalog, a) \in SUBSET Paths
    BY DEF SourcesOf
  <2>2. Greatest(SourcesOf(catalog, a)) \in SourcesOf(catalog, a)
    BY <1>6, <2>1, GreatestIsThere
  <2>3. \A p \in SourcesOf(catalog, a) : catalog[p] \in Entries
    BY <1>3 DEF SourcesOf
  <2> QED
    BY <2>2, <2>3
<1>7. /\ activeBatch' = c /\ c # None
      /\ batch'[c].fresh = (b = activeBatch /\ (b # None => batch[b].fresh))
      /\ batch'[c].status = "completed"
      /\ \A d \in Commits \ {c} : /\ batch'[d].status = batch[d].status
                                  /\ batch'[d].fresh = batch[d].fresh
  BY <1>1, NoneIsNoCommit DEF Activate, ChainInv, BatchTypes, Batches
<1>8. Imported' = Imported \cup {c}
  BY <1>7 DEF Imported
<1>9. Catalog(activeBatch)' = catalog
  BY <1>1, <1>2, <1>7 DEF Catalog, TypeOK
<1>10. TypeOK'
  <2>1. snapshots' \in [Commits -> [Paths -> Entries \cup {None}]]
    BY <1>1, <1>2, <1>3 DEF TypeOK
  <2>2. versions' \in [Artifacts -> Seq(Contents)]
    BY <1>1, <1>2, RecordedFacts
  <2>3. current' \in [Artifacts -> Nat]
    <3>1. \A a \in Artifacts : SourcesOf(catalog, a) # {} => last(a).version[2] \in Nat
      BY <1>6 DEF Entries
    <3> HIDE DEF last
    <3> QED
      BY <1>1, <1>2, <3>1 DEF TypeOK
  <2>4. lifecycle' \in [Artifacts -> {None, "published", "draft", "deprecated"}]
    BY <1>1, <1>2 DEF TypeOK, LifecycleOf
  <2> QED
    BY <1>1, <1>2, <2>1, <2>2, <2>3, <2>4 DEF TypeOK, ChainInv, BatchTypes
<1>11. ASSUME NEW a \in Artifacts
       PROVE  Follows(a)'
  <2> DEFINE sources == SourcesOf(catalog, a)
  <2>1. CASE sources # {}
    <3> DEFINE p == Greatest(sources)
    <3>1. p \in sources /\ current'[a] = catalog[p].version[2]
          /\ lifecycle'[a] = LifecycleOf(catalog[p])
      BY <1>1, <1>6, <2>1
    <3>2. lifecycle'[a] \in {"published", "draft"}
          /\ (lifecycle'[a] = "draft" => catalog[p].content \in Partial)
      BY <3>1 DEF LifecycleOf
    <3> HIDE DEF p, sources
    <3> QED
      BY <1>9, <2>1, <3>1, <3>2 DEF Follows, sources
  <2>2. CASE sources = {}
    <3>1. lifecycle'[a] = IF a \in Withdrawn(Catalog(activeBatch), catalog) THEN "deprecated"
                          ELSE lifecycle[a]
      BY <1>1, <2>2
    <3>2. a \notin Withdrawn(Catalog(activeBatch), catalog)
            => SourcesOf(Catalog(activeBatch), a) = {}
      BY <2>2 DEF Withdrawn
    <3>3. SourcesOf(Catalog(activeBatch), a) = {} => lifecycle[a] \notin {"published", "draft"}
      BY <1>2 DEF Follows
    <3>4. lifecycle'[a] \notin {"published", "draft"}
      BY <3>1, <3>2, <3>3
    <3> HIDE DEF sources
    <3> QED
      BY <1>9, <2>2, <3>4 DEF Follows, sources
  <2> QED
    BY <2>1, <2>2
<1>12. CatalogsInv'
  <2> SUFFICES ASSUME NEW d \in Imported', NEW p \in Paths
               PROVE  /\ p \in Discovered(d)' <=> snapshots'[d][p] # None
                      /\ p \in Discovered(d)' =>
                           /\ snapshots'[d][p].content = tree'[d][p]
                           /\ batch'[d].fresh => IsBound(snapshots[d][p])'
    BY DEF CatalogsInv, IsBound, Discovered
  <2>1. Discovered(d)' = Discovered(d)
    BY <1>1 DEF Discovered
  <2>2. CASE d = c
    <3>1. snapshots'[d] = catalog
      BY <1>1, <1>2, <2>2 DEF TypeOK
    <3>2. ASSUME p \in Discovered(c), batch'[c].fresh
          PROVE  IsBound(snapshots[d][p])'
      <4>1. /\ catalog[p].version[1] = catalog[p].artifact
            /\ catalog[p].version[2] \in DOMAIN Recorded(c, b, catalog[p].artifact)
            /\ Recorded(c, b, catalog[p].artifact)[catalog[p].version[2]] = catalog[p].content
        BY <1>5, <1>7, <3>2
      <4>2. versions'[catalog[p].artifact] = Recorded(c, b, catalog[p].artifact)
        BY <1>1, <1>4, <3>2 DEF Entries
      <4> QED
        BY <3>1, <4>1, <4>2 DEF IsBound
    <3> QED
      BY <1>1, <1>3, <1>4, <2>1, <2>2, <3>1, <3>2
  <2>3. CASE d # c
    <3>1. /\ d \in Imported /\ d \in Commits /\ snapshots'[d] = snapshots[d]
          /\ batch'[d].fresh = batch[d].fresh
      BY <1>1, <1>2, <1>7, <1>8, <2>3 DEF TypeOK, Imported
    <3>2. ASSUME p \in Discovered(d), batch[d].fresh
          PROVE  IsBound(snapshots[d][p])'
      <4>1. IsBound(snapshots[d][p]) /\ snapshots[d][p] # None
        BY <1>2, <3>1, <3>2 DEF CatalogsInv
      <4>2. snapshots[d][p].artifact \in Artifacts
        BY <1>2, <3>1, <4>1 DEF TypeOK, Entries
      <4>3. /\ versions'[snapshots[d][p].artifact] = Recorded(c, b, snapshots[d][p].artifact)
            /\ \A n \in DOMAIN versions[snapshots[d][p].artifact] :
                 /\ n \in DOMAIN Recorded(c, b, snapshots[d][p].artifact)
                 /\ Recorded(c, b, snapshots[d][p].artifact)[n]
                      = versions[snapshots[d][p].artifact][n]
        BY <1>1, <1>2, <4>2, RecordedFacts
      <4> QED
        BY <3>1, <4>1, <4>3 DEF IsBound
    <3> QED
      BY <1>1, <1>2, <2>1, <3>1, <3>2 DEF CatalogsInv
  <2> QED
    BY <2>2, <2>3
<1>13. (TypeOK /\ \A a \in Artifacts : Follows(a))'
  BY <1>10, <1>11
<1>14. ArtifactsFollowCatalog'
  BY <1>13, Zenon DEF ArtifactsFollowCatalog, Follows
<1> QED
  BY <1>12, <1>14 DEF CatalogInv
\* A rollback: the catalog before, and what becomes of the artifacts.
LEMMA RollbackKeepsCatalogs ==
  ASSUME ChainInv, ChainInv', CatalogInv, NEW c \in Commits, Rollback(c)
  PROVE  CatalogInv'
<1> DEFINE before == batch[c].previous
           restored == {a \in Artifacts : SourcesOf(Catalog(before), a) # {}}
<1>1. PICK source \in [restored -> Paths] :
        /\ \A a \in restored : source[a] \in SourcesOf(Catalog(before), a)
        /\ current' = [a \in Artifacts |->
             IF a \in restored THEN Catalog(before)[source[a]].version[2] ELSE current[a]]
  BY Zenon DEF Rollback
<1>2. /\ activeBatch = c /\ before # None
      /\ lifecycle' = [a \in Artifacts |->
           IF a \in restored THEN "published"
           ELSE IF a \in Withdrawn(snapshots[c], Catalog(before)) THEN "deprecated"
           ELSE lifecycle[a]]
      /\ batch' = [batch EXCEPT ![c].status = "rolled-back", ![c].active = FALSE,
                                ![before].active = TRUE]
      /\ activeBatch' = before
      /\ UNCHANGED <<tree, snapshots, versions>>
  BY Zenon DEF Rollback, MayRollback
<1>3. TypeOK /\ (\A a \in Artifacts : Follows(a)) /\ CatalogsInv
  BY ArtifactByArtifact DEF CatalogInv
<1>4. before \in Commits /\ batch \in [Commits -> Batches]
  BY <1>2 DEF ChainInv, BatchTypes, Batches
<1>5. /\ c # None /\ Catalog(activeBatch) = snapshots[c]
      /\ Catalog(before) = snapshots[before] /\ Catalog(activeBatch)' = Catalog(before)
  BY <1>2, NoneIsNoCommit DEF Catalog
<1>6. Catalog(before) \in [Paths -> Entries \cup {None}]
  BY <1>3, <1>4, CatalogTyped
<1>7. Imported' = Imported /\ \A d \in Commits : batch'[d].fresh = batch[d].fresh
  <2>1. c \in Imported
    BY DEF Rollback, MayRollback
  <2>2. \A d \in Commits : /\ d # c => batch'[d].status = batch[d].status
                           /\ batch'[d].fresh = batch[d].fresh
    BY <1>2, <1>4 DEF Batches
  <2>3. batch'[c].status = "rolled-back"
    BY <1>2, <1>4 DEF Batches
  <2> QED
    BY <2>1, <2>2, <2>3 DEF Imported
<1> HIDE DEF before
<1>8. TypeOK'
  <2>1. current' \in [Artifacts -> Nat]
    <3>1. ASSUME NEW a \in restored PROVE Catalog(before)[source[a]].version[2] \in Nat
      <4>1. Catalog(before)[source[a]] \in Entries
        BY <1>1, <1>6 DEF SourcesOf
      <4> QED
        BY <4>1 DEF Entries
    <3> HIDE DEF restored
    <3> QED
      BY <1>1, <1>3, <3>1 DEF TypeOK
  <2>2. lifecycle' \in [Artifacts -> {None, "published", "draft", "deprecated"}]
    BY <1>2, <1>3 DEF TypeOK
  <2> QED
    BY <1>2, <1>3, <2>1, <2>2 DEF TypeOK, ChainInv, BatchTypes
<1>9. ASSUME NEW a \in Artifacts
      PROVE  Follows(a)'
  <2> DEFINE sources == SourcesOf(Catalog(before), a)
  <2>1. CASE sources # {}
    <3>1. a \in restored /\ lifecycle'[a] = "published"
      BY <1>2, <2>1
    <3>2. source[a] \in sources /\ current'[a] = Catalog(before)[source[a]].version[2]
      BY <1>1, <3>1
    <3> HIDE DEF sources
    <3> QED
      BY <1>5, <2>1, <3>1, <3>2 DEF Follows, sources
  <2>2. CASE sources = {}
    <3>1. lifecycle'[a] = IF a \in Withdrawn(snapshots[c], Catalog(before)) THEN "deprecated"
                          ELSE lifecycle[a]
      BY <1>2, <2>2
    <3>2. a \notin Withdrawn(snapshots[c], Catalog(before))
            => SourcesOf(Catalog(activeBatch), a) = {}
      BY <1>5, <2>2 DEF Withdrawn
    <3>3. SourcesOf(Catalog(activeBatch), a) = {} => lifecycle[a] \notin {"published", "draft"}
      BY <1>3 DEF Follows
    <3>4. lifecycle'[a] \notin {"published", "draft"}
      BY <3>1, <3>2, <3>3
    <3> HIDE DEF sources
    <3> QED
      BY <1>5, <2>2, <3>4 DEF Follows, sources
  <2> QED
    BY <2>1, <2>2
<1>10. CatalogsInv'
  <2>1. \A d \in Commits : d \in Imported => d \in Commits
    OBVIOUS
  <2> QED
    BY <1>2, <1>3, <1>7 DEF CatalogsInv, IsBound, Discovered, Imported
<1>11. (TypeOK /\ \A a \in Artifacts : Follows(a))'
  BY <1>8, <1>9
<1>12. ArtifactsFollowCatalog'
  BY <1>11, Zenon DEF ArtifactsFollowCatalog, Follows
<1> QED
  BY <1>10, <1>12 DEF CatalogInv

LEMMA InitIsCatalog == Init => CatalogInv
<1> SUFFICES ASSUME Init PROVE CatalogInv
  OBVIOUS
<1>1. TypeOK
  BY DEF Init, TypeOK, Batches, Empty
<1>2. CatalogsInv
  BY DEF Init, CatalogsInv, Imported
<1>3. ASSUME NEW a \in Artifacts PROVE Follows(a)
  <2>1. SourcesOf(Catalog(activeBatch), a) = {}
    BY DEF Init, SourcesOf, Catalog, Empty
  <2>2. lifecycle[a] \notin {"published", "draft"}
    BY CatalogAssumption DEF Init, CatalogAssumption
  <2> QED
    BY <2>1, <2>2 DEF Follows
<1> QED
  BY <1>1, <1>2, <1>3, ArtifactByArtifact DEF CatalogInv

LEMMA CatalogsStand == Spec => []CatalogInv
<1>1. ChainInv /\ ChainInv' /\ CatalogInv /\ [Next]_vars => CatalogInv'
  <2> SUFFICES ASSUME ChainInv, ChainInv', CatalogInv, [Next]_vars PROVE CatalogInv'
    OBVIOUS
  <2>1. ASSUME NEW c \in Commits, NEW b \in Commits \cup {None}, Apply(c, b) PROVE CatalogInv'
    BY <2>1, ApplyKeepsCatalogs
  <2>2. ASSUME NEW c \in Commits, Rollback(c) PROVE CatalogInv'
    BY <2>2, RollbackKeepsCatalogs
  <2>3. CASE UNCHANGED vars
    <3>1. UNCHANGED <<tree, batch, snapshots, activeBatch, versions, current, lifecycle>>
      BY <2>3 DEF vars
    <3>2. TypeOK' /\ CatalogsInv'
      BY <3>1, ArtifactByArtifact
      DEF CatalogInv, TypeOK, CatalogsInv, Imported, Discovered, IsBound
    <3>3. \A a \in Artifacts : Follows(a)'
      <4>1. \A a \in Artifacts : Follows(a)
        BY ArtifactByArtifact DEF CatalogInv
      <4> QED
        BY <3>1, <4>1 DEF Follows, Catalog
    <3>4. ArtifactsFollowCatalog'
      BY <3>2, <3>3, Zenon DEF ArtifactsFollowCatalog, Follows
    <3> QED
      BY <3>2, <3>4 DEF CatalogInv
  <2> QED
    BY <2>1, <2>2, <2>3 DEF Next
<1> QED
  BY <1>1, InitIsChain, NextKeepsChain, InitIsCatalog, PTL DEF Spec

\* What a catalog holds is what its commit held: every source and no other, and
\* bound, unless a plan was applied to another catalog than it was made on, to
\* a version of its artifact with its content (applyImportBatch,
\* governance-repository.js:294-420).
THEOREM CatalogsHoldTheirSources == Spec => []CatalogHoldsSource
<1>1. CatalogInv => CatalogHoldsSource
  <2> SUFFICES ASSUME CatalogInv, NEW c \in Imported
               PROVE  /\ \A p \in Paths : p \in Discovered(c) <=> snapshots[c][p] # None
                      /\ \A p \in Discovered(c) :
                           LET entry == snapshots[c][p] IN
                           /\ entry.content = tree[c][p]
                           /\ batch[c].fresh =>
                                /\ entry.version[1] = entry.artifact
                                /\ versions[entry.artifact][entry.version[2]] = entry.content
    BY Zenon DEF CatalogHoldsSource
  <2>1. \A p \in Discovered(c) : p \in Paths
    BY DEF Discovered
  <2> QED
    BY <2>1 DEF CatalogInv, CatalogsInv, IsBound
<1> QED
  BY <1>1, CatalogsStand, PTL

\* After any imports and rollbacks the artifacts in use are those of the active
\* catalog, at the version of one of their sources (applyImportBatch,
\* rollbackImportBatch, governance-repository.js:430-465, 545-563).
THEOREM ArtifactsAlwaysFollow == Spec => []ArtifactsFollowCatalog
<1>1. CatalogInv => ArtifactsFollowCatalog
  BY DEF CatalogInv
<1> QED
  BY <1>1, CatalogsStand, PTL
=============================================================================
