---------------------------- MODULE StateDirProofs ----------------------------
(***************************************************************************)
(* Proofs about StateDir, for every configuration and every set of bundles *)
(* and, where a theorem does not say otherwise, every combination of       *)
(* faults: the marks and the refinement of Timeline first; then the        *)
(* working sets, what is committed, what is served, and what a restart, a  *)
(* recovery or a reload finds again; then what a power loss leaves.        *)
(***************************************************************************)
EXTENDS StateDir, TLAPS

-----------------------------------------------------------------------------
(* The inductive invariant *)

\* Marks and digests come in pairs.
Paired(s) ==
  s # None =>
    \A k \in Key :
      (s.high_water_marks[k] = NoMark) <=> (s.manifest_digests[k] = None)

\* An operation belongs to a process, and a place to an operation.
Attached ==
  /\ kind # "none" => proc # "none"
  /\ pc # "idle" => kind # "none"

\* The pass has staged a bundle for every label it is past.
StagedSoFar ==
  /\ pc = "select" => cur = 1
  /\ pc = "read" => \A i \in 1..(cur - 1) : staged[Order[i]] # None
  /\ \A l \in todo : staged[l] # None

\* Nothing that can become durable is behind what is durable.
AheadOfDurable ==
  /\ \A u \in unsynced : AtLeast(u, durable)
  /\ proc # "none" => AtLeast(mem, durable)
  /\ kind # "none" => AtLeast(cand, durable)

\* The transaction covers what the pass has read, and between operations
\* nothing is staged.
CandidateCovers ==
  IF kind = "none"
    THEN staged = NoBundles /\ loaded = NoLoads
    ELSE /\ \A l \in Label : staged[l] # None => Covers(cand, staged[l])
         /\ \A p \in Path : loaded[p] # None => Covers(cand, loaded[p])

\* Where the transaction is, once its descriptor is renamed or fsynced.
CommitPoint ==
  /\ pc = "commitSync" => disk = cand
  /\ pc \in {"collect", "publish"} => unsynced = {} /\ durable = cand

AllPaired ==
  /\ \A s \in unsynced \cup {durable} : Paired(s)
  /\ Paired(mem)
  /\ Paired(cand)

IndInv ==
  /\ TypeOK
  /\ Attached
  /\ StagedSoFar
  /\ AheadOfDurable
  /\ CandidateCovers
  /\ CommitPoint
  /\ AllPaired
  /\ ServedIsDurable

-----------------------------------------------------------------------------
(* Descriptors *)

\* The empty descriptor is a descriptor, with paired marks and digests.
LEMMA DefaultStateType ==
  /\ DefaultState \in PersistedState
  /\ NoBundles \in [Label -> Bundle \cup {None}]
  /\ Paired(DefaultState)
BY DEF DefaultState, PersistedState, NoBundles, NoMark, Paired

\* Another working set leaves marks and digests alone.
LEMMA WithBundlesFacts ==
  ASSUME NEW s \in PersistedState,
         NEW bundles \in [Label -> Bundle \cup {None}]
  PROVE  /\ WithBundles(s, bundles) \in PersistedState
         /\ WithBundles(s, bundles).high_water_marks = s.high_water_marks
         /\ WithBundles(s, bundles).manifest_digests = s.manifest_digests
BY DEF WithBundles, PersistedState

\* What advance_from_bundle does to a mark and its digest.
LEMMA AdvanceFacts ==
  ASSUME NEW s \in PersistedState, NEW b \in Bundle
  PROVE  LET t == advance_from_bundle(s, b) IN
         /\ t \in PersistedState
         /\ \A k \in Key :
              IF k \in Raises(s, b)
                THEN /\ t.high_water_marks[k] = epoch[b][k]
                     /\ t.manifest_digests[k] = digest[b]
                ELSE /\ t.high_water_marks[k] = s.high_water_marks[k]
                     /\ t.manifest_digests[k] = s.manifest_digests[k]
BY BundleAssumption DEF advance_from_bundle, Raises, PersistedState

\* AtLeast is reflexive on the contents of state.json.
LEMMA AtLeastReflexive ==
  ASSUME NEW s \in PersistedState \cup {None}
  PROVE  AtLeast(s, s)
BY DEF AtLeast

\* It is transitive too.
LEMMA AtLeastTransitive ==
  ASSUME NEW r \in PersistedState \cup {None},
         NEW s \in PersistedState \cup {None},
         NEW t \in PersistedState \cup {None},
         AtLeast(r, s), AtLeast(s, t)
  PROVE  AtLeast(r, t)
BY DEF AtLeast, PersistedState, NoMark

\* Later marks cover whatever earlier marks cover.
LEMMA CoversMonotone ==
  ASSUME NEW s \in PersistedState \cup {None},
         NEW t \in PersistedState \cup {None},
         NEW b \in Bundle,
         AtLeast(s, t), Covers(t, b)
  PROVE  Covers(s, b)
BY BundleAssumption, SMTT(30) DEF AtLeast, Covers, PersistedState, NoMark

\* Equal marks and digests are as good as each other.
LEMMA SameMarks ==
  ASSUME NEW s \in PersistedState, NEW t \in PersistedState,
         s.high_water_marks = t.high_water_marks,
         s.manifest_digests = t.manifest_digests
  PROVE  AtLeast(s, t) /\ (Paired(t) => Paired(s))
BY NoneAssumption DEF AtLeast, Paired

\* Staging a bundle raises marks; after the rollback check they cover it.
LEMMA AdvanceRaises ==
  ASSUME NEW s \in PersistedState, NEW b \in Bundle
  PROVE  LET t == advance_from_bundle(s, b) IN
         /\ AtLeast(t, s)
         /\ check_rollback(s, b) => Covers(t, b)
         /\ Paired(s) => Paired(t)
<1> DEFINE t == advance_from_bundle(s, b)
<1>1. /\ t \in PersistedState
      /\ \A k \in Key :
           IF k \in Raises(s, b)
             THEN /\ t.high_water_marks[k] = epoch[b][k]
                  /\ t.manifest_digests[k] = digest[b]
             ELSE /\ t.high_water_marks[k] = s.high_water_marks[k]
                  /\ t.manifest_digests[k] = s.manifest_digests[k]
  BY AdvanceFacts
<1>2. t # None /\ s # None
  BY <1>1, NoneAssumption
<1>3. \A k \in Key : /\ s.high_water_marks[k] \in Nat \cup {NoMark}
                    /\ epoch[b][k] \in Nat
                    /\ digest[b] \in Digest
                    /\ digest[b] # None
  BY BundleAssumption DEF PersistedState
<1> HIDE DEF t
<1>4. AtLeast(t, s)
  BY <1>1, <1>2, <1>3 DEF AtLeast, Raises, NoMark
<1>5. check_rollback(s, b) => Covers(t, b)
  <2> SUFFICES ASSUME check_rollback(s, b), NEW k \in ca_scopes[b]
               PROVE  \/ t.high_water_marks[k] > epoch[b][k]
                      \/ /\ t.high_water_marks[k] = epoch[b][k]
                         /\ t.manifest_digests[k] = digest[b]
    BY <1>2 DEF Covers
  <2>1. k \in Key
    BY BundleAssumption
  <2>2. CASE k \in Raises(s, b)
    BY <2>1, <2>2, <1>1
  <2>3. CASE k \notin Raises(s, b)
    <3>1. ~(epoch[b][k] > s.high_water_marks[k])
      BY <2>3 DEF Raises
    <3>2. s.high_water_marks[k] # NoMark
      BY <3>1, <2>1, <1>3 DEF NoMark
    <3>3. /\ epoch[b][k] >= s.high_water_marks[k]
          /\ epoch[b][k] = s.high_water_marks[k] => s.manifest_digests[k] = digest[b]
      BY <3>2 DEF check_rollback
    <3> QED
      BY <3>1, <3>3, <2>1, <2>3, <1>1, <1>3 DEF NoMark
  <2> QED
    BY <2>2, <2>3
<1>6. Paired(s) => Paired(t)
  BY <1>1, <1>2, <1>3 DEF Paired, Raises, NoMark
<1> QED
  BY <1>4, <1>5, <1>6 DEF t

-----------------------------------------------------------------------------
(* Types *)

Shape == TypeOK /\ Attached /\ StagedSoFar

\* The parts of Shape that speak of the running process.
ProcShape == ProcType /\ OpType /\ Attached /\ StagedSoFar

\* The configured order has a first label.
LEMMA FirstIndex == 1 \in 1..Len(Order)
BY ConfigAssumption

\* Ending an operation leaves nothing staged.
LEMMA NoOperationShape ==
  ASSUME NoOperation
  PROVE  OpType' /\ Attached' /\ StagedSoFar'
BY DefaultStateType, FirstIndex, ConfigAssumption
   DEF NoOperation, OpType, Attached, StagedSoFar, Operations, Places, NoLoads

\* So does the end of the process.
LEMMA ExitShape ==
  ASSUME Exit
  PROVE  ProcShape'
BY NoOperationShape, DefaultStateType
   DEF Exit, ProcShape, ProcType, Processes

\* A pass starts from a cleared transaction.
LEMMA BeginPassShape ==
  ASSUME NEW k \in {"load", "recover", "reload"},
         NEW s \in PersistedState,
         BeginPass(k, s), proc' # "none"
  PROVE  OpType' /\ Attached' /\ StagedSoFar'
<1>1. clear_active_bundles(s) \in PersistedState
  BY WithBundlesFacts, DefaultStateType DEF clear_active_bundles
<1> QED
  BY <1>1, DefaultStateType, FirstIndex, ConfigAssumption
     DEF BeginPass, OpType, Attached, StagedSoFar, Operations, Places, NoLoads

\* Every way an operation fails: recovery, exit, or back to the old map.
LEMMA FailShape ==
  ASSUME Shape, Fail
  PROVE  ProcShape'
<1>1. ASSUME kind = "load", BeginPass("recover", mem), UNCHANGED procVars
      PROVE  ProcShape'
  BY <1>1, BeginPassShape
     DEF Shape, TypeOK, Attached, ProcShape, ProcType, procVars
<1>2. ASSUME NoOperation, UNCHANGED procVars
      PROVE  ProcShape'
  BY <1>2, NoOperationShape DEF Shape, TypeOK, ProcShape, ProcType, procVars
<1> QED
  BY <1>1, <1>2, ExitShape DEF Fail

\* The typing of each part of the state survives a step that leaves it alone.
LEMMA UnchangedShape ==
  ASSUME Shape
  PROVE  /\ UNCHANGED diskVars => DiskType'
         /\ UNCHANGED genVars => GenType'
         /\ UNCHANGED envVars => EnvType'
         /\ UNCHANGED procVars => ProcType'
         /\ UNCHANGED <<procVars, opVars>> => ProcShape'
<1>1. UNCHANGED diskVars => DiskType'
  BY DEF Shape, TypeOK, diskVars, DiskType
<1>2. UNCHANGED genVars => GenType'
  BY DEF Shape, TypeOK, genVars, GenType
<1>3. UNCHANGED envVars => EnvType'
  BY DEF Shape, TypeOK, envVars, EnvType
<1>4. UNCHANGED procVars => ProcType'
  BY DEF Shape, TypeOK, procVars, ProcType
<1>5. UNCHANGED <<procVars, opVars>> => ProcShape'
  BY <1>4 DEF Shape, TypeOK, ProcShape, procVars, opVars, OpType, Attached,
              StagedSoFar
<1> QED
  BY <1>1, <1>2, <1>3, <1>4, <1>5

\* The bundle a pass works on is a bundle or nothing.
LEMMA SourceType ==
  ASSUME TypeOK, NEW l \in Label
  PROVE  Source(l) \in Bundle \cup {None}
BY DEF TypeOK, ProcType, OpType, EnvType, PersistedState, Source

\* A step of the pass that accepts what it read.
LEMMA ReadBundleShape ==
  ASSUME Shape, ReadBundle
  PROVE  OpType' /\ Attached' /\ StagedSoFar'
<1> DEFINE l == Order[cur]
           b == Source(l)
<1>1. l \in Label /\ cur \in 1..Len(Order) /\ cur \in DOMAIN Order
  BY ConfigAssumption DEF Shape, TypeOK, OpType
<1>2. b \in Bundle
  <2>1. b \in Bundle \cup {None}
    BY <1>1, SourceType DEF Shape
  <2>2. FirstRead(l) => b # None
    BY DEF ReadBundle, Admits
  <2>3. ~FirstRead(l) => b # None
    BY DEF FirstRead, Source, ReadBundle, Shape, StagedSoFar
  <2> QED
    BY <2>1, <2>2, <2>3
<1>3. cand' \in PersistedState
  BY <1>2, AdvanceFacts DEF ReadBundle, Shape, TypeOK, OpType
<1>4. /\ staged' = [staged EXCEPT ![l] = b]
      /\ loaded' = IF kind = "recover" THEN loaded
                   ELSE [loaded EXCEPT ![paths[l]] = b]
      /\ pc = "read"
      /\ UNCHANGED <<kind, paths, proc>>
  BY DEF ReadBundle, procVars
<1> HIDE DEF b, l
<1>5. /\ staged' \in [Label -> Bundle \cup {None}]
      /\ loaded' \in [Path -> Bundle \cup {None}]
      /\ paths' \in [Label -> Path]
  BY <1>2, <1>4 DEF Shape, TypeOK, OpType
<1>6. \A i \in 1..cur : staged'[Order[i]] # None
  <2> SUFFICES ASSUME NEW i \in 1..cur
               PROVE  staged'[Order[i]] # None
    OBVIOUS
  <2>1. i \in DOMAIN Order /\ Order[i] \in Label
    BY <1>1, ConfigAssumption
  <2>2. CASE i = cur
    BY <2>1, <2>2, <1>2, <1>4, BundleAssumption DEF l, Shape, TypeOK, OpType
  <2>3. CASE i # cur
    <3>1. i \in 1..(cur - 1)
      BY <2>3, <1>1
    <3>2. staged[Order[i]] # None
      BY <3>1, <1>4 DEF Shape, StagedSoFar
    <3> QED
      BY <3>2, <2>1, <1>2, <1>4, BundleAssumption DEF Shape, TypeOK, OpType
  <2> QED
    BY <2>2, <2>3
<1>7. CASE cur < Len(Order)
  <2>1. cur' = cur + 1 /\ UNCHANGED <<pc, todo>>
    BY <1>7 DEF ReadBundle, MoreLabels
  <2>2. OpType'
    BY <2>1, <1>1, <1>3, <1>4, <1>5, <1>7 DEF Shape, TypeOK, OpType
  <2>3. \A m \in todo' : staged'[m] # None
    BY <2>1, <1>2, <1>4, BundleAssumption DEF Shape, TypeOK, OpType, StagedSoFar
  <2>4. \A i \in 1..(cur' - 1) : staged'[Order[i]] # None
    BY <2>1, <1>1, <1>6
  <2> QED
    BY <2>1, <2>2, <2>3, <2>4, <1>4 DEF Shape, Attached, StagedSoFar
<1>8. CASE ~(cur < Len(Order))
  <2>1. pc' = "snap" /\ todo' \subseteq Label /\ cur' = cur
    BY <1>8 DEF ReadBundle, MoreLabels
  <2>2. OpType'
    BY <2>1, <1>1, <1>3, <1>4, <1>5 DEF Shape, TypeOK, OpType, Places
  <2>3. \A m \in Label : staged'[m] # None
    <3> SUFFICES ASSUME NEW m \in Label PROVE staged'[m] # None
      OBVIOUS
    <3>1. PICK i \in DOMAIN Order : Order[i] = m
      BY ConfigAssumption
    <3>2. i \in 1..cur
      BY <1>1, <1>8, ConfigAssumption
    <3> QED
      BY <3>1, <3>2, <1>6
  <2> QED
    BY <2>1, <2>2, <2>3, <1>4 DEF Shape, Attached, StagedSoFar
<1> QED
  BY <1>7, <1>8

\* The typing of the whole state from its parts.
LEMMA ShapeFromParts ==
  ASSUME DiskType', GenType', EnvType', ProcShape'
  PROVE  Shape'
BY DEF Shape, ProcShape, TypeOK

\* One step of StateDir keeps the shape of the state, action by action.
LEMMA ShapeStep ==
  ASSUME Shape, [Next]_vars
  PROVE  Shape'
<1> USE UnchangedShape, ShapeFromParts
<1>1. CASE InitState
  <2>1. ProcShape'
    BY <1>1, DefaultStateType
       DEF InitState, Shape, TypeOK, ProcShape, ProcType, OpType, Attached,
           StagedSoFar, Processes, Operations, Places
  <2> QED
    BY <1>1, <2>1 DEF InitState
<1>2. CASE StartServer
  <2>1. disk \in PersistedState
    BY <1>2 DEF StartServer, validate_persisted, Shape, TypeOK, DiskType
  <2>2. OpType' /\ Attached' /\ StagedSoFar'
    BY <1>2, <2>1, BeginPassShape DEF StartServer
  <2>3. ProcType'
    BY <1>2, <2>1 DEF StartServer, Shape, TypeOK, ProcType, Processes
  <2> QED
    BY <1>2, <2>2, <2>3 DEF StartServer, ProcShape
<1>3. CASE Reload
  <2>1. OpType' /\ Attached' /\ StagedSoFar'
    BY <1>3, BeginPassShape DEF Reload, procVars, Shape, TypeOK, ProcType
  <2> QED
    BY <1>3, <2>1 DEF Reload, ProcShape
<1>4. ASSUME NEW l \in Label, NEW b \in Bundle, StartImport(l, b)
      PROVE  Shape'
  <2>1. disk \in PersistedState
    BY <1>4 DEF StartImport, validate_persisted, Shape, TypeOK, DiskType
  <2>2. advance_from_bundle(disk, b) \in PersistedState
    BY <2>1, AdvanceFacts
  <2>3. ProcType'
    BY <1>4, <2>1 DEF StartImport, Shape, TypeOK, ProcType, Processes
  <2>4. staged' \in [Label -> Bundle \cup {None}] /\ staged'[l] # None
    BY <1>4, DefaultStateType, BundleAssumption DEF StartImport
  <2>5. OpType' /\ Attached' /\ StagedSoFar'
    BY <1>4, <2>2, <2>4
       DEF StartImport, Shape, TypeOK, OpType, Attached, StagedSoFar,
           Operations, Places
  <2> QED
    BY <1>4, <2>3, <2>5 DEF StartImport, ProcShape
<1>5. CASE configured_bundle_paths
  <2>1. paths' \in [Label -> Path]
    BY <1>5, ConfigAssumption DEF configured_bundle_paths, Newest
  <2>2. OpType' /\ Attached' /\ StagedSoFar'
    BY <1>5, <2>1
       DEF configured_bundle_paths, procVars, Shape, TypeOK, OpType, Attached,
           StagedSoFar, Places
  <2> QED
    BY <1>5, <2>2 DEF configured_bundle_paths, ProcShape
<1>6. CASE NoBundleFound
  BY <1>6, FailShape DEF NoBundleFound
<1>7. CASE ReadBundle
  BY <1>7, ReadBundleShape DEF ReadBundle, ProcShape
<1>8. CASE RejectBundle
  BY <1>8, FailShape DEF RejectBundle
<1>9. ASSUME NEW l \in Label, SnapshotPresent(l)
      PROVE  Shape'
  <2>1. cand' \in PersistedState
    <3>1. staged[l] \in Bundle
      BY <1>9 DEF SnapshotPresent, Shape, TypeOK, GenType
    <3>2. [cand.active_bundles EXCEPT ![l] = staged[l]]
            \in [Label -> Bundle \cup {None}]
      BY <3>1 DEF Shape, TypeOK, OpType, PersistedState
    <3> QED
      BY <1>9, <3>2, WithBundlesFacts
         DEF SnapshotPresent, Shape, TypeOK, OpType
  <2>2. OpType' /\ Attached' /\ StagedSoFar'
    BY <1>9, <2>1
       DEF SnapshotPresent, procVars, Shape, TypeOK, OpType, Attached, StagedSoFar
  <2> QED
    BY <1>9, <2>2 DEF SnapshotPresent, ProcShape
<1>10. ASSUME NEW l \in Label, SnapshotRename(l)
       PROVE  Shape'
  <2>1. GenType'
    BY <1>10 DEF SnapshotRename, Shape, TypeOK, GenType, OpType, StagedSoFar
  <2>2. OpType' /\ Attached' /\ StagedSoFar'
    BY <1>10
       DEF SnapshotRename, procVars, Shape, TypeOK, OpType, Attached,
           StagedSoFar, Places
  <2> QED
    BY <1>10, <2>1, <2>2 DEF SnapshotRename, ProcShape
<1>11. ASSUME NEW l \in Label, SnapshotWriteFails(l)
       PROVE  Shape'
  <2>1. GenType'
    BY <1>11 DEF SnapshotWriteFails, Shape, TypeOK, GenType
  <2> QED
    BY <1>11, <2>1, FailShape DEF SnapshotWriteFails
<1>12. CASE SnapshotSync
  <2>1. GenType'
    BY <1>12 DEF SnapshotSync, Shape, TypeOK, GenType
  <2>2. OpType' /\ Attached' /\ StagedSoFar'
    BY <1>12
       DEF SnapshotSync, procVars, Shape, TypeOK, OpType, Attached,
           StagedSoFar, Places
  <2> QED
    BY <1>12, <2>1, <2>2 DEF SnapshotSync, ProcShape
<1>13. CASE SnapshotSyncFails
  BY <1>13, FailShape DEF SnapshotSyncFails
<1>14. CASE CommitRename
  <2>1. DiskType'
    BY <1>14 DEF CommitRename, Shape, TypeOK, DiskType, OpType
  <2>2. OpType' /\ Attached' /\ StagedSoFar'
    BY <1>14
       DEF CommitRename, procVars, Shape, TypeOK, OpType, Attached,
           StagedSoFar, Places
  <2> QED
    BY <1>14, <2>1, <2>2 DEF CommitRename, ProcShape
<1>15. CASE CommitWriteFails
  BY <1>15, FailShape DEF CommitWriteFails
<1>16. CASE CommitSync
  <2>1. DiskType'
    BY <1>16 DEF CommitSync, Shape, TypeOK, DiskType
  <2>2. ProcShape'
    BY <1>16
       DEF CommitSync, Shape, TypeOK, ProcShape, ProcType, OpType, Attached,
           StagedSoFar, Places
  <2> QED
    BY <1>16, <2>1, <2>2 DEF CommitSync
<1>17. CASE InitSync
  <2>1. DiskType'
    BY <1>17 DEF InitSync, Shape, TypeOK, DiskType
  <2> QED
    BY <1>17, <2>1, ExitShape DEF InitSync
<1>18. CASE CommitSyncFails
  BY <1>18, FailShape DEF CommitSyncFails
<1>19. CASE CollectGarbage
  <2>1. GenType'
    BY <1>19 DEF CollectGarbage, Shape, TypeOK, GenType
  <2>2. OpType' /\ Attached' /\ StagedSoFar'
    BY <1>19
       DEF CollectGarbage, procVars, Shape, TypeOK, OpType, Attached,
           StagedSoFar, Places
  <2> QED
    BY <1>19, <2>1, <2>2 DEF CollectGarbage, ProcShape
<1>20. CASE PublishMap
  BY <1>20, NoOperationShape
     DEF PublishMap, Shape, TypeOK, ProcShape, ProcType, OpType
<1>21. ASSUME NEW l \in Label, PublishAlias(l)
       PROVE  Shape'
  <2>1. EnvType'
    BY <1>21, ConfigAssumption
       DEF PublishAlias, Shape, TypeOK, EnvType, OpType
  <2> QED
    BY <1>21, <2>1, ExitShape DEF PublishAlias
<1>22. CASE Kill
  <2>1. GenType'
    BY <1>22 DEF Kill, Shape, TypeOK, GenType
  <2> QED
    BY <1>22, <2>1, ExitShape DEF Kill
<1>23. CASE PowerLoss
  <2>1. GenType'
    BY <1>23 DEF PowerLoss, Shape, TypeOK, GenType
  <2>2. DiskType'
    BY <1>23 DEF PowerLoss, Shape, TypeOK, DiskType
  <2> QED
    BY <1>23, <2>1, <2>2, ExitShape DEF PowerLoss
<1>24. ASSUME NEW p \in Path, PublishBundle(p)
       PROVE  Shape'
  <2>1. EnvType'
    BY <1>24, BundleAssumption DEF PublishBundle, Shape, TypeOK, EnvType
  <2> QED
    BY <1>24, <2>1 DEF PublishBundle
<1>25. ASSUME NEW b \in Bundle, SealExpires(b)
       PROVE  Shape'
  <2>1. EnvType'
    BY <1>25 DEF SealExpires, Shape, TypeOK, EnvType
  <2> QED
    BY <1>25, <2>1 DEF SealExpires
<1>26. CASE UNCHANGED vars
  BY <1>26 DEF vars
<1> QED
  BY <1>1, <1>2, <1>3, <1>4, <1>5, <1>6, <1>7, <1>8, <1>9, <1>10, <1>11, <1>12,
     <1>13, <1>14, <1>15, <1>16, <1>17, <1>18, <1>19, <1>20, <1>21, <1>22,
     <1>23, <1>24, <1>25, <1>26
     DEF Next, Pass, Snapshot, Commit, Environment

\* The initial state has the shape.
LEMMA ShapeInit == Init => Shape
BY DefaultStateType, FirstIndex, ConfigAssumption
   DEF Init, Shape, TypeOK, DiskType, GenType, EnvType, ProcType, OpType,
       Attached, StagedSoFar, Processes, Operations, Places, NoLoads

\* Every variable of the state directory and of the program that writes it
\* keeps its type, and state.json reads as one of the contents a power loss
\* may leave behind.
THEOREM TypeCorrect == Spec => []TypeOK
<1>1. Shape => TypeOK
  BY DEF Shape
<1> QED
  BY <1>1, ShapeInit, ShapeStep, PTL DEF Spec

-----------------------------------------------------------------------------
(* Safety *)

Safe ==
  /\ AheadOfDurable
  /\ CandidateCovers
  /\ CommitPoint
  /\ AllPaired
  /\ ServedIsDurable

\* Whatever state.json shows is at or past what is durable.
LEMMA DiskAhead ==
  ASSUME Shape, Safe
  PROVE  AtLeast(disk, durable) /\ Paired(disk)
BY AtLeastReflexive
   DEF Shape, TypeOK, DiskType, Safe, AheadOfDurable, AllPaired

\* A step that touches neither the disk nor a descriptor in memory.
LEMMA QuietStep ==
  ASSUME Safe, UNCHANGED <<diskVars, procVars, kind, cand, loaded, staged>>,
         pc' = "commitSync" => pc = "commitSync",
         pc' \in {"collect", "publish"} => pc \in {"collect", "publish"}
  PROVE  Safe'
BY DEF Safe, AheadOfDurable, CandidateCovers, CommitPoint, AllPaired,
       ServedIsDurable, diskVars, procVars, AtLeast, Covers, Paired

\* The end of the process, with the disk as it is.
LEMMA ExitSafe ==
  ASSUME Shape, Safe, Exit, UNCHANGED diskVars
  PROVE  Safe'
<1>1. AheadOfDurable'
  BY DEF Safe, AheadOfDurable, Exit, NoOperation, diskVars, AtLeast
<1>2. CandidateCovers' /\ CommitPoint'
  BY DEF CandidateCovers, CommitPoint, Exit, NoOperation
<1>3. AllPaired'
  BY DefaultStateType DEF Safe, AllPaired, Exit, NoOperation, diskVars, Paired
<1>4. ServedIsDurable'
  BY DEF ServedIsDurable, Exit, NoBundles
<1> QED
  BY <1>1, <1>2, <1>3, <1>4 DEF Safe

\* The end of an operation, with the process going on.
LEMMA NoOperationSafe ==
  ASSUME Shape, Safe, NoOperation, UNCHANGED <<diskVars, procVars>>
  PROVE  Safe'
<1>1. AheadOfDurable'
  BY DEF Safe, AheadOfDurable, NoOperation, diskVars, procVars, AtLeast
<1>2. CandidateCovers' /\ CommitPoint'
  BY DEF CandidateCovers, CommitPoint, NoOperation
<1>3. AllPaired'
  BY DefaultStateType
     DEF Safe, AllPaired, NoOperation, diskVars, procVars, Paired
<1>4. ServedIsDurable'
  BY DEF Safe, ServedIsDurable, diskVars, procVars, Covers
<1> QED
  BY <1>1, <1>2, <1>3, <1>4 DEF Safe

\* A pass starts with the marks of a descriptor that is ahead of the disk.
LEMMA BeginPassSafe ==
  ASSUME Shape, Safe,
         NEW k \in {"load", "recover", "reload"},
         NEW s \in PersistedState, AtLeast(s, durable), Paired(s),
         BeginPass(k, s), UNCHANGED <<diskVars, served>>, mem' \in {mem, s},
         mem' = s \/ AtLeast(mem, durable)
  PROVE  Safe'
<1>1. /\ cand' \in PersistedState
      /\ cand'.high_water_marks = s.high_water_marks
      /\ cand'.manifest_digests = s.manifest_digests
  BY WithBundlesFacts, DefaultStateType DEF BeginPass, clear_active_bundles
<1>2. AtLeast(cand', s) /\ Paired(cand')
  BY <1>1, SameMarks
<1>3. AtLeast(cand', durable)
  BY <1>1, <1>2, AtLeastTransitive DEF Shape, TypeOK, DiskType
<1>4. AheadOfDurable'
  BY <1>3 DEF Safe, AheadOfDurable, diskVars, AtLeast
<1>5. CandidateCovers' /\ CommitPoint'
  BY DEF CandidateCovers, CommitPoint, BeginPass, NoBundles, NoLoads
<1>6. AllPaired'
  BY <1>2 DEF Safe, AllPaired, diskVars, Paired
<1>7. ServedIsDurable'
  BY DEF Safe, ServedIsDurable, diskVars, Covers
<1> QED
  BY <1>4, <1>5, <1>6, <1>7 DEF Safe

\* Every failure leaves the disk alone and discards the transaction.
LEMMA FailSafe ==
  ASSUME Shape, Safe, Fail, UNCHANGED diskVars
  PROVE  Safe'
<1>1. ASSUME kind = "load", BeginPass("recover", mem), UNCHANGED procVars
      PROVE  Safe'
  <2>1. AtLeast(mem, durable) /\ Paired(mem) /\ mem \in PersistedState
    BY <1>1 DEF Shape, TypeOK, ProcType, Attached, Safe, AheadOfDurable, AllPaired
  <2> QED
    BY <1>1, <2>1, BeginPassSafe DEF procVars
<1> QED
  BY <1>1, ExitSafe, NoOperationSafe DEF Fail

\* A bundle that passed the checks is covered by the transaction.
LEMMA ReadBundleSafe ==
  ASSUME Shape, Safe, ReadBundle
  PROVE  Safe'
<1> DEFINE l == Order[cur]
           b == Source(l)
<1>1. l \in Label
  BY ConfigAssumption DEF Shape, TypeOK, OpType
<1>2. b \in Bundle
  <2>1. b \in Bundle \cup {None}
    BY <1>1, SourceType DEF Shape
  <2>2. FirstRead(l) => b # None
    BY DEF ReadBundle, Admits
  <2>3. ~FirstRead(l) => b # None
    BY DEF FirstRead, Source, ReadBundle, Shape, StagedSoFar
  <2> QED
    BY <2>1, <2>2, <2>3
<1>3. /\ cand \in PersistedState
      /\ kind # "none"
      /\ AtLeast(cand, durable)
      /\ Paired(cand)
      /\ paths[l] \in Path
  BY <1>1 DEF ReadBundle, Shape, TypeOK, OpType, Attached, Safe,
              AheadOfDurable, AllPaired
<1>4. /\ cand' \in PersistedState
      /\ AtLeast(cand', cand)
      /\ Covers(cand', b)
      /\ Paired(cand')
  <2>1. CASE FirstRead(l)
    <3>1. check_rollback(cand, b) /\ cand' = advance_from_bundle(cand, b)
      BY <2>1 DEF ReadBundle, Admits
    <3> QED
      BY <3>1, <1>2, <1>3, AdvanceRaises, AdvanceFacts
  <2>2. CASE ~FirstRead(l)
    <3>1. cand' = cand
      BY <2>2 DEF ReadBundle
    <3>2. Covers(cand, b)
      <4>1. CASE kind = "recover"
        <5>1. PICK i \in 1..(cur - 1) : staged[Order[i]] = b
          BY <2>2, <4>1 DEF FirstRead
        <5>2. i \in DOMAIN Order /\ Order[i] \in Label
          BY ConfigAssumption DEF Shape, TypeOK, OpType
        <5> QED
          BY <5>1, <5>2, <1>2, <1>3, BundleAssumption DEF Safe, CandidateCovers
      <4>2. CASE kind # "recover"
        <5>1. loaded[paths[l]] = b
          BY <2>2, <4>2 DEF FirstRead, Source
        <5> QED
          BY <5>1, <1>2, <1>3, BundleAssumption DEF Safe, CandidateCovers
      <4> QED
        BY <4>1, <4>2
    <3> QED
      BY <3>1, <3>2, <1>3, AtLeastReflexive
  <2> QED
    BY <2>1, <2>2
<1>5. AtLeast(cand', durable)
  BY <1>3, <1>4, AtLeastTransitive DEF Shape, TypeOK, DiskType
<1>6. /\ staged' = [staged EXCEPT ![l] = b]
      /\ loaded' = IF kind = "recover" THEN loaded
                   ELSE [loaded EXCEPT ![paths[l]] = b]
      /\ UNCHANGED <<diskVars, procVars, kind>>
      /\ pc' \in {"read", "snap"}
  BY DEF ReadBundle, MoreLabels
<1> HIDE DEF b, l
<1>7. AheadOfDurable'
  BY <1>5, <1>6 DEF Safe, AheadOfDurable, diskVars, procVars, AtLeast
<1>8. CandidateCovers'
  <2>1. \A c \in Bundle : Covers(cand, c) => Covers(cand', c)
    BY <1>3, <1>4, CoversMonotone
  <2>2. \A m \in Label : staged'[m] # None => Covers(cand', staged'[m])
    BY <2>1, <1>2, <1>3, <1>4, <1>6
       DEF Safe, CandidateCovers, Shape, TypeOK, OpType
  <2>3. \A p \in Path : loaded'[p] # None => Covers(cand', loaded'[p])
    BY <2>1, <1>2, <1>3, <1>4, <1>6
       DEF Safe, CandidateCovers, Shape, TypeOK, OpType
  <2> QED
    BY <1>3, <1>6, <2>2, <2>3 DEF CandidateCovers, Covers
<1>9. CommitPoint'
  BY <1>6 DEF CommitPoint
<1>10. AllPaired'
  BY <1>4, <1>6 DEF Safe, AllPaired, diskVars, procVars, Paired
<1>11. ServedIsDurable'
  BY <1>6 DEF Safe, ServedIsDurable, diskVars, procVars, Covers
<1> QED
  BY <1>7, <1>8, <1>9, <1>10, <1>11 DEF Safe

\* hoike init-state works on a directory without any descriptor.
LEMMA InitStateSafe ==
  ASSUME Shape, Safe, InitState
  PROVE  Safe'
<1>1. durable = None
  BY NoneAssumption DEF InitState, Shape, TypeOK, DiskType
<1>2. kind = "none"
  BY DEF InitState, Shape, Attached
<1>3. AheadOfDurable'
  BY <1>1 DEF InitState, AheadOfDurable, Safe, diskVars, AtLeast
<1>4. CandidateCovers'
  BY <1>2 DEF InitState, Safe, CandidateCovers, NoBundles, NoLoads
<1>5. CommitPoint'
  BY DEF InitState, CommitPoint
<1>6. AllPaired'
  BY DefaultStateType DEF InitState, Safe, AllPaired, diskVars, Paired
<1>7. ServedIsDurable'
  BY DEF InitState, Safe, ServedIsDurable, diskVars, Covers
<1> QED
  BY <1>3, <1>4, <1>5, <1>6, <1>7 DEF Safe

\* hoike import stages the one bundle it checked.
LEMMA StartImportSafe ==
  ASSUME Shape, Safe, NEW l \in Label, NEW b \in Bundle, StartImport(l, b)
  PROVE  Safe'
<1>1. disk \in PersistedState
  BY DEF StartImport, validate_persisted, Shape, TypeOK, DiskType
<1>2. AtLeast(disk, durable) /\ Paired(disk)
  BY DiskAhead
<1>3. /\ cand' \in PersistedState
      /\ AtLeast(cand', disk)
      /\ Covers(cand', b)
      /\ Paired(cand')
  BY <1>1, <1>2, AdvanceRaises, AdvanceFacts DEF StartImport
<1>4. AtLeast(cand', durable)
  BY <1>1, <1>2, <1>3, AtLeastTransitive DEF Shape, TypeOK, DiskType
<1>5. kind = "none"
  BY DEF StartImport, Shape, Attached
<1>6. AheadOfDurable'
  BY <1>2, <1>4 DEF StartImport, AheadOfDurable, Safe, diskVars, AtLeast
<1>7. CandidateCovers'
  <2>1. loaded' = NoLoads /\ staged' = [NoBundles EXCEPT ![l] = b]
        /\ kind' = "import"
    BY <1>5 DEF StartImport, Safe, CandidateCovers
  <2> QED
    BY <1>3, <2>1 DEF CandidateCovers, NoBundles, NoLoads, Covers
<1>8. CommitPoint'
  BY DEF StartImport, CommitPoint
<1>9. AllPaired'
  BY <1>2, <1>3 DEF StartImport, Safe, AllPaired, diskVars, Paired
<1>10. ServedIsDurable'
  BY DEF StartImport, Safe, ServedIsDurable, diskVars, Covers
<1> QED
  BY <1>6, <1>7, <1>8, <1>9, <1>10 DEF Safe

\* Recording a snapshot in the transaction keeps its marks.
LEMMA SnapshotPresentSafe ==
  ASSUME Shape, Safe, NEW l \in Label, SnapshotPresent(l)
  PROVE  Safe'
<1>1. staged[l] \in Bundle
  BY DEF SnapshotPresent, Shape, TypeOK, GenType
<1>2. [cand.active_bundles EXCEPT ![l] = staged[l]]
        \in [Label -> Bundle \cup {None}]
  BY <1>1 DEF Shape, TypeOK, OpType, PersistedState
<1>3. /\ cand \in PersistedState
      /\ cand' \in PersistedState
      /\ cand'.high_water_marks = cand.high_water_marks
      /\ cand'.manifest_digests = cand.manifest_digests
  BY <1>2, WithBundlesFacts DEF SnapshotPresent, Shape, TypeOK, OpType
<1>4. AtLeast(cand', cand) /\ Paired(cand')
  BY <1>3, SameMarks DEF Safe, AllPaired
<1>5. /\ kind # "none"
      /\ pc = "snap"
      /\ UNCHANGED <<diskVars, procVars, kind, pc, loaded, staged>>
  BY DEF SnapshotPresent, Shape, Attached
<1>6. AtLeast(cand', durable)
  BY <1>3, <1>4, <1>5, AtLeastTransitive
     DEF Safe, AheadOfDurable, Shape, TypeOK, DiskType
<1>7. AheadOfDurable'
  BY <1>5, <1>6 DEF Safe, AheadOfDurable, diskVars, procVars, AtLeast
<1>8. CandidateCovers'
  <2>1. \A c \in Bundle : Covers(cand, c) => Covers(cand', c)
    BY <1>3, <1>4, CoversMonotone
  <2> QED
    BY <1>5, <2>1 DEF Safe, CandidateCovers, Covers, Shape, TypeOK, OpType
<1>9. CommitPoint'
  BY <1>5 DEF CommitPoint
<1>10. AllPaired'
  BY <1>4, <1>5 DEF Safe, AllPaired, diskVars, procVars, Paired
<1>11. ServedIsDurable'
  BY <1>5 DEF Safe, ServedIsDurable, diskVars, procVars, Covers
<1> QED
  BY <1>7, <1>8, <1>9, <1>10, <1>11 DEF Safe

\* The renamed descriptor is ahead of the durable one, and covers the scope
\* map because the durable one does.
LEMMA CommitRenameSafe ==
  ASSUME Shape, Safe, CommitRename
  PROVE  Safe'
<1>1. /\ cand \in PersistedState
      /\ kind # "none"
      /\ AtLeast(cand, durable)
      /\ Paired(cand)
  BY DEF CommitRename, Shape, TypeOK, OpType, Attached, Safe, AheadOfDurable,
         AllPaired
<1>2. /\ disk' = cand
      /\ unsynced' = unsynced \cup {cand}
      /\ pc' = "commitSync"
      /\ UNCHANGED <<durable, procVars, kind, cand, loaded, staged>>
  BY DEF CommitRename
<1>3. AheadOfDurable'
  BY <1>1, <1>2 DEF Safe, AheadOfDurable, procVars
<1>4. CandidateCovers' /\ CommitPoint'
  BY <1>2 DEF Safe, CandidateCovers, CommitPoint, Covers
<1>5. AllPaired'
  BY <1>1, <1>2 DEF Safe, AllPaired, procVars
<1>6. ServedIsDurable'
  <2> SUFFICES ASSUME NEW l \in Label, served[l] # None,
                      NEW s \in unsynced \cup {cand, durable}
               PROVE  Covers(s, served[l])
    BY <1>2 DEF ServedIsDurable, procVars, Covers
  <2>1. served[l] \in Bundle
    BY DEF Shape, TypeOK, ProcType
  <2>2. Covers(durable, served[l])
    BY DEF Safe, ServedIsDurable
  <2>3. Covers(cand, served[l])
    BY <1>1, <2>1, <2>2, CoversMonotone DEF Shape, TypeOK, DiskType
  <2> QED
    BY <2>3 DEF Safe, ServedIsDurable
<1> QED
  BY <1>3, <1>4, <1>5, <1>6 DEF Safe

\* The fsync makes the transaction the only possible content.
LEMMA CommitSyncSafe ==
  ASSUME Shape, Safe, CommitSync
  PROVE  Safe'
<1>1. /\ cand \in PersistedState
      /\ kind # "none"
      /\ disk = cand
      /\ Paired(cand)
  BY DEF CommitSync, Shape, TypeOK, OpType, Attached, Safe, CommitPoint, AllPaired
<1>2. /\ durable' = cand
      /\ unsynced' = {}
      /\ mem' = cand
      /\ pc' = "collect"
      /\ UNCHANGED <<disk, proc, served, kind, cand, loaded, staged>>
  BY <1>1 DEF CommitSync
<1>3. AheadOfDurable'
  BY <1>1, <1>2, AtLeastReflexive DEF AheadOfDurable
<1>4. CandidateCovers' /\ CommitPoint'
  BY <1>2 DEF Safe, CandidateCovers, CommitPoint, Covers
<1>5. AllPaired'
  BY <1>1, <1>2 DEF AllPaired
<1>6. ServedIsDurable'
  <2>1. cand \in unsynced \cup {durable}
    BY <1>1 DEF Shape, TypeOK, DiskType
  <2> QED
    BY <1>2, <2>1 DEF Safe, ServedIsDurable, Covers
<1> QED
  BY <1>3, <1>4, <1>5, <1>6 DEF Safe

\* The scope map that is published is covered by the durable descriptor.
LEMMA PublishMapSafe ==
  ASSUME Shape, Safe, PublishMap
  PROVE  Safe'
<1>1. /\ unsynced = {}
      /\ durable = cand
      /\ kind # "none"
      /\ served' = staged
      /\ UNCHANGED <<diskVars, proc, mem>>
      /\ NoOperation
  BY DEF PublishMap, Shape, Attached, Safe, CommitPoint
<1>2. AheadOfDurable'
  BY <1>1 DEF Safe, AheadOfDurable, NoOperation, diskVars, AtLeast
<1>3. CandidateCovers' /\ CommitPoint'
  BY <1>1 DEF CandidateCovers, CommitPoint, NoOperation
<1>4. AllPaired'
  BY <1>1, DefaultStateType DEF Safe, AllPaired, NoOperation, diskVars, Paired
<1>5. ServedIsDurable'
  BY <1>1 DEF Safe, CandidateCovers, ServedIsDurable, diskVars, Covers
<1> QED
  BY <1>2, <1>3, <1>4, <1>5 DEF Safe

\* A step that replaces the durable content when the process is gone.
LEMMA RestartSafe ==
  ASSUME Shape, Safe, Exit, unsynced' = {},
         durable' \in unsynced \cup {durable}
  PROVE  Safe' /\ AtLeast(durable', durable)
<1>1. AtLeast(durable', durable) /\ Paired(durable')
  <2>1. AtLeast(durable, durable)
    BY AtLeastReflexive DEF Shape, TypeOK, DiskType
  <2> QED
    BY <2>1 DEF Safe, AheadOfDurable, AllPaired
<1>2. AheadOfDurable' /\ CandidateCovers' /\ CommitPoint'
  BY DEF AheadOfDurable, CandidateCovers, CommitPoint, Exit, NoOperation
<1>3. AllPaired'
  BY <1>1, DefaultStateType DEF AllPaired, Exit, NoOperation
<1>4. ServedIsDurable'
  BY DEF ServedIsDurable, Exit, NoBundles
<1> QED
  BY <1>1, <1>2, <1>3, <1>4 DEF Safe

\* One step of StateDir keeps the safety invariant and never takes the
\* durable marks back, action by action.
LEMMA SafeStep ==
  ASSUME Shape, Safe, [Next]_vars
  PROVE  Safe' /\ AtLeast(durable', durable)
<1>0. durable' = durable => AtLeast(durable', durable)
  BY AtLeastReflexive DEF Shape, TypeOK, DiskType
<1> USE <1>0
<1>1. CASE InitState
  BY <1>1, InitStateSafe DEF InitState, diskVars
<1>2. CASE StartServer
  <2>1. /\ disk \in PersistedState
        /\ AtLeast(disk, durable)
        /\ Paired(disk)
    BY <1>2, DiskAhead
       DEF StartServer, validate_persisted, Shape, TypeOK, DiskType
  <2> QED
    BY <1>2, <2>1, BeginPassSafe DEF StartServer, diskVars
<1>3. CASE Reload
  <2>1. mem \in PersistedState /\ AtLeast(mem, durable) /\ Paired(mem)
    BY <1>3 DEF Reload, Shape, TypeOK, ProcType, Safe, AheadOfDurable, AllPaired
  <2> QED
    BY <1>3, <2>1, BeginPassSafe DEF Reload, diskVars, procVars
<1>4. ASSUME NEW l \in Label, NEW b \in Bundle, StartImport(l, b)
      PROVE  Safe' /\ AtLeast(durable', durable)
  BY <1>4, StartImportSafe DEF StartImport, diskVars
<1>5. CASE configured_bundle_paths
  BY <1>5, QuietStep DEF configured_bundle_paths, diskVars
<1>6. CASE NoBundleFound
  BY <1>6, FailSafe DEF NoBundleFound, diskVars
<1>7. CASE ReadBundle
  BY <1>7, ReadBundleSafe DEF ReadBundle, diskVars
<1>8. CASE RejectBundle
  BY <1>8, FailSafe DEF RejectBundle, diskVars
<1>9. ASSUME NEW l \in Label, SnapshotPresent(l)
      PROVE  Safe' /\ AtLeast(durable', durable)
  BY <1>9, SnapshotPresentSafe DEF SnapshotPresent, diskVars
<1>10. ASSUME NEW l \in Label, SnapshotRename(l)
       PROVE  Safe' /\ AtLeast(durable', durable)
  BY <1>10, QuietStep DEF SnapshotRename, diskVars
<1>11. ASSUME NEW l \in Label, SnapshotWriteFails(l)
       PROVE  Safe' /\ AtLeast(durable', durable)
  BY <1>11, FailSafe DEF SnapshotWriteFails, diskVars
<1>12. CASE SnapshotSync
  BY <1>12, QuietStep DEF SnapshotSync, diskVars
<1>13. CASE SnapshotSyncFails
  BY <1>13, FailSafe DEF SnapshotSyncFails, diskVars
<1>14. CASE CommitRename
  BY <1>14, CommitRenameSafe DEF CommitRename
<1>15. CASE CommitWriteFails
  BY <1>15, FailSafe DEF CommitWriteFails, diskVars
<1>16. CASE CommitSync
  <2>1. disk = cand /\ kind # "none"
    BY <1>16 DEF CommitSync, Safe, CommitPoint, Shape, Attached
  <2>2. AtLeast(durable', durable)
    BY <1>16, <2>1 DEF CommitSync, Safe, AheadOfDurable
  <2> QED
    BY <1>16, <2>2, CommitSyncSafe
<1>17. CASE InitSync
  <2>1. durable' \in unsynced \cup {durable}
    BY <1>17 DEF InitSync, Shape, TypeOK, DiskType
  <2> QED
    BY <1>17, <2>1, RestartSafe DEF InitSync
<1>18. CASE CommitSyncFails
  BY <1>18, FailSafe DEF CommitSyncFails, diskVars
<1>19. CASE CollectGarbage
  BY <1>19, QuietStep DEF CollectGarbage, diskVars
<1>20. CASE PublishMap
  BY <1>20, PublishMapSafe DEF PublishMap, diskVars
<1>21. ASSUME NEW l \in Label, PublishAlias(l)
       PROVE  Safe' /\ AtLeast(durable', durable)
  BY <1>21, ExitSafe DEF PublishAlias, diskVars
<1>22. CASE Kill
  BY <1>22, ExitSafe DEF Kill, diskVars
<1>23. CASE PowerLoss
  BY <1>23, RestartSafe DEF PowerLoss
<1>24. ASSUME NEW p \in Path, PublishBundle(p)
       PROVE  Safe' /\ AtLeast(durable', durable)
  BY <1>24, QuietStep DEF PublishBundle, diskVars, opVars
<1>25. ASSUME NEW b \in Bundle, SealExpires(b)
       PROVE  Safe' /\ AtLeast(durable', durable)
  BY <1>25, QuietStep DEF SealExpires, diskVars, opVars
<1>26. CASE UNCHANGED vars
  BY <1>26, QuietStep DEF vars, diskVars, opVars
<1> QED
  BY <1>1, <1>2, <1>3, <1>4, <1>5, <1>6, <1>7, <1>8, <1>9, <1>10, <1>11, <1>12,
     <1>13, <1>14, <1>15, <1>16, <1>17, <1>18, <1>19, <1>20, <1>21, <1>22,
     <1>23, <1>24, <1>25, <1>26
     DEF Next, Pass, Snapshot, Commit, Environment

\* Nothing is on disk or served at first.
LEMMA SafeInit == Init => Safe
BY DefaultStateType
   DEF Init, Safe, AheadOfDurable, CandidateCovers, CommitPoint, AllPaired,
       ServedIsDurable, Paired, NoBundles

\* The inductive invariant holds in every reachable state.
THEOREM Inductive == Spec => []IndInv
<1>1. IndInv <=> Shape /\ Safe
  BY DEF IndInv, Shape, Safe
<1>2. Init => IndInv
  BY <1>1, ShapeInit, SafeInit
<1>3. IndInv /\ [Next]_vars => IndInv'
  <2> SUFFICES ASSUME IndInv, [Next]_vars PROVE IndInv'
    OBVIOUS
  <2>1. Shape' /\ Safe'
    BY <1>1, ShapeStep, SafeStep
  <2> QED
    BY <2>1 DEF IndInv, Shape, Safe
<1> QED
  BY <1>2, <1>3, PTL DEF Spec

\* Every bundle in the scope map is covered by the marks of every content
\* state.json may have after a power loss: no crash, failed fsync or restart
\* makes the responder forget a generation it has served.
THEOREM ServedIsAlwaysDurable == Spec => []ServedIsDurable
<1>1. IndInv => ServedIsDurable
  BY DEF IndInv
<1> QED
  BY <1>1, Inductive, PTL

\* Reloads, imports, recoveries, crashes, power losses and failed writes never
\* lower a durable mark nor replace the digest recorded for an epoch.
THEOREM DurableMarksAdvance == Spec => DurableNeverRollsBack
<1>1. IndInv /\ [Next]_vars => [AtLeast(durable', durable)]_durable
  BY SafeStep DEF IndInv, Shape, Safe
<1> QED
  BY <1>1, Inductive, PTL DEF Spec, DurableNeverRollsBack

-----------------------------------------------------------------------------
(* Refinement *)

\* Only the publication of a scope map changes what is served, other than to
\* nothing at the end of the process.
LEMMA ServedStep ==
  ASSUME [Next]_vars
  PROVE  PublishMap \/ served' \in {served, NoBundles}
<1>1. Fail => served' \in {served, NoBundles}
  BY DEF Fail, Exit, procVars
<1>2. Pass => served' \in {served, NoBundles}
  BY <1>1 DEF Pass, configured_bundle_paths, NoBundleFound, ReadBundle,
              RejectBundle, procVars
<1>3. Snapshot => served' \in {served, NoBundles}
  BY <1>1 DEF Snapshot, SnapshotPresent, SnapshotRename, SnapshotWriteFails,
              SnapshotSync, SnapshotSyncFails, procVars
<1>4. Commit => PublishMap \/ served' \in {served, NoBundles}
  BY <1>1 DEF Commit, CommitRename, CommitWriteFails, CommitSync, InitSync,
              CommitSyncFails, CollectGarbage, PublishAlias, Exit, procVars
<1>5. Environment => served' \in {served, NoBundles}
  BY DEF Environment, PublishBundle, SealExpires, Kill, PowerLoss, Exit, procVars
<1>6. InitState \/ StartServer \/ Reload
      \/ (\E l \in Label, b \in Bundle : StartImport(l, b))
      => served' \in {served, NoBundles}
  BY DEF InitState, StartServer, Reload, StartImport, procVars
<1>7. UNCHANGED vars => served' \in {served, NoBundles}
  BY DEF vars, procVars
<1> QED
  BY <1>2, <1>3, <1>4, <1>5, <1>6, <1>7 DEF Next

\* A durable mark is a generation of the timeline, or absent.
LEMMA MarksType ==
  IndInv => durableMarks \in [Key -> T!Generation \cup {None}]
<1> SUFFICES ASSUME durable \in PersistedState \cup {None}, Paired(durable),
                    NEW k \in Key
             PROVE  durableMarks[k] \in T!Generation \cup {None}
  BY DEF durableMarks, IndInv, TypeOK, DiskType, AllPaired
<1>1. CASE durable = None
  BY <1>1 DEF durableMarks
<1>2. CASE durable # None /\ durable.high_water_marks[k] = NoMark
  BY <1>2 DEF durableMarks
<1>3. CASE durable # None /\ durable.high_water_marks[k] # NoMark
  <2>1. /\ durable.high_water_marks[k] \in Nat
        /\ durable.manifest_digests[k] \in Digest
    BY <1>3 DEF PersistedState, Paired
  <2> QED
    BY <1>3, <2>1 DEF durableMarks, Generation, T!Generation
<1> QED
  BY <1>1, <1>2, <1>3

\* AtLeast on descriptors is NotAfter on the timeline.
LEMMA MarksAdvance ==
  ASSUME NEW s \in PersistedState, NEW t \in PersistedState, AtLeast(t, s),
         NEW k \in Key, s.high_water_marks[k] # NoMark
  PROVE  /\ t.high_water_marks[k] # NoMark
         /\ \/ /\ s.high_water_marks[k] = t.high_water_marks[k]
               /\ s.manifest_digests[k] = t.manifest_digests[k]
            \/ s.high_water_marks[k] < t.high_water_marks[k]
BY NoneAssumption DEF AtLeast, PersistedState, NoMark

\* A step that serves nothing new records generations on the timeline.
LEMMA RecordStep ==
  ASSUME IndInv, IndInv', AtLeast(durable', durable),
         served' \in {served, NoBundles}
  PROVE  T!Record
<1>1. /\ durable \in PersistedState \cup {None}
      /\ durable' \in PersistedState \cup {None}
      /\ Paired(durable) /\ Paired(durable')
  BY DEF IndInv, TypeOK, DiskType, AllPaired
<1>2. durableMarks' \in [Key -> T!Generation \cup {None}]
  <2>1. (durableMarks \in [Key -> T!Generation \cup {None}])'
    BY MarksType, PTL
  <2> QED
    BY <2>1 DEF T!Generation
<1>3. ASSUME NEW k \in Key, durableMarks[k] # None
      PROVE  T!NotAfter(durableMarks[k], durableMarks'[k])
  <2>1. durable # None /\ durable.high_water_marks[k] # NoMark
    BY <1>3 DEF durableMarks
  <2>2. durable' # None
    BY <2>1 DEF AtLeast
  <2>3. /\ durable'.high_water_marks[k] # NoMark
        /\ \/ /\ durable.high_water_marks[k] = durable'.high_water_marks[k]
              /\ durable.manifest_digests[k] = durable'.manifest_digests[k]
           \/ durable.high_water_marks[k] < durable'.high_water_marks[k]
    BY <1>1, <2>1, <2>2, MarksAdvance
  <2>4. /\ durableMarks[k] = Generation(durable.high_water_marks[k],
                                       durable.manifest_digests[k])
        /\ durableMarks'[k] = Generation(durable'.high_water_marks[k],
                                        durable'.manifest_digests[k])
    BY <2>1, <2>2, <2>3 DEF durableMarks
  <2>5. durableMarks'[k] # None
    <3>1. /\ durable'.high_water_marks[k] \in Nat
          /\ durable'.manifest_digests[k] \in Digest
      BY <1>1, <2>2, <2>3 DEF PersistedState, Paired
    <3> QED
      BY <2>4, <3>1, NoneAssumption DEF Generation
  <2> QED
    BY <2>3, <2>4, <2>5 DEF T!NotAfter, Generation
<1>4. servedGenerations' \in {servedGenerations, {}}
  <2>1. CASE served' = served
    BY <2>1 DEF servedGenerations, Generation
  <2>2. CASE served' = NoBundles
    <3>1. {m \in Label : served'[m] # None} = {}
      BY <2>2 DEF NoBundles
    <3> QED
      BY <3>1 DEF servedGenerations
  <2> QED
    BY <2>1, <2>2
<1> QED
  BY <1>2, <1>3, <1>4 DEF T!Record

\* The publication of a scope map serves recorded generations.
LEMMA ServeStep ==
  ASSUME IndInv, IndInv', PublishMap
  PROVE  T!Serve
<1>1. durable' = durable
  BY DEF PublishMap, diskVars
<1>2. durableMarks' = durableMarks
  BY <1>1 DEF durableMarks, Generation
<1>3. ASSUME NEW g \in servedGenerations'
      PROVE  /\ g \in Key \X T!Generation
             /\ T!NotAfter(g[2], durableMarks[g[1]])
  <2>1. PICK l \in Label :
          /\ served'[l] # None
          /\ \E k \in ca_scopes[served'[l]] :
               g = <<k, Generation(epoch[served'[l]][k], digest[served'[l]])>>
    BY <1>3 DEF servedGenerations
  <2> DEFINE b == served'[l]
  <2>2. PICK k \in ca_scopes[b] : g = <<k, Generation(epoch[b][k], digest[b])>>
    BY <2>1
  <2>3. b \in Bundle
    BY <2>1 DEF IndInv, TypeOK, ProcType
  <2>4. k \in Key /\ epoch[b][k] \in Nat /\ digest[b] \in Digest
    BY <2>2, <2>3, BundleAssumption
  <2>5. Covers(durable, b)
    BY <1>1, <2>1 DEF IndInv, ServedIsDurable, Covers
  <2> HIDE DEF b
  <2>6. durable \in PersistedState /\ durable # None
    BY <2>5 DEF Covers, IndInv, TypeOK, DiskType
  <2>7. \/ durable.high_water_marks[k] > epoch[b][k]
        \/ /\ durable.high_water_marks[k] = epoch[b][k]
           /\ durable.manifest_digests[k] = digest[b]
    BY <2>2, <2>5 DEF Covers
  <2>8. durable.high_water_marks[k] \in Nat
    BY <2>4, <2>6, <2>7 DEF PersistedState, NoMark
  <2>9. durable.manifest_digests[k] \in Digest
    BY <2>4, <2>6, <2>8 DEF IndInv, AllPaired, Paired, PersistedState, NoMark
  <2>10. durableMarks[k] = Generation(durable.high_water_marks[k],
                                      durable.manifest_digests[k])
    BY <2>4, <2>6, <2>8 DEF durableMarks, NoMark
  <2>11. durableMarks[k] # None
    BY <2>8, <2>9, <2>10, NoneAssumption DEF Generation
  <2>12. T!NotAfter(Generation(epoch[b][k], digest[b]), durableMarks[k])
    BY <2>4, <2>7, <2>8, <2>10, <2>11 DEF T!NotAfter, Generation
  <2> QED
    BY <2>2, <2>4, <2>12 DEF Generation, T!Generation
<1> QED
  BY <1>2, <1>3 DEF T!Serve, T!OnTimeline

\* The state directory, with its snapshots, commits, recovery, crashes and
\* failing fsyncs, implements one timeline of generations per scope.
THEOREM Implements == Spec => ImplementsTimeline
<1>1. Init => T!Init
  BY DEF Init, T!Init, durableMarks, servedGenerations, NoBundles
<1>2. IndInv /\ IndInv' /\ [Next]_vars
        => [T!Next]_<<durableMarks, servedGenerations>>
  <2> SUFFICES ASSUME IndInv, IndInv', [Next]_vars PROVE T!Next
    OBVIOUS
  <2>1. AtLeast(durable', durable)
    BY SafeStep DEF IndInv, Shape, Safe
  <2> QED
    BY <2>1, RecordStep, ServeStep, ServedStep DEF T!Next
<1> QED
  BY <1>1, <1>2, Inductive, PTL DEF Spec, ImplementsTimeline, T!Spec

-----------------------------------------------------------------------------
(* Working sets: a bundle, or none, for every label *)

\* No scope is covered by two files. The source does not refuse such a
\* configuration; in the legacy mode there is one file at a time.
Separate ==
  \/ Legacy
  \/ \A p, q \in Path : p # q =>
       \A b \in published[p], c \in published[q] : ca_scopes[b] \cap ca_scopes[c] = {}

\* A label has a bundle of its file, and one file gives one bundle.
WellPlaced(W) ==
  \A l \in Label : W[l] # None =>
    /\ ~Legacy => W[l] \in published[path[l]]
    /\ \A m \in Label :
         W[m] # None /\ (Legacy \/ path[l] = path[m]) => W[l] = W[m]

\* The marks of s are the epochs of the working set, not only at or past them.
Exact(s, W) ==
  \A l \in Label : W[l] # None =>
    \A k \in ca_scopes[W[l]] :
      /\ s.high_water_marks[k] = epoch[W[l]][k]
      /\ s.manifest_digests[k] = digest[W[l]]

\* The descriptor s can have the working set W.
Fits(s, W) ==
  /\ WellPlaced(W)
  /\ \A l \in Label : W[l] # None => Covers(s, W[l])
  /\ Separate => Exact(s, W)

-----------------------------------------------------------------------------
(* The inductive invariant *)

Passes == {"load", "recover", "reload"}

\* The working set of the transaction once its snapshots are written.
Target == [l \in Label |-> IF l \in todo THEN staged[l] ELSE cand.active_bundles[l]]

\* What may be read back from the disk or from the store in memory.
Descriptors == ((unsynced \cup {durable}) \ {None}) \cup {mem}

EnvInv == \A p \in Path : alias[p] # None => alias[p] \in published[p]

StoreInv ==
  /\ \A s \in Descriptors : Fits(s, s.active_bundles)
  /\ Refs(mem) \subseteq gens
  /\ "power" \notin Faults /\ disk # None => Refs(disk) \subseteq gens

\* A pass reads each file once; a recovery reads the committed snapshots.
Reading ==
  /\ pc = "select" => kind \in {"load", "reload"} /\ staged = NoBundles /\ loaded = NoLoads
  /\ pc = "read" /\ kind # "recover" =>
       /\ \A l \in Label : staged[l] # None => staged[l] = loaded[paths[l]]
       /\ \A p \in Path : loaded[p] # None =>
            loaded[p] \in published[p] /\ \E l \in Label : staged[l] = loaded[p]
       /\ IF Legacy THEN \A l, m \in Label : paths[l] = paths[m] ELSE paths = path
  /\ pc = "read" /\ kind = "recover" =>
       \A l \in Label : staged[l] # None => staged[l] = mem.active_bundles[l]

\* The marks of the scopes that the pass has not read are those of the store.
Untouched ==
  pc \in {"select", "read"} =>
    \A k \in Key :
      \/ /\ cand.high_water_marks[k] = mem.high_water_marks[k]
         /\ cand.manifest_digests[k] = mem.manifest_digests[k]
      \/ \E i \in 1..(cur - 1) : k \in ca_scopes[staged[Order[i]]]

\* A pass builds the transaction from nothing, an import from the store.
Built ==
  /\ kind \in Passes => proc = "server"
  /\ kind = "import" => ~Legacy
  /\ pc \notin {"snap", "snapSync"} => todo = {}
  /\ pc \in {"select", "read"} => kind \in Passes /\ cand.active_bundles = NoBundles
  /\ kind \in Passes /\ pc \notin {"idle", "select", "read"} =>
       \A l \in Label :
         /\ staged[l] # None
         /\ Target[l] = IF ca_scopes[staged[l]] = {} THEN None ELSE staged[l]
  /\ pc \in {"collect", "publish"} => mem = cand

CandInv ==
  /\ Fits(cand, Target)
  /\ kind # "none" => Fits(cand, staged)
  /\ Refs(cand) \subseteq gens

OpInv == Reading /\ Untouched /\ Built /\ CandInv

\* A scope map has every label, belongs to a server, and is the committed one
\* except between a commit and the swap.
ServerInv ==
  /\ proc # "server" => served = NoBundles
  /\ served = NoBundles \/ \A l \in Label : served[l] # None
  /\ WellPlaced(served)
  /\ served # NoBundles => durable = mem
  /\ served # NoBundles /\ pc \notin {"collect", "publish"} => Fits(mem, served)
  /\ CommittedIsServed

WorkInv == EnvInv /\ StoreInv /\ OpInv /\ ServerInv

-----------------------------------------------------------------------------
(* Facts about working sets *)

\* The empty working set fits every descriptor.
LEMMA FitsNone == \A s : Fits(s, NoBundles)
BY DEF Fits, WellPlaced, Exact, NoBundles

\* So does a part of a working set that fits.
LEMMA FitsPart ==
  ASSUME NEW s, NEW W, NEW V, \A l \in Label : V[l] \in {None, W[l]}, Fits(s, W)
  PROVE  Fits(s, V)
<1>1. \A l \in Label : V[l] # None => V[l] = W[l] /\ W[l] # None
  OBVIOUS
<1>2. WellPlaced(V)
  BY <1>1 DEF Fits, WellPlaced
<1>3. \A l \in Label : V[l] # None => Covers(s, V[l])
  BY <1>1 DEF Fits
<1>4. Separate => Exact(s, V)
  BY <1>1 DEF Fits, Exact
<1> QED
  BY <1>2, <1>3, <1>4 DEF Fits

\* Two bundles of a working set are one, or have no scope in common.
LEMMA Apart ==
  ASSUME Separate, NEW W, WellPlaced(W),
         NEW l \in Label, NEW m \in Label, W[l] # None, W[m] # None
  PROVE  W[l] = W[m] \/ ca_scopes[W[l]] \cap ca_scopes[W[m]] = {}
<1>1. CASE Legacy \/ path[l] = path[m]
  BY <1>1 DEF WellPlaced
<1>2. CASE ~Legacy /\ path[l] # path[m]
  <2>1. W[l] \in published[path[l]] /\ W[m] \in published[path[m]]
    BY <1>2 DEF WellPlaced
  <2>2. path[l] \in Path /\ path[m] \in Path
    BY ConfigAssumption
  <2> QED
    BY <1>2, <2>1, <2>2 DEF Separate
<1> QED
  BY <1>1, <1>2

\* A bundle that passed the rollback check sets its marks exactly, and leaves
\* the marks of other scopes alone.
LEMMA AdvanceExact ==
  ASSUME NEW s \in PersistedState, NEW b \in Bundle
  PROVE  LET t == advance_from_bundle(s, b) IN
         /\ t.active_bundles = s.active_bundles
         /\ check_rollback(s, b) =>
              \A k \in ca_scopes[b] : /\ t.high_water_marks[k] = epoch[b][k]
                                      /\ t.manifest_digests[k] = digest[b]
         /\ \A k \in Key \ ca_scopes[b] :
              /\ t.high_water_marks[k] = s.high_water_marks[k]
              /\ t.manifest_digests[k] = s.manifest_digests[k]
<1> DEFINE t == advance_from_bundle(s, b)
<1>1. \A k \in Key :
        IF k \in Raises(s, b)
          THEN /\ t.high_water_marks[k] = epoch[b][k]
               /\ t.manifest_digests[k] = digest[b]
          ELSE /\ t.high_water_marks[k] = s.high_water_marks[k]
               /\ t.manifest_digests[k] = s.manifest_digests[k]
  BY AdvanceFacts
<1>2. t.active_bundles = s.active_bundles
  BY DEF advance_from_bundle
<1> HIDE DEF t
<1>3. ASSUME check_rollback(s, b), NEW k \in ca_scopes[b]
      PROVE  /\ t.high_water_marks[k] = epoch[b][k]
             /\ t.manifest_digests[k] = digest[b]
  <2>1. /\ k \in Key /\ s.high_water_marks[k] \in Nat \cup {NoMark}
        /\ epoch[b][k] \in Nat
    BY BundleAssumption DEF PersistedState
  <2>2. CASE k \in Raises(s, b)
    BY <1>1, <2>1, <2>2
  <2>3. CASE k \notin Raises(s, b)
    <3>1. ~(epoch[b][k] > s.high_water_marks[k])
      BY <2>3 DEF Raises
    <3>2. s.high_water_marks[k] # NoMark
      BY <2>1, <3>1 DEF NoMark
    <3>3. /\ epoch[b][k] >= s.high_water_marks[k]
          /\ epoch[b][k] = s.high_water_marks[k] => s.manifest_digests[k] = digest[b]
      BY <1>3, <3>2 DEF check_rollback
    <3>4. epoch[b][k] = s.high_water_marks[k]
      BY <2>1, <3>1, <3>2, <3>3
    <3> QED
      BY <1>1, <2>1, <2>3, <3>3, <3>4
  <2> QED
    BY <2>2, <2>3
<1>4. \A k \in Key \ ca_scopes[b] :
        /\ t.high_water_marks[k] = s.high_water_marks[k]
        /\ t.manifest_digests[k] = s.manifest_digests[k]
  BY <1>1 DEF Raises
<1> QED
  BY <1>2, <1>3, <1>4 DEF t

\* A bundle whose scopes have exactly its marks is admitted, if it is trusted.
LEMMA ExactIsAdmitted ==
  ASSUME NEW b \in Bundle, b \in trusted,
         \A k \in ca_scopes[b] : /\ cand.high_water_marks[k] = epoch[b][k]
                                 /\ cand.manifest_digests[k] = digest[b]
  PROVE  Admits(b)
<1>1. \A k \in ca_scopes[b] : epoch[b][k] \in Nat
  BY BundleAssumption
<1>2. check_rollback(cand, b)
  BY <1>1, BundleAssumption DEF check_rollback
<1>3. check_continuity(cand, b)
  BY DEF check_continuity
<1> QED
  BY <1>2, <1>3, BundleAssumption DEF Admits

-----------------------------------------------------------------------------
(* Kinds of steps *)

\* Nothing is referred to by the empty descriptor.
LEMMA DefaultFacts ==
  /\ DefaultState.active_bundles = NoBundles
  /\ Refs(DefaultState) = {}
BY DEF DefaultState, Refs, NoBundles

\* What a working set refers to.
LEMMA NoRefs == \A s : s.active_bundles = NoBundles => Refs(s) = {}
BY DEF Refs, NoBundles

\* The end of an operation.
LEMMA NoOperationOp ==
  ASSUME NoOperation
  PROVE  OpInv'
<1>1. /\ kind' = "none" /\ pc' = "idle" /\ cand' = DefaultState /\ todo' = {}
  BY DEF NoOperation
<1>2. Target' = NoBundles
  BY <1>1, DefaultFacts DEF Target, NoBundles
<1>3. CandInv'
  BY <1>1, <1>2, FitsNone, DefaultFacts DEF CandInv
<1>4. Reading' /\ Untouched' /\ Built'
  BY <1>1 DEF Reading, Untouched, Built, Passes
<1> QED
  BY <1>3, <1>4 DEF OpInv

\* The beginning of a pass, from the store that the process has.
LEMMA BeginPassOp ==
  ASSUME NEW k \in Passes, NEW s \in PersistedState, BeginPass(k, s),
         proc' = "server", mem' = s
  PROVE  OpInv'
<1>1. /\ kind' = k /\ cand' = clear_active_bundles(s) /\ todo' = {} /\ cur' = 1
      /\ staged' = NoBundles /\ loaded' = NoLoads
      /\ pc' = IF k = "recover" THEN "read" ELSE "select"
  BY DEF BeginPass
<1>2. /\ cand'.active_bundles = NoBundles
      /\ cand'.high_water_marks = s.high_water_marks
      /\ cand'.manifest_digests = s.manifest_digests
  BY <1>1 DEF clear_active_bundles, WithBundles
<1>3. Target' = NoBundles
  BY <1>1, <1>2 DEF Target, NoBundles
<1>4. CandInv'
  BY <1>1, <1>2, <1>3, FitsNone, NoRefs DEF CandInv
<1>5. Reading'
  BY <1>1 DEF Reading, Passes, NoBundles
<1>6. Untouched' /\ Built'
  BY <1>1, <1>2 DEF Untouched, Built, Passes
<1> QED
  BY <1>4, <1>5, <1>6 DEF OpInv

\* A step that leaves the operation alone and no snapshot of it behind.
LEMMA QuietOp ==
  ASSUME OpInv, UNCHANGED <<opVars, proc, mem>>, Refs(cand) \subseteq gens'
  PROVE  OpInv'
<1>1. UNCHANGED <<kind, pc, cand, cur, paths, loaded, staged, todo, proc, mem>>
  BY DEF opVars
<1>2. Target' = Target
  BY <1>1 DEF Target
<1>3. CandInv'
  BY <1>1, <1>2 DEF OpInv, CandInv
<1>4. Reading' /\ Untouched'
  BY <1>1 DEF OpInv, Reading, Untouched
<1>5. Built'
  BY <1>1, <1>2 DEF OpInv, Built
<1> QED
  BY <1>3, <1>4, <1>5 DEF OpInv

\* What is readable after a step was readable before it, or fits.
LEMMA StoreFrom ==
  ASSUME StoreInv,
         \A s \in (unsynced' \cup {durable'}) \ {None} :
           s \in Descriptors \/ Fits(s, s.active_bundles),
         mem' \in Descriptors \cup {DefaultState},
         Refs(mem') \subseteq gens',
         "power" \notin Faults /\ disk' # None => Refs(disk') \subseteq gens'
  PROVE  StoreInv'
<1>1. Fits(DefaultState, DefaultState.active_bundles)
  BY FitsNone, DefaultFacts
<1>2. \A s \in Descriptors' : Fits(s, s.active_bundles)
  BY <1>1 DEF StoreInv, Descriptors
<1> QED
  BY <1>2 DEF StoreInv

\* A step that leaves descriptors alone and no snapshot behind.
LEMMA QuietStore ==
  ASSUME StoreInv, UNCHANGED diskVars, mem' \in {mem, DefaultState}, gens \subseteq gens'
  PROVE  StoreInv'
<1>1. UNCHANGED <<disk, durable, unsynced>>
  BY DEF diskVars
<1>2. \A s \in (unsynced' \cup {durable'}) \ {None} : s \in Descriptors
  BY <1>1 DEF Descriptors
<1>3. mem' \in Descriptors \cup {DefaultState} /\ Refs(mem') \subseteq gens'
  BY DefaultFacts DEF Descriptors, StoreInv
<1>4. "power" \notin Faults /\ disk' # None => Refs(disk') \subseteq gens'
  BY <1>1 DEF StoreInv
<1> QED
  BY <1>2, <1>3, <1>4, StoreFrom

\* Without a scope map there is nothing to keep.
LEMMA NotServing ==
  ASSUME served' = NoBundles
  PROVE  ServerInv'
<1>1. WellPlaced(NoBundles) /\ \A l \in Label : NoBundles[l] = None
  BY DEF WellPlaced, NoBundles
<1>2. CommittedIsServed'
  BY <1>1 DEF CommittedIsServed
<1> QED
  BY <1>1, <1>2 DEF ServerInv

\* A step that leaves the scope map and the durable descriptor alone.
LEMMA QuietServer ==
  ASSUME ServerInv, UNCHANGED <<proc, served, mem, durable>>,
         pc \in {"collect", "publish"} => pc' \in {"collect", "publish"}
  PROVE  ServerInv'
BY DEF ServerInv, CommittedIsServed

\* The end of the process.
LEMMA ExitWork ==
  ASSUME WorkInv, Exit, UNCHANGED diskVars, gens \subseteq gens', EnvInv'
  PROVE  WorkInv'
<1>1. served' = NoBundles /\ mem' = DefaultState /\ NoOperation
  BY DEF Exit
<1>2. OpInv'
  BY <1>1, NoOperationOp
<1>3. StoreInv'
  BY <1>1, QuietStore DEF WorkInv
<1>4. ServerInv'
  BY <1>1, NotServing
<1> QED
  BY <1>2, <1>3, <1>4 DEF WorkInv

\* Every failure.
LEMMA FailWork ==
  ASSUME IndInv, WorkInv, Fail, UNCHANGED <<diskVars, gens, alias>>,
         pc \notin {"collect", "publish"}
  PROVE  WorkInv'
<1>1. EnvInv' /\ gens \subseteq gens'
  BY DEF WorkInv, EnvInv
<1>2. ASSUME Exit PROVE WorkInv'
  BY <1>1, <1>2, ExitWork
<1>3. ASSUME UNCHANGED procVars, OpInv' PROVE WorkInv'
  <2>1. StoreInv'
    BY <1>1, <1>3, QuietStore DEF WorkInv, procVars
  <2>2. ServerInv'
    BY <1>3, QuietServer DEF WorkInv, procVars, diskVars
  <2> QED
    BY <1>1, <1>3, <2>1, <2>2 DEF WorkInv
<1>4. ASSUME kind = "load", BeginPass("recover", mem), UNCHANGED procVars
      PROVE  WorkInv'
  <2>1. proc' = "server" /\ mem' = mem /\ mem \in PersistedState
    BY <1>4 DEF WorkInv, OpInv, Built, Passes, procVars, IndInv, TypeOK, ProcType
  <2>2. OpInv'
    BY <1>4, <2>1, BeginPassOp DEF Passes
  <2> QED
    BY <1>3, <1>4, <2>2
<1>5. ASSUME NoOperation, UNCHANGED procVars PROVE WorkInv'
  BY <1>3, <1>5, NoOperationOp
<1> QED
  BY <1>2, <1>4, <1>5 DEF Fail

-----------------------------------------------------------------------------
(* Programs *)

\* Between programs nothing is in progress.
LEMMA NobodyThere ==
  ASSUME IndInv, WorkInv, proc = "none"
  PROVE  /\ kind = "none" /\ pc = "idle" /\ todo = {}
         /\ staged = NoBundles /\ loaded = NoLoads /\ served = NoBundles
<1>1. kind = "none" /\ pc = "idle"
  BY DEF IndInv, Attached
<1>2. staged = NoBundles /\ loaded = NoLoads
  BY <1>1 DEF IndInv, CandidateCovers
<1>3. todo = {} /\ served = NoBundles
  BY <1>1 DEF WorkInv, OpInv, Built, ServerInv
<1> QED
  BY <1>1, <1>2, <1>3

\* hoike init-state.
LEMMA InitStateWork ==
  ASSUME IndInv, WorkInv, InitState
  PROVE  WorkInv'
<1>1. /\ proc = "none" /\ kind' = "init" /\ pc' = "snap" /\ cand' = DefaultState
      /\ UNCHANGED <<diskVars, genVars, envVars, mem, served, cur, paths,
                     loaded, staged, todo>>
  BY DEF InitState
<1>2. todo' = {} /\ staged' = NoBundles /\ served' = NoBundles
  BY <1>1, NobodyThere
<1>3. Target' = NoBundles
  BY <1>1, <1>2, DefaultFacts DEF Target, NoBundles
<1>4. CandInv'
  BY <1>1, <1>2, <1>3, FitsNone, DefaultFacts DEF CandInv
<1>5. OpInv'
  BY <1>1, <1>2, <1>4 DEF OpInv, Reading, Untouched, Built, Passes
<1>6. StoreInv'
  BY <1>1, QuietStore DEF WorkInv, genVars
<1>7. ServerInv'
  BY <1>2, NotServing
<1> QED
  BY <1>1, <1>5, <1>6, <1>7 DEF WorkInv, EnvInv, envVars

\* A descriptor that a program opens.
LEMMA Opened ==
  ASSUME IndInv, WorkInv, validate_persisted(disk)
  PROVE  /\ disk \in PersistedState
         /\ disk \in Descriptors
         /\ Fits(disk, disk.active_bundles)
         /\ Refs(disk) \subseteq gens
<1>1. disk \in PersistedState /\ disk \in Descriptors
  BY DEF validate_persisted, IndInv, TypeOK, DiskType, Descriptors
<1> QED
  BY <1>1 DEF validate_persisted, WorkInv, StoreInv

\* Opening the store, for a server or for an import.
LEMMA OpenedStore ==
  ASSUME IndInv, WorkInv, validate_persisted(disk), mem' = disk, UNCHANGED <<diskVars, gens>>
  PROVE  StoreInv'
<1>1. UNCHANGED <<disk, durable, unsynced, gens>>
  BY DEF diskVars
<1>2. disk \in Descriptors /\ Refs(disk) \subseteq gens
  BY Opened
<1>3. \A s \in (unsynced' \cup {durable'}) \ {None} : s \in Descriptors
  BY <1>1 DEF Descriptors
<1> QED
  BY <1>1, <1>2, <1>3, StoreFrom DEF WorkInv

\* hoike serve.
LEMMA StartServerWork ==
  ASSUME IndInv, WorkInv, StartServer
  PROVE  WorkInv'
<1>1. /\ proc = "none" /\ validate_persisted(disk) /\ proc' = "server" /\ mem' = disk
      /\ BeginPass("load", disk)
      /\ UNCHANGED <<diskVars, genVars, envVars, served>>
  BY DEF StartServer
<1>2. disk \in PersistedState
  BY <1>1, Opened
<1>3. OpInv'
  BY <1>1, <1>2, BeginPassOp DEF Passes
<1>4. StoreInv'
  BY <1>1, OpenedStore DEF genVars
<1>5. ServerInv'
  BY <1>1, NobodyThere, NotServing
<1> QED
  BY <1>1, <1>3, <1>4, <1>5 DEF WorkInv, EnvInv, envVars

\* A reload.
LEMMA ReloadWork ==
  ASSUME IndInv, WorkInv, Reload
  PROVE  WorkInv'
<1>1. /\ proc = "server" /\ kind = "none" /\ BeginPass("reload", mem)
      /\ UNCHANGED <<diskVars, genVars, envVars, procVars>>
  BY DEF Reload
<1>2. mem \in PersistedState /\ mem' = mem /\ proc' = "server"
  BY <1>1 DEF IndInv, TypeOK, ProcType, procVars
<1>3. OpInv'
  BY <1>1, <1>2, BeginPassOp DEF Passes
<1>4. StoreInv'
  BY <1>1, <1>2, QuietStore DEF WorkInv, genVars
<1>5. pc \notin {"collect", "publish"}
  BY <1>1 DEF IndInv, Attached
<1>6. ServerInv'
  BY <1>1, <1>5, QuietServer DEF WorkInv, procVars, diskVars
<1> QED
  BY <1>1, <1>3, <1>4, <1>6 DEF WorkInv, EnvInv, envVars

\* hoike import, which refuses a file that another label has.
LEMMA StartImportWork ==
  ASSUME IndInv, IndInv', WorkInv, NEW l \in Label, NEW b \in Bundle, StartImport(l, b)
  PROVE  WorkInv'
<1>1. /\ proc = "none" /\ ~Legacy /\ b \in published[path[l]]
      /\ \A other \in Label \ {l} : path[other] # path[l]
      /\ validate_persisted(disk) /\ check_rollback(disk, b)
      /\ proc' = "import" /\ mem' = disk /\ kind' = "import" /\ pc' = "snap"
      /\ cand' = advance_from_bundle(disk, b)
      /\ staged' = [NoBundles EXCEPT ![l] = b] /\ todo' = {l}
      /\ UNCHANGED <<diskVars, genVars, envVars, served>>
  BY DEF StartImport
<1>2. /\ disk \in PersistedState
      /\ Fits(disk, disk.active_bundles)
      /\ Refs(disk) \subseteq gens
  BY <1>1, Opened
<1> DEFINE W == disk.active_bundles
<1>3. /\ cand'.active_bundles = W
      /\ \A k \in ca_scopes[b] : /\ cand'.high_water_marks[k] = epoch[b][k]
                                 /\ cand'.manifest_digests[k] = digest[b]
      /\ \A k \in Key \ ca_scopes[b] :
           /\ cand'.high_water_marks[k] = disk.high_water_marks[k]
           /\ cand'.manifest_digests[k] = disk.manifest_digests[k]
  BY <1>1, <1>2, AdvanceExact
<1>4. /\ cand' \in PersistedState /\ AtLeast(cand', disk) /\ Covers(cand', b)
  BY <1>1, <1>2, AdvanceRaises, AdvanceFacts
<1>5. W \in [Label -> Bundle \cup {None}]
  BY <1>2 DEF PersistedState
<1>6. /\ \A m \in Label : m # l => Target'[m] = W[m] /\ staged'[m] = None
      /\ Target'[l] = b /\ staged'[l] = b
  BY <1>1, <1>3 DEF Target, NoBundles
<1>7. WellPlaced(Target')
  <2>1. \A m \in Label : Target'[m] # None => Target'[m] \in published[path[m]]
    BY <1>1, <1>2, <1>6 DEF Fits, WellPlaced
  <2>2. \A m, n \in Label :
          Target'[m] # None /\ Target'[n] # None /\ path[m] = path[n] => Target'[m] = Target'[n]
    BY <1>1, <1>2, <1>6 DEF Fits, WellPlaced
  <2> QED
    BY <1>1, <2>1, <2>2 DEF WellPlaced
<1>8. \A m \in Label : Target'[m] # None => Covers(cand', Target'[m])
  <2>1. ASSUME NEW m \in Label, W[m] # None PROVE Covers(cand', W[m])
    <3>1. W[m] \in Bundle /\ Covers(disk, W[m])
      BY <1>2, <1>5, <2>1 DEF Fits
    <3> QED
      BY <1>2, <1>4, <3>1, CoversMonotone
  <2> QED
    BY <1>4, <1>6, <2>1
<1>9. ASSUME Separate PROVE Exact(cand', Target')
  <2>1. ASSUME NEW m \in Label, Target'[m] # None, NEW k \in ca_scopes[Target'[m]]
        PROVE  /\ cand'.high_water_marks[k] = epoch[Target'[m]][k]
               /\ cand'.manifest_digests[k] = digest[Target'[m]]
    <3>1. CASE m = l
      BY <1>3, <1>6, <2>1, <3>1
    <3>2. CASE m # l
      <4>1. Target'[m] = W[m] /\ W[m] # None /\ W[m] \in Bundle
        BY <1>5, <1>6, <2>1, <3>2
      <4>2. /\ disk.high_water_marks[k] = epoch[W[m]][k]
            /\ disk.manifest_digests[k] = digest[W[m]]
        BY <1>2, <1>9, <2>1, <4>1 DEF Fits, Exact
      <4>3. k \in Key
        BY <2>1, <4>1, BundleAssumption
      <4>4. k \notin ca_scopes[b]
        <5>1. Target'[m] = b \/ ca_scopes[Target'[m]] \cap ca_scopes[b] = {}
          BY <1>1, <1>6, <1>7, <1>9, <2>1, Apart, BundleAssumption
        <5>2. CASE Target'[m] # b
          BY <2>1, <5>1, <5>2
        <5>3. CASE Target'[m] = b
          <6>1. W[m] \in published[path[m]] /\ path[m] # path[l]
            BY <1>1, <1>2, <3>2, <4>1 DEF Fits, WellPlaced
          <6>2. ca_scopes[b] \cap ca_scopes[b] = {}
            BY <1>1, <1>9, <4>1, <5>3, <6>1, ConfigAssumption DEF Separate
          <6> QED
            BY <2>1, <5>3, <6>2
        <5> QED
          BY <5>2, <5>3
      <4> QED
        BY <1>3, <4>1, <4>2, <4>3, <4>4
    <3> QED
      BY <3>1, <3>2
  <2> QED
    BY <2>1 DEF Exact
<1>10. Fits(cand', Target')
  BY <1>7, <1>8, <1>9 DEF Fits
<1>11. Fits(cand', staged')
  <2>1. \A m \in Label : staged'[m] \in {None, Target'[m]}
    BY <1>6
  <2> QED
    BY <1>10, <2>1, FitsPart
<1>12. CandInv'
  <2>1. Refs(cand') = Refs(disk) /\ gens' = gens
    BY <1>1, <1>3 DEF Refs, genVars
  <2> QED
    BY <1>1, <1>2, <1>10, <1>11, <2>1 DEF CandInv
<1>13. OpInv'
  BY <1>1, <1>12 DEF OpInv, Reading, Untouched, Built, Passes
<1>14. StoreInv'
  BY <1>1, OpenedStore DEF genVars
<1>15. ServerInv'
  BY <1>1, NobodyThere, NotServing
<1> QED
  BY <1>1, <1>13, <1>14, <1>15 DEF WorkInv, EnvInv, envVars

-----------------------------------------------------------------------------
(* One pass *)

\* The files of the pass are chosen.
LEMMA SelectWork ==
  ASSUME IndInv, WorkInv, configured_bundle_paths
  PROVE  WorkInv'
<1>1. /\ pc = "select" /\ pc' = "read"
      /\ IF Legacy THEN \E p \in Newest : paths' = [l \in Label |-> p] ELSE paths' = path
      /\ UNCHANGED <<diskVars, genVars, envVars, procVars, kind, cand, cur, loaded, staged, todo>>
  BY DEF configured_bundle_paths
<1>2. kind \in {"load", "reload"} /\ staged = NoBundles /\ loaded = NoLoads
  BY <1>1 DEF WorkInv, OpInv, Reading
<1>3. Reading'
  <2>1. IF Legacy THEN \A l, m \in Label : paths'[l] = paths'[m] ELSE paths' = path
    BY <1>1
  <2>2. /\ \A l \in Label : staged'[l] = None
        /\ \A p \in Path : loaded'[p] = None
    BY <1>1, <1>2 DEF NoBundles, NoLoads
  <2> QED
    BY <1>1, <1>2, <2>1, <2>2 DEF Reading
<1>4. Untouched'
  BY <1>1 DEF WorkInv, OpInv, Untouched, procVars
<1>5. Target' = Target
  BY <1>1 DEF Target
<1>6. Built'
  BY <1>1 DEF WorkInv, OpInv, Built, procVars
<1>7. CandInv'
  BY <1>1, <1>5 DEF WorkInv, OpInv, CandInv, genVars
<1>8. StoreInv'
  BY <1>1, QuietStore DEF WorkInv, genVars, procVars
<1>9. ServerInv'
  BY <1>1, QuietServer DEF WorkInv, procVars, diskVars
<1> QED
  BY <1>1, <1>3, <1>4, <1>6, <1>7, <1>8, <1>9 DEF WorkInv, OpInv, EnvInv, envVars

\* What is staged with the next bundle is well placed: the file of the label
\* gives the bundle that it gave other labels, and a recovery takes the
\* bundles of one descriptor.
LEMMA ReadPlaced ==
  ASSUME IndInv, WorkInv, pc = "read", NEW l \in Label, NEW W,
         Source(l) \in Bundle,
         W[l] = Source(l), \A m \in Label : m # l => W[m] = staged[m]
  PROVE  WellPlaced(W)
<1>1. CASE kind = "recover"
  <2>1. \A m \in Label : W[m] \in {None, mem.active_bundles[m]}
    <3>1. \A m \in Label : staged[m] \in {None, mem.active_bundles[m]}
      BY <1>1 DEF WorkInv, OpInv, Reading
    <3>2. Source(l) = mem.active_bundles[l]
      BY <1>1, BundleAssumption DEF Source
    <3> QED
      BY <3>1, <3>2
  <2>2. Fits(mem, mem.active_bundles)
    BY DEF WorkInv, StoreInv, Descriptors
  <2>3. Fits(mem, W)
    BY <2>1, <2>2, FitsPart
  <2> QED
    BY <2>3 DEF Fits
<1>2. CASE kind # "recover"
  <2>1. /\ \A m \in Label : staged[m] # None => staged[m] = loaded[paths[m]]
        /\ \A p \in Path : loaded[p] # None => loaded[p] \in published[p]
        /\ IF Legacy THEN \A m, n \in Label : paths[m] = paths[n] ELSE paths = path
    BY <1>2 DEF WorkInv, OpInv, Reading
  <2>2. /\ paths \in [Label -> Path] /\ paths[l] \in Path
    BY DEF IndInv, TypeOK, OpType
  <2>3. Source(l) \in published[paths[l]]
    BY <1>2, <2>1, <2>2, BundleAssumption DEF Source, WorkInv, EnvInv
  <2>4. \A m \in Label : staged[m] # None => staged[m] \in published[paths[m]]
    BY <2>1, <2>2
  <2>5. \A m \in Label : staged[m] # None /\ paths[m] = paths[l] => Source(l) = staged[m]
    BY <1>2, <2>1 DEF Source
  <2>6. \A m, n \in Label :
          W[m] # None /\ W[n] # None /\ paths[m] = paths[n] => W[m] = W[n]
    <3>1. ASSUME NEW m \in Label, NEW n \in Label, W[m] # None, W[n] # None, paths[m] = paths[n]
          PROVE  W[m] = W[n]
      <4>1. CASE m = l /\ n = l
        BY <4>1
      <4>2. CASE m = l /\ n # l
        BY <2>5, <3>1, <4>2
      <4>3. CASE m # l /\ n = l
        BY <2>5, <3>1, <4>3
      <4>4. CASE m # l /\ n # l
        BY <2>1, <3>1, <4>4
      <4> QED
        BY <4>1, <4>2, <4>3, <4>4
    <3> QED
      BY <3>1
  <2>7. \A m \in Label : W[m] # None => W[m] \in published[paths[m]]
    BY <2>3, <2>4
  <2>8. CASE Legacy
    BY <2>1, <2>6, <2>8 DEF WellPlaced
  <2>9. CASE ~Legacy
    BY <2>1, <2>6, <2>7, <2>9 DEF WellPlaced
  <2> QED
    BY <2>8, <2>9
<1> QED
  BY <1>1, <1>2

\* A bundle that is not read again is one that the pass has.
LEMMA ReadAgain ==
  ASSUME IndInv, WorkInv, pc = "read", NEW l \in Label, ~FirstRead(l)
  PROVE  \E m \in Label : staged[m] = Source(l) /\ staged[m] # None
<1>1. CASE kind = "recover"
  <2>1. PICK i \in 1..(cur - 1) : staged[Order[i]] = Source(l)
    BY <1>1 DEF FirstRead
  <2>2. Order[i] \in Label /\ staged[Order[i]] # None
    BY <2>1, ConfigAssumption DEF IndInv, TypeOK, OpType, StagedSoFar
  <2> QED
    BY <2>1, <2>2
<1>2. CASE kind # "recover"
  <2>1. loaded[paths[l]] # None /\ Source(l) = loaded[paths[l]]
    BY <1>2 DEF FirstRead, Source
  <2>2. paths[l] \in Path
    BY DEF IndInv, TypeOK, OpType
  <2> QED
    BY <1>2, <2>1, <2>2 DEF WorkInv, OpInv, Reading
<1> QED
  BY <1>1, <1>2

\* The pass reads a bundle.
LEMMA ReadWork ==
  ASSUME IndInv, IndInv', WorkInv, ReadBundle
  PROVE  WorkInv'
<1> DEFINE l == Order[cur]
           b == Source(l)
<1>1. /\ pc = "read"
      /\ FirstRead(l) => Admits(b)
      /\ cand' = IF FirstRead(l) THEN advance_from_bundle(cand, b) ELSE cand
      /\ loaded' = IF kind = "recover" THEN loaded ELSE [loaded EXCEPT ![paths[l]] = b]
      /\ staged' = [staged EXCEPT ![l] = b]
      /\ UNCHANGED <<diskVars, genVars, envVars, procVars, kind, paths>>
      /\ \/ cur' = cur + 1 /\ UNCHANGED <<pc, todo>>
         \/ /\ pc' = "snap" /\ cur' = cur
            /\ todo' = {m \in Label : ca_scopes[staged'[m]] # {}}
  BY DEF ReadBundle
<1>2. l \in Label /\ cur \in DOMAIN Order /\ cur \in 1..Len(Order)
  BY ConfigAssumption DEF IndInv, TypeOK, OpType
<1>3. staged \in [Label -> Bundle \cup {None}] /\ loaded \in [Path -> Bundle \cup {None}]
      /\ cand \in PersistedState /\ paths \in [Label -> Path]
  BY DEF IndInv, TypeOK, OpType
<1>4. b \in Bundle
  <2>1. b \in Bundle \cup {None}
    BY <1>2, SourceType DEF IndInv
  <2>2. b # None
    BY <1>1, <1>2, ReadAgain DEF Admits
  <2> QED
    BY <2>1, <2>2
<1>5. FirstRead(l) => check_rollback(cand, b)
  BY <1>1 DEF Admits
<1> HIDE DEF b
<1>6. /\ staged'[l] = b /\ b # None
      /\ \A m \in Label : m # l => staged'[m] = staged[m]
      /\ staged' \in [Label -> Bundle \cup {None}]
  BY <1>1, <1>2, <1>3, <1>4, BundleAssumption
<1>7. kind \in Passes /\ cand.active_bundles = NoBundles /\ todo = {} /\ kind # "none"
  BY <1>1 DEF WorkInv, OpInv, Built, Passes
<1>8. WellPlaced(staged')
  BY <1>1, <1>2, <1>4, <1>6, ReadPlaced DEF b
<1>9. \A m \in Label : staged'[m] # None => Covers(cand', staged'[m])
  BY <1>1, <1>7 DEF IndInv, CandidateCovers
<1>10. /\ cand'.active_bundles = NoBundles
       /\ \A k \in Key \ ca_scopes[b] :
            /\ cand'.high_water_marks[k] = cand.high_water_marks[k]
            /\ cand'.manifest_digests[k] = cand.manifest_digests[k]
       /\ FirstRead(l) =>
            \A k \in ca_scopes[b] : /\ cand'.high_water_marks[k] = epoch[b][k]
                                    /\ cand'.manifest_digests[k] = digest[b]
  <2>1. CASE FirstRead(l)
    BY <1>1, <1>3, <1>4, <1>5, <1>7, <2>1, AdvanceExact
  <2>2. CASE ~FirstRead(l)
    BY <1>1, <1>7, <2>2
  <2> QED
    BY <2>1, <2>2
<1>11. Fits(cand, staged)
  BY <1>7 DEF WorkInv, OpInv, CandInv
<1>12. ASSUME Separate PROVE Exact(cand', staged')
  <2>1. \A k \in ca_scopes[b] : /\ cand'.high_water_marks[k] = epoch[b][k]
                                /\ cand'.manifest_digests[k] = digest[b]
    <3>1. CASE FirstRead(l)
      BY <1>10, <3>1
    <3>2. CASE ~FirstRead(l)
      <4>1. PICK m \in Label : staged[m] = b /\ staged[m] # None
        BY <1>1, <1>2, <3>2, ReadAgain DEF b
      <4>2. cand' = cand
        BY <1>1, <3>2
      <4> QED
        BY <1>11, <1>12, <4>1, <4>2 DEF Fits, Exact
    <3> QED
      BY <3>1, <3>2
  <2>2. ASSUME NEW m \in Label, staged'[m] # None, NEW k \in ca_scopes[staged'[m]]
        PROVE  /\ cand'.high_water_marks[k] = epoch[staged'[m]][k]
               /\ cand'.manifest_digests[k] = digest[staged'[m]]
    <3>1. CASE staged'[m] = b
      BY <2>1, <2>2, <3>1
    <3>2. CASE staged'[m] # b
      <4>1. m # l /\ staged'[m] = staged[m] /\ staged'[m] \in Bundle
        BY <1>6, <2>2, <3>2
      <4>2. ca_scopes[staged'[m]] \cap ca_scopes[b] = {}
        BY <1>2, <1>6, <1>8, <1>12, <2>2, <3>2, Apart
      <4>3. k \in Key \ ca_scopes[b]
        BY <2>2, <4>1, <4>2, BundleAssumption
      <4>4. /\ cand.high_water_marks[k] = epoch[staged[m]][k]
            /\ cand.manifest_digests[k] = digest[staged[m]]
        BY <1>11, <1>12, <2>2, <4>1 DEF Fits, Exact
      <4> QED
        BY <1>10, <4>1, <4>3, <4>4
    <3> QED
      BY <3>1, <3>2
  <2> QED
    BY <2>2 DEF Exact
<1>13. Fits(cand', staged')
  BY <1>8, <1>9, <1>12 DEF Fits
<1>14. CandInv'
  <2>1. \A m \in Label : Target'[m] \in {None, staged'[m]}
    BY <1>10 DEF Target, NoBundles
  <2>2. Fits(cand', Target')
    BY <1>13, <2>1, FitsPart
  <2>3. Refs(cand') = {}
    BY <1>10, NoRefs
  <2> QED
    BY <1>13, <2>2, <2>3 DEF CandInv
<1>15. Reading'
  <2>1. CASE kind = "recover"
    <3>1. \A m \in Label : staged'[m] # None => staged'[m] = mem.active_bundles[m]
      <4>1. b = mem.active_bundles[l]
        BY <1>6, <2>1 DEF b, Source
      <4> QED
        BY <1>1, <1>6, <2>1, <4>1 DEF WorkInv, OpInv, Reading
    <3> QED
      BY <1>1, <2>1, <3>1 DEF Reading, procVars
  <2>2. CASE kind # "recover"
    <3>1. /\ \A m \in Label : staged[m] # None => staged[m] = loaded[paths[m]]
          /\ \A p \in Path : loaded[p] # None =>
               loaded[p] \in published[p] /\ \E m \in Label : staged[m] = loaded[p]
          /\ IF Legacy THEN \A m, n \in Label : paths[m] = paths[n] ELSE paths = path
      BY <1>1, <2>2 DEF WorkInv, OpInv, Reading
    <3>2. /\ paths[l] \in Path /\ loaded'[paths[l]] = b
          /\ \A p \in Path : p # paths[l] => loaded'[p] = loaded[p]
      BY <1>1, <1>2, <1>3, <2>2
    <3>3. loaded[paths[l]] # None => b = loaded[paths[l]]
      BY <2>2 DEF b, Source
    <3>4. b \in published[paths[l]]
      BY <1>6, <2>2, <3>1, <3>2 DEF b, Source, WorkInv, EnvInv
    <3>5. \A m \in Label : staged'[m] # None => staged'[m] = loaded'[paths[m]]
      <4>1. ASSUME NEW m \in Label, staged'[m] # None PROVE staged'[m] = loaded'[paths[m]]
        <5>1. CASE m = l
          BY <1>6, <3>2, <5>1
        <5>2. CASE m # l
          <6>1. staged'[m] = loaded[paths[m]] /\ loaded[paths[m]] # None /\ paths[m] \in Path
            BY <1>3, <1>6, <3>1, <4>1, <5>2
          <6> QED
            BY <3>2, <3>3, <6>1
        <5> QED
          BY <5>1, <5>2
      <4> QED
        BY <4>1
    <3>6. ASSUME NEW p \in Path, loaded'[p] # None
          PROVE  loaded'[p] \in published[p] /\ \E m \in Label : staged'[m] = loaded'[p]
      <4>1. CASE p = paths[l]
        BY <1>2, <1>6, <3>2, <3>4, <4>1
      <4>2. CASE p # paths[l]
        <5>1. loaded'[p] = loaded[p] /\ loaded[p] \in published[p]
          BY <3>1, <3>2, <3>6, <4>2
        <5>2. PICK m \in Label : staged[m] = loaded[p]
          BY <3>1, <3>6, <5>1
        <5>3. CASE m # l
          BY <1>6, <5>1, <5>2, <5>3
        <5>4. CASE m = l
          <6>1. staged[l] # None /\ staged[l] = loaded[paths[l]]
            BY <3>1, <3>6, <5>1, <5>2, <5>4
          <6>2. staged'[l] = loaded[p]
            BY <1>6, <3>3, <5>2, <5>4, <6>1
          <6> QED
            BY <1>2, <5>1, <6>2
        <5> QED
          BY <5>1, <5>3, <5>4
      <4> QED
        BY <4>1, <4>2
    <3> QED
      BY <1>1, <1>7, <2>2, <3>1, <3>5, <3>6 DEF Reading, Passes
  <2> QED
    BY <2>1, <2>2
<1>16. Untouched'
  <2> SUFFICES ASSUME pc' = "read", NEW k \in Key
               PROVE  \/ /\ cand'.high_water_marks[k] = mem.high_water_marks[k]
                         /\ cand'.manifest_digests[k] = mem.manifest_digests[k]
                      \/ \E i \in 1..(cur' - 1) : k \in ca_scopes[staged'[Order[i]]]
    BY <1>1 DEF Untouched, procVars
  <2>1. cur' = cur + 1
    BY <1>1
  <2>2. cur \in 1..(cur' - 1) /\ 1..(cur - 1) \subseteq 1..(cur' - 1)
    BY <1>2, <2>1
  <2>3. CASE k \in ca_scopes[b]
    BY <1>6, <2>2, <2>3
  <2>4. CASE k \notin ca_scopes[b]
    <3>1. /\ cand'.high_water_marks[k] = cand.high_water_marks[k]
          /\ cand'.manifest_digests[k] = cand.manifest_digests[k]
      BY <1>10, <2>4
    <3>2. \/ /\ cand.high_water_marks[k] = mem.high_water_marks[k]
             /\ cand.manifest_digests[k] = mem.manifest_digests[k]
          \/ \E i \in 1..(cur - 1) : k \in ca_scopes[staged[Order[i]]]
      BY <1>1 DEF WorkInv, OpInv, Untouched
    <3>3. ASSUME NEW i \in 1..(cur - 1) PROVE staged'[Order[i]] = staged[Order[i]]
      <4>1. i \in DOMAIN Order /\ i # cur /\ Order[i] \in Label
        BY <1>2, ConfigAssumption
      <4>2. Order[i] # l
        BY <1>2, <4>1, ConfigAssumption
      <4> QED
        BY <1>6, <4>1, <4>2
    <3> QED
      BY <2>2, <3>1, <3>2, <3>3
  <2> QED
    BY <2>3, <2>4
<1>17. Built'
  <2>1. kind' \in Passes /\ proc' = "server"
    BY <1>1, <1>7 DEF WorkInv, OpInv, Built, procVars
  <2>2. CASE pc' = "read"
    <3>1. todo' = {}
      BY <1>1, <1>7, <2>2
    <3> QED
      BY <1>10, <2>1, <2>2, <3>1 DEF Built, Passes
  <2>3. CASE pc' = "snap"
    <3>1. todo' = {m \in Label : ca_scopes[staged'[m]] # {}}
      BY <1>1, <2>3
    <3>2. \A m \in Label : Target'[m] = IF ca_scopes[staged'[m]] = {} THEN None ELSE staged'[m]
      BY <1>10, <3>1 DEF Target, NoBundles
    <3>3. \A m \in Label : staged'[m] # None
      <4>1. ~MoreLabels
        BY <1>1, <2>3 DEF ReadBundle
      <4> SUFFICES ASSUME NEW m \in Label PROVE staged'[m] # None
        OBVIOUS
      <4>2. PICK i \in DOMAIN Order : Order[i] = m
        BY ConfigAssumption
      <4>3. i = cur \/ i \in 1..(cur - 1)
        BY <1>2, <4>1, ConfigAssumption DEF MoreLabels
      <4>4. CASE i = cur
        BY <1>6, <4>2, <4>4
      <4>5. CASE i \in 1..(cur - 1)
        BY <1>1, <1>6, <4>2, <4>5 DEF IndInv, StagedSoFar
      <4> QED
        BY <4>3, <4>4, <4>5
    <3> QED
      BY <2>1, <2>3, <3>2, <3>3 DEF Built, Passes
  <2> QED
    BY <1>1, <2>2, <2>3
<1>18. StoreInv'
  BY <1>1, QuietStore DEF WorkInv, genVars, procVars
<1>19. ServerInv'
  BY <1>1, QuietServer DEF WorkInv, procVars, diskVars
<1> QED
  BY <1>1, <1>14, <1>15, <1>16, <1>17, <1>18, <1>19 DEF WorkInv, OpInv, EnvInv, envVars

-----------------------------------------------------------------------------
(* Snapshots, the commit and the publication *)

\* Recording a snapshot takes the transaction towards its working set.
LEMMA SnapshotPresentWork ==
  ASSUME IndInv, IndInv', WorkInv, NEW l \in Label, SnapshotPresent(l)
  PROVE  WorkInv'
<1>1. /\ pc = "snap" /\ l \in todo /\ staged[l] \in gens /\ todo' = todo \ {l}
      /\ cand' = WithBundles(cand, [cand.active_bundles EXCEPT ![l] = staged[l]])
      /\ UNCHANGED <<diskVars, genVars, envVars, procVars, kind, pc, cur, paths, loaded, staged>>
  BY DEF SnapshotPresent
<1>2. cand \in PersistedState /\ cand.active_bundles \in [Label -> Bundle \cup {None}]
  BY DEF IndInv, TypeOK, OpType, PersistedState
<1>3. /\ cand'.high_water_marks = cand.high_water_marks
      /\ cand'.manifest_digests = cand.manifest_digests
      /\ cand'.active_bundles = [cand.active_bundles EXCEPT ![l] = staged[l]]
  BY <1>1 DEF WithBundles
<1>4. Target' = Target
  BY <1>1, <1>2, <1>3 DEF Target
<1>5. ASSUME NEW W, Fits(cand, W) PROVE Fits(cand', W)
  <2>1. cand # None /\ cand' # None
    BY <1>2, NoneAssumption DEF IndInv, TypeOK, OpType
  <2>2. \A m \in Label : W[m] # None => Covers(cand', W[m])
    BY <1>3, <1>5, <2>1 DEF Fits, Covers
  <2>3. Separate => Exact(cand', W)
    BY <1>3, <1>5 DEF Fits, Exact
  <2> QED
    BY <1>5, <2>2, <2>3 DEF Fits
<1>6. Refs(cand') \subseteq Refs(cand) \cup {staged[l]}
  BY <1>2, <1>3 DEF Refs
<1>7. CandInv'
  <2>1. Fits(cand', Target') /\ (kind' # "none" => Fits(cand', staged'))
    BY <1>1, <1>4, <1>5 DEF WorkInv, OpInv, CandInv
  <2>2. Refs(cand') \subseteq gens'
    BY <1>1, <1>6 DEF WorkInv, OpInv, CandInv, genVars
  <2> QED
    BY <2>1, <2>2 DEF CandInv
<1>8. Reading' /\ Untouched'
  BY <1>1 DEF WorkInv, OpInv, Reading, Untouched, procVars
<1>9. Built'
  BY <1>1, <1>4 DEF WorkInv, OpInv, Built, procVars
<1>10. StoreInv'
  BY <1>1, QuietStore DEF WorkInv, genVars, procVars
<1>11. ServerInv'
  BY <1>1, QuietServer DEF WorkInv, procVars, diskVars
<1> QED
  BY <1>1, <1>7, <1>8, <1>9, <1>10, <1>11 DEF WorkInv, OpInv, EnvInv, envVars

\* A snapshot is written.
LEMMA SnapshotWork ==
  ASSUME IndInv, WorkInv, gens \subseteq gens',
         pc \in {"snap", "snapSync"}, pc' \in {"snap", "snapSync"},
         UNCHANGED <<diskVars, envVars, procVars, kind, cand, cur, paths, loaded, staged, todo>>
  PROVE  WorkInv'
<1>1. Target' = Target
  BY DEF Target
<1>2. CandInv'
  BY <1>1 DEF WorkInv, OpInv, CandInv
<1>3. Reading' /\ Untouched'
  BY DEF WorkInv, OpInv, Reading, Untouched, procVars
<1>4. Built'
  BY <1>1 DEF WorkInv, OpInv, Built, procVars
<1>5. StoreInv'
  BY QuietStore DEF WorkInv, procVars
<1>6. ServerInv'
  BY QuietServer DEF WorkInv, procVars, diskVars
<1> QED
  BY <1>2, <1>3, <1>4, <1>5, <1>6 DEF WorkInv, OpInv, EnvInv, envVars

\* With every snapshot written, the transaction has its working set.
LEMMA Complete ==
  ASSUME IndInv, WorkInv, todo = {}
  PROVE  /\ \A l \in Label : Target[l] = cand.active_bundles[l]
         /\ Fits(cand, cand.active_bundles)
<1>1. \A l \in Label : Target[l] = cand.active_bundles[l]
  BY DEF Target
<1>2. Fits(cand, Target)
  BY DEF WorkInv, OpInv, CandInv
<1> QED
  BY <1>1, <1>2, FitsPart

\* The descriptor is renamed over state.json.
LEMMA CommitRenameWork ==
  ASSUME IndInv, WorkInv, CommitRename
  PROVE  WorkInv'
<1>1. /\ pc = "snap" /\ todo = {} /\ disk' = cand /\ unsynced' = unsynced \cup {cand}
      /\ pc' = "commitSync"
      /\ UNCHANGED <<durable, genVars, envVars, procVars, kind, cand, cur, paths,
                     loaded, staged, todo>>
  BY DEF CommitRename
<1>2. Target' = Target
  BY <1>1 DEF Target
<1>3. CandInv'
  BY <1>1, <1>2 DEF WorkInv, OpInv, CandInv, genVars
<1>4. Reading' /\ Untouched'
  BY <1>1 DEF WorkInv, OpInv, Reading, Untouched, procVars
<1>5. Built'
  BY <1>1, <1>2 DEF WorkInv, OpInv, Built, procVars
<1>6. StoreInv'
  <2>1. Fits(cand, cand.active_bundles)
    BY <1>1, Complete
  <2>2. \A s \in (unsynced' \cup {durable'}) \ {None} :
           s \in Descriptors \/ Fits(s, s.active_bundles)
    BY <1>1, <2>1 DEF Descriptors
  <2>3. mem' \in Descriptors /\ Refs(mem') \subseteq gens'
    BY <1>1 DEF Descriptors, WorkInv, StoreInv, genVars, procVars
  <2>4. Refs(disk') \subseteq gens'
    BY <1>1 DEF WorkInv, OpInv, CandInv, genVars
  <2> QED
    BY <2>2, <2>3, <2>4, StoreFrom DEF WorkInv
<1>7. ServerInv'
  BY <1>1, QuietServer DEF WorkInv, procVars
<1> QED
  BY <1>1, <1>3, <1>4, <1>5, <1>6, <1>7 DEF WorkInv, OpInv, EnvInv, envVars

\* The descriptor is fsynced and becomes the store in memory.
LEMMA CommitSyncWork ==
  ASSUME IndInv, WorkInv, CommitSync
  PROVE  WorkInv'
<1>1. /\ pc = "commitSync" /\ durable' = disk /\ unsynced' = {} /\ mem' = cand
      /\ pc' = "collect"
      /\ UNCHANGED <<disk, genVars, envVars, proc, served, kind, cand, cur, paths,
                     loaded, staged, todo>>
  BY DEF CommitSync
<1>2. disk = cand /\ cand \in PersistedState /\ cand # None
  BY <1>1, NoneAssumption DEF IndInv, CommitPoint, TypeOK, OpType
<1>3. disk \in Descriptors
  BY <1>2 DEF IndInv, TypeOK, DiskType, Descriptors
<1>4. Refs(cand) \subseteq gens'
  BY <1>1 DEF WorkInv, OpInv, CandInv, genVars
<1>5. todo = {} /\ \A l \in Label : Target[l] = cand.active_bundles[l]
  BY <1>1, Complete DEF WorkInv, OpInv, Built
<1>6. Target' = Target
  BY <1>1 DEF Target
<1>7. CandInv'
  BY <1>1, <1>4, <1>6 DEF WorkInv, OpInv, CandInv
<1>8. Reading' /\ Untouched'
  BY <1>1 DEF Reading, Untouched
<1>9. Built'
  BY <1>1, <1>6 DEF WorkInv, OpInv, Built
<1>10. StoreInv'
  <2>1. \A s \in (unsynced' \cup {durable'}) \ {None} : s \in Descriptors
    BY <1>1, <1>3
  <2>2. "power" \notin Faults /\ disk' # None => Refs(disk') \subseteq gens'
    BY <1>1, <1>2, <1>4
  <2> QED
    BY <1>1, <1>2, <1>3, <1>4, <2>1, <2>2, StoreFrom DEF WorkInv
<1>11. ServerInv'
  <2>1. CommittedIsServed'
    BY <1>1 DEF CommittedIsServed
  <2> QED
    BY <1>1, <1>2, <2>1 DEF WorkInv, ServerInv
<1> QED
  BY <1>1, <1>7, <1>8, <1>9, <1>10, <1>11 DEF WorkInv, OpInv, EnvInv, envVars

\* The default descriptor is fsynced, and hoike init-state is done.
LEMMA InitSyncWork ==
  ASSUME IndInv, WorkInv, InitSync
  PROVE  WorkInv'
<1>1. /\ durable' = disk /\ unsynced' = {} /\ Exit /\ UNCHANGED <<disk, genVars, envVars>>
  BY DEF InitSync
<1>2. served' = NoBundles /\ mem' = DefaultState /\ NoOperation
  BY <1>1 DEF Exit
<1>3. StoreInv'
  <2>1. \A s \in (unsynced' \cup {durable'}) \ {None} : s \in Descriptors
    BY <1>1 DEF IndInv, TypeOK, DiskType, Descriptors
  <2>2. "power" \notin Faults /\ disk' # None => Refs(disk') \subseteq gens'
    BY <1>1 DEF WorkInv, StoreInv, genVars
  <2> QED
    BY <1>2, <2>1, <2>2, StoreFrom, DefaultFacts DEF WorkInv
<1> QED
  BY <1>1, <1>2, <1>3, NoOperationOp, NotServing DEF WorkInv, EnvInv, envVars

\* Garbage collection spares the committed snapshots, which are those of the
\* transaction and of the disk.
LEMMA CollectWork ==
  ASSUME IndInv, WorkInv, CollectGarbage
  PROVE  WorkInv'
<1>1. /\ pc = "collect" /\ pc' = "publish"
      /\ UNCHANGED <<diskVars, debris, envVars, procVars, kind, cand, cur, paths,
                     loaded, staged, todo>>
      /\ gens \cap Refs(mem) \subseteq gens'
  BY DEF CollectGarbage
<1>2. mem = cand /\ durable = cand /\ unsynced = {} /\ disk = cand
  BY <1>1 DEF WorkInv, OpInv, Built, IndInv, CommitPoint, TypeOK, DiskType
<1>3. Refs(mem) \subseteq gens'
  BY <1>1 DEF WorkInv, StoreInv
<1>4. Target' = Target
  BY <1>1 DEF Target
<1>5. CandInv'
  BY <1>1, <1>2, <1>3, <1>4 DEF WorkInv, OpInv, CandInv
<1>6. Reading' /\ Untouched'
  BY <1>1 DEF Reading, Untouched
<1>7. Built'
  BY <1>1, <1>4 DEF WorkInv, OpInv, Built, procVars
<1>8. StoreInv'
  <2>1. \A s \in (unsynced' \cup {durable'}) \ {None} : s \in Descriptors
    BY <1>1 DEF Descriptors, diskVars
  <2>2. disk' = mem /\ mem' = mem /\ mem \in Descriptors
    BY <1>1, <1>2 DEF diskVars, procVars, Descriptors
  <2> QED
    BY <1>3, <2>1, <2>2, StoreFrom DEF WorkInv
<1>9. ServerInv'
  BY <1>1, QuietServer DEF WorkInv, procVars, diskVars
<1> QED
  BY <1>1, <1>5, <1>6, <1>7, <1>8, <1>9 DEF WorkInv, OpInv, EnvInv, envVars

\* The scope map of the pass is the committed one.
LEMMA PublishMapWork ==
  ASSUME IndInv, WorkInv, PublishMap
  PROVE  WorkInv'
<1>1. /\ pc = "publish" /\ kind \in Passes /\ served' = staged /\ NoOperation
      /\ UNCHANGED <<diskVars, genVars, envVars, proc, mem>>
  BY DEF PublishMap, Passes
<1>2. mem = cand /\ durable = cand /\ todo = {} /\ proc = "server"
  BY <1>1 DEF WorkInv, OpInv, Built, IndInv, CommitPoint
<1>3. Fits(cand, staged)
  BY <1>1 DEF WorkInv, OpInv, CandInv, Passes
<1>4. \A l \in Label :
        /\ staged[l] # None
        /\ cand.active_bundles[l] = IF ca_scopes[staged[l]] = {} THEN None ELSE staged[l]
  BY <1>1, <1>2, Complete DEF WorkInv, OpInv, Built
<1>5. OpInv'
  BY <1>1, NoOperationOp
<1>6. StoreInv'
  BY <1>1, QuietStore DEF WorkInv, genVars
<1>7. ServerInv'
  <2>1. durable' = cand /\ mem' = cand /\ proc' = "server"
    BY <1>1, <1>2 DEF diskVars
  <2>2. CommittedIsServed'
    BY <1>1, <1>4, <2>1 DEF CommittedIsServed
  <2> QED
    BY <1>1, <1>3, <1>4, <2>1, <2>2 DEF ServerInv, Fits
<1> QED
  BY <1>1, <1>5, <1>6, <1>7 DEF WorkInv, EnvInv, envVars

\* hoike import refreshes the configured file with the bundle it imported.
LEMMA PublishAliasWork ==
  ASSUME IndInv, WorkInv, NEW l \in Label, PublishAlias(l)
  PROVE  WorkInv'
<1>1. /\ pc = "publish" /\ kind = "import" /\ staged[l] # None /\ Exit
      /\ alias' \in {alias, [alias EXCEPT ![path[l]] = staged[l]]}
      /\ UNCHANGED <<diskVars, genVars>>
  BY DEF PublishAlias
<1>2. ~Legacy => staged[l] \in published[path[l]]
  BY <1>1 DEF WorkInv, OpInv, CandInv, Fits, WellPlaced
<1>3. staged[l] \in published[path[l]]
  BY <1>1, <1>2 DEF WorkInv, OpInv, Built
<1>4. alias \in [Path -> Bundle \cup {None}]
  BY DEF IndInv, TypeOK, EnvType
<1>5. EnvInv'
  BY <1>1, <1>3, <1>4 DEF WorkInv, EnvInv
<1>6. gens \subseteq gens'
  BY <1>1 DEF genVars
<1> QED
  BY <1>1, <1>5, <1>6, ExitWork

-----------------------------------------------------------------------------
(* Crashes and the environment *)

\* The process dies.
LEMMA KillWork ==
  ASSUME WorkInv, Kill
  PROVE  WorkInv'
<1>1. Exit /\ UNCHANGED <<diskVars, gens, envVars>>
  BY DEF Kill
<1>2. EnvInv' /\ gens \subseteq gens'
  BY <1>1 DEF WorkInv, EnvInv, envVars
<1> QED
  BY <1>1, <1>2, ExitWork

\* The machine loses power, if it may.
LEMMA PowerLossWork ==
  ASSUME WorkInv, PowerLoss
  PROVE  WorkInv'
<1>1. /\ Exit /\ "power" \in Faults /\ UNCHANGED envVars
      /\ \E s \in unsynced \cup {durable} : disk' = s /\ durable' = s /\ unsynced' = {}
  BY DEF PowerLoss
<1>2. served' = NoBundles /\ mem' = DefaultState /\ NoOperation
  BY <1>1 DEF Exit
<1>3. \A s \in (unsynced' \cup {durable'}) \ {None} : s \in Descriptors
  BY <1>1 DEF Descriptors
<1>4. StoreInv'
  BY <1>1, <1>2, <1>3, StoreFrom, DefaultFacts DEF WorkInv
<1> QED
  BY <1>1, <1>2, <1>4, NoOperationOp, NotServing DEF WorkInv, EnvInv, envVars

\* A step that leaves directory, process and operation alone.
LEMMA QuietWork ==
  ASSUME WorkInv, UNCHANGED <<diskVars, genVars, procVars, opVars>>, EnvInv'
  PROVE  WorkInv'
<1>1. UNCHANGED <<gens, proc, mem, served, pc, cand, durable>>
  BY DEF genVars, procVars, opVars, diskVars
<1>2. OpInv'
  BY <1>1, QuietOp DEF WorkInv, OpInv, CandInv
<1>3. StoreInv'
  BY <1>1, QuietStore DEF WorkInv
<1>4. ServerInv'
  BY <1>1, QuietServer DEF WorkInv
<1> QED
  BY <1>2, <1>3, <1>4 DEF WorkInv

\* Every step keeps the invariant.
LEMMA WorkStep ==
  ASSUME IndInv, IndInv', WorkInv, [Next]_vars
  PROVE  WorkInv'
<1>1. CASE InitState
  BY <1>1, InitStateWork
<1>2. CASE StartServer
  BY <1>2, StartServerWork
<1>3. CASE Reload
  BY <1>3, ReloadWork
<1>4. ASSUME NEW l \in Label, NEW b \in Bundle, StartImport(l, b) PROVE WorkInv'
  BY <1>4, StartImportWork
<1>5. CASE configured_bundle_paths
  BY <1>5, SelectWork
<1>6. CASE NoBundleFound
  BY <1>6, FailWork DEF NoBundleFound, genVars, envVars
<1>7. CASE ReadBundle
  BY <1>7, ReadWork
<1>8. CASE RejectBundle
  BY <1>8, FailWork DEF RejectBundle, genVars, envVars
<1>9. ASSUME NEW l \in Label, SnapshotPresent(l) PROVE WorkInv'
  BY <1>9, SnapshotPresentWork
<1>10. ASSUME NEW l \in Label, SnapshotRename(l) PROVE WorkInv'
  BY <1>10, SnapshotWork DEF SnapshotRename
<1>11. ASSUME NEW l \in Label, SnapshotWriteFails(l) PROVE WorkInv'
  BY <1>11, FailWork DEF SnapshotWriteFails, envVars
<1>12. CASE SnapshotSync
  BY <1>12, SnapshotWork DEF SnapshotSync
<1>13. CASE SnapshotSyncFails
  BY <1>13, FailWork DEF SnapshotSyncFails, genVars, envVars
<1>14. CASE CommitRename
  BY <1>14, CommitRenameWork
<1>15. CASE CommitWriteFails
  BY <1>15, FailWork DEF CommitWriteFails, genVars, envVars
<1>16. CASE CommitSync
  BY <1>16, CommitSyncWork
<1>17. CASE InitSync
  BY <1>17, InitSyncWork
<1>18. CASE CommitSyncFails
  BY <1>18, FailWork DEF CommitSyncFails, genVars, envVars
<1>19. CASE CollectGarbage
  BY <1>19, CollectWork
<1>20. CASE PublishMap
  BY <1>20, PublishMapWork
<1>21. ASSUME NEW l \in Label, PublishAlias(l) PROVE WorkInv'
  BY <1>21, PublishAliasWork
<1>22. CASE Kill
  BY <1>22, KillWork
<1>23. CASE PowerLoss
  BY <1>23, PowerLossWork
<1>24. ASSUME NEW p \in Path, PublishBundle(p) PROVE WorkInv'
  <2>1. PICK b \in published[p] \cup {None} : alias' = [alias EXCEPT ![p] = b]
    BY <1>24 DEF PublishBundle
  <2>2. EnvInv'
    BY <2>1 DEF WorkInv, EnvInv, IndInv, TypeOK, EnvType
  <2> QED
    BY <1>24, <2>2, QuietWork DEF PublishBundle
<1>25. ASSUME NEW b \in Bundle, SealExpires(b) PROVE WorkInv'
  <2>1. EnvInv'
    BY <1>25 DEF SealExpires, WorkInv, EnvInv
  <2> QED
    BY <1>25, <2>1, QuietWork DEF SealExpires
<1>26. CASE UNCHANGED vars
  <2>1. EnvInv'
    BY <1>26 DEF vars, envVars, WorkInv, EnvInv
  <2> QED
    BY <1>26, <2>1, QuietWork DEF vars
<1> QED
  BY <1>1, <1>2, <1>3, <1>4, <1>5, <1>6, <1>7, <1>8, <1>9, <1>10, <1>11, <1>12,
     <1>13, <1>14, <1>15, <1>16, <1>17, <1>18, <1>19, <1>20, <1>21, <1>22,
     <1>23, <1>24, <1>25, <1>26
     DEF Next, Pass, Snapshot, Commit, Environment

\* Nothing is recorded, staged or served at first.
LEMMA WorkInit == Init => WorkInv
<1> SUFFICES ASSUME Init PROVE WorkInv
  OBVIOUS
<1>1. /\ disk = None /\ durable = None /\ unsynced = {} /\ alias = NoLoads
      /\ proc = "none" /\ kind = "none" /\ pc = "idle" /\ mem = DefaultState
      /\ cand = DefaultState /\ staged = NoBundles /\ todo = {} /\ served = NoBundles
  BY DEF Init
<1>2. EnvInv
  BY <1>1 DEF EnvInv, NoLoads
<1>3. StoreInv
  BY <1>1, FitsNone, DefaultFacts DEF StoreInv, Descriptors
<1>4. Target = NoBundles
  BY <1>1, DefaultFacts DEF Target, NoBundles
<1>5. OpInv
  BY <1>1, <1>4, FitsNone, DefaultFacts DEF OpInv, Reading, Untouched, Built, CandInv, Passes
<1>6. ServerInv
  BY <1>1, FitsNone DEF ServerInv, Fits, CommittedIsServed, NoBundles
<1> QED
  BY <1>2, <1>3, <1>5, <1>6 DEF WorkInv

\* The invariant holds in every reachable state.
LEMMA WorkingSets == Spec => [](IndInv /\ WorkInv)
<1>1. Init => WorkInv
  BY WorkInit
<1>2. IndInv /\ IndInv' /\ WorkInv /\ [Next]_vars => WorkInv'
  BY WorkStep
<1> QED
  BY <1>1, <1>2, Inductive, PTL DEF Spec

-----------------------------------------------------------------------------
(* The theorems *)

\* Outside the window between the commit and the swap the committed snapshots
\* are the served bundles, so that a restart that falls back on them serves
\* what was being served: for every configuration and every fault.
THEOREM CommittedServes == Spec => []CommittedIsServed
<1>1. WorkInv => CommittedIsServed
  BY DEF WorkInv, ServerInv
<1> QED
  BY <1>1, WorkingSets, PTL

\* Labels configured with one file are always served from one bundle, through
\* replaced files, imports, recoveries and crashes.
THEOREM SharedFile == Spec => []SharedFileAgrees
<1>1. WorkInv => SharedFileAgrees
  BY DEF WorkInv, ServerInv, SharedFileAgrees, WellPlaced, NoBundles
<1> QED
  BY <1>1, WorkingSets, PTL

\* While the machine stays up, the strict open accepts the directory at any
\* moment, whatever processes died and whatever fsyncs failed.
THEOREM Restart ==
  ASSUME "power" \notin Faults
  PROVE  Spec => []RestartOpens
<1>1. IndInv /\ WorkInv => RestartOpens
  <2> SUFFICES ASSUME IndInv, WorkInv, disk # None PROVE validate_persisted(disk)
    BY DEF RestartOpens
  <2>1. disk \in PersistedState /\ disk \in Descriptors /\ Paired(disk)
    BY DEF IndInv, TypeOK, DiskType, Descriptors, AllPaired
  <2>2. Refs(disk) \subseteq gens /\ Fits(disk, disk.active_bundles)
    BY <2>1 DEF WorkInv, StoreInv
  <2>3. ASSUME NEW b \in Refs(disk), NEW k \in ca_scopes[b]
        PROVE  disk.high_water_marks[k] >= epoch[b][k]
    <3>1. PICK l \in Label : disk.active_bundles[l] = b /\ b # None
      BY DEF Refs
    <3>2. Covers(disk, b) /\ b \in Bundle
      BY <2>1, <2>2, <3>1 DEF Fits, PersistedState
    <3>3. k \in Key /\ epoch[b][k] \in Nat /\ disk.high_water_marks[k] \in Nat \cup {NoMark}
      BY <2>1, <3>2, BundleAssumption DEF PersistedState
    <3>4. \/ disk.high_water_marks[k] > epoch[b][k]
          \/ disk.high_water_marks[k] = epoch[b][k]
      BY <3>2 DEF Covers
    <3> QED
      BY <3>3, <3>4 DEF NoMark
  <2> QED
    BY <2>1, <2>2, <2>3 DEF validate_persisted, Paired
<1> QED
  BY <1>1, WorkingSets, PTL

\* When no scope is covered by two files, what is served is exactly the newest
\* generation that is recorded, not merely one that the marks cover.
THEOREM NewestServed ==
  ASSUME Separate
  PROVE  Spec => []ServedIsNewest
<1>1. WorkInv => ServedIsNewest
  <2> SUFFICES ASSUME WorkInv, NEW l \in Label, served[l] # None,
                      pc \notin {"collect", "publish"}, NEW k \in ca_scopes[served[l]]
               PROVE  /\ durable.high_water_marks[k] = epoch[served[l]][k]
                      /\ durable.manifest_digests[k] = digest[served[l]]
    BY DEF ServedIsNewest
  <2>1. served # NoBundles
    BY DEF NoBundles
  <2> QED
    BY <2>1 DEF WorkInv, ServerInv, Fits, Exact
<1> QED
  BY <1>1, WorkingSets, PTL

\* The transaction of a pass that has read only bundles of W, whose marks the
\* store has exactly, has the marks of the store.
LEMMA SameAsStore ==
  ASSUME Separate, IndInv, WorkInv, pc = "read",
         NEW W, Exact(mem, W),
         \A i \in 1..(cur - 1) : staged[Order[i]] = W[Order[i]],
         NEW k \in Key
  PROVE  /\ cand.high_water_marks[k] = mem.high_water_marks[k]
         /\ cand.manifest_digests[k] = mem.manifest_digests[k]
<1>1. CASE \E i \in 1..(cur - 1) : k \in ca_scopes[staged[Order[i]]]
  <2>1. PICK i \in 1..(cur - 1) : k \in ca_scopes[staged[Order[i]]]
    BY <1>1
  <2>2. Order[i] \in Label /\ staged[Order[i]] # None /\ staged[Order[i]] = W[Order[i]]
    BY <2>1, ConfigAssumption DEF IndInv, TypeOK, OpType, StagedSoFar
  <2>3. kind # "none"
    BY DEF IndInv, Attached
  <2>4. Exact(cand, staged)
    BY <2>3 DEF WorkInv, OpInv, CandInv, Fits
  <2> QED
    BY <2>1, <2>2, <2>4 DEF Exact
<1>2. CASE ~\E i \in 1..(cur - 1) : k \in ca_scopes[staged[Order[i]]]
  BY <1>2 DEF WorkInv, OpInv, Untouched
<1> QED
  BY <1>1, <1>2

\* When no scope is covered by two files, reading back the committed snapshots
\* never trips the anti-rollback checks.
THEOREM RecoveryAccepted ==
  ASSUME Separate
  PROVE  Spec => []RecoveryIsAccepted
<1>1. IndInv /\ WorkInv => RecoveryIsAccepted
  <2> DEFINE l == Order[cur]
             W == mem.active_bundles
  <2> SUFFICES ASSUME IndInv, WorkInv, pc = "read", kind = "recover", Source(l) \in trusted
               PROVE  Admits(Source(l))
    BY DEF RecoveryIsAccepted
  <2>1. l \in Label
    BY ConfigAssumption DEF IndInv, TypeOK, OpType
  <2>2. Source(l) \in Bundle
    BY DEF IndInv, TypeOK, EnvType
  <2>3. Source(l) = W[l] /\ W[l] # None
    BY <2>2, BundleAssumption DEF Source
  <2>4. Exact(mem, W)
    BY DEF WorkInv, StoreInv, Descriptors, Fits
  <2>5. \A i \in 1..(cur - 1) : staged[Order[i]] = W[Order[i]]
    <3> SUFFICES ASSUME NEW i \in 1..(cur - 1) PROVE staged[Order[i]] = W[Order[i]]
      OBVIOUS
    <3>1. Order[i] \in Label /\ staged[Order[i]] # None
      BY ConfigAssumption DEF IndInv, TypeOK, OpType, StagedSoFar
    <3> QED
      BY <3>1 DEF WorkInv, OpInv, Reading
  <2>6. ASSUME NEW k \in ca_scopes[Source(l)]
        PROVE  /\ cand.high_water_marks[k] = epoch[Source(l)][k]
               /\ cand.manifest_digests[k] = digest[Source(l)]
    <3>1. k \in Key
      BY <2>2, BundleAssumption
    <3>2. /\ cand.high_water_marks[k] = mem.high_water_marks[k]
          /\ cand.manifest_digests[k] = mem.manifest_digests[k]
      BY <2>4, <2>5, <3>1, SameAsStore
    <3> QED
      BY <2>1, <2>3, <2>4, <3>2 DEF Exact
  <2> QED
    BY <2>2, <2>6, ExactIsAdmitted
<1> QED
  BY <1>1, WorkingSets, PTL

\* When no scope is covered by two files, a reload that finds the served
\* bundles again accepts them.
THEOREM ReloadAccepted ==
  ASSUME Separate
  PROVE  Spec => []UnchangedReloadIsAccepted
<1>1. IndInv /\ WorkInv => UnchangedReloadIsAccepted
  <2> DEFINE l == Order[cur]
  <2> SUFFICES ASSUME IndInv, WorkInv, pc = "read", kind = "reload",
                      \A m \in Label : alias[paths[m]] = served[m],
                      \A i \in 1..(cur - 1) : staged[Order[i]] = served[Order[i]],
                      served[l] \in trusted, FirstRead(l)
               PROVE  Admits(Source(l))
    BY DEF UnchangedReloadIsAccepted
  <2>1. l \in Label
    BY ConfigAssumption DEF IndInv, TypeOK, OpType
  <2>2. served[l] \in Bundle /\ served[l] # None
    BY BundleAssumption DEF IndInv, TypeOK, EnvType
  <2>3. Source(l) = served[l]
    BY <2>1 DEF Source, FirstRead
  <2>4. Exact(mem, served)
    <3>1. served # NoBundles
      BY <2>1, <2>2 DEF NoBundles
    <3> QED
      BY <3>1 DEF WorkInv, ServerInv, Fits
  <2>5. ASSUME NEW k \in ca_scopes[served[l]]
        PROVE  /\ cand.high_water_marks[k] = epoch[served[l]][k]
               /\ cand.manifest_digests[k] = digest[served[l]]
    <3>1. k \in Key
      BY <2>2, BundleAssumption
    <3>2. /\ cand.high_water_marks[k] = mem.high_water_marks[k]
          /\ cand.manifest_digests[k] = mem.manifest_digests[k]
      BY <2>4, <3>1, SameAsStore
    <3> QED
      BY <2>1, <2>2, <2>4, <3>2 DEF Exact
  <2> QED
    BY <2>2, <2>3, <2>5, ExactIsAdmitted
<1> QED
  BY <1>1, WorkingSets, PTL


-----------------------------------------------------------------------------
(* Power losses *)

\* While no process dies and no fsync fails, a snapshot lacks its fsync only
\* until the next step of the program that wrote it, and every descriptor that
\* may survive a power loss refers to snapshots that do.
ContentFirst ==
  /\ pc # "snapSync" => gens = gensSafe
  /\ \A s \in (unsynced \cup {durable}) \ {None} : Refs(s) \subseteq gensSafe

\* A step that leaves the directory alone, taken by a program that is not
\* between the rename of a snapshot and its fsync, or by nobody.
LEMMA QuietContent ==
  ASSUME ContentFirst, UNCHANGED <<diskVars, gens, gensSafe>>,
         pc # "snapSync" \/ pc' = pc
  PROVE  ContentFirst'
BY DEF ContentFirst, diskVars

\* Garbage collection runs when only the descriptor of the store can survive.
LEMMA CollectContent ==
  ASSUME IndInv, WorkInv, ContentFirst, CollectGarbage
  PROVE  ContentFirst'
<1>1. PICK kept \in SUBSET (gens \ Refs(mem)) :
        /\ gens' = kept \cup (gens \cap Refs(mem))
        /\ gensSafe' = gensSafe \cap gens'
  BY DEF CollectGarbage
<1>2. pc = "collect" /\ UNCHANGED diskVars
  BY DEF CollectGarbage
<1>3. mem = cand /\ durable = cand /\ unsynced = {}
  BY <1>2 DEF WorkInv, OpInv, Built, IndInv, CommitPoint
<1>4. gens = gensSafe /\ Refs(mem) \subseteq gens
  BY <1>2 DEF ContentFirst, WorkInv, StoreInv
<1>5. gens' = gensSafe' /\ Refs(mem) \subseteq gensSafe'
  BY <1>1, <1>4
<1> QED
  BY <1>2, <1>3, <1>5 DEF ContentFirst, diskVars

\* A descriptor is renamed into place after the snapshots it refers to.
LEMMA CommitRenameContent ==
  ASSUME IndInv, WorkInv, ContentFirst, CommitRename
  PROVE  ContentFirst'
<1>1. pc = "snap" /\ UNCHANGED <<gens, gensSafe, durable>> /\ unsynced' = unsynced \cup {cand}
  BY DEF CommitRename, genVars
<1>2. gens = gensSafe /\ Refs(cand) \subseteq gensSafe
  BY <1>1 DEF ContentFirst, WorkInv, OpInv, CandInv
<1> QED
  BY <1>1, <1>2 DEF ContentFirst

\* Only one of the descriptors that may survive does, with its snapshots.
LEMMA PowerLossContent ==
  ASSUME ContentFirst, PowerLoss
  PROVE  ContentFirst'
<1>1. PICK s \in unsynced \cup {durable} : durable' = s /\ unsynced' = {}
  BY DEF PowerLoss
<1>2. gensSafe \subseteq gensSafe' /\ gens' = gensSafe'
  BY DEF PowerLoss
<1> QED
  BY <1>1, <1>2 DEF ContentFirst

\* Every step keeps the order of content and descriptor, unless a process dies
\* or an fsync fails.
LEMMA ContentStep ==
  ASSUME "kill" \notin Faults, "fsync" \notin Faults,
         IndInv, WorkInv, ContentFirst, [Next]_vars
  PROVE  ContentFirst'
<1> USE DEF genVars
<1>1. proc = "none" \/ kind = "none" => pc # "snapSync"
  BY DEF IndInv, Attached
<1>2. CASE InitState \/ StartServer \/ Reload
  BY <1>1, <1>2, QuietContent DEF InitState, StartServer, Reload
<1>3. ASSUME NEW l \in Label, NEW b \in Bundle, StartImport(l, b) PROVE ContentFirst'
  BY <1>1, <1>3, QuietContent DEF StartImport
<1>4. CASE Pass
  BY <1>4, QuietContent
     DEF Pass, configured_bundle_paths, NoBundleFound, ReadBundle, RejectBundle
<1>5. ASSUME NEW l \in Label, SnapshotPresent(l) \/ SnapshotWriteFails(l)
      PROVE  ContentFirst'
  BY <1>5, QuietContent DEF SnapshotPresent, SnapshotWriteFails
<1>6. ASSUME NEW l \in Label, SnapshotRename(l) PROVE ContentFirst'
  BY <1>6 DEF SnapshotRename, ContentFirst, diskVars
<1>7. CASE SnapshotSync
  <2>1. gensSafe \subseteq gens
    BY DEF IndInv, TypeOK, GenType
  <2> QED
    BY <1>7, <2>1 DEF SnapshotSync, ContentFirst, diskVars
<1>8. CASE CommitRename
  BY <1>8, CommitRenameContent
<1>9. CASE CommitWriteFails \/ PublishMap
  BY <1>9, QuietContent DEF CommitWriteFails, PublishMap
<1>10. CASE CommitSync \/ InitSync
  <2>1. pc = "commitSync" /\ durable' = disk /\ unsynced' = {} /\ UNCHANGED <<gens, gensSafe>>
    BY <1>10 DEF CommitSync, InitSync
  <2>2. disk \in unsynced \cup {durable}
    BY DEF IndInv, TypeOK, DiskType
  <2> QED
    BY <2>1, <2>2 DEF ContentFirst
<1>11. CASE CollectGarbage
  BY <1>11, CollectContent
<1>12. ASSUME NEW l \in Label, PublishAlias(l) PROVE ContentFirst'
  BY <1>12, QuietContent DEF PublishAlias
<1>13. CASE SnapshotSyncFails \/ CommitSyncFails \/ Kill
  BY <1>13 DEF SnapshotSyncFails, CommitSyncFails, Kill
<1>14. CASE PowerLoss
  BY <1>14, PowerLossContent
<1>15. ASSUME NEW p \in Path, PublishBundle(p) PROVE ContentFirst'
  BY <1>15, QuietContent DEF PublishBundle, opVars
<1>16. ASSUME NEW b \in Bundle, SealExpires(b) PROVE ContentFirst'
  BY <1>16, QuietContent DEF SealExpires, opVars
<1>17. CASE UNCHANGED vars
  BY <1>17, QuietContent DEF vars, opVars
<1> QED
  BY <1>2, <1>3, <1>4, <1>5, <1>6, <1>7, <1>8, <1>9, <1>10, <1>11, <1>12, <1>13,
     <1>14, <1>15, <1>16, <1>17 DEF Next, Snapshot, Commit, Environment

\* Whatever power losses happen, at whatever moments, the strict open accepts
\* the directory afterwards: every descriptor that may survive refers to
\* snapshots that survive and covers them. A process that dies, or an fsync
\* that fails, between the rename of a snapshot and its fsync is excluded: a
\* later snapshot of the same content finds the file and does not fsync it.
THEOREM Reopens ==
  ASSUME "kill" \notin Faults, "fsync" \notin Faults
  PROVE  Spec => []ReopenSucceeds
<1>1. Init => ContentFirst
  BY DEF Init, ContentFirst
<1>2. IndInv /\ WorkInv /\ ContentFirst /\ [Next]_vars => ContentFirst'
  BY ContentStep
<1>3. IndInv /\ WorkInv /\ ContentFirst => ReopenSucceeds
  <2> SUFFICES ASSUME IndInv, WorkInv, ContentFirst,
                      NEW s \in (unsynced \cup {durable}) \ {None}, NEW b \in Refs(s)
               PROVE  Covers(s, b)
    BY DEF ReopenSucceeds, ContentFirst
  <2>1. PICK l \in Label : s.active_bundles[l] = b /\ b # None
    BY DEF Refs
  <2>2. Fits(s, s.active_bundles)
    BY DEF WorkInv, StoreInv, Descriptors
  <2> QED
    BY <2>1, <2>2 DEF Fits
<1> QED
  BY <1>1, <1>2, <1>3, WorkingSets, PTL DEF Spec
=============================================================================
