------------------------------- MODULE StateDir -------------------------------
(***************************************************************************)
(* The anti-rollback state directory of a hoike responder.                 *)
(*                                                                         *)
(* One directory holds state.json (high-water marks, manifest digests and  *)
(* the committed snapshot of every CA label), the immutable snapshots      *)
(* under generations/, and the writer lock.  Three programs write it, one  *)
(* at a time under the lock: `hoike serve`, `hoike import`, and            *)
(* `hoike init-state`.  The configured bundle files ("aliases") live       *)
(* outside it and are replaced by producers at any moment.                 *)
(*                                                                         *)
(* A pass over the configured CAs reads one bundle per step, because the   *)
(* files can be replaced between two reads; every durable write is split   *)
(* at its rename and its directory fsync, because a process may die, the   *)
(* machine may lose power, or the fsync may fail between the two.          *)
(***************************************************************************)
EXTENDS Integers, Sequences

CONSTANTS
  Label,            \* CA labels
  Order,            \* the configured labels, in configuration order
  Path,             \* the configured bundle files
  path,             \* path[l]: the file configured for label l
  Legacy,           \* TRUE: no [[ca]] entries, the newest file is served
  Bundle, Key, Digest, None,
  ca_scopes,        \* ca_scopes[b]: the (producer, issuer key) pairs b covers
  epoch,            \* epoch[b][k]: the epoch of b for the scope k
  digest,           \* digest[b]: the digest of b's manifest
  prev,             \* prev[b]: prev_manifest_digest, or None
  published,        \* published[p]: the bundles producers make for p
  expiring,         \* the bundles whose seal certificate may expire
  MAX_EPOCH_JUMP,
  Faults            \* the faults that may happen, of FaultKinds

NoMark == -1

\* A process dies, the machine loses power, a directory fsync fails.
FaultKinds == {"kill", "power", "fsync"}

ASSUME ConfigAssumption ==
  /\ Order \in Seq(Label)
  /\ Order # <<>>
  /\ \A l \in Label : \E i \in DOMAIN Order : Order[i] = l
  /\ \A i, j \in DOMAIN Order : Order[i] = Order[j] => i = j
  /\ path \in [Label -> Path]
  /\ Legacy \in BOOLEAN
  /\ Faults \subseteq FaultKinds

ASSUME BundleAssumption ==
  /\ ca_scopes \in [Bundle -> SUBSET Key]
  /\ epoch \in [Bundle -> [Key -> Nat]]
  /\ digest \in [Bundle -> Digest]
  /\ prev \in [Bundle -> Digest \cup {None}]
  /\ published \in [Path -> SUBSET Bundle]
  /\ expiring \subseteq Bundle
  /\ MAX_EPOCH_JUMP \in Nat
  /\ None \notin Bundle
  /\ None \notin Digest

VARIABLES
  disk,      \* state.json as a reader sees it, or None when it is absent
  durable,   \* state.json as last made durable by a directory fsync
  unsynced,  \* contents renamed over state.json since that fsync
  gens,      \* snapshots under generations/ as a reader sees them
  gensSafe,  \* the snapshots whose directory entry has been fsynced
  debris,    \* the directory holds more than state.json and the lock
  alias,     \* the configured bundle files
  trusted,   \* the bundles admit_bundle accepts at this time
  proc,      \* the program that holds the writer lock
  kind,      \* the operation that program is running
  pc,        \* where that operation is
  mem,       \* StateStore::state in that program
  cand,      \* the staged transaction
  cur,       \* the next CA of the pass, an index into Order
  paths,     \* the files this pass reads
  loaded,    \* what this pass already read, by file
  staged,    \* the scope map under construction, by label
  todo,      \* labels whose snapshot is still to be written
  served     \* the published scope map, by label

diskVars  == <<disk, durable, unsynced>>
genVars   == <<gens, gensSafe, debris>>
envVars   == <<alias, trusted>>
procVars  == <<proc, mem, served>>
opVars    == <<kind, pc, cand, cur, paths, loaded, staged, todo>>
vars      == <<diskVars, genVars, envVars, procVars, opVars>>

-----------------------------------------------------------------------------
(* state.json and the checks against it *)

PersistedState ==
  [high_water_marks : [Key -> Nat \cup {NoMark}],
   manifest_digests : [Key -> Digest \cup {None}],
   active_bundles   : [Label -> Bundle \cup {None}]]

\* None is neither a descriptor nor a point of a timeline.
ASSUME NoneAssumption ==
  /\ None \notin PersistedState
  /\ None \notin [epoch : Nat, digest : Digest]

NoBundles == [l \in Label |-> None]
NoLoads   == [p \in Path |-> None]

DefaultState ==
  [high_water_marks |-> [k \in Key |-> NoMark],
   manifest_digests |-> [k \in Key |-> None],
   active_bundles   |-> NoBundles]

\* The snapshots that a descriptor refers to.
Refs(s) == {s.active_bundles[l] : l \in Label} \ {None}

\* Marks and digests come in pairs, every snapshot is there, and every scope
\* of a snapshot has a mark at or above its epoch.
validate_persisted(s) ==
  /\ s # None
  /\ \A k \in Key :
       (s.high_water_marks[k] = NoMark) <=> (s.manifest_digests[k] = None)
  /\ \A b \in Refs(s) :
       /\ b \in gens
       /\ \A k \in ca_scopes[b] : s.high_water_marks[k] >= epoch[b][k]

\* Mutants: an older epoch is let through; the same epoch is not.
check_rollback_unordered(s, b) ==
  \A k \in ca_scopes[b] :
    epoch[b][k] = s.high_water_marks[k] => s.manifest_digests[k] = digest[b]

check_rollback_strict(s, b) ==
  \A k \in ca_scopes[b] : epoch[b][k] > s.high_water_marks[k]

check_rollback(s, b) ==
  \A k \in ca_scopes[b] :
    LET hw == s.high_water_marks[k] IN
      hw # NoMark =>
        /\ epoch[b][k] >= hw
        /\ epoch[b][k] = hw => s.manifest_digests[k] = digest[b]
        /\ epoch[b][k] - hw <= MAX_EPOCH_JUMP

\* Mutant: re-reading the recorded generation counts as a gap.
check_continuity_strict(s, b) ==
  prev[b] # None =>
    \A k \in ca_scopes[b] :
      s.manifest_digests[k] # None => s.manifest_digests[k] = prev[b]

check_continuity(s, b) ==
  prev[b] # None =>
    \A k \in ca_scopes[b] :
      s.manifest_digests[k] # None =>
        \/ /\ s.high_water_marks[k] = epoch[b][k]
           /\ s.manifest_digests[k] = digest[b]
        \/ s.manifest_digests[k] = prev[b]

\* The scopes whose mark the bundle b raises.
Raises(s, b) == {k \in ca_scopes[b] : epoch[b][k] > s.high_water_marks[k]}

advance_from_bundle(s, b) ==
  [high_water_marks |->
     [k \in Key |-> IF k \in Raises(s, b) THEN epoch[b][k]
                    ELSE s.high_water_marks[k]],
   manifest_digests |->
     [k \in Key |-> IF k \in Raises(s, b) THEN digest[b]
                    ELSE s.manifest_digests[k]],
   active_bundles |-> s.active_bundles]

\* The same marks and digests with another working set.
WithBundles(s, bundles) ==
  [high_water_marks |-> s.high_water_marks,
   manifest_digests |-> s.manifest_digests,
   active_bundles   |-> bundles]

clear_active_bundles(s) == WithBundles(s, NoBundles)

-----------------------------------------------------------------------------
(* How an operation starts, succeeds and fails *)

NoOperation ==
  /\ kind' = "none"
  /\ pc' = "idle"
  /\ cand' = DefaultState
  /\ cur' = 1
  /\ paths' = path
  /\ loaded' = NoLoads
  /\ staged' = NoBundles
  /\ todo' = {}

\* The process ends and the kernel drops its lock.
Exit ==
  /\ proc' = "none"
  /\ mem' = DefaultState
  /\ served' = NoBundles
  /\ NoOperation

\* Mutant: the transaction starts empty instead of from the store.
BeginPassEmpty(k, store) ==
  /\ kind' = k
  /\ pc' = IF k = "recover" THEN "read" ELSE "select"
  /\ cand' = DefaultState
  /\ cur' = 1
  /\ paths' = path
  /\ loaded' = NoLoads
  /\ staged' = NoBundles
  /\ todo' = {}

\* load_scope_map: a transaction that replaces the whole working set.
BeginPass(k, store) ==
  /\ kind' = k
  /\ pc' = IF k = "recover" THEN "read" ELSE "select"
  /\ cand' = clear_active_bundles(store)
  /\ cur' = 1
  /\ paths' = path
  /\ loaded' = NoLoads
  /\ staged' = NoBundles
  /\ todo' = {}

\* The initial load falls back to the committed snapshots when there is one
\* for every label; a failed reload keeps the process and its scope map.
Recoverable == \A l \in Label : mem.active_bundles[l] # None

Fail ==
  \/ /\ kind = "load"
     /\ Recoverable
     /\ BeginPass("recover", mem)
     /\ UNCHANGED procVars
  \/ /\ \/ kind = "load" /\ ~Recoverable
        \/ kind \in {"recover", "import", "init"}
     /\ Exit
  \/ /\ kind = "reload"
     /\ NoOperation
     /\ UNCHANGED procVars

-----------------------------------------------------------------------------
(* Programs *)

\* hoike init-state: refuses an existing state file and a directory that
\* holds anything besides the lock.
InitState ==
  /\ proc = "none"
  /\ disk = None
  /\ ~debris
  /\ proc' = "init"
  /\ kind' = "init"
  /\ pc' = "snap"
  /\ cand' = DefaultState
  /\ UNCHANGED <<diskVars, genVars, envVars, mem, served,
                 cur, paths, loaded, staged, todo>>

\* hoike serve: lock, strict open, then ResponderState::load.
StartServer ==
  /\ proc = "none"
  /\ validate_persisted(disk)
  /\ proc' = "server"
  /\ mem' = disk
  /\ BeginPass("load", disk)
  /\ UNCHANGED <<diskVars, genVars, envVars, served>>

\* ResponderState::reload, under the state_store mutex.
Reload ==
  /\ proc = "server"
  /\ kind = "none"
  /\ BeginPass("reload", mem)
  /\ UNCHANGED <<diskVars, genVars, envVars, procVars>>

\* hoike import: install_bundle up to its first durable write.
StartImport(l, b) ==
  /\ proc = "none"
  /\ ~Legacy
  /\ \A other \in Label \ {l} : path[other] # path[l]
  /\ b \in published[path[l]]
  /\ b \in trusted
  /\ validate_persisted(disk)
  /\ check_rollback(disk, b)
  /\ check_continuity(disk, b)
  /\ proc' = "import"
  /\ mem' = disk
  /\ kind' = "import"
  /\ pc' = "snap"
  /\ cand' = advance_from_bundle(disk, b)
  /\ staged' = [NoBundles EXCEPT ![l] = b]
  /\ todo' = {l}
  /\ UNCHANGED <<diskVars, genVars, envVars, served, cur, paths, loaded>>

-----------------------------------------------------------------------------
(* One pass over the configured CAs *)

\* The files whose highest epoch no other file exceeds; the order of the
\* directory listing decides between equals.
Newest ==
  {p \in Path :
     /\ alias[p] # None
     /\ \A q \in Path : alias[q] # None =>
          \A k \in ca_scopes[alias[q]] :
            \/ epoch[alias[q]][k] = 0
            \/ \E j \in ca_scopes[alias[p]] :
                 epoch[alias[p]][j] >= epoch[alias[q]][k]}

configured_bundle_paths ==
  /\ pc = "select"
  /\ IF Legacy
       THEN \E p \in Newest : paths' = [l \in Label |-> p]
       ELSE paths' = path
  /\ pc' = "read"
  /\ UNCHANGED <<diskVars, genVars, envVars, procVars,
                 kind, cand, cur, loaded, staged, todo>>

NoBundleFound ==
  /\ pc = "select"
  /\ Legacy
  /\ Newest = {}
  /\ Fail
  /\ UNCHANGED <<diskVars, genVars, envVars>>

\* Mutant: the file is opened again for every label, if it is still there.
SourceUncached(l) ==
  IF kind = "recover"
    THEN IF mem.active_bundles[l] \in gens THEN mem.active_bundles[l] ELSE None
    ELSE IF alias[paths[l]] # None THEN alias[paths[l]] ELSE loaded[paths[l]]

\* What the pass gets for label l: its committed snapshot during recovery,
\* otherwise its file, read once per pass.
Source(l) ==
  IF kind = "recover"
    THEN IF mem.active_bundles[l] \in gens THEN mem.active_bundles[l] ELSE None
    ELSE IF loaded[paths[l]] # None THEN loaded[paths[l]] ELSE alias[paths[l]]

\* No earlier label of the pass had the same file: the same path, or during
\* recovery the same snapshot.
FirstRead(l) ==
  IF kind = "recover"
    THEN \A i \in 1..(cur - 1) : staged[Order[i]] # Source(l)
    ELSE loaded[paths[l]] = None

Admits(b) ==
  /\ b # None
  /\ b \in trusted
  /\ check_rollback(cand, b)
  /\ check_continuity(cand, b)

\* Mutant: one label too many.
MoreLabelsOffByOne == cur <= Len(Order)

MoreLabels == cur < Len(Order)

ReadBundle ==
  /\ pc = "read"
  /\ LET l == Order[cur]
         b == Source(l)
     IN /\ FirstRead(l) => Admits(b)
        /\ cand' = IF FirstRead(l) THEN advance_from_bundle(cand, b) ELSE cand
        /\ loaded' = IF kind = "recover" THEN loaded
                     ELSE [loaded EXCEPT ![paths[l]] = b]
        /\ staged' = [staged EXCEPT ![l] = b]
  /\ IF MoreLabels
       THEN /\ cur' = cur + 1
            /\ UNCHANGED <<pc, todo>>
       ELSE /\ pc' = "snap"
            /\ todo' = {l \in Label : ca_scopes[staged'[l]] # {}}
            /\ UNCHANGED cur
  /\ UNCHANGED <<diskVars, genVars, envVars, procVars, kind, paths>>

RejectBundle ==
  /\ pc = "read"
  /\ FirstRead(Order[cur])
  /\ ~Admits(Source(Order[cur]))
  /\ Fail
  /\ UNCHANGED <<diskVars, genVars, envVars>>

-----------------------------------------------------------------------------
(* StateStore::snapshot: content before the descriptor that refers to it *)

\* Mutant: an early return that forgets to record the snapshot.
SnapshotPresentUnrecorded(l) ==
  /\ pc = "snap"
  /\ l \in todo
  /\ staged[l] \in gens
  /\ todo' = todo \ {l}
  /\ UNCHANGED <<diskVars, genVars, envVars, procVars,
                 kind, pc, cand, cur, paths, loaded, staged>>

\* The content is there already: no write and no fsync.
SnapshotPresent(l) ==
  /\ pc = "snap"
  /\ l \in todo
  /\ staged[l] \in gens
  /\ cand' = WithBundles(cand, [cand.active_bundles EXCEPT ![l] = staged[l]])
  /\ todo' = todo \ {l}
  /\ UNCHANGED <<diskVars, genVars, envVars, procVars,
                 kind, pc, cur, paths, loaded, staged>>

SnapshotRename(l) ==
  /\ pc = "snap"
  /\ l \in todo
  /\ staged[l] \notin gens
  /\ gens' = gens \cup {staged[l]}
  /\ debris' = TRUE
  /\ pc' = "snapSync"
  /\ UNCHANGED <<diskVars, gensSafe, envVars, procVars,
                 kind, cand, cur, paths, loaded, staged, todo>>

SnapshotWriteFails(l) ==
  /\ pc = "snap"
  /\ l \in todo
  /\ staged[l] \notin gens
  /\ debris' \in {debris, TRUE}
  /\ Fail
  /\ UNCHANGED <<diskVars, gens, gensSafe, envVars>>

\* Mutant: the snapshot's directory is not fsynced.
SnapshotUnsynced ==
  /\ pc = "snapSync"
  /\ pc' = "snap"
  /\ UNCHANGED <<diskVars, genVars, envVars, procVars,
                 kind, cand, cur, paths, loaded, staged, todo>>

\* The directory of the snapshots is fsynced. It is taken to be there already: that
\* the entry of a directory the first snapshot creates may be lost is left out.
SnapshotSync ==
  /\ pc = "snapSync"
  /\ gensSafe' = gens
  /\ pc' = "snap"
  /\ UNCHANGED <<diskVars, gens, debris, envVars, procVars,
                 kind, cand, cur, paths, loaded, staged, todo>>

SnapshotSyncFails ==
  /\ pc = "snapSync"
  /\ "fsync" \in Faults
  /\ Fail
  /\ UNCHANGED <<diskVars, genVars, envVars>>

-----------------------------------------------------------------------------
(* StateStore::commit: the descriptor, then garbage, then publication *)

CommitRename ==
  /\ pc = "snap"
  /\ todo = {}
  /\ disk' = cand
  /\ unsynced' = unsynced \cup {cand}
  /\ pc' = "commitSync"
  /\ UNCHANGED <<durable, genVars, envVars, procVars,
                 kind, cand, cur, paths, loaded, staged, todo>>

CommitWriteFails ==
  /\ pc = "snap"
  /\ todo = {}
  /\ Fail
  /\ UNCHANGED <<diskVars, genVars, envVars>>

CommitSync ==
  /\ pc = "commitSync"
  /\ kind # "init"
  /\ durable' = disk
  /\ unsynced' = {}
  /\ mem' = cand
  /\ pc' = "collect"
  /\ UNCHANGED <<disk, genVars, envVars, proc, served,
                 kind, cand, cur, paths, loaded, staged, todo>>

\* StateStore::initialize persists the default state and is done.
InitSync ==
  /\ pc = "commitSync"
  /\ kind = "init"
  /\ durable' = disk
  /\ unsynced' = {}
  /\ Exit
  /\ UNCHANGED <<disk, genVars, envVars>>

\* Mutant: an uncertain commit is taken for a commit.
CommitSyncIgnored ==
  /\ pc = "commitSync"
  /\ "fsync" \in Faults
  /\ mem' = cand
  /\ pc' = "publish"
  /\ UNCHANGED <<diskVars, genVars, envVars, proc, served,
                 kind, cand, cur, paths, loaded, staged, todo>>

CommitSyncFails ==
  /\ pc = "commitSync"
  /\ "fsync" \in Faults
  /\ Fail
  /\ UNCHANGED <<diskVars, genVars, envVars>>

\* Mutant: garbage goes before the descriptor is written.
CollectEarly ==
  /\ pc = "snap"
  /\ todo = {}
  /\ gens' = gens \cap Refs(cand)
  /\ gensSafe' = gensSafe \cap gens'
  /\ UNCHANGED <<diskVars, debris, envVars, procVars, opVars>>

\* Removal is best effort: any of the unreferenced snapshots may stay.
CollectGarbage ==
  /\ pc = "collect"
  /\ \E kept \in SUBSET (gens \ Refs(mem)) :
       /\ gens' = kept \cup (gens \cap Refs(mem))
       /\ gensSafe' = gensSafe \cap gens'
  /\ pc' = "publish"
  /\ UNCHANGED <<diskVars, debris, envVars, procVars,
                 kind, cand, cur, paths, loaded, staged, todo>>

\* Mutant: the scope map is swapped before the commit.
PublishFirst ==
  /\ pc = "snap"
  /\ kind \in {"load", "recover", "reload"}
  /\ served' = staged
  /\ UNCHANGED <<diskVars, genVars, envVars, proc, mem, opVars>>

\* The new scope map replaces the old one in one atomic swap.
PublishMap ==
  /\ pc = "publish"
  /\ kind \in {"load", "recover", "reload"}
  /\ served' = staged
  /\ NoOperation
  /\ UNCHANGED <<diskVars, genVars, envVars, proc, mem>>

\* install_bundle refreshes the configured path; a failure is a warning.
PublishAlias(l) ==
  /\ pc = "publish"
  /\ kind = "import"
  /\ staged[l] # None
  /\ alias' \in {alias, [alias EXCEPT ![path[l]] = staged[l]]}
  /\ Exit
  /\ UNCHANGED <<diskVars, genVars, trusted>>

-----------------------------------------------------------------------------
(* Failures and the environment *)

\* The process dies at any point.  A temporary file may stay behind in the
\* state directory when the descriptor was being written.
Kill ==
  /\ "kill" \in Faults
  /\ proc # "none"
  /\ Exit
  /\ debris' \in {debris, debris \/ (pc = "snap" /\ todo = {})}
  /\ UNCHANGED <<diskVars, gens, gensSafe, envVars>>

\* The machine loses power: a rename that no fsync followed may be undone.
PowerLoss ==
  /\ "power" \in Faults
  /\ Exit
  /\ \E s \in unsynced \cup {durable} :
       /\ disk' = s
       /\ durable' = s
       /\ unsynced' = {}
  /\ \E g \in SUBSET gens :
       /\ gensSafe \subseteq g
       /\ gens' = g
       /\ gensSafe' = g
  /\ debris' \in {debris, debris \/ (pc = "snap" /\ todo = {})}
  /\ UNCHANGED envVars

\* A producer replaces a configured file, or the file becomes unreadable.
PublishBundle(p) ==
  /\ \E b \in published[p] \cup {None} : alias' = [alias EXCEPT ![p] = b]
  /\ UNCHANGED <<diskVars, genVars, trusted, procVars, opVars>>

\* The seal certificate of a bundle leaves its validity period.
SealExpires(b) ==
  /\ b \in expiring
  /\ trusted' = trusted \ {b}
  /\ UNCHANGED <<diskVars, genVars, alias, procVars, opVars>>

Init ==
  /\ disk = None
  /\ durable = None
  /\ unsynced = {}
  /\ gens = {}
  /\ gensSafe = {}
  /\ debris = FALSE
  /\ alias = NoLoads
  /\ trusted = Bundle
  /\ proc = "none"
  /\ kind = "none"
  /\ pc = "idle"
  /\ mem = DefaultState
  /\ cand = DefaultState
  /\ cur = 1
  /\ paths = path
  /\ loaded = NoLoads
  /\ staged = NoBundles
  /\ todo = {}
  /\ served = NoBundles

Pass == configured_bundle_paths \/ NoBundleFound \/ ReadBundle \/ RejectBundle

Snapshot ==
  \/ \E l \in Label :
       SnapshotPresent(l) \/ SnapshotRename(l) \/ SnapshotWriteFails(l)
  \/ SnapshotSync
  \/ SnapshotSyncFails

Commit ==
  \/ CommitRename \/ CommitWriteFails \/ CommitSync \/ InitSync
  \/ CommitSyncFails \/ CollectGarbage \/ PublishMap
  \/ \E l \in Label : PublishAlias(l)

Environment ==
  \/ \E p \in Path : PublishBundle(p)
  \/ \E b \in Bundle : SealExpires(b)
  \/ Kill
  \/ PowerLoss

Next ==
  \/ InitState
  \/ StartServer
  \/ Reload
  \/ \E l \in Label, b \in Bundle : StartImport(l, b)
  \/ Pass
  \/ Snapshot
  \/ Commit
  \/ Environment

Spec == Init /\ [][Next]_vars

-----------------------------------------------------------------------------
(* Properties *)

Processes  == {"none", "server", "import", "init"}
Operations == {"none", "init", "load", "recover", "reload", "import"}
Places     == {"idle", "select", "read", "snap", "snapSync",
               "commitSync", "collect", "publish"}

DiskType ==
  /\ durable \in PersistedState \cup {None}
  /\ unsynced \in SUBSET PersistedState
  /\ disk \in unsynced \cup {durable}

GenType ==
  /\ gens \in SUBSET Bundle
  /\ gensSafe \in SUBSET gens
  /\ debris \in BOOLEAN

EnvType ==
  /\ alias \in [Path -> Bundle \cup {None}]
  /\ trusted \in SUBSET Bundle

ProcType ==
  /\ proc \in Processes
  /\ mem \in PersistedState
  /\ served \in [Label -> Bundle \cup {None}]

OpType ==
  /\ kind \in Operations
  /\ pc \in Places
  /\ cand \in PersistedState
  /\ cur \in 1..Len(Order)
  /\ paths \in [Label -> Path]
  /\ loaded \in [Path -> Bundle \cup {None}]
  /\ staged \in [Label -> Bundle \cup {None}]
  /\ todo \in SUBSET Label

\* Every variable keeps its type, snapshots known to be fsynced are present,
\* and state.json reads as one of the contents it may have after a power loss.
TypeOK == DiskType /\ GenType /\ EnvType /\ ProcType /\ OpType

\* The marks of s forbid going back behind bundle b, and forbid a different
\* manifest at an epoch of b.
Covers(s, b) ==
  /\ s # None
  /\ \A k \in ca_scopes[b] :
       \/ s.high_water_marks[k] > epoch[b][k]
       \/ /\ s.high_water_marks[k] = epoch[b][k]
          /\ s.manifest_digests[k] = digest[b]

\* The marks of s are at or past those of t, with one digest per epoch.
AtLeast(s, t) ==
  t # None =>
    /\ s # None
    /\ \A k \in Key :
         \/ s.high_water_marks[k] > t.high_water_marks[k]
         \/ /\ s.high_water_marks[k] = t.high_water_marks[k]
            /\ s.manifest_digests[k] = t.manifest_digests[k]

\* A served generation can never be forgotten: whatever contents state.json
\* may have after a power loss, its marks cover every bundle in the scope map
\* (ResponderState::reload publishes only after StateStore::commit returned).
ServedIsDurable ==
  \A l \in Label :
    served[l] # None =>
      \A s \in unsynced \cup {durable} : Covers(s, served[l])

\* The durable marks never go back, and never change the digest recorded for
\* an epoch, through reloads, imports, crashes, power losses and failed writes.
DurableNeverRollsBack == [][AtLeast(durable', durable)]_durable

\* What is served is exactly the newest recorded generation: no reload,
\* restart, recovery or replaced file makes the responder answer from an older
\* generation than one it has recorded, or from a fork of it.
ServedIsNewest ==
  \A l \in Label :
    (served[l] # None /\ pc \notin {"collect", "publish"}) =>
      \A k \in ca_scopes[served[l]] :
        /\ durable.high_water_marks[k] = epoch[served[l]][k]
        /\ durable.manifest_digests[k] = digest[served[l]]

\* Labels configured with one file are served from one bundle, although the
\* file may be replaced while the pass is between them
\* (load_scope_map_candidate reads each distinct path once).
SharedFileAgrees ==
  \A l, m \in Label :
    path[l] = path[m] => served[l] = served[m]

\* Outside the window between the commit and the swap, the committed snapshots
\* are the served bundles: a restart that cannot read the configured files
\* comes back with what was being served (ResponderState::load, recovery arm).
CommittedIsServed ==
  \A l \in Label :
    (served[l] # None /\ pc \notin {"collect", "publish"}) =>
      durable.active_bundles[l] =
        IF ca_scopes[served[l]] = {} THEN None ELSE served[l]

\* After a power loss at any moment, StateStore::open accepts the directory:
\* every snapshot of every descriptor that may survive does survive, and its
\* scopes have marks ("Persist immutable content before the descriptor").
ReopenSucceeds ==
  \A s \in (unsynced \cup {durable}) \ {None} :
    /\ Refs(s) \subseteq gensSafe
    /\ \A b \in Refs(s) : Covers(s, b)

\* The strict open accepts the directory whenever the machine stays up, even
\* when fsyncs fail: a restart of the process alone never finds a descriptor
\* whose snapshots commit's garbage collection has removed.
RestartOpens ==
  disk # None => validate_persisted(disk)

\* Reading back the committed snapshots never trips the anti-rollback checks:
\* a recovery fails only when a seal is no longer trusted.
RecoveryIsAccepted ==
  (pc = "read" /\ kind = "recover" /\ Source(Order[cur]) \in trusted) =>
    Admits(Source(Order[cur]))

\* A reload that finds exactly the served bundles in the configured files
\* accepts them again (run_server: reload "is a no-op-safe swap when nothing
\* changed").
UnchangedReloadIsAccepted ==
  (/\ pc = "read"
   /\ kind = "reload"
   /\ \A l \in Label : alias[paths[l]] = served[l]
   /\ \A i \in 1..(cur - 1) : staged[Order[i]] = served[Order[i]]
   /\ served[Order[cur]] \in trusted)
  => (FirstRead(Order[cur]) => Admits(Source(Order[cur])))

-----------------------------------------------------------------------------
(* The abstract specification that the store implements *)

Generation(e, d) == [epoch |-> e, digest |-> d]

durableMarks ==
  [k \in Key |->
     IF durable = None THEN None
     ELSE IF durable.high_water_marks[k] = NoMark THEN None
     ELSE Generation(durable.high_water_marks[k], durable.manifest_digests[k])]

servedGenerations ==
  UNION {{<<k, Generation(epoch[served[l]][k], digest[served[l]])>> :
            k \in ca_scopes[served[l]]} :
         l \in {m \in Label : served[m] # None}}

T == INSTANCE Timeline WITH mark <- durableMarks, live <- servedGenerations

\* Files, commits, recovery, crashes and faults implement one timeline per
\* scope: the durable marks are its recorded points, the scope map is served.
ImplementsTimeline == T!Spec
=============================================================================
