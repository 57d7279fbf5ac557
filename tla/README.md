# A TLA+ verification project for hoike

hoike is an OCSP responder that answers from pre-signed bundles. A *signer*
reads revocations from a CA, signs an answer for every certificate and writes
one `.ahu` bundle per CA; a *responder* authenticates bundles, refuses to go back
behind the newest generation it has seen, and answers from them. The two run in
one process (combined mode) or apart.

This directory models the parts of hoike in which an order of events matters,
checks them with TLC on small instances, and proves the most important results
with TLAPS for every configuration.

## 1. The system

| Part | State | Operations | Hard part |
|---|---|---|---|
| State store (`hoike-core/src/state.rs`) | `state.json`: marks, manifest digests and active snapshots; blobs in `generations/` | initialize, open, transaction, advance, snapshot, commit, collect | crashes and failed fsyncs between any two writes |
| Storage (`storage.rs`) | the writer lock; files being replaced | `write_atomic`, lock and unlock | rename visible before it is durable |
| Loading (`router.rs`) | the scope map, swapped in one step | load, recovery, reload, legacy selection | files replaced during the pass; commit before swap |
| Import (`install.rs`) | as the state store | stage one label, commit, publish the file | dies between commit and publication |
| Admission (`admission.rs`) | none | authenticate a bundle | trust expires with time |
| Signing (`hoike-sign/src/orchestrate.rs`) | the `sources` mutex | snapshot, derive epoch, generate, write | epoch derived early, used late; one CA of several fails |
| Signer loop (`hoike-cli/src/main.rs`), admin API (`hoike-server/src/admin`) | `known_revoked`, the schedule | initial, scheduled, urgent, on-demand passes; operator reload | four producers and one reload outside the mutex |
| Dogtag source (`dogtag_sync.rs`) | checkpoint (cookie and population) in memory and on disk | refresh, full refresh, full poll, save, load | the directory changes while it is read; the stream breaks off |
| Gossip (`hoike-gossip`) | admission table, channel, generation table | announce, receive, record | loss, duplication, expiry |
| Serving (`handlers.rs`, `live.rs`) | live signers, scope map, clock | answer, sign live, forward | reads three things that change independently |
| Admin sessions (`auth.rs`, `rbac.rs`) | sessions, login slots, rate window | login, logout, authorize | capacity, expiry |
| Generation (`generate.rs`, `crl.rs`, `seal.rs`) | none | authenticate a source, prepare, sign, seal | the clock moves between its reads; odd buckets; capped validity |
| ahu format (`crates/ahu`) | none | build, parse, verify, look up, diff, apply deltas | damaged files; two readers; chains of deltas |

Producers and responders meet in files: a signer replaces the configured bundle
file, a responder reads it when it is told to or when it polls. Inside one
process the signer loop writes, calls `reload`, and announces to the mesh. The
signer reads the responder's recorded marks to choose the next epoch.

What makes each modelled part correct:

- *Responder and store*: a generation that was once served is never forgotten,
  whatever fails; marks do not go back; the served bundle is the newest recorded
  one; after any crash the directory opens and the recorded bundles are accepted.
- *Signer*: a revocation that was there when a pass began is served when the
  pass has reloaded; nothing is announced that this node did not accept; every way a
  pass can go releases the mutex.
- *Dogtag source*: cookie and population belong together wherever a crash leaves
  them; a snapshot says of every certificate something that was true during the
  refresh; snapshots catch up.
- *Generation and format*: every serial the source reports is found, under every
  configured CertID hash and preference, with the CA's status and within the
  source's validity; a damaged file is not admitted; both readers agree.
- *Deltas*: what is materialized says what the last writer of each slot said, and
  claims no more validity than its entries have.
- *Serving*: a status is given inside the window of the bundle that states it and
  signed before the end of its own label's certificate; nothing claims validity beyond
  that end; every request is answered.
- *Gossip*: a table shows only what the owner of a name announced, rows do not go
  back, and the newest generation arrives.

## 2. Modules

| Module | Models |
|---|---|
| `StateDir` | state store, storage, loading, import, `init-state` |
| `Timeline` | the abstract promise of `StateDir`: one timeline of generations per scope |
| `StateDirProofs` | theorems about `StateDir`: its marks, its refinement of `Timeline`, what it commits, serves and finds again |
| `Signer` | production passes, the mutex, reloads and announcements |
| `DogtagSync` | the Dogtag source against a changing directory |
| `Ahu` | the bundle format as operators: build, read, verify, admit, look up |
| `Generation` | one production from source to admitted bundle; extends `Ahu` |
| `DeltaChain` | publishing, materializing and comparing deltas; extends `Ahu` |
| `Serving` | concurrent requests against scope map, live signers and clock |
| `Gossip` | the mesh of announcements |
| `SignerProofs`, `DogtagSyncProofs`, `ServingProofs`, `GossipProofs` | theorems about the module of that name |
| `AhuProofs` | lemmas about the bundle format, for bundles of any size |
| `DeltaChainProofs`, `GenerationProofs` | theorems about the module of that name; both extend `AhuProofs` |
| `MC...` | constants for TLC |

`PROJECT.json` maps every definition to the lines it models.

### StateDir

`disk` is `state.json` as a reader sees it; `durable` is what the last
successful directory fsync guarantees and `unsynced` holds the contents renamed
over it since. A power loss leaves any of `unsynced \cup {durable}`. `gens` are
the snapshots a reader sees, `gensSafe` those known to be fsynced. A killed
process leaves the disk as it is. `mem` is the running program's
`StateStore::state`, `cand` its staged transaction, `served` the scope map.

One program at a time holds the writer lock (`proc`). Its operation `kind` is at
`pc`: `select` (choose the files), `read` (one label per step, because the files
change between two reads), `snap`/`snapSync` (write and fsync each new snapshot),
`commitSync` (after the descriptor's rename), `collect`, `publish`.
`check_rollback`, `check_continuity`, `advance_from_bundle` and
`validate_persisted` are the functions of `state.rs` of the same names, on
records instead of JSON. A bundle is a model value; `ca_scopes`, `epoch`,
`digest` and `prev` say what its manifest says. A scope is a (producer, issuer
key) pair. Whether `authenticate_bundle` accepts is the set `trusted`, from
which bundles with an expiring seal drop out.

One simplification matters: `find_newest_bundle` reads its directory in one step.

### Signer

`pass` is the holder of the `sources` mutex, `pc` its position: `compare`
(urgent pass only), `prepare`, `snapshot`, `epoch`, `write`, `reload`,
`announce`, `rebase`, `rotate`. The loop's seeding of the baseline and `rotate_ca`
hold the same mutex; they are passes here, of one step. The calls a pass makes outside
(`Outside`: the directory, the rotation command, the HSM) set no timeout, so that one
of the faults is a call that never returns (`Hang`): the pass stays `hung`, with the
mutex, until the process ends. The steps between `snapshot` and `write` are separate since
an operator's reload (`reload_bundles`), which does not take the mutex, may come
between them. A load is one step here, `LoadAll`: all files or none, with the
marks rules that `StateDir` shows it to have. Time is counted in wakes of the
loop; `WakesPerPass` is the ratio of the two intervals. `made` counts bundles and
makes each manifest distinct; `MaxMade` bounds it. Revocations are never taken
back in this model (a release from hold would be a smaller set).

### DogtagSync

The directory is external: a sequence of contents, `history`, and a cookie is a
position in it. It answers a search with a cookie by what changed since and
either deletions or the list of entries that did not change, whichever it likes,
message by message, each of which may carry a cookie, the last one too (`finish`,
`FinishWithoutCookie`); entries are sent as they
are when they are sent. It trims its log (`oldest`), after which an old cookie
gets syncRefreshRequired, and it may be replaced by a server that does not
implement RFC 4533 (`plain`), which the source then polls. `visible` and
`durable` are the checkpoint file as read and as a power loss leaves it. Every
refresh may fail at every point.

Serial, time and reason parsing is abstract; `parse_cert_entry` keeps the
classification of the five certificate states.

### Ahu

A file is a header (offset and length of four sections) and a sequence of cells:
the manifest and the seal one cell each, the index one per record, the data
section one per SingleResponse of a payload. Each cell is of the kind of the
section it was written for, and reads as garbled in any other. A digest is the
value it is taken of. `SortEntries`, `Place` and `Layout` are the loop of
`BundleBuilder::build` with its stable sort and its sharing of alias payloads:
`InOrder` puts the members of a set in the sequence that an order relation gives,
`Placed` is what has been laid out after each entry. `to_cbor`, `Decodes` and
`from_cbor` keep which fields are mandatory and what a garbled optional field reads
as; `Readable` collects the errors of parsing. The seal section may be empty.
`lookup_preferred` is the in-memory reader, `lookup_mapped` with its own binary
search the mapped one.

### Generation

`stage` is the last completed step of the production, then of the responder:
`Authenticate` (CRL against its issuer certificate), `Snapshot`, `LoadSeal` (the
pair, a demo's ephemeral pair, or a refusal; its preflight), `LoadSigner` (algorithm
of each key, separation from the seal key), `ValidateSource`, `CheckExpiry`,
`Stamp`, `Build`, `Damage`, `Admit`. Each reads the clock for itself and `Tick` may
come between any two, as it may between two calls of `unix_now`. Every early return
is the stage `refused`. `Setups` is the set of configurations: source, CertID
hashes, bucket size, algorithms, cutoff, jitter, key material, trust policy. Time is
in days and a response's times are the calendar dates of `days_to_ymd`. `spread`
is the fraction of the jitter that a serial's digest selects. Whether the responder
certificate can be read (and, under the live policy, its pair proven) is the input
`responder_usable`; a PKCS#11 key behaves as a key file.

### DeltaChain

The producer publishes full bundles and deltas, linked to their predecessor or
not; the operator applies any sequence of published bundles to any base (`Apply`:
`apply_sealed`, sealed or not) and may publish the result (`Rebase`). `diff` is
compared with what was applied. Files come from `Ahu!build` and go through
`Ahu!from_bytes`. How a producer makes deltas is not in the repository; it is
modelled from what `apply_sealed` expects.

### Serving

`pc[r]` is the position of request `r`: `lookup`, then `found` (pre-signed answer,
live signing or forwarding by the label's policy) or `missed` (signed `unknown`,
forwarding, or `unauthorized`), `lock`/`sign` for the live signer's mutex. `req[r]`
keeps what has been read: the bundle, the label, the signer, and for `unknown` the
clock (`asked`). An answer has the time it was given or signed, `at`, and one signed for
the request also the times it claims: `this`, `next` and `produced`. `Produce`, `Reload`,
`Rotate` and `Tick` go on between the steps. All labels serve one issuer, because
this is where their order matters.

### Gossip

A broadcast moves from `backlog` to `backlog` (`Transmit`: serialization, the frame
check of `GossipVerifier::check`, bounds, admission, channel, all in
`receive_item`). `Consume` is the consumer of the channel (`record_generation`),
`View` the reading of the table, which prunes it. foca's broadcasts are a set from
which `Forget` takes what was lost or sent often enough. `announced` is history.

## 3. Runs

TLC, two workers. "States" are distinct states.

| Run | States | Shows |
|---|---|---|
| `state_dir_one` | 388,510 | One CA whose file takes successor, fork, chained and far-jumping bundles, one with an expiring seal, every fault. `ServedIsDurable`, `CommittedIsServed`, `ServedIsNewest`, `DurableNeverRollsBack`. |
| `state_dir_three` | 95,184 | Three CAs, two of them on one file; processes die and fsyncs fail, the machine stays up. `RestartOpens`, `RecoveryIsAccepted`, `UnchangedReloadIsAccepted`, `SharedFileAgrees`. |
| `state_dir_legacy` | 15,552 | No configured CA, bundles of different scopes, power losses. `ReopenSucceeds`, refinement of `Timeline`. |
| `signer_faults` | 668,410 | Two CAs, one urgent; all passes, admin calls, faults and calls that hang. `AnnouncedIsRecorded`, `PassCovers`, `LockIsReleased`. |
| `dogtag_sync` | 1,577,683 | Two entries that may have one serial, four directory contents, two faults. `CheckpointResumes`, `SnapshotIsFresh`, `SnapshotsCatchUp`. |
| `generation` | 120,683 | 136 configurations, the clock between all steps, one damage. `EveryIssuedSerialIsAnswered`, `ValidityIsSourced`, `StatusIsTheCAs`, `MappedAgrees`, `DamageIsRefused`. |
| `delta_chain` | 57,331 | Four publications, two deltas per application, one result as the next base. `MaterializedIsLastWrite`, `EnvelopeIsConservative`, `OnlyWholeChainsApply`, `DiffIsNetChange`. |
| `serving` | 674,099 | Two requests, two labels, three configurations, one reload, a rotation at any time. `AnswersStayInWindow`, `SignerIsValid`, `OwnKeySigns`, `EveryRequestIsAnswered`. |
| `gossip` | 56,183 | Three nodes, two of the same name, caps of one, one fault. `OnlyMappedKeysAreHeard`, `RowsWereAnnounced`, `LagIsNotOverstated`, `OwnFramesAreAccepted`, `RowsNeverGoBack`, `NewestIsLearned`. |

Three runs show where the code and its documentation disagree; PROJECT.json quotes
the lines.

| Run | Violated | Shortest story |
|---|---|---|
| `state_dir_unsafe` | `ReopenSucceeds` | A process dies after renaming a snapshot into place. The next one finds the blob, does not fsync it, and commits a reference to it; power fails. |
| `signer_baseline` | `BaselineIsProduced` | A certificate is revoked after the scheduled pass took its snapshot and before it takes the baseline: no urgent pass fires for it. |
| `generation_sha1` | `AbsenceMeansNeverIssued` | With `certid_compat = "sha1"` the manifest announces a complete SHA-256 scope without entries; an issued serial asked for by a SHA-256 CertID counts as never issued. |

### Known disagreements without a run

These were found while modelling, on the models as they are or on earlier
instances of them. They have no run of their own here; the properties above are
stated so that they hold beside them.

- *Marks undone* (`state.rs:194`). A commit's directory fsync fails. Memory keeps
  the old marks, `state.json` shows the new ones; the next reload finds the previous
  bundle in place, accepts it, and writes lower marks. The remediation design (line
  104) says "do not report rollback, undo marks, or continue writing". Durable marks
  are not affected (`DurableNeverRollsBack`).
- *Shared issuer key* (`router.rs:431`). Two labels with one issuer key and epochs 1
  and 2 load; a reload of the same files refuses epoch 1. hoike-design.md:155 names
  shared keys as a supported case. `UnchangedReloadIsAccepted` is checked where
  labels that share a scope share a file.
- *Reload during a pass* (`admin/bundles.rs:43`). `reload_bundles` does not take the
  mutex: it may record a bundle that an earlier pass left behind at the epoch the
  running pass has derived, and the pass's own bundle is then refused.
- *Epoch reuse* (`orchestrate.rs:303`). A pass that fails at its second CA leaves the
  first CA's file replaced and unrecorded; the next pass rewrites it at the same
  epoch. ahu-format-spec.md:509 says "never a rewrite in place".
- *Laggards hidden* (`broadcast.rs:124`). An announcement invalidates every one of
  the same scope with a lower epoch, whichever node made it, so that a node that lags
  may never appear in the fleet view. `NewestIsLearned` speaks of the newest only.
- *Unknown outside the window* (`handlers.rs:255`). A signed `unknown` is given also
  when the bundle that proves absence is past its window. `AnswersStayInWindow`
  speaks of statuses that a bundle states.
- *Unknown signed late* (`handlers.rs:270`). For a signed `unknown` the clock is read
  before the wait for the signer's mutex (line 282). The certificate check and
  `producedAt` are of that earlier time, so that the signature may be made after the
  certificate has ended and with a `producedAt` in the past; live.rs:71 says
  "producedAt is signing time". `Missed`, `LockSigner`, `Tick`, `SignUnknown` is such a
  behaviour of `Serving`. `SignerIsValid` says of statuses that they are signed in time,
  and of an `unknown` only that it is not valid beyond the certificate.
- *Hung calls* (`rotation.rs:87`; `dogtag_sync.rs:111`, 345, 471). The rotation command,
  LDAP connections, binds and searches have no timeout and are waited for under the
  signer mutex; one that never returns stops production until the process ends.
  `LockIsReleased` names this exception.
- *Expired rows* (`node.rs:373`). A row of the generation table is dropped an hour
  after it was last refreshed, with its epoch; a delayed or replayed announcement of an
  older epoch then makes a new row. node.rs:348 says it "must not appear to regress a
  peer". `RowsNeverGoBack` speaks of rows that have not expired.
- *The entry of `generations/`* (`state.rs:241`). The first snapshot creates the
  directory; the file and the directory are fsynced, the entry of the directory in its
  parent is not before the descriptor that refers into it is renamed. state.rs:232
  says "Persist immutable content before the descriptor that references it". `StateDir`
  takes the directory to be there already.
- *Unlinked deltas* (`ops.rs:196`). "Every delta must chain from its predecessor",
  but one that names none is accepted after a gap. `OnlyWholeChainsApply` speaks of
  producers that link their deltas.

### Bounds

- *StateDir*: bundles a1, a2 (chained to a1), a fork of a2, and a5, which is out of
  reach from both with the jump limit 2 (10,000 in the code) and acceptable as the
  first bundle. These give every verdict of the checks. A second and third label are needed for the orders between labels. No
  counter is bounded: the state space is finite.
- *Signer*: six bundles allow a start, a failed pass, a restart and two further
  passes. One serial tells whether a revocation is in a set; `signer_baseline` needs two.
- *DogtagSync*: four contents are enough for an entry to be issued, changed and
  removed or for a serial to move to another entry; two faults for a failure
  followed by a crash. `MaxFaults` also bounds failovers and searches that end without
  a cookie.
- *Generation*: three serials give odd and even buckets with one and two CertID
  hashes; three orders of the digests make sorting matter; the origins are the
  days before a leap day, before a missing one and before a new year. Two days take
  the clock past the CRL's issuer certificate, the validity of one day and the
  source's end. `Damages` happen once; two damages could restore a digest only by
  restoring the content.
- *DeltaChain*: four publications are a base, two deltas and another full bundle,
  or a result and a delta on it; three slots have two variants of one key. The epoch
  limit 5 (2^64-1 in the code) is reached.
- *Serving*: a bundle and a certificate live one time unit, so that each of two
  ticks ends one; one serial is issued or not, revoked or not. Two requests contend
  for one mutex.
- *Gossip*: two announcements at epochs 1 and 2 overtake each other; with caps of one
  (256 and 4096 in the code) channel, admission and table are full at once. One
  fault of any kind.

All runs but `dogtag_sync` allow a deadlock: in `StateDir` and `Signer` the system
may be stopped with no program running, in the others the clock, the announcements,
the publications or the one production are at their bounds and every request is
answered. DogtagSync never deadlocks.

### Fairness

Four liveness properties are checked. `LockIsReleased` assumes weak fairness
of the steps of the pass that holds the mutex: they are one task of the tokio
runtime, and none of them waits for another pass. A call outside may hang, because
rotation command, LDAP connection and HSM have no timeout; that is a step of its own,
and the property excepts a pass that took it. Passes need no fairness. `SnapshotsCatchUp` assumes weak
fairness of refreshing: the signer loop asks for a snapshot at every wake and a
refresh that began goes on; this takes a directory that answers or whose connection
breaks, since a stalled one is not noticed (there is no LDAP timeout). Faults are finitely many there (`MaxFaults`), and the
directory stops changing (`MaxVersion`); without either nothing could catch up.

`EveryRequestIsAnswered` assumes strong fairness of each request's steps: a request
is a task, forwarding has a timeout, tokio's mutex serves waiters in turn, so
that a request that finds it free again and again gets it, and its guard is dropped on
every way out of signing. A key in an HSM whose call hangs is not covered. `NewestIsLearned` assumes
weak fairness of starting and consuming, and strong fairness of hearing a newest
announcement at a moment when the channel has room (`News`): foca's broadcasts ride on
the probes that a node sends to members chosen at random again and again. It promises nothing once a
fault has happened: a broadcast whose every copy is lost is gone.

## 4. Proofs

Every theorem holds for every value of the constants that satisfies the named
assumptions of the module it is about, which TLC evaluates in the runs. Each is
proved in the same way: an inductive invariant, with one step per action, and the
property as a consequence. Five theorems, marked below, have a hypothesis besides.

| Module | Theorems, with the property each states |
|---|---|
| `StateDirProofs` | `TypeCorrect` (`TypeOK`), `ServedIsAlwaysDurable` (`ServedIsDurable`), `DurableMarksAdvance` (`DurableNeverRollsBack`), `Implements` (`ImplementsTimeline`), `CommittedServes` (`CommittedIsServed`), `SharedFile` (`SharedFileAgrees`), `Restart` (`RestartOpens`, without power losses), `Reopens` (`ReopenSucceeds`, with power losses but without killed processes and failed fsyncs), `NewestServed` (`ServedIsNewest`), `RecoveryAccepted` (`RecoveryIsAccepted`), `ReloadAccepted` (`UnchangedReloadIsAccepted`), the last three where no scope is covered by two files |
| `SignerProofs` | `TypeCorrect` (`TypeOK`), `Announced` (`AnnouncedIsRecorded`), `Covers` (`PassCovers`) |
| `DogtagSyncProofs` | `TypeCorrect` (`TypeOK`), `Resumes` (`CheckpointResumes`), `FreshSnapshot` (`SnapshotIsFresh`) |
| `ServingProofs` | `TypeCorrect` (`TypeOK`), `InWindow` (`AnswersStayInWindow`), `ValidSigner` (`SignerIsValid`), `OwnKey` (`OwnKeySigns`) |
| `GossipProofs` | `TypeCorrect` (`TypeOK`), `Announced` (`RowsWereAnnounced`), `Authentication` (`OnlyMappedKeysAreHeard`), `OwnFrames` (`OwnFramesAreAccepted`), `Forward` (`RowsNeverGoBack`), `Lag` (`LagIsNotOverstated`) |
| `DeltaChainProofs` | `LastWrite` (`MaterializedIsLastWrite`), `Conservative` (`EnvelopeIsConservative`), `WholeChains` (`OnlyWholeChainsApply`), `NetChange` (`DiffIsNetChange`) |
| `GenerationProofs` | `Refused` (`DamageIsRefused`), `Agrees` (`MappedAgrees`), `Truthful` (`StatusIsTheCAs`), `Sound` (`ValidityIsSourced`), `AllAnswered` (`EveryIssuedSerialIsAnswered`) |

The assumptions are types of the constants (`BundleAssumption`, `GossipAssumption`,
`ServingAssumption`, `BoundAssumption`, `ConstantsAssumption`, `TypesAssumption`),
the shape of a configuration (`ConfigAssumption`: the order lists every label once;
in `StateDir` every label has a file), that entry UUIDs are not serials
(`KeyAssumption`) and that `None` is not one of the values it stands beside
(`NoneAssumption`). `Generation` has three more, which are about the world the
production runs in and not about its steps:

- `DigestAssumption`: the digests of different CertIDs differ, and the
  post-quantum discriminator is not that of the classical variant;
- `TruthAssumption`: a directory, and a CRL that the CA itself signed, that is
  complete and has no unsupported extension, say what is true. Every other CRL may
  say anything; that it is never used is what the theorem shows;
- `TrustAssumption`: the responder trusts the configured seal certificate (pinned,
  or issued by an anchor that outlasts it, and authorized for the CA), or its storage
  is open. Only the second half of `DamageIsRefused` needs it, that a file which is
  not damaged is admitted: a responder that does not trust the seal refuses
  everything.

### Marks and refinement (`StateDirProofs`)

`ServedIsDurable` alone is not inductive: that a commit covers what it is about to
serve rests on what the pass has staged, on where the candidate came from, and on
what the disk holds meanwhile. `IndInv` adds, besides types:

- `Attached`: an operation belongs to a program that holds the lock;
- `StagedSoFar`: the pass has staged a bundle for every label it is past, so that
  a finished pass has staged all of them;
- `AheadOfDurable`: the marks in memory, in the candidate and in every content
  that may survive are at or past the durable ones, with one digest per epoch.
  This is what makes a failed fsync harmless to the promise although it is not
  harmless to the marks shown (section 3, "marks undone");
- `CandidateCovers`: everything read or staged so far is covered by the
  candidate's marks, and nothing is staged between operations;
- `CommitPoint`: after the rename the visible descriptor is the candidate's, and
  between its fsync and the swap it is the only one that can survive;
- `AllPaired`: every descriptor has a digest exactly where it has a mark.

The lemmas about `check_rollback` and `advance_from_bundle` say that an admitted
bundle only raises marks and ends up covered; those about `Covers` and `AtLeast`
that covering survives raising. The refinement theorem uses that each step either
leaves the durable marks and the scope map, raises the marks, stops serving, or swaps
the map at `publish` when the marks cover it.

### Working sets (`StateDirProofs`)

A working set is a bundle, or none, for every label. `Fits(s, W)` says that the
descriptor `s` can have the working set `W`: each bundle is one its file may hold, one
file gives one bundle, the marks cover all of them, and where files are separate the
marks are exactly their epochs. `WorkInv` says that this holds of every descriptor
that can be read back with its own active bundles, of the candidate with its target
(what it will have once its snapshots are written), and of the store with the scope
map; and that the snapshots the store refers to exist. Three parts carry the argument
through a transaction:

- `Reading`: one pass reads each file once, so that labels of one file agree although
  the file may be replaced between the steps for two labels;
- `Untouched`: a scope that the pass has not read yet still has the mark of the
  store, which is why a recovery or an unchanged reload meets exactly the epoch it
  comes with;
- `Built`: a pass starts from no active bundle and an import from those of the
  store, so that what is committed is what was staged.

For `Reopens` the invariant `ContentFirst` comes on top: a snapshot lacks its fsync
only between its rename and the next step of the program that wrote it, and every
descriptor that may survive a power loss refers to fsynced snapshots. It rests on
`CommitPoint`: garbage is collected when only the store's descriptor can survive.

Three hypotheses are needed, each where the code stops keeping the promise:

- `Restart` assumes that power does not fail (`"power" \notin Faults`; killed
  processes and failed fsyncs remain), `Reopens` that no process dies and no fsync
  fails (power losses remain, at any moment). With both together the two properties
  are false: a process dies between the rename of a snapshot and its fsync, the next
  one finds the snapshot in place and does not fsync it, and after a power loss a
  committed reference dangles. This is the run `state_dir_unsafe`.
- `NewestServed`, `RecoveryAccepted` and `ReloadAccepted` assume `Separate`: no scope
  is covered by two configured files (or the mode is the legacy one, with one file at a
  time). `router.rs` does not refuse such a configuration, and with it the mark of the scope
  passes the older bundle (section 3, "shared issuer key"). All state directory runs
  that check these properties satisfy `Separate`.

### Signer (`SignerProofs`)

`PassCovers` compares what is served at the end of a pass with the source at its
beginning. In between it rests on `Grown` (sources only grow), `Drafted` and
`Covered` (draft and written bundle carry what was revoked at the beginning),
`Written` (what the pass wrote is still in the file: the mutex keeps other producers
away) and `Loaded` (an operator's reload between the reload of the pass and its
announcement finds the same files). `AnnouncedIsRecorded` needs `Marked` besides: a
mark is the epoch of the recorded bundle, so that a load either keeps the announced
bundle or moves the mark past it.

### Dogtag source (`DogtagSyncProofs`)

The statement "as the directory held this entry at some version since v" is
`Was(r, u, v)`. A checkpoint is `Resumable` when every record is so since the version
of its cookie. `StreamInv` splits the entries of a running refresh: those that will
not be sent any more are as the directory was since the search began, the pending
ones are as they were since the cookie that the refresh resumed from. `Timed` says that
no message carried a cookie later than the search, so that the last one is good to resume
from also when the end of the stream brings none (`Finished`). `PollInv` is the
counterpart for a poll, which keys records by serial. That a poll which finds nothing
for a serial is right takes a fact about the directory, `Gap`: an entry that was
removed leaves a version in which no entry has its serial, where no two entries carry
it at once, because a directory operation changes one entry (`OneAtATime`) and
an entry keeps its serial (`SerialsStay`).

### Serving (`ServingProofs`)

`RequestInv` says for each position of a request what it must have read (`Progress`:
a bundle with an entry for the serial, the signer of its label) and what is true of an
answer (`Sound`). `NotOlder` relates the signers in use when a request arrived with
those in use when it reads one, which a rotation may have replaced, and `Certified`
bounds how long a certificate lasts, so that a rotation never brings an older one.
`Exclusive` says that the mutexes held are those of the requests that sign.

### Gossip (`GossipProofs`)

`BacklogHeard`, `ChannelHeard` and `TableHeard` say of the three places where a node
keeps what it received that some node announced it and that this node accepts it;
`Honest` that an announcement carries the name and the key of its maker, and
`Authenticated` that a node that runs has loaded its keys. `Lag` uses that the
greatest epoch of a scope in a table is the epoch of one of its rows. `TypeCorrect`
includes the caps, for which the domains must be known to be finite.

### Bundle format (`AhuProofs`)

The library's induction theorems have an operator as a parameter, which the provers
cannot instantiate. `Induction` states the principle for a *set* of numbers instead
(a set that has 0 and with every number its successor has them all), and is proved
from the fact that every non-empty set of naturals has a smallest member. A
recursive function is used through its equations, `f[0]` and `f[n]` from
`f[n - 1]`, which are proved first (`PlacedSteps`, `WorkingSteps`, `FlattenSteps`).
On these rest, for bundles of any size:

- *Sorting*: in a finite set, the number of members before a member is a bijection to
  positions (`Ranks`); so `InOrder` lists every member once, in order (`Sorted`), and
  the sorted entries are the given ones, strictly ordered if their keys differ.
- *Laying out* (`LaidOut`, `PlaceStep`): after n entries every record of the index
  points to cells that hold its payload, whether it was appended or shared with an
  alias; appending does not disturb what is there.
- *Reading back* (`ReadBack`, `ManifestSurvives`, `ReadsBuilt`): the four sections and
  the manifest read as they were written, and the bundle passes `verify_structure`
  (`BuiltVerifies`).
- *Searching*: the standard search and the mapped reader's own halving loop
  (`ProbeFinds`, by induction on the length of the interval) both find a slot of a
  strictly sorted index exactly when it is there (`SearchesAgree`).

### Deltas (`DeltaChainProofs`)

`IndInv` says of every published bundle that it is `Sound` (it verifies, its manifest
has the fields that applying reads, and it says something of some slots, a full
one without removing any), of every delta that it names no predecessor or the
publication before it (`Linked`), and of the last result that it is what `apply_sealed`
makes of the chosen bundles (`Applied`). `LastWrites` is the invariant of the loop of `apply_sealed`: after n deltas the working
map has for each slot what the last of them to mention it said, and not the slots
it removed last. Building and reading the working map back gives the same contents
(`BuiltSays`), so that lookups and `diff` speak of it. `Envelope` is at most every
retained window because `Min` and `Max` of a finite set are members of it that bound it.
For `WholeChains`, each applied delta names the digest of the bundle applied before
it, which `Linked` makes the digest of the publication before it; so the chosen
bundles have the digests of successive publications.

### Generation (`GenerationProofs`)

`IndInv` follows the production: a CRL that passed `Authenticate` is `Genuine`; the
snapshot is `Sourced` (it has the source's serials with their true status, and a
validity that begins before it ends); the seal is a `GoodSeal` (a proven pair that the responder accepts until its
certificate ends, although the clock moves on between the check and the use); a written
file was `BuiltFrom` entries that are `Good` and a manifest that is a
`GoodManifest`; the file on disk is that or one damage of it (`Written`); an
admitted bundle is read from the file and verifies; and an undamaged file is refused
only after the seal's end, which is the half of `DamageIsRefused` that a refusal of
everything would fail. The argument has four parts:

- *Dates*: `days_to_ymd` and its inverse agree for every day since 1970
  (`DatesSurvive`), by counting leap days of the proleptic calendar. All validity
  bounds pass through this conversion.
- *Entries*: `Good` says that each retained serial has, for each configured CertID
  hash and each signer, an entry under the digest of that CertID whose response
  speaks for that serial exactly once (`AnswersAll`), that keys are distinct, and that
  every response has a true status and a window inside the source's. It follows from
  the flattening of the per-hash lists (`Flattened`), the cutting into
  buckets of any size (`Chopped`, `SignedBuckets`), and the pairing of aliases
  (`PairsFor`, `SharedFor`).
- *Damage*: every damage that leaves the file readable and verifiable leaves the
  manifest fields, and by the digests index and data, as built (`DamageShows`,
  `ReadsOriginal`); so what is admitted is what was built, and an open storage, which
  checks no seal, is no exception.
- *Lookups*: of the discriminators tried the first that is there decides
  (`FirstDecides`), and the built index has those that were offered
  (`LoadedOffers`); so every request gets one answer by the signer it prefers, or by
  the classical one (`Preferred`).

### Only model-checked

- `NewestIsLearned`, `EveryRequestIsAnswered`, `LockIsReleased`, `SnapshotsCatchUp`:
  liveness under fairness is out of the prover's reach.
- `ReopenSucceeds` where processes die or fsyncs fail: false, as said above.

`BaselineIsProduced` and `AbsenceMeansNeverIssued` belong to the runs that expect a
violation.

The inductive invariants of `StateDir` and `DogtagSync` were checked with TLC on
instances of the size of the runs before they were proved.

## 5. Not modelled

- Cryptography, ASN.1 and CBOR bytes, TLS, metrics, HTTP routing and printing: pure
  I/O or computation without an order of events. Signatures are ideal, digests have
  no collisions.
- Membership of the mesh: the foca library's. PAM, the directory and the upstream
  responder are external.
- What the rotation command does (`rotation.rs`): `rotate_ca` is a holder of the mutex
  in `Signer`, and the live signer it reloads is the step `Rotate` of `Serving`; a
  rotation that fails leaves the old one. The edge responder's polling is the reload that is modelled, with another
  trigger.
- Configuration (`config.rs`): validation of a static file; its outcome is the
  assumptions on the constants and the sets of configurations.
- Admin sessions and roles: planned.
- Revocation times and reasons: `Generation` keeps statuses only, and the Dogtag
  source's time parsing is left out.
- Of `CrlSource::authenticate`, that a CA with an empty subject is refused (`crl.rs:43`).
  A list whose two signature algorithms disagree counts as signed by nobody.
- The serials that `hoike sign` takes from the operator as good and adds to a CRL's
  snapshot (`main.rs:1689-1714`): with them the source is no longer the CA's word, and
  `TruthAssumption` and `StatusIsTheCAs` say nothing of them.
- The time of day in `ocsp_time` (`generate.rs:694-702`): the unit is the day.
- The offsets that the mapped reader computes for itself (`mmap_bundle.rs:130-137`):
  `lookup_mapped` has its own search and shares `entry_bytes` with the other reader.
- That a seal's signer and its anchor have different certificate profiles
  (`seal.rs:334-353`): one flag says whether a certificate has the one it needs.
- In `DeltaChain` the clock, which stands still while a chain is applied, and the
  verification of the output that `ahu apply` repeats (`ahu_commands.rs:449-452`).
- In `Serving` the beginning of a certificate's validity and a live signer without a
  certificate (`live.rs:98-103`): a certificate is valid when it is put in use. A
  pre-signed response's own `nextUpdate`, which jitter may put after the bundle's
  `next_update_min`; the window that is compared is the bundle's.
- Searches that stall in `DogtagSync`: a stream goes on, ends or breaks.

## 6. Plan

In this order:

1. `AdminSessions`: login slots, rate window, sessions and roles.
2. Edge polling in `Signer`; a composition of `Signer` with `StateDir` in which
   the one-step load is replaced by the real one.
3. Revocation times: the parsing of the Dogtag source, the order of several entries
   of one serial.
