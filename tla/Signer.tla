-------------------------------- MODULE Signer --------------------------------
(***************************************************************************)
(* Bundle production in signer and combined mode.                          *)
(*                                                                         *)
(* Four kinds of pass produce bundles: the initial pass of run_server, the *)
(* scheduled pass and the urgent-revocation pass of run_signer_loop, and   *)
(* the on-demand passes of the admin API.  They exclude each other, the    *)
(* seeding of the signer loop and rotate_ca with the `sources` mutex, so   *)
(* one set of variables describes the pass that holds it.  Revocations     *)
(* arrive in the sources meanwhile, and the admin API's reload takes only  *)
(* the state store's own mutex.                                            *)
(*                                                                         *)
(* A pass calls the directory, the rotation command and the HSM without a  *)
(* timeout while it holds the mutex: such a call may hang.                 *)
(*                                                                         *)
(* A reload is one step here: StateDir shows what happens inside it.       *)
(***************************************************************************)
EXTENDS Integers, Sequences

CONSTANTS
  Label,        \* CA labels, each with an issuer key and a file of its own
  Order,        \* the CAs that have a source, in configuration order
  Urgent,       \* the CAs with urgent_revocation
  Serial,       \* certificate serial numbers
  None,
  WakesPerPass, \* min_interval / poll_interval, rounded up
  MaxMade,      \* bound on the number of bundles produced
  Operators,    \* the admin calls that may happen, of OperatorCalls
  Faults        \* the faults that may happen, of FaultKinds

OperatorCalls == {"sign", "reload", "rotate"}
FaultKinds == {"source", "material", "write", "fsync", "load", "hang", "kill"}

ASSUME ConfigAssumption ==
  /\ Order \in Seq(Label)
  /\ Order # <<>>
  /\ \A l \in Label : \E i \in DOMAIN Order : Order[i] = l
  /\ \A i, j \in DOMAIN Order : Order[i] = Order[j] => i = j
  /\ Urgent \subseteq Label
  /\ WakesPerPass \in Nat \ {0}
  /\ MaxMade \in Nat
  /\ Operators \subseteq OperatorCalls
  /\ Faults \subseteq FaultKinds

\* A bundle: its epoch, the revocations it carries, and what makes its
\* manifest digest differ from every other bundle's.
BundleOf == [epoch : Nat, revoked : SUBSET Serial, id : Nat]

ASSUME NoneAssumption == None \notin BundleOf

VARIABLES
  source,     \* source[l]: the serials revoked at the CA
  mark,       \* mark[l]: the recorded high-water mark, 0 before the first
  recorded,   \* recorded[l]: the bundle recorded at that mark
  file,       \* file[l]: the bundle at the configured destination
  served,     \* served[l]: the bundle in the scope map
  known,      \* known[l]: known_revoked of the signer loop
  seeded,     \* the signer loop has seeded known_revoked
  wakes,      \* wakes of the signer loop since the last scheduled pass
  up,         \* the server process is running
  pass,       \* the pass that holds the sources mutex
  pc,         \* where that pass is
  todo,       \* the labels the pass still has to produce
  draft,      \* the snapshot and the epoch of the bundle being produced
  current,    \* the revoked set the urgent pass compared
  signed,     \* the bundles this pass has written, by label
  before,     \* the sources when the pass took the mutex
  made,       \* number of bundles produced so far
  announced   \* the <<label, bundle>> pairs announced to the mesh

sourceVars == <<source>>
storeVars  == <<mark, recorded, served>>
loopVars   == <<known, seeded, wakes>>
passVars   == <<pass, pc, todo, draft, current, signed, before>>
vars       == <<sourceVars, storeVars, file, loopVars, up, passVars, made,
                announced>>

NoBundles == [l \in Label |-> None]
NoDraft   == [epoch |-> 0, revoked |-> {}]

-----------------------------------------------------------------------------
(* The sources mutex *)

\* A pass may still produce a bundle for every label within the bound.
Affordable(labels) == made + Len(labels) <= MaxMade

Lock(p, place, labels) ==
  /\ pass = "none"
  /\ pass' = p
  /\ pc' = place
  /\ todo' = labels
  /\ draft' = NoDraft
  /\ current' = {}
  /\ signed' = NoBundles
  /\ before' = source

Unlock ==
  /\ pass' = "none"
  /\ pc' = "idle"
  /\ todo' = <<>>
  /\ draft' = NoDraft
  /\ current' = {}
  /\ signed' = NoBundles
  /\ before' = [l \in Label |-> {}]

-----------------------------------------------------------------------------
(* Passes *)

\* run_server: the initial production happens before anything is loaded.
Start ==
  /\ ~up
  /\ Affordable(Order)
  /\ up' = TRUE
  /\ Lock("start", "snapshot", Order)
  /\ UNCHANGED <<source, storeVars, file, loopVars, made, announced>>

\* The process is serving: its initial load is over.
Serving == up /\ \E l \in Label : served[l] # None

\* run_signer_loop: seed known_revoked, which Rebase does under the mutex.
Seed ==
  /\ Serving
  /\ ~seeded
  /\ seeded' = TRUE
  /\ Lock("seed", "rebase", <<>>)
  /\ UNCHANGED <<source, storeVars, file, known, wakes, up, made, announced>>

\* Mutant: the scheduled pass comes one wake late.
DueLate == wakes + 1 > WakesPerPass

Due == wakes + 1 >= WakesPerPass

\* Between two scheduled passes.
WakeUrgent ==
  /\ Serving
  /\ seeded
  /\ Urgent # {}
  /\ ~Due
  /\ Affordable(Order)
  /\ wakes' = wakes + 1
  /\ Lock("urgent", "compare", Order)
  /\ UNCHANGED <<source, storeVars, file, known, seeded, up, made, announced>>

WakeScheduled ==
  /\ Serving
  /\ seeded
  /\ Due \/ Urgent = {}
  /\ Affordable(Order)
  /\ wakes' = 0
  /\ Lock("scheduled", "prepare", Order)
  /\ UNCHANGED <<source, storeVars, file, known, seeded, up, made, announced>>

\* admin sign_all and sign_ca.
sign_all ==
  /\ "sign" \in Operators
  /\ Serving
  /\ Affordable(Order)
  /\ Lock("admin", "snapshot", Order)
  /\ UNCHANGED <<source, storeVars, file, loopVars, up, made, announced>>

sign_ca(l) ==
  /\ "sign" \in Operators
  /\ Serving
  /\ Affordable(<<l>>)
  /\ Lock("admin", "snapshot", <<l>>)
  /\ UNCHANGED <<source, storeVars, file, loopVars, up, made, announced>>

\* admin rotate_ca: the rotation command runs under the mutex.
rotate_ca ==
  /\ "rotate" \in Operators
  /\ Serving
  /\ Lock("admin", "rotate", <<>>)
  /\ UNCHANGED <<source, storeVars, file, loopVars, up, made, announced>>

-----------------------------------------------------------------------------
(* Production of one label *)

\* Mutant: the urgent pass stays with its label.
NextLabelStuck ==
  IF Len(todo) > 1
    THEN /\ pc' = "compare"
         /\ draft' = NoDraft
         /\ current' = {}
         /\ signed' = NoBundles
         /\ UNCHANGED <<pass, todo, before>>
    ELSE Unlock

\* The urgent pass goes on with its next label.
NextLabel ==
  IF Len(todo) > 1
    THEN /\ pc' = "compare"
         /\ todo' = Tail(todo)
         /\ draft' = NoDraft
         /\ current' = {}
         /\ signed' = NoBundles
         /\ UNCHANGED <<pass, before>>
    ELSE Unlock

\* Production failed: the urgent pass skips the label, the scheduled pass
\* goes straight to its new baseline, the initial pass ends the process.
Abort ==
  \/ /\ pass = "urgent"
     /\ NextLabel
     /\ UNCHANGED <<storeVars, loopVars, up>>
  \/ /\ pass = "scheduled"
     /\ pc' = "rebase"
     /\ UNCHANGED <<storeVars, loopVars, up, pass, todo, draft, current, signed,
                    before>>
  \/ /\ pass = "admin"
     /\ Unlock
     /\ UNCHANGED <<storeVars, loopVars, up>>
  \/ /\ pass = "start"
     /\ Unlock
     /\ up' = FALSE
     /\ UNCHANGED <<storeVars, loopVars>>

\* The urgent pass compares the source with known_revoked.
Compare ==
  /\ pc = "compare"
  /\ LET l == Head(todo) IN
       \/ /\ l \notin Urgent \/ source[l] \subseteq known[l]
          /\ NextLabel
       \/ /\ l \in Urgent
          /\ ~(source[l] \subseteq known[l])
          /\ current' = source[l]
          /\ pc' = "prepare"
          /\ UNCHANGED <<pass, todo, draft, signed, before>>
       \/ /\ l \in Urgent
          /\ "source" \in Faults
          /\ NextLabel
  /\ UNCHANGED <<source, storeVars, file, loopVars, up, made, announced>>

\* prepare_signer_material and reload_live_signer.
Prepare ==
  /\ pc = "prepare"
  /\ pc' = "snapshot"
  /\ UNCHANGED <<source, storeVars, file, loopVars, up, pass, todo, draft,
                 current, signed, before, made, announced>>

\* One CA's bad material stops the scheduled pass for all of them.
PrepareFails ==
  /\ pc = "prepare"
  /\ "material" \in Faults
  /\ IF pass = "urgent" THEN NextLabel ELSE Unlock
  /\ UNCHANGED <<source, storeVars, file, loopVars, up, made, announced>>

\* Mutant: the revocations of the last bundle are signed again.
SnapshotCached ==
  /\ pc = "snapshot"
  /\ draft' = [NoDraft EXCEPT !.revoked =
                 IF file[Head(todo)] = None THEN source[Head(todo)]
                 ELSE file[Head(todo)].revoked]
  /\ pc' = "epoch"
  /\ UNCHANGED <<source, storeVars, file, loopVars, up, pass, todo, current,
                 signed, before, made, announced>>

\* sign_ca_scope: first the snapshot of the source, then the epoch.
Snapshot ==
  /\ pc = "snapshot"
  /\ draft' = [NoDraft EXCEPT !.revoked = source[Head(todo)]]
  /\ pc' = "epoch"
  /\ UNCHANGED <<source, storeVars, file, loopVars, up, pass, todo, current,
                 signed, before, made, announced>>

SnapshotFails ==
  /\ pc = "snapshot"
  /\ "source" \in Faults
  /\ Abort
  /\ UNCHANGED <<source, file, made, announced>>

\* The epoch follows the recorded mark, never the file that is there.
DeriveEpoch ==
  /\ pc = "epoch"
  /\ draft' = [draft EXCEPT !.epoch = mark[Head(todo)] + 1]
  /\ pc' = "write"
  /\ UNCHANGED <<source, storeVars, file, loopVars, up, pass, todo, current,
                 signed, before, made, announced>>

Produced == [epoch |-> draft.epoch, revoked |-> draft.revoked, id |-> made + 1]

\* write_bundle, and for the urgent pass the new baseline of the label.
WriteBundle ==
  /\ pc = "write"
  /\ LET l == Head(todo) IN
       /\ file' = [file EXCEPT ![l] = Produced]
       /\ signed' = [signed EXCEPT ![l] = Produced]
       /\ known' = IF pass = "urgent" THEN [known EXCEPT ![l] = current] ELSE known
  /\ made' = made + 1
  /\ IF pass # "urgent" /\ Len(todo) > 1
       THEN /\ todo' = Tail(todo)
            /\ draft' = NoDraft
            /\ pc' = "snapshot"
       ELSE /\ pc' = "reload"
            /\ UNCHANGED <<todo, draft>>
  /\ UNCHANGED <<source, storeVars, seeded, wakes, up, pass, current, before,
                 announced>>

WriteFails ==
  /\ pc = "write"
  /\ "write" \in Faults
  /\ Abort
  /\ UNCHANGED <<source, file, made, announced>>

\* The file is replaced and the directory fsync fails: also an error.
WriteUncertain ==
  /\ pc = "write"
  /\ "fsync" \in Faults
  /\ file' = [file EXCEPT ![Head(todo)] = Produced]
  /\ made' = made + 1
  /\ Abort
  /\ UNCHANGED <<source, announced>>

-----------------------------------------------------------------------------
(* Loading what was produced *)

\* check_rollback: a later epoch, or the recorded bundle again.
Accepts(l) ==
  /\ file[l] # None
  /\ \/ file[l].epoch > mark[l]
     \/ file[l] = recorded[l]

\* All files are accepted and recorded, or none.
LoadAll ==
  /\ \A l \in Label : Accepts(l)
  /\ mark' = [l \in Label |-> file[l].epoch]
  /\ recorded' = file
  /\ served' = file

CannotLoad == "load" \in Faults \/ \E l \in Label : ~Accepts(l)

ReloadAfterPass ==
  /\ pc = "reload"
  /\ LoadAll
  /\ pc' = "announce"
  /\ UNCHANGED <<source, file, loopVars, up, pass, todo, draft, current, signed,
                 before, made, announced>>

\* Mutant: the bundles are announced although they could not be loaded.
LoadFailsUnnoticed ==
  /\ pc = "reload"
  /\ CannotLoad
  /\ pc' = "announce"
  /\ UNCHANGED <<source, storeVars, file, loopVars, up, pass, todo, draft,
                 current, signed, before, made, announced>>

\* The initial load falls back to the recorded bundles, or the process ends.
LoadFails ==
  /\ pc = "reload"
  /\ CannotLoad
  /\ IF pass = "start"
       THEN /\ Unlock
            /\ IF \A l \in Label : recorded[l] # None
                 THEN served' = recorded /\ up' = TRUE
                 ELSE up' = FALSE /\ UNCHANGED served
            /\ UNCHANGED <<mark, recorded, loopVars>>
       ELSE Abort
  /\ UNCHANGED <<source, file, made, announced>>

\* announce_bundle_scopes for every bundle of the pass; at startup gossip is
\* not running yet.
Announce ==
  /\ pc = "announce"
  /\ announced' =
       IF pass = "start" THEN announced
       ELSE announced \cup {<<l, signed[l]>> : l \in {m \in Label : signed[m] # None}}
  /\ IF pass = "urgent" THEN NextLabel
     ELSE IF pass = "scheduled"
            THEN /\ pc' = "rebase"
                 /\ UNCHANGED <<pass, todo, draft, current, signed, before>>
            ELSE Unlock
  /\ UNCHANGED <<source, storeVars, file, loopVars, up, made>>

\* The scheduled pass takes a new baseline, whatever became of it.  A failed
\* snapshot leaves the label's baseline.
Rebase ==
  /\ pc = "rebase"
  /\ \E got \in IF "source" \in Faults THEN SUBSET Urgent ELSE {Urgent} :
       known' = [l \in Label |-> IF l \in got THEN source[l] ELSE known[l]]
  /\ Unlock
  /\ UNCHANGED <<source, storeVars, file, seeded, wakes, up, made, announced>>

\* The command has ended, well or not: reload_live_signer, and the answer.
Rotated ==
  /\ pc = "rotate"
  /\ Unlock
  /\ UNCHANGED <<source, storeVars, file, loopVars, up, made, announced>>

\* admin reload_bundles: without the sources mutex.
reload_bundles ==
  /\ "reload" \in Operators
  /\ Serving
  /\ LoadAll
  /\ UNCHANGED <<source, file, loopVars, up, passVars, made, announced>>

-----------------------------------------------------------------------------
(* Environment *)

Revoke(l, s) ==
  /\ source' = [source EXCEPT ![l] = @ \cup {s}]
  /\ UNCHANGED <<storeVars, file, loopVars, up, passVars, made, announced>>

\* Where a pass waits for something outside: a snapshot of a source, the rotation
\* command, the HSM.
Outside ==
  \/ pc \in {"prepare", "snapshot", "write", "rotate"}
  \/ pc = "compare" /\ Head(todo) \in Urgent
  \/ pc = "rebase" /\ Urgent # {}

\* The call never returns: run_rotation_command, the LDAP connection and the HSM
\* set no timeout.  The pass keeps the mutex and what it had in hand is lost.
Hang ==
  /\ "hang" \in Faults
  /\ Outside
  /\ pc' = "hung"
  /\ todo' = <<>>
  /\ draft' = NoDraft
  /\ current' = {}
  /\ signed' = NoBundles
  /\ UNCHANGED <<source, storeVars, file, loopVars, up, pass, before, made, announced>>

\* The process dies; files and marks stay.
Kill ==
  /\ "kill" \in Faults
  /\ up
  /\ up' = FALSE
  /\ served' = NoBundles
  /\ known' = [l \in Label |-> {}]
  /\ seeded' = FALSE
  /\ wakes' = 0
  /\ Unlock
  /\ UNCHANGED <<source, mark, recorded, file, made, announced>>

Init ==
  /\ source = [l \in Label |-> {}]
  /\ mark = [l \in Label |-> 0]
  /\ recorded = NoBundles
  /\ file = NoBundles
  /\ served = NoBundles
  /\ known = [l \in Label |-> {}]
  /\ seeded = FALSE
  /\ wakes = 0
  /\ up = FALSE
  /\ pass = "none"
  /\ pc = "idle"
  /\ todo = <<>>
  /\ draft = NoDraft
  /\ current = {}
  /\ signed = NoBundles
  /\ before = [l \in Label |-> {}]
  /\ made = 0
  /\ announced = {}

Passes == Start \/ Seed \/ WakeUrgent \/ WakeScheduled \/ sign_all \/ rotate_ca
          \/ \E l \in Label : sign_ca(l)

Produce == Compare \/ Prepare \/ PrepareFails \/ Snapshot \/ SnapshotFails
           \/ DeriveEpoch \/ WriteBundle \/ WriteFails \/ WriteUncertain

Finish == ReloadAfterPass \/ LoadFails \/ Announce \/ Rebase \/ Rotated

Environment == reload_bundles \/ Hang \/ Kill
               \/ \E l \in Label, s \in Serial : Revoke(l, s)

Next == Passes \/ Produce \/ Finish \/ Environment

Spec == Init /\ [][Next]_vars

\* A pass that holds the mutex goes on unless a call of it hangs: its steps are one
\* task of the runtime.
FairSpec == Spec /\ WF_vars(Produce \/ Finish)

-----------------------------------------------------------------------------
(* Properties *)

TypeOK ==
  /\ source \in [Label -> SUBSET Serial]
  /\ mark \in [Label -> Nat]
  /\ recorded \in [Label -> BundleOf \cup {None}]
  /\ file \in [Label -> BundleOf \cup {None}]
  /\ served \in [Label -> BundleOf \cup {None}]
  /\ known \in [Label -> SUBSET Serial]
  /\ seeded \in BOOLEAN
  /\ wakes \in 0..(WakesPerPass - 1)
  /\ up \in BOOLEAN
  /\ pass \in {"none", "start", "seed", "scheduled", "urgent", "admin"}
  /\ pc \in {"idle", "compare", "prepare", "snapshot", "epoch", "write",
             "reload", "announce", "rebase", "rotate", "hung"}
  /\ todo \in Seq(Label)
  /\ draft \in [epoch : Nat, revoked : SUBSET Serial]
  /\ current \in SUBSET Serial
  /\ signed \in [Label -> BundleOf \cup {None}]
  /\ before \in [Label -> SUBSET Serial]
  /\ made \in Nat
  /\ announced \in SUBSET (Label \X BundleOf)

\* The mesh never hears of a generation this node would not serve itself:
\* every announced bundle is the recorded one or an older one, whichever
\* passes, reloads, failures and restarts came between.
AnnouncedIsRecorded ==
  \A a \in announced :
    \/ recorded[a[1]] = a[2]
    \/ mark[a[1]] > a[2].epoch

\* When a pass has reloaded, everything that was revoked before it took the
\* mutex is served for the labels it produced.
PassCovers ==
  pc = "announce" =>
    \A l \in Label :
      signed[l] # None => before[l] \subseteq served[l].revoked

\* The baseline of the urgent check holds only revocations that the pass just
\* produced ("Re-baseline the urgent-revocation sets against the state just
\* produced, so the next off-cycle check only fires on revocations newer than
\* this scheduled pass").
BaselineIsProduced ==
  [][pass = "scheduled" /\ pc = "rebase" =>
       \A l \in Label :
         known'[l] # known[l] =>
           (file[l] # None /\ known'[l] \subseteq file[l].revoked)]_known

\* Every way a pass can go ends in the release of the mutex: success, a label that
\* is skipped, an error of a source, a key, a write or a load, or the death of the
\* process.  The one exception is a call outside that never returns: nothing
\* but the end of the process takes the mutex from a pass that hangs.
LockIsReleased == (pass # "none") ~> (pass = "none" \/ pc = "hung")
=============================================================================
