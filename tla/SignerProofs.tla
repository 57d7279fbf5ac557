------------------------------ MODULE SignerProofs ------------------------------
(***************************************************************************)
(* Proofs about Signer, for every number of CAs in every order, every      *)
(* schedule and every combination of faults and operator calls.            *)
(***************************************************************************)
EXTENDS Signer, TLAPS

-----------------------------------------------------------------------------
(* The inductive invariant *)

StoreType ==
  /\ source \in [Label -> SUBSET Serial]
  /\ mark \in [Label -> Nat]
  /\ recorded \in [Label -> BundleOf \cup {None}]
  /\ file \in [Label -> BundleOf \cup {None}]
  /\ served \in [Label -> BundleOf \cup {None}]
  /\ made \in Nat
  /\ announced \in SUBSET (Label \X BundleOf)

LoopType ==
  /\ known \in [Label -> SUBSET Serial]
  /\ seeded \in BOOLEAN
  /\ wakes \in 0..(WakesPerPass - 1)
  /\ up \in BOOLEAN

PassType ==
  /\ pass \in {"none", "start", "seed", "scheduled", "urgent", "admin"}
  /\ pc \in {"idle", "compare", "prepare", "snapshot", "epoch", "write",
             "reload", "announce", "rebase", "rotate", "hung"}
  /\ todo \in Seq(Label)
  /\ draft \in [epoch : Nat, revoked : SUBSET Serial]
  /\ current \in SUBSET Serial
  /\ signed \in [Label -> BundleOf \cup {None}]
  /\ before \in [Label -> SUBSET Serial]

\* The mark is the epoch of the recorded bundle.
Marked == \A l \in Label : recorded[l] # None => recorded[l].epoch = mark[l]

\* A pass that produces has a label to produce.
Pending ==
  pc \in {"compare", "prepare", "snapshot", "epoch", "write"} => todo # <<>>

\* Sources only grow: what was revoked when the pass began still is.
Grown == \A l \in Label : before[l] \subseteq source[l]

\* The draft was taken from its source after the pass began.
Drafted == pc \in {"epoch", "write"} => before[Head(todo)] \subseteq draft.revoked

\* What the pass has written is on disk, until a failed write ends it.
Written ==
  pc # "rebase" => \A l \in Label : signed[l] # None => file[l] = signed[l]

\* What the pass has written carries what was revoked when it began.
Covered == \A l \in Label : signed[l] # None => before[l] \subseteq signed[l].revoked

\* From the reload of a pass to its announcement the files are recorded and
\* served, also when an operator's reload comes between.
Loaded == pc = "announce" => recorded = file /\ served = file

PassInv ==
  /\ Pending
  /\ Grown
  /\ Drafted
  /\ Written
  /\ Covered
  /\ Loaded

IndInv ==
  /\ StoreType
  /\ LoopType
  /\ PassType
  /\ Marked
  /\ PassInv
  /\ AnnouncedIsRecorded

-----------------------------------------------------------------------------
(* The mutex *)

\* Constants of the pass.
LEMMA Blank ==
  /\ NoDraft \in [epoch : Nat, revoked : SUBSET Serial]
  /\ NoBundles \in [Label -> BundleOf \cup {None}]
  /\ \A l \in Label : NoBundles[l] = None
  /\ Order \in Seq(Label)
  /\ Order # <<>>
BY ConfigAssumption DEF NoDraft, NoBundles

\* A pass that takes the mutex starts from nothing.
LEMMA LockStep ==
  ASSUME StoreType, UNCHANGED source,
         NEW p \in {"start", "seed", "scheduled", "urgent", "admin"},
         NEW place \in {"compare", "prepare", "snapshot", "rebase", "rotate"},
         NEW labels \in Seq(Label),
         labels # <<>> \/ place \in {"rebase", "rotate"},
         Lock(p, place, labels)
  PROVE  PassType' /\ PassInv'
<1>1. PassType'
  BY Blank DEF Lock, PassType, StoreType
<1>2. Pending' /\ Grown' /\ Drafted' /\ Loaded'
  BY DEF Lock, StoreType, Pending, Grown, Drafted, Loaded
<1>3. Written' /\ Covered'
  BY Blank DEF Lock, Written, Covered
<1> QED
  BY <1>1, <1>2, <1>3 DEF PassInv

\* A pass that releases it leaves nothing.
LEMMA UnlockStep ==
  ASSUME Unlock PROVE PassType' /\ PassInv'
<1>1. PassType'
  BY Blank DEF Unlock, PassType
<1>2. Pending' /\ Grown' /\ Drafted' /\ Loaded'
  BY DEF Unlock, Pending, Grown, Drafted, Loaded
<1>3. Written' /\ Covered'
  BY Blank DEF Unlock, Written, Covered
<1> QED
  BY <1>1, <1>2, <1>3 DEF PassInv

\* So does the urgent pass, label by label.
LEMMA NextLabelStep ==
  ASSUME PassType, PassInv, UNCHANGED source, NextLabel
  PROVE  PassType' /\ PassInv'
<1>1. CASE Len(todo) > 1
  <2>1. /\ pc' = "compare"
        /\ todo' = Tail(todo)
        /\ draft' = NoDraft
        /\ current' = {}
        /\ signed' = NoBundles
        /\ pass' = pass
        /\ before' = before
    BY <1>1 DEF NextLabel
  <2>2. Tail(todo) \in Seq(Label) /\ Tail(todo) # <<>>
    <3>1. todo \in Seq(Label) /\ todo # <<>>
      BY <1>1 DEF PassType
    <3>2. Tail(todo) \in Seq(Label) /\ Len(Tail(todo)) = Len(todo) - 1
      BY <3>1
    <3>3. Len(Tail(todo)) # 0
      BY <1>1, <3>1, <3>2, SMTT(30)
    <3> QED
      BY <3>2, <3>3, SMTT(30)
  <2>3. PassType'
    BY <2>1, <2>2, Blank DEF PassType
  <2>4. Pending' /\ Grown' /\ Drafted' /\ Loaded'
    BY <2>1, <2>2 DEF PassInv, Pending, Grown, Drafted, Loaded
  <2>5. Written' /\ Covered'
    BY <2>1, Blank DEF Written, Covered
  <2> QED
    BY <2>3, <2>4, <2>5 DEF PassInv
<1>2. CASE ~(Len(todo) > 1)
  BY <1>2, UnlockStep DEF NextLabel
<1> QED
  BY <1>1, <1>2

\* A failed production, whatever it did to the file.
LEMMA AbortStep ==
  ASSUME PassType, LoopType, PassInv, UNCHANGED source, Abort
  PROVE  /\ PassType'
         /\ LoopType'
         /\ PassInv'
         /\ UNCHANGED storeVars
<1>1. LoopType' /\ UNCHANGED storeVars
  BY DEF Abort, loopVars, LoopType
<1>2. CASE pass = "urgent" /\ NextLabel
  BY <1>1, <1>2, NextLabelStep
<1>3. CASE Unlock
  BY <1>1, <1>3, UnlockStep
<1>4. CASE /\ pc' = "rebase"
           /\ UNCHANGED <<pass, todo, draft, current, signed, before>>
  <2>1. PassType'
    BY <1>4 DEF PassType
  <2>2. PassInv'
    BY <1>4 DEF PassInv, Pending, Grown, Drafted, Written, Covered, Loaded
  <2> QED
    BY <1>1, <2>1, <2>2
<1> QED
  BY <1>2, <1>3, <1>4 DEF Abort

-----------------------------------------------------------------------------
(* Loading *)

\* A reload records the files: marks do not go back, and what was recorded is
\* still recorded or is behind the mark.
LEMMA LoadStep ==
  ASSUME StoreType, Marked, AnnouncedIsRecorded, LoadAll,
         UNCHANGED <<source, file, made, announced>>
  PROVE  /\ StoreType'
         /\ Marked'
         /\ AnnouncedIsRecorded'
         /\ recorded' = file'
         /\ served' = file'
<1>1. /\ \A l \in Label : Accepts(l)
      /\ mark' = [l \in Label |-> file[l].epoch]
      /\ recorded' = file
      /\ served' = file
  BY DEF LoadAll
<1>2. \A l \in Label : file[l] \in BundleOf /\ file[l].epoch \in Nat
  BY <1>1 DEF Accepts, StoreType, BundleOf
<1>3. StoreType'
  BY <1>1, <1>2 DEF StoreType
<1>4. Marked'
  BY <1>1 DEF Marked
<1>5. ASSUME NEW a \in announced
      PROVE  recorded'[a[1]] = a[2] \/ mark'[a[1]] > a[2].epoch
  <2> DEFINE l == a[1]
  <2>1. l \in Label /\ a[2] \in BundleOf /\ a[2].epoch \in Nat
    BY DEF StoreType, BundleOf
  <2>2. /\ mark[l] \in Nat
        /\ mark'[l] = file[l].epoch
        /\ recorded'[l] = file[l]
        /\ file[l].epoch \in Nat
        /\ file[l] # None
        /\ file[l].epoch > mark[l] \/ file[l] = recorded[l]
        /\ recorded[l] # None => recorded[l].epoch = mark[l]
        /\ recorded[l] = a[2] \/ mark[l] > a[2].epoch
    BY <1>1, <1>2, <2>1 DEF StoreType, Accepts, Marked, AnnouncedIsRecorded
  <2>3. a[2] # None
    BY <2>1, NoneAssumption
  <2> HIDE DEF l
  <2> QED
    BY <2>1, <2>2, <2>3 DEF l
<1>6. AnnouncedIsRecorded'
  BY <1>5 DEF AnnouncedIsRecorded
<1> QED
  BY <1>1, <1>3, <1>4, <1>6

-----------------------------------------------------------------------------
(* Steps *)

\* The store is as it was.
LEMMA SameStore ==
  ASSUME IndInv, UNCHANGED <<source, storeVars, file, made, announced>>
  PROVE  StoreType' /\ Marked' /\ AnnouncedIsRecorded'
BY DEF IndInv, storeVars, StoreType, Marked, AnnouncedIsRecorded

\* A pass takes the mutex.
LEMMA PassesStep ==
  ASSUME IndInv, Passes PROVE IndInv'
<1>1. WakesPerPass \in Nat \ {0}
  BY ConfigAssumption
<1>2. StoreType /\ LoopType /\ wakes \in Nat
  BY <1>1 DEF IndInv, LoopType
<1>3. UNCHANGED <<source, storeVars, file, made, announced>>
  BY DEF Passes, Start, Seed, WakeUrgent, WakeScheduled, sign_all, sign_ca, rotate_ca
<1>4. StoreType' /\ Marked' /\ AnnouncedIsRecorded'
  BY <1>3, SameStore
<1>5. LoopType'
  <2>1. CASE Start
    BY <1>2, <2>1 DEF Start, loopVars, LoopType
  <2>2. CASE Seed
    BY <1>2, <2>2 DEF Seed, LoopType
  <2>3. CASE WakeUrgent
    BY <1>1, <1>2, <2>3 DEF WakeUrgent, Due, LoopType
  <2>4. CASE WakeScheduled
    BY <1>1, <1>2, <2>4 DEF WakeScheduled, LoopType
  <2>5. CASE sign_all \/ rotate_ca \/ \E l \in Label : sign_ca(l)
    BY <1>2, <2>5 DEF sign_all, sign_ca, rotate_ca, loopVars, LoopType
  <2> QED
    BY <2>1, <2>2, <2>3, <2>4, <2>5 DEF Passes
<1>6. PassType' /\ PassInv'
  <2>0. <<>> \in Seq(Label)
    OBVIOUS
  <2>1. ASSUME NEW l \in Label PROVE <<l>> \in Seq(Label) /\ <<l>> # <<>>
    OBVIOUS
  <2>2. source' = source
    BY <1>3
  <2>3. CASE Start
    BY <1>2, <2>2, <2>3, Blank, LockStep DEF Start
  <2>4. CASE Seed
    BY <1>2, <2>0, <2>2, <2>4, LockStep DEF Seed
  <2>5. CASE WakeUrgent
    BY <1>2, <2>2, <2>5, Blank, LockStep DEF WakeUrgent
  <2>6. CASE WakeScheduled
    BY <1>2, <2>2, <2>6, Blank, LockStep DEF WakeScheduled
  <2>7. CASE sign_all
    BY <1>2, <2>2, <2>7, Blank, LockStep DEF sign_all
  <2>8. ASSUME NEW l \in Label, sign_ca(l) PROVE PassType' /\ PassInv'
    BY <1>2, <2>1, <2>2, <2>8, LockStep DEF sign_ca
  <2>9. CASE rotate_ca
    BY <1>2, <2>0, <2>2, <2>9, LockStep DEF rotate_ca
  <2> QED
    BY <2>3, <2>4, <2>5, <2>6, <2>7, <2>8, <2>9 DEF Passes
<1> QED
  BY <1>4, <1>5, <1>6 DEF IndInv

\* The label of a producing pass.
LEMMA HeadOfTodo ==
  ASSUME PassType, Pending,
         pc \in {"compare", "prepare", "snapshot", "epoch", "write"}
  PROVE  Head(todo) \in Label
BY DEF PassType, Pending

\* The bundle that is written is one, with what its draft carries.
LEMMA ProducedFacts ==
  ASSUME StoreType, PassType
  PROVE  /\ Produced \in BundleOf
         /\ Produced # None
         /\ Produced.revoked = draft.revoked
BY NoneAssumption DEF StoreType, PassType, Produced, BundleOf

\* Up to the epoch of a bundle nothing is written.
LEMMA DraftStep ==
  ASSUME IndInv, Compare \/ Prepare \/ PrepareFails \/ Snapshot \/ DeriveEpoch
  PROVE  IndInv'
<1>1. StoreType /\ LoopType /\ PassType /\ PassInv
  BY DEF IndInv
<1>2. UNCHANGED <<source, storeVars, file, loopVars, up, made, announced>>
  BY DEF Compare, Prepare, PrepareFails, Snapshot, DeriveEpoch
<1>3. StoreType' /\ Marked' /\ AnnouncedIsRecorded'
  BY <1>2, SameStore
<1>4. LoopType'
  BY <1>1, <1>2 DEF LoopType, loopVars
<1>5. source' = source
  BY <1>2
<1>6. CASE NextLabel
  BY <1>1, <1>3, <1>4, <1>5, <1>6, NextLabelStep DEF IndInv
<1>7. CASE Unlock
  BY <1>3, <1>4, <1>7, UnlockStep DEF IndInv
<1>8. CASE Compare /\ ~NextLabel
  <2>1. /\ pc = "compare"
        /\ current' = source[Head(todo)]
        /\ pc' = "prepare"
        /\ UNCHANGED <<pass, todo, draft, signed, before>>
    BY <1>8 DEF Compare
  <2>2. Head(todo) \in Label
    BY <1>1, <2>1, HeadOfTodo DEF PassInv
  <2>3. PassType'
    BY <1>1, <2>1, <2>2 DEF StoreType, PassType
  <2>4. PassInv'
    BY <1>1, <1>2, <2>1 DEF PassInv, Pending, Grown, Drafted, Written, Covered, Loaded
  <2> QED
    BY <1>3, <1>4, <2>3, <2>4 DEF IndInv
<1>9. CASE Prepare
  <2>1. PassType'
    BY <1>1, <1>9 DEF Prepare, PassType
  <2>2. PassInv'
    BY <1>1, <1>9 DEF Prepare, PassInv, Pending, Grown, Drafted, Written, Covered, Loaded
  <2> QED
    BY <1>3, <1>4, <2>1, <2>2 DEF IndInv
<1>10. CASE Snapshot
  <2>1. /\ pc = "snapshot"
        /\ draft' = [NoDraft EXCEPT !.revoked = source[Head(todo)]]
        /\ pc' = "epoch"
        /\ UNCHANGED <<source, file, pass, todo, current, signed, before>>
    BY <1>10 DEF Snapshot
  <2>2. Head(todo) \in Label
    BY <1>1, <2>1, HeadOfTodo DEF PassInv
  <2>3. /\ draft' \in [epoch : Nat, revoked : SUBSET Serial]
        /\ draft'.revoked = source[Head(todo)]
    BY <1>1, <2>1, <2>2 DEF NoDraft, StoreType
  <2>4. PassType'
    BY <1>1, <2>1, <2>3 DEF PassType
  <2>5. Drafted'
    BY <1>1, <2>1, <2>2, <2>3 DEF PassInv, Grown, Drafted
  <2>6. PassInv'
    BY <1>1, <2>1, <2>5 DEF PassInv, Pending, Grown, Written, Covered, Loaded
  <2> QED
    BY <1>3, <1>4, <2>4, <2>6 DEF IndInv
<1>11. CASE DeriveEpoch
  <2>1. /\ pc = "epoch"
        /\ draft' = [draft EXCEPT !.epoch = mark[Head(todo)] + 1]
        /\ pc' = "write"
        /\ UNCHANGED <<source, file, pass, todo, current, signed, before>>
    BY <1>11 DEF DeriveEpoch
  <2>2. Head(todo) \in Label /\ mark[Head(todo)] + 1 \in Nat
    BY <1>1, <2>1, HeadOfTodo DEF PassInv, StoreType
  <2>3. /\ draft' \in [epoch : Nat, revoked : SUBSET Serial]
        /\ draft'.revoked = draft.revoked
    BY <1>1, <2>1, <2>2 DEF PassType
  <2>4. PassType'
    BY <1>1, <2>1, <2>3 DEF PassType
  <2>5. Drafted'
    BY <1>1, <2>1, <2>3 DEF PassInv, Drafted
  <2>6. PassInv'
    BY <1>1, <2>1, <2>5 DEF PassInv, Pending, Grown, Written, Covered, Loaded
  <2> QED
    BY <1>3, <1>4, <2>4, <2>6 DEF IndInv
<1> QED
  BY <1>6, <1>7, <1>8, <1>9, <1>10, <1>11 DEF PrepareFails

\* A bundle is written: it is the one on disk, and carries what was revoked when
\* the pass began.
LEMMA WriteStep ==
  ASSUME IndInv, WriteBundle PROVE IndInv'
<1> DEFINE l == Head(todo)
<1>1. /\ pc = "write"
      /\ file' = [file EXCEPT ![l] = Produced]
      /\ signed' = [signed EXCEPT ![l] = Produced]
      /\ known' \in {known, [known EXCEPT ![l] = current]}
      /\ made' = made + 1
      /\ \/ /\ Len(todo) > 1
            /\ todo' = Tail(todo)
            /\ draft' = NoDraft
            /\ pc' = "snapshot"
         \/ /\ pc' = "reload"
            /\ todo' = todo
            /\ draft' = draft
      /\ UNCHANGED <<source, storeVars, seeded, wakes, up, pass, current, before,
                     announced>>
  BY DEF WriteBundle
<1>2. StoreType /\ LoopType /\ PassType /\ PassInv
  BY DEF IndInv
<1>3. l \in Label
  BY <1>1, <1>2, HeadOfTodo DEF PassInv
<1>4. /\ Produced \in BundleOf
      /\ Produced # None
      /\ Produced.revoked = draft.revoked
  BY <1>2, ProducedFacts
<1>5. before[l] \subseteq Produced.revoked
  BY <1>1, <1>2, <1>4 DEF PassInv, Drafted
<1>6. Len(todo) > 1 => Tail(todo) \in Seq(Label) /\ Tail(todo) # <<>>
  <2> SUFFICES ASSUME Len(todo) > 1
               PROVE  Tail(todo) \in Seq(Label) /\ Tail(todo) # <<>>
    OBVIOUS
  <2>1. todo \in Seq(Label) /\ todo # <<>>
    BY <1>2 DEF PassType
  <2>2. Tail(todo) \in Seq(Label) /\ Len(Tail(todo)) = Len(todo) - 1
    BY <2>1
  <2>3. Len(Tail(todo)) # 0
    BY <2>1, <2>2
  <2> QED
    BY <2>2, <2>3
<1> HIDE DEF l
<1>7. StoreType'
  BY <1>1, <1>2, <1>3, <1>4 DEF StoreType, storeVars
<1>8. LoopType'
  BY <1>1, <1>2, <1>3 DEF LoopType, PassType
<1>9. PassType'
  BY <1>1, <1>2, <1>3, <1>4, <1>6, Blank DEF PassType
<1>10. Marked' /\ AnnouncedIsRecorded'
  BY <1>1 DEF storeVars, IndInv, Marked, AnnouncedIsRecorded
<1>11. Pending' /\ Grown' /\ Drafted' /\ Loaded'
  BY <1>1, <1>2, <1>6 DEF PassInv, Pending, Grown, Drafted, Loaded
<1>12. ASSUME NEW m \in Label, signed'[m] # None
       PROVE  file'[m] = signed'[m] /\ before'[m] \subseteq signed'[m].revoked
  <2>1. CASE m = l
    BY <1>1, <1>2, <1>5, <2>1 DEF StoreType, PassType
  <2>2. CASE m # l
    BY <1>1, <1>2, <1>12, <2>2 DEF StoreType, PassType, PassInv, Written, Covered
  <2> QED
    BY <2>1, <2>2
<1>13. Written' /\ Covered'
  BY <1>12 DEF Written, Covered
<1> QED
  BY <1>7, <1>8, <1>9, <1>10, <1>11, <1>13 DEF IndInv, PassInv

\* A production that fails, before the write, in it, or after the rename.
LEMMA FailStep ==
  ASSUME IndInv, SnapshotFails \/ WriteFails \/ WriteUncertain PROVE IndInv'
<1>1. StoreType /\ LoopType /\ PassType /\ PassInv
  BY DEF IndInv
<1>2. Abort /\ UNCHANGED <<source, announced>>
  BY DEF SnapshotFails, WriteFails, WriteUncertain
<1>3. PassType' /\ LoopType' /\ PassInv' /\ UNCHANGED storeVars
  BY <1>1, <1>2, AbortStep
<1>4. /\ file' \in [Label -> BundleOf \cup {None}]
      /\ made' \in Nat
  <2>1. CASE SnapshotFails \/ WriteFails
    BY <1>1, <2>1 DEF SnapshotFails, WriteFails, StoreType
  <2>2. CASE WriteUncertain
    <3>1. Head(todo) \in Label
      BY <1>1, <2>2, HeadOfTodo DEF WriteUncertain, PassInv
    <3>2. Produced \in BundleOf
      BY <1>1, ProducedFacts
    <3> QED
      BY <1>1, <2>2, <3>1, <3>2 DEF WriteUncertain, StoreType
  <2> QED
    BY <2>1, <2>2
<1>5. StoreType'
  BY <1>1, <1>2, <1>3, <1>4 DEF StoreType, storeVars
<1>6. Marked' /\ AnnouncedIsRecorded'
  BY <1>2, <1>3 DEF storeVars, IndInv, Marked, AnnouncedIsRecorded
<1> QED
  BY <1>3, <1>5, <1>6 DEF IndInv

\* A pass loads what it produced, or fails to.
LEMMA ReloadStep ==
  ASSUME IndInv, ReloadAfterPass \/ LoadFails PROVE IndInv'
<1>1. StoreType /\ LoopType /\ PassType /\ PassInv /\ Marked /\ AnnouncedIsRecorded
  BY DEF IndInv
<1>2. CASE ReloadAfterPass
  <2>1. /\ pc = "reload"
        /\ LoadAll
        /\ pc' = "announce"
        /\ UNCHANGED <<source, file, loopVars, up, pass, todo, draft, current, signed,
                       before, made, announced>>
    BY <1>2 DEF ReloadAfterPass
  <2>2. /\ StoreType' /\ Marked' /\ AnnouncedIsRecorded'
        /\ recorded' = file' /\ served' = file'
    BY <1>1, <2>1, LoadStep
  <2>3. LoopType'
    BY <1>1, <2>1 DEF LoopType, loopVars
  <2>4. PassType'
    BY <1>1, <2>1 DEF PassType
  <2>5. PassInv'
    BY <1>1, <2>1, <2>2 DEF PassInv, Pending, Grown, Drafted, Written, Covered, Loaded
  <2> QED
    BY <2>2, <2>3, <2>4, <2>5 DEF IndInv
<1>3. CASE LoadFails /\ pass # "start"
  <2>1. Abort /\ UNCHANGED <<source, file, made, announced>>
    BY <1>3 DEF LoadFails
  <2>2. PassType' /\ LoopType' /\ PassInv' /\ UNCHANGED storeVars
    BY <1>1, <2>1, AbortStep
  <2>3. StoreType' /\ Marked' /\ AnnouncedIsRecorded'
    BY <2>1, <2>2, SameStore
  <2> QED
    BY <2>2, <2>3 DEF IndInv
<1>4. CASE LoadFails /\ pass = "start"
  <2>1. /\ Unlock
        /\ served' \in {served, recorded}
        /\ up' \in BOOLEAN
        /\ UNCHANGED <<mark, recorded, loopVars, source, file, made, announced>>
    BY <1>4 DEF LoadFails
  <2>2. PassType' /\ PassInv'
    BY <2>1, UnlockStep
  <2>3. StoreType' /\ LoopType'
    BY <1>1, <2>1 DEF StoreType, LoopType, loopVars
  <2>4. Marked' /\ AnnouncedIsRecorded'
    BY <1>1, <2>1 DEF Marked, AnnouncedIsRecorded
  <2> QED
    BY <2>2, <2>3, <2>4 DEF IndInv
<1> QED
  BY <1>2, <1>3, <1>4

\* What a pass announces is what is recorded.
LEMMA AnnounceStep ==
  ASSUME IndInv, Announce PROVE IndInv'
<1>1. StoreType /\ LoopType /\ PassType /\ PassInv /\ Marked /\ AnnouncedIsRecorded
  BY DEF IndInv
<1>2. /\ pc = "announce"
      /\ announced' \in {announced, announced \cup
            {<<l, signed[l]>> : l \in {m \in Label : signed[m] # None}}}
      /\ \/ NextLabel
         \/ Unlock
         \/ /\ pc' = "rebase"
            /\ UNCHANGED <<pass, todo, draft, current, signed, before>>
      /\ UNCHANGED <<source, storeVars, file, loopVars, up, made>>
  BY DEF Announce
<1>3. \A l \in Label : signed[l] # None =>
        signed[l] \in BundleOf /\ signed[l] = recorded[l]
  BY <1>1, <1>2 DEF PassType, PassInv, Written, Loaded
<1>4. \A a \in announced' :
        a \in announced \/ (\E l \in Label : signed[l] # None /\ a = <<l, signed[l]>>)
  BY <1>2
<1>5. StoreType'
  <2>1. announced' \in SUBSET (Label \X BundleOf)
    BY <1>1, <1>3, <1>4 DEF StoreType
  <2> QED
    BY <1>1, <1>2, <2>1 DEF StoreType, storeVars
<1>6. AnnouncedIsRecorded'
  BY <1>1, <1>2, <1>3, <1>4 DEF AnnouncedIsRecorded, storeVars
<1>7. LoopType' /\ Marked'
  BY <1>1, <1>2 DEF LoopType, loopVars, Marked, storeVars
<1>8. PassType' /\ PassInv'
  <2>1. CASE NextLabel
    BY <1>1, <1>2, <2>1, NextLabelStep
  <2>2. CASE Unlock
    BY <2>2, UnlockStep
  <2>3. CASE /\ pc' = "rebase"
             /\ UNCHANGED <<pass, todo, draft, current, signed, before>>
    <3>1. PassType'
      BY <1>1, <2>3 DEF PassType
    <3>2. PassInv'
      BY <1>1, <1>2, <2>3 DEF PassInv, Pending, Grown, Drafted, Written, Covered, Loaded
    <3> QED
      BY <3>1, <3>2
  <2> QED
    BY <1>2, <2>1, <2>2, <2>3
<1> QED
  BY <1>5, <1>6, <1>7, <1>8 DEF IndInv

\* The scheduled pass takes a new baseline and ends.
LEMMA RebaseStep ==
  ASSUME IndInv, Rebase PROVE IndInv'
<1>1. /\ Unlock
      /\ UNCHANGED <<source, storeVars, file, seeded, wakes, up, made, announced>>
  BY DEF Rebase
<1>2. PICK got \in SUBSET Urgent :
        known' = [l \in Label |-> IF l \in got THEN source[l] ELSE known[l]]
  BY DEF Rebase
<1>3. LoopType'
  BY <1>1, <1>2 DEF IndInv, StoreType, LoopType
<1>4. StoreType' /\ Marked' /\ AnnouncedIsRecorded'
  BY <1>1, SameStore
<1> QED
  BY <1>1, <1>3, <1>4, UnlockStep DEF IndInv

\* rotate_ca ends.
LEMMA RotatedStep ==
  ASSUME IndInv, Rotated PROVE IndInv'
<1>1. Unlock /\ UNCHANGED <<source, storeVars, file, loopVars, up, made, announced>>
  BY DEF Rotated
<1>2. LoopType'
  BY <1>1 DEF IndInv, LoopType, loopVars
<1> QED
  BY <1>1, <1>2, SameStore, UnlockStep DEF IndInv

\* A call hangs: the pass has nothing in hand any more.
LEMMA HangStep ==
  ASSUME IndInv, Hang PROVE IndInv'
<1>1. /\ pc' = "hung"
      /\ todo' = <<>>
      /\ draft' = NoDraft
      /\ current' = {}
      /\ signed' = NoBundles
      /\ UNCHANGED <<source, storeVars, file, loopVars, up, pass, before, made, announced>>
  BY DEF Hang
<1>2. StoreType' /\ Marked' /\ AnnouncedIsRecorded'
  BY <1>1, SameStore
<1>3. LoopType' /\ PassType'
  BY <1>1, Blank DEF IndInv, LoopType, loopVars, PassType
<1>4. Pending' /\ Grown' /\ Drafted' /\ Loaded'
  BY <1>1 DEF IndInv, PassInv, Pending, Grown, Drafted, Loaded
<1>5. Written' /\ Covered'
  BY <1>1, Blank DEF Written, Covered
<1> QED
  BY <1>2, <1>3, <1>4, <1>5 DEF IndInv, PassInv

\* Operators, revocations, calls that hang and crashes.
LEMMA EnvironmentStep ==
  ASSUME IndInv, Environment PROVE IndInv'
<1>1. StoreType /\ LoopType /\ PassType /\ PassInv /\ Marked /\ AnnouncedIsRecorded
  BY DEF IndInv
<1>2. CASE reload_bundles
  <2>1. LoadAll /\ UNCHANGED <<source, file, loopVars, up, passVars, made, announced>>
    BY <1>2 DEF reload_bundles
  <2>2. /\ StoreType' /\ Marked' /\ AnnouncedIsRecorded'
        /\ recorded' = file' /\ served' = file'
    BY <1>1, <2>1, LoadStep
  <2>3. LoopType' /\ PassType'
    BY <1>1, <2>1 DEF LoopType, loopVars, PassType, passVars
  <2>4. PassInv'
    BY <1>1, <2>1, <2>2 DEF passVars, PassInv, Pending, Grown, Drafted, Written,
                            Covered, Loaded
  <2> QED
    BY <2>2, <2>3, <2>4 DEF IndInv
<1>3. CASE Kill
  <2>1. StoreType' /\ LoopType'
    <3>1. 0 \in 0..(WakesPerPass - 1)
      BY ConfigAssumption
    <3>2. StoreType'
      BY <1>1, <1>3, Blank DEF Kill, StoreType
    <3>3. LoopType'
      BY <1>3, <3>1 DEF Kill, LoopType
    <3> QED
      BY <3>2, <3>3
  <2>2. Marked' /\ AnnouncedIsRecorded'
    BY <1>1, <1>3 DEF Kill, Marked, AnnouncedIsRecorded
  <2> QED
    BY <1>3, <2>1, <2>2, UnlockStep DEF Kill, IndInv
<1>4. ASSUME NEW l \in Label, NEW s \in Serial, Revoke(l, s) PROVE IndInv'
  <2>1. /\ source' = [source EXCEPT ![l] = @ \cup {s}]
        /\ UNCHANGED <<storeVars, file, loopVars, up, passVars, made, announced>>
    BY <1>4 DEF Revoke
  <2>2. /\ source' \in [Label -> SUBSET Serial]
        /\ \A m \in Label : source[m] \subseteq source'[m]
    BY <1>1, <2>1 DEF StoreType
  <2>3. StoreType' /\ Marked' /\ AnnouncedIsRecorded'
    BY <1>1, <2>1, <2>2 DEF StoreType, storeVars, Marked, AnnouncedIsRecorded
  <2>4. LoopType' /\ PassType'
    BY <1>1, <2>1 DEF LoopType, loopVars, PassType, passVars
  <2>5. Grown'
    BY <1>1, <2>1, <2>2 DEF passVars, PassInv, Grown
  <2>6. PassInv'
    BY <1>1, <2>1, <2>5 DEF passVars, storeVars, PassInv, Pending, Drafted, Written,
                            Covered, Loaded
  <2> QED
    BY <2>3, <2>4, <2>6 DEF IndInv
<1> QED
  BY <1>2, <1>3, <1>4, HangStep DEF Environment

-----------------------------------------------------------------------------
(* Theorems *)

\* The invariant holds of every reachable state.
LEMMA Inductive == Spec => []IndInv
<1>1. Init => IndInv
  <2> SUFFICES ASSUME Init PROVE IndInv
    OBVIOUS
  <2>1. StoreType /\ LoopType /\ PassType
    <3>1. 0 \in 0..(WakesPerPass - 1)
      BY ConfigAssumption
    <3>2. StoreType
      BY Blank DEF Init, StoreType
    <3>3. LoopType
      BY <3>1 DEF Init, LoopType
    <3>4. PassType
      BY Blank DEF Init, PassType
    <3> QED
      BY <3>2, <3>3, <3>4
  <2>2. Marked /\ Written /\ Covered
    BY Blank DEF Init, Marked, Written, Covered
  <2>3. Pending /\ Grown /\ Drafted /\ Loaded
    BY DEF Init, Pending, Grown, Drafted, Loaded
  <2>4. AnnouncedIsRecorded
    BY DEF Init, AnnouncedIsRecorded
  <2> QED
    BY <2>1, <2>2, <2>3, <2>4 DEF IndInv, PassInv
<1>2. IndInv /\ [Next]_vars => IndInv'
  <2> SUFFICES ASSUME IndInv, [Next]_vars PROVE IndInv'
    OBVIOUS
  <2>1. CASE UNCHANGED vars
    BY <2>1 DEF vars, sourceVars, storeVars, loopVars, passVars, IndInv, StoreType,
                LoopType, PassType, Marked, PassInv, Pending, Grown, Drafted, Written,
                Covered, Loaded, AnnouncedIsRecorded
  <2>2. CASE Produce
    BY <2>2, DraftStep, WriteStep, FailStep DEF Produce
  <2>3. CASE Finish
    BY <2>3, ReloadStep, AnnounceStep, RebaseStep, RotatedStep DEF Finish
  <2> QED
    BY <2>1, <2>2, <2>3, PassesStep, EnvironmentStep DEF Next
<1> QED
  BY <1>1, <1>2, PTL DEF Spec

\* Every variable of the signer has its type.
THEOREM TypeCorrect == Spec => []TypeOK
<1>1. IndInv => TypeOK
  BY DEF IndInv, StoreType, LoopType, PassType, TypeOK
<1> QED
  BY <1>1, Inductive, PTL

\* The mesh never hears of a generation that this node has not recorded.
THEOREM Announced == Spec => []AnnouncedIsRecorded
<1>1. IndInv => AnnouncedIsRecorded
  BY DEF IndInv
<1> QED
  BY <1>1, Inductive, PTL

\* A pass that has reloaded serves, for the labels it produced, everything that
\* was revoked before it took the mutex.
THEOREM Covers == Spec => []PassCovers
<1>1. IndInv => PassCovers
  BY DEF IndInv, PassInv, Written, Covered, Loaded, PassCovers
<1> QED
  BY <1>1, Inductive, PTL
=============================================================================
