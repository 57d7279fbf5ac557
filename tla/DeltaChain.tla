---- MODULE DeltaChain ----
(***************************************************************************)
(* Delta bundles: a producer publishes full bundles and deltas against     *)
(* them; an operator materializes a base and an ordered choice of deltas   *)
(* into a full bundle, with `ahu apply` or the admin API, and may make the *)
(* result the next base.  The operator's choice need not be the producer's *)
(* order: files get lost, are taken twice, or belong to another base.      *)
(***************************************************************************)
EXTENDS Ahu

CONSTANTS
    Slots,          \* (entry key, discriminator) pairs
    Fulls,          \* full bundles: content (some slots to payloads), window, producer
    Deltas,         \* deltas: changes (some slots to payloads or Gone), window, producer,
                    \* and linked, whether it names its predecessor
    Gone,           \* a tombstone
    FirstEpochs,    \* epochs the producer may start from
    EpochLimit,     \* u64::MAX in the code
    SealCert,       \* the producer's, and the operator's, seal certificate
    MaxPublished,   \* bound on the publications
    MaxApplied,     \* bound on the deltas of one application
    MaxResults      \* bound on the results that become a base

Windows == [produced_at : Int, this_update_min : Int, next_update_min : Int, next_update_max : Int]

(* All that is ever written. *)
Payloads ==
    UNION {Range(f.content) : f \in Fulls} \cup UNION {Range(d.changes) \ {Gone} : d \in Deltas}

(* Times, epochs, keys and discriminators are numbers, and a payload is a sequence. *)
ASSUME ConstantsAssumption ==
    /\ IsFiniteSet(Slots) /\ Slots \subseteq Int \X Int
    /\ \A f \in Fulls : /\ DOMAIN f.content \subseteq Slots
                        /\ f.content \in [DOMAIN f.content -> Payloads]
                        /\ f.window \in Windows
    /\ \A d \in Deltas : /\ DOMAIN d.changes \subseteq Slots
                         /\ d.changes \in [DOMAIN d.changes -> Payloads \cup {Gone}]
                         /\ d.window \in Windows
    /\ \A p \in Payloads : p \in Seq(Range(p))
    /\ None \notin Payloads /\ Gone \notin Payloads
    /\ FirstEpochs \subseteq Int /\ EpochLimit \in Int /\ MaxApplied \in Nat

VARIABLES
    published,      \* the bundles, as read from their files, in order of publication
    epoch,          \* the producer's next epoch
    chosen,         \* the base and the deltas of the last application
    result,         \* the bundle it wrote
    rebased         \* number of results that were published

vars == <<published, epoch, chosen, result, rebased>>

----------------------------------------------------------------------------
(* The producer *)

SlotOrder == {p \in Slots \X Slots :
                 \/ p[1][1] < p[2][1]
                 \/ p[1][1] = p[2][1] /\ p[1][2] < p[2][2]}

EntryFor(slot, payload) ==
    IF payload = Gone THEN add_tombstone(slot[1], slot[2])[1] ELSE add_entry(slot[1], slot[2], payload)[1]

(* One entry per slot, in the order of the slots. *)
SlotEntries(content) ==
    LET slots == InOrder(DOMAIN content, SlotOrder)
    IN [i \in DOMAIN slots |-> EntryFor(slots[i], content[slots[i]])]

Manifest(type, producer, at, window, continuity) ==
    [format_version |-> 1, bundle_id |-> 0, producer_id |-> producer, created_at |-> window.produced_at,
     bundle_type |-> type, ca_scopes |-> <<[issuer_key_hash |-> "ca", epoch |-> at]>>,
     window |-> window, integrity |-> None, entry_count |-> 0, continuity |-> continuity,
     shard |-> None, compression |-> None, extensions |-> None]

Sealer == [key |-> SealCert.key, cert |-> SealCert]

IsFull(i) == published[i].manifest.bundle_type = "Full"

LastFull == CHOOSE i \in DOMAIN published :
                IsFull(i) /\ \A j \in DOMAIN published : IsFull(j) => j <= i

PublishFull(full) ==
    /\ chosen = None /\ Len(published) < MaxPublished
    /\ epoch <= EpochLimit
    /\ LET manifest == Manifest("Full", full.producer, epoch, full.window, NoContinuity)
       IN published' = Append(published, from_bytes(build(manifest, SlotEntries(full.content), Sealer)))
    /\ epoch' = epoch + 1
    /\ UNCHANGED <<chosen, result, rebased>>

PublishDelta(delta) ==
    /\ chosen = None /\ Len(published) \in 1 .. MaxPublished - 1
    /\ epoch <= EpochLimit
    /\ LET continuity ==
              [prev |-> IF delta.linked THEN {manifest_digest(published[Len(published)])} ELSE {},
               base |-> {manifest_digest(published[LastFull])},
               chain_length |-> Len(published) - LastFull + 1]
           manifest == Manifest("Delta", delta.producer, epoch, delta.window, continuity)
       IN published' = Append(published, from_bytes(build(manifest, SlotEntries(delta.changes), Sealer)))
    /\ epoch' = epoch + 1
    /\ UNCHANGED <<chosen, result, rebased>>

----------------------------------------------------------------------------
(* Materializing *)

SlotOf(r) == <<r.key, r.disc>>

(* The slots a bundle writes, with payload and window: the retained entries. *)
Writes(bundle) ==
    LET live == {i \in DOMAIN bundle.index : HasBytes(bundle, bundle.index[i])}
    IN [slot \in {SlotOf(bundle.index[i]) : i \in live} |->
           LET i == CHOOSE j \in live : SlotOf(bundle.index[j]) = slot
           IN [data |-> entry_bytes(bundle, bundle.index[i]), window |-> bundle.manifest.window]]

Removes(bundle) ==
    {SlotOf(bundle.index[i]) : i \in {j \in DOMAIN bundle.index : IsTombstone(bundle.index[j])}}

\* Mutant: a tombstone takes the key with every discriminator.
OverlayByKey(working, delta) ==
    LET gone == {slot \in DOMAIN working : \E t \in Removes(delta) : t[1] = slot[1]}
        kept == DOMAIN working \ gone
    IN [slot \in kept \cup DOMAIN Writes(delta) |->
           IF slot \in DOMAIN Writes(delta) THEN Writes(delta)[slot] ELSE working[slot]]

Overlay(working, delta) ==
    LET kept == DOMAIN working \ Removes(delta)
    IN [slot \in kept \cup DOMAIN Writes(delta) |->
           IF slot \in DOMAIN Writes(delta) THEN Writes(delta)[slot] ELSE working[slot]]

(* The working set after each of the deltas. *)
Working(base, deltas) ==
    LET working[n \in 0 .. Len(deltas)] ==
            IF n = 0 THEN Writes(base) ELSE Overlay(working[n - 1], deltas[n])
    IN working

Scopes(bundle) == {bundle.manifest.ca_scopes[i].issuer_key_hash : i \in DOMAIN bundle.manifest.ca_scopes}

Epochs(bundle) == {bundle.manifest.ca_scopes[i].epoch : i \in DOMAIN bundle.manifest.ca_scopes}

\* Mutant: the predecessor is not looked at.
FollowsBaseOnly(base, prev, delta) ==
    /\ delta.manifest.bundle_type = "Delta"
    /\ verify_structure(delta)
    /\ delta.manifest.continuity.base = {manifest_digest(base)}
    /\ delta.manifest.producer_id = base.manifest.producer_id
    /\ Scopes(delta) = Scopes(base)

(* What apply_sealed asks of a delta after prev; one that names no predecessor may follow any. *)
Follows(base, prev, delta) ==
    /\ delta.manifest.bundle_type = "Delta"
    /\ verify_structure(delta)
    /\ delta.manifest.continuity.base = {manifest_digest(base)}
    /\ delta.manifest.producer_id = base.manifest.producer_id
    /\ Scopes(delta) = Scopes(base)
    /\ delta.manifest.continuity.prev \subseteq {manifest_digest(prev)}

WindowsOf(working) == {working[slot].window : slot \in DOMAIN working}

Consistent(w) == w.this_update_min <= w.next_update_min /\ w.next_update_min <= w.next_update_max

\* Mutant: the window of the newest bundle instead of the narrowest.
EnvelopeOfLatest(windows) ==
    LET latest == CHOOSE w \in windows : \A v \in windows : v.produced_at <= w.produced_at
    IN latest

(* The conservative envelope of the retained entries' windows. *)
Envelope(windows) ==
    LET expires == Min({w.next_update_min : w \in windows})
    IN [produced_at |-> Max({w.produced_at : w \in windows}),
        this_update_min |-> Min({w.this_update_min : w \in windows}),
        next_update_min |-> expires, next_update_max |-> expires]

apply_sealed(base, deltas, sealer) ==
    LET chain == <<base>> \o deltas
        last == chain[Len(chain)]
        working == Working(base, deltas)[Len(deltas)]
        windows == WindowsOf(working)
        window == IF windows = {} THEN base.manifest.window ELSE Envelope(windows)
        top == Max(UNION {Epochs(chain[i]) : i \in DOMAIN chain})
        manifest == [base.manifest EXCEPT
                        !.continuity = [prev |-> {manifest_digest(last)}, base |-> {}, chain_length |-> 0],
                        !.ca_scopes = [i \in DOMAIN @ |-> [@[i] EXCEPT !.epoch = top + 1]],
                        !.window = window]
        ok == /\ verify_structure(base) /\ base.manifest.bundle_type = "Full"
              /\ \A i \in DOMAIN deltas : Follows(base, chain[i], deltas[i])
              /\ top < EpochLimit
              /\ \A w \in windows : Consistent(w)
              /\ windows # {} => window.produced_at < window.next_update_min
    IN IF ok THEN build(manifest, SlotEntries([slot \in DOMAIN working |-> working[slot].data]), sealer)
       ELSE None

(* ahu apply with a seal key: every input must be sealed by a pinned certificate. *)
InputsAuthenticate(inputs) ==
    \A i \in DOMAIN inputs :
        verify_seal_with_pins(inputs[i].manifest_bytes, inputs[i].seal, {SealCert}, 0)

(* A refused application writes nothing. *)
Apply(base, deltas, sealed) ==
    LET inputs == [i \in DOMAIN deltas |-> published[deltas[i]]]
        written == apply_sealed(published[base], inputs, IF sealed THEN Sealer ELSE None)
    IN /\ chosen = None
       /\ sealed => InputsAuthenticate(<<published[base]>> \o inputs)
       /\ written # None
       /\ chosen' = [base |-> base, deltas |-> deltas]
       /\ result' = from_bytes(written)
       /\ UNCHANGED <<published, epoch, rebased>>

(* The result, sealed or an unsealed intermediate, is the next base. *)
Rebase ==
    /\ result # None /\ rebased < MaxResults /\ Len(published) < MaxPublished
    /\ published' = Append(published, result)
    /\ epoch' = Max({epoch} \cup {e + 1 : e \in Epochs(result)})
    /\ rebased' = rebased + 1
    /\ chosen' = None /\ result' = None

Selections == UNION {[1 .. n -> DOMAIN published] : n \in 0 .. MaxApplied}

Init ==
    /\ published = <<>>
    /\ epoch \in FirstEpochs
    /\ chosen = None /\ result = None
    /\ rebased = 0

Next ==
    \/ \E f \in Fulls : PublishFull(f)
    \/ \E d \in Deltas : PublishDelta(d)
    \/ \E b \in DOMAIN published, ds \in Selections, s \in BOOLEAN : Apply(b, ds, s)
    \/ Rebase

Spec == Init /\ [][Next]_vars

----------------------------------------------------------------------------
(* diff *)

\* Mutant: the default discriminator stands for every one.
DiffDataDefault(bundle, slot) ==
    LET i == binary_search_with_discriminator(bundle.index, slot[1], 0)
    IN IF i = 0 THEN None ELSE entry_bytes(bundle, bundle.index[i])

DiffData(bundle, slot) ==
    LET i == binary_search_with_discriminator(bundle.index, slot[1], slot[2])
    IN IF i = 0 THEN None ELSE entry_bytes(bundle, bundle.index[i])

diff(a, b) ==
    LET A == {SlotOf(a.index[i]) : i \in DOMAIN a.index}
        B == {SlotOf(b.index[i]) : i \in DOMAIN b.index}
    IN [added |-> B \ A, removed |-> A \ B,
        changed |-> {slot \in A \cap B : DiffData(a, slot) # DiffData(b, slot)}]

----------------------------------------------------------------------------
(* Properties *)

Chain == <<chosen.base>> \o chosen.deltas

(* The bundle of the chain that wrote or removed the slot last, 0 for none. *)
LastWriter(slot) ==
    LET writers == {i \in DOMAIN Chain : slot \in DOMAIN Writes(published[Chain[i]]) \cup Removes(published[Chain[i]])}
    IN IF writers = {} THEN 0 ELSE Max(writers)

(* What the chain says of a slot: the payload last written, None if it was removed or never there. *)
Said(slot) ==
    IF LastWriter(slot) = 0 \/ slot \in Removes(published[Chain[LastWriter(slot)]])
    THEN None
    ELSE Writes(published[Chain[LastWriter(slot)]])[slot].data

(* However often slots were written, removed and written again by the chosen *)
(* bundles, in whatever order, a materialized bundle holds for every key and *)
(* discriminator exactly what the last of them to mention it says, and a     *)
(* request that prefers a removed variant falls back to the default; it      *)
(* verifies, and it is of the profile a responder serves (apply_sealed,      *)
(* verify_structure, validate_serving_profile).                              *)
MaterializedIsLastWrite ==
    result # None =>
        /\ verify_structure(result)
        /\ validate_serving_profile(result)
        /\ \A slot \in Slots :
              lookup_preferred(result, slot[1], <<slot[2]>>) =
                  IF Said(slot) = None /\ slot[2] # 0 THEN Said(<<slot[1], 0>>) ELSE Said(slot)

(* A materialized bundle never claims to be valid longer, or produced        *)
(* earlier, than any bundle that one of its entries comes from, and its      *)
(* epoch is above the epoch of everything it was made of, so that no         *)
(* responder that has seen an input refuses it as a rollback (apply_sealed). *)
EnvelopeIsConservative ==
    result # None =>
        /\ \A slot \in Slots :
              Said(slot) # None =>
                  LET own == published[Chain[LastWriter(slot)]].manifest.window
                      all == result.manifest.window
                  IN /\ all.next_update_max <= own.next_update_min
                     /\ all.this_update_min <= own.this_update_min
                     /\ own.produced_at <= all.produced_at
        /\ \A i \in DOMAIN Chain : \A e \in Epochs(published[Chain[i]]) : \A f \in Epochs(result) : e < f

(* When the producer's deltas name their predecessors, what is materialized  *)
(* is a run of successive publications that begins with its base, without a  *)
(* gap, a repetition or an exchange, as far as manifest digests tell bundles *)
(* apart (apply_sealed).                                                     *)
OnlyWholeChainsApply ==
    result # None /\ (\A i \in DOMAIN published : IsFull(i) \/ published[i].manifest.continuity.prev # {}) =>
        \E first \in DOMAIN published :
            \A n \in DOMAIN Chain :
                /\ first + n - 1 \in DOMAIN published
                /\ manifest_digest(published[Chain[n]]) = manifest_digest(published[first + n - 1])

(* The difference between a base and what was materialized from it names     *)
(* exactly the slots whose content the chain has changed, also those that    *)
(* were changed back (diff, apply_sealed).                                   *)
DiffIsNetChange ==
    result # None =>
        LET base == published[chosen.base]
            d == diff(base, result)
            Was(slot) == IF slot \in DOMAIN Writes(base) THEN Writes(base)[slot].data ELSE None
        IN \A slot \in Slots :
              /\ (slot \in d.added) <=> (Was(slot) = None /\ Said(slot) # None)
              /\ (slot \in d.removed) <=> (Was(slot) # None /\ Said(slot) = None)
              /\ (slot \in d.changed) <=> (Was(slot) # None /\ Said(slot) # None /\ Was(slot) # Said(slot))

====
