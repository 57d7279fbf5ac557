---- MODULE Generation ----
(***************************************************************************)
(* How a revocation source becomes a bundle that answers requests: the     *)
(* source is authenticated and snapshot, its entries are prepared, signed  *)
(* in buckets, indexed, sealed and written; the file may be damaged on its *)
(* way; a responder reads, authenticates and admits it, and looks entries  *)
(* up.  Every step of the producer reads the clock anew, and the clock may *)
(* move between any two of them.                                           *)
(*                                                                         *)
(* The unit of time is the day.  A time in a response is the calendar date *)
(* that ocsp_time encodes.                                                 *)
(***************************************************************************)
EXTENDS Ahu

CONSTANTS
    Setups,         \* what is configured and what the source holds
    Truth,          \* Truth[setup]: serial to status, as the CA has recorded it
    PqDisc,         \* discriminator of the post-quantum responses
    MaxDays,        \* bound on the days that pass during a run
    Damages         \* the kinds of damage a file may suffer, at most one per run

VARIABLES
    setup,          \* the configuration of this run
    now,            \* the clock, in days since 1970-01-01
    stage,          \* the last step completed
    snapshot,       \* StatusSnapshot
    seal,           \* the key and certificate that seal
    produced,       \* produced_at of the responses
    built,          \* what the producer has written
    file,           \* what the responder finds
    loaded          \* the bundle the responder has admitted

vars == <<setup, now, stage, snapshot, seal, produced, built, file, loaded>>

config == setup.config

----------------------------------------------------------------------------
(* Dates *)

IsLeap(y) == y % 4 = 0 /\ (y % 100 # 0 \/ y % 400 = 0)

DaysIn(y, m) == IF m = 2 /\ IsLeap(y) THEN 29
                ELSE <<31, 28, 31, 30, 31, 30, 31, 31, 30, 31, 30, 31>>[m]

days_to_ymd(days) ==
    LET z == days + 719468
        era == z \div 146097
        doe == z - era * 146097
        yoe == (doe - doe \div 1460 + doe \div 36524 - doe \div 146096) \div 365
        doy == doe - (365 * yoe + yoe \div 4 - yoe \div 100)
        mp == (5 * doy + 2) \div 153
        m == IF mp < 10 THEN mp + 3 ELSE mp - 9
    IN <<yoe + era * 400 + (IF m <= 2 THEN 1 ELSE 0), m, doy - (153 * mp + 2) \div 5 + 1>>

ocsp_time(days) == days_to_ymd(days)

(* The days of a year before one of its months. *)
DaysBefore(y, month) ==
    LET before[m \in 1 .. month] == IF m = 1 THEN 0 ELSE before[m - 1] + DaysIn(y, m - 1)
    IN before[month]

datetime_to_epoch(date) ==
    365 * (date[1] - 1970) + Cardinality({y \in 1970 .. date[1] - 1 : IsLeap(y)})
        + DaysBefore(date[1], date[2]) + date[3] - 1

----------------------------------------------------------------------------
(* Revocation sources *)

\* Mutant: a CRL that lists only changes is taken for a complete one.
authenticate_any_extension(crl, cert, ca, t) ==
    /\ cert # None
    /\ cert.subject = ca.name /\ cert.key = ca.key /\ crl.issuer = cert.subject
    /\ cert.not_before <= t /\ t < cert.not_after
    /\ cert.crl_sign
    /\ crl.signed_by = cert.key

(* unsupported: the extensions of the CRL that are not interpreted, duplicated, *)
(* or name another authority than the certificate.  signed_by: the key under    *)
(* which its signature verifies, none when its two algorithm fields disagree.   *)
authenticate(crl, cert, ca, t) ==
    /\ cert # None
    /\ cert.subject = ca.name /\ cert.key = ca.key /\ crl.issuer = cert.subject
    /\ cert.not_before <= t /\ t < cert.not_after
    /\ cert.crl_sign
    /\ crl.unsupported = {}
    /\ crl.signed_by = cert.key

validate_at(snap, t) ==
    snap.next_update # None /\ snap.this_update <= t /\ t < snap.next_update
                            /\ snap.this_update < snap.next_update

(* An entry refuses the whole CRL when it names another issuer, has a critical  *)
(* extension other than the reason, or a reason that only a delta CRL has.      *)
Interpretable(crl) ==
    \A i \in DOMAIN crl.entries :
        crl.entries[i].unsupported = {} /\ crl.entries[i].reason # "removeFromCRL"

(* The last entry of a serial is the one that counts; a CRL says nothing of expiry. *)
CrlSnapshot(crl) ==
    [entries |-> [s \in {crl.entries[i].serial : i \in DOMAIN crl.entries} |-> "revoked"],
     this_update |-> crl.this_update, next_update |-> crl.next_update, not_after |-> <<>>]

(* A CRL cannot prove what was never issued. *)
CompletenessIsProven ==
    config.completeness = "authoritative-complete" => setup.source.kind = "directory"

----------------------------------------------------------------------------
(* Preparing and signing entries *)

(* archive_cutoff prunes a serial only when its expiry is known. *)
Pruned(snap, s) ==
    /\ config.archive_cutoff > 0
    /\ s \in DOMAIN snap.not_after
    /\ snap.not_after[s] + config.archive_cutoff < snap.this_update

next_update_base(snap) == LET end == snap.this_update + config.validity
                          IN IF end < snap.next_update THEN end ELSE snap.next_update

\* Mutant: the jitter is not bounded by the source.
NextUpdateUncapped(snap, s) ==
    next_update_base(snap) + (setup.spread[s] * config.jitter) \div 4

(* The base and a share of the jitter given by the serial's digest, within the source. *)
NextUpdate(snap, s) ==
    LET t == next_update_base(snap) + (setup.spread[s] * config.jitter) \div 4
    IN IF t < snap.next_update THEN t ELSE snap.next_update

HashesOf(compat) == CASE compat = "sha256" -> <<"sha256">>
                      [] compat = "sha1"   -> <<"sha1">>
                      [] compat = "dual"   -> <<"sha256", "sha1">>

EntryKey(hash, serial) == setup.digest[<<hash, serial>>]

SingleResponse(snap, hash, serial) ==
    [certid |-> <<hash, serial>>, status |-> snap.entries[serial],
     this_update |-> ocsp_time(snap.this_update), next_update |-> ocsp_time(NextUpdate(snap, serial))]

Ascending(S) == {p \in S \X S : p[1] < p[2]}

(* One prepared entry per serial kept, in the order of the serials. *)
prepare_entries(snap) ==
    LET kept == InOrder({s \in DOMAIN snap.entries : ~Pruned(snap, s)}, Ascending(DOMAIN snap.entries))
        hashes == HashesOf(config.certid_compat)
    IN [i \in DOMAIN kept |->
           [keys |-> [h \in DOMAIN hashes |-> EntryKey(hashes[h], kept[i])],
            singles |-> [h \in DOMAIN hashes |-> SingleResponse(snap, hashes[h], kept[i])]]]

Pair(keys, i, disc, response) == add_dual_entry(keys[2 * i - 1], keys[2 * i], disc, response)

\* Mutant: the key that is left over when the others are paired gets no entry.
add_paired_entries(keys, disc, response) ==
    FlattenSeq([i \in 1 .. Len(keys) \div 2 |-> Pair(keys, i, disc, response)])

(* All keys of a bucket point at its response: pairs share it, an odd key out has a copy. *)
add_shared_entries(keys, disc, response) ==
    FlattenSeq([i \in 1 .. Len(keys) \div 2 |-> Pair(keys, i, disc, response)])
        \o (IF Len(keys) % 2 = 1 THEN add_entry(keys[Len(keys)], disc, response) ELSE <<>>)

(* Buckets of bucket_size prepared entries, one signed response each. *)
sign_and_add_entries(prepared, signer, disc) ==
    LET size == IF config.bucket_size = 0 THEN 1 ELSE config.bucket_size
        count == (Len(prepared) + size - 1) \div size
        Bucket(b) == SubSeq(prepared, (b - 1) * size + 1,
                            IF b * size < Len(prepared) THEN b * size ELSE Len(prepared))
        Keys(b) == FlattenSeq([i \in DOMAIN Bucket(b) |-> Bucket(b)[i].keys])
        Singles(b) == FlattenSeq([i \in DOMAIN Bucket(b) |-> Bucket(b)[i].singles])
        Sign(singles) == [i \in DOMAIN singles |-> [single |-> singles[i], signer |-> signer,
                                                    produced_at |-> ocsp_time(produced)]]
    IN FlattenSeq([b \in 1 .. count |-> add_shared_entries(Keys(b), disc, Sign(Singles(b)))])

CaScope(hash, responder) ==
    [hash_algorithm |-> hash, issuer_key_hash |-> <<hash, setup.ca.key>>, epoch |-> config.epoch,
     responder_id |-> responder, completeness |-> config.completeness]

(* SHA-256 is registered always, SHA-1 for "dual" and "sha1", and each for every signer. *)
CaScopes ==
    LET hashes == IF config.certid_compat = "sha256" THEN <<"sha256">> ELSE <<"sha256", "sha1">>
        signers == IF config.dual_algorithm THEN <<"classical", "pq">> ELSE <<"classical">>
    IN FlattenSeq([h \in DOMAIN hashes |->
                      [g \in DOMAIN signers |-> CaScope(hashes[h], signers[g])]])

NewManifest(snap) ==
    LET base == next_update_base(snap)
        max == base + config.jitter
    IN [format_version |-> 1, bundle_id |-> 0, producer_id |-> "hoike", created_at |-> now,
        bundle_type |-> "Full", ca_scopes |-> CaScopes,
        window |-> [produced_at |-> now, this_update_min |-> snap.this_update,
                    next_update_min |-> base,
                    next_update_max |-> IF max < snap.next_update THEN max ELSE snap.next_update],
        integrity |-> None, entry_count |-> 0, continuity |-> NoContinuity,
        shard |-> None, compression |-> None, extensions |-> None]

(* The entries of produce_bundle, or with a second algorithm of produce_dual_bundle. *)
Entries(snap) ==
    LET prepared == prepare_entries(snap)
    IN sign_and_add_entries(prepared, "classical", 0)
          \o (IF config.dual_algorithm THEN sign_and_add_entries(prepared, "pq", PqDisc) ELSE <<>>)

----------------------------------------------------------------------------
(* Key material *)

IsDemo(k) == k # None /\ k.kind = "demo"

(* A demo key is made for the algorithm; a file holds a key of one algorithm. *)
HasAlgorithm(k, alg) == k # None /\ (k.kind = "file" => k.alg = alg)

(* The signing keys and the algorithm asked of each. *)
Signers ==
    IF config.dual_algorithm
    THEN {[key |-> setup.signing_key, alg |-> "ecdsa-p256"],
          [key |-> setup.pq_signing_key, alg |-> config.pq_alg]}
    ELSE {[key |-> setup.signing_key, alg |-> config.sig_alg]}

(* Self-signed, for two years. *)
generate_seal_cert(key, t) ==
    [key |-> key, issued_by |-> key, not_before |-> t, not_after |-> t + 730, profile |-> TRUE]

----------------------------------------------------------------------------
(* What is assumed of the setups *)

Serials(source) ==
    IF source.kind = "crl" THEN {source.crl.entries[i].serial : i \in DOMAIN source.crl.entries}
    ELSE DOMAIN source.snapshot.entries

(* What a source says of times. *)
Stated(source) == IF source.kind = "crl" THEN source.crl ELSE source.snapshot

(* Serials and times are numbers; a serial's share of the jitter is in quarters. *)
ASSUME TypesAssumption ==
    \A s \in Setups :
        /\ s.origin \in Nat
        /\ IsFiniteSet(Serials(s.source)) /\ Serials(s.source) \subseteq Int
        /\ \A n \in Serials(s.source) : n \in DOMAIN s.spread /\ s.spread[n] \in 0 .. 4
        /\ Stated(s.source).this_update \in Nat
        /\ Stated(s.source).next_update # None => Stated(s.source).next_update \in Nat
        /\ s.source.kind # "crl" =>
              /\ \A n \in Serials(s.source) : s.source.snapshot.entries[n] \in {"good", "revoked"}
              /\ \A n \in DOMAIN s.source.snapshot.not_after : s.source.snapshot.not_after[n] \in Int
        /\ s.config.certid_compat \in {"sha256", "sha1", "dual"} /\ s.config.dual_algorithm \in BOOLEAN
        /\ s.config.bucket_size \in Nat /\ s.config.jitter \in Nat
        /\ s.config.validity \in Nat /\ s.config.archive_cutoff \in Nat

Date == Int \X Int \X Int

Response ==
    [single : [certid : {"sha256", "sha1"} \X Int, status : {"good", "revoked"},
               this_update : Date, next_update : Date],
     signer : {"classical", "pq"}, produced_at : Date]

(* No answer is not an answer. *)
ASSUME NoneAssumption == None \notin Seq(Response)

(* Entry keys are digests, and CertIDs do not collide; 0 is the classical discriminator. *)
ASSUME DigestAssumption ==
    /\ PqDisc \in Int /\ PqDisc # 0
    /\ \A s \in Setups : \A c, d \in {"sha256", "sha1"} \X DOMAIN s.spread :
          s.digest[c] \in Int /\ (s.digest[c] = s.digest[d] => c = d)

(* A directory, and what the CA signs as its complete CRL, tell the CA's truth. *)
ASSUME TruthAssumption ==
    \A s \in Setups :
        IF s.source.kind = "crl"
        THEN LET crl == s.source.crl
             IN crl.signed_by = s.ca.key /\ crl.issuer = s.ca.name /\ crl.unsupported = {} /\ Interpretable(crl) =>
                    \A n \in Serials(s.source) : Truth[s.ca.name][n] = "revoked"
        ELSE \A n \in Serials(s.source) : s.source.snapshot.entries[n] = Truth[s.ca.name][n]

OpenStorage(storage) ==
    /\ storage.allow_unauthenticated_bundles
    /\ storage.pins = {} /\ storage.anchors = {} /\ storage.authorizations = {}

(* The certificate is pinned, or issued by an anchor, and every anchor outlasts it. *)
Trusts(storage, cert) ==
    \/ cert \in storage.pins
    \/ /\ \E a \in storage.anchors : cert = a \/ cert.issued_by = a.key
       /\ \A a \in storage.anchors : /\ a.not_before \in Int /\ a.not_after \in Int /\ a.profile
                                     /\ a.not_before <= cert.not_before /\ cert.not_after <= a.not_after

(* The responder trusts the configured seal for all of the CA's scopes; a demo's takes all. *)
ASSUME TrustAssumption ==
    \A s \in Setups :
        /\ s.seal_cert # None =>
              /\ s.seal_cert.not_before \in Int /\ s.seal_cert.not_after \in Int
              /\ OpenStorage(s.storage) \/ Trusts(s.storage, s.seal_cert)
              /\ s.storage.authorizations # {} =>
                    \A h \in {"sha256", "sha1"} :
                        <<"hoike", <<h, s.ca.key>>, s.seal_cert>> \in s.storage.authorizations
        /\ s.seal_key = None /\ s.seal_cert = None => OpenStorage(s.storage)

----------------------------------------------------------------------------
(* The producer *)

Then(ok, next) == stage' = IF ok THEN next ELSE "refused"

(* CrlSource::snapshot; a directory's records were authenticated by its connection. *)
Authenticate ==
    /\ stage = "start"
    /\ Then(setup.source.kind = "crl" =>
                authenticate(setup.source.crl, setup.source.issuer_cert, setup.ca, now),
            "authenticated")
    /\ UNCHANGED <<setup, now, snapshot, seal, produced, built, file, loaded>>

Snapshot ==
    LET source == setup.source
        snap == IF source.kind = "crl" THEN CrlSnapshot(source.crl) ELSE source.snapshot
        ok == (source.kind = "crl" => Interpretable(source.crl)) /\ validate_at(snap, now)
    IN /\ stage = "authenticated"
       /\ Then(ok /\ CompletenessIsProven, "snapshot")
       /\ snapshot' = IF ok THEN snap ELSE None
       /\ UNCHANGED <<setup, now, seal, produced, built, file, loaded>>

(* Both parts of the pair are configured; with neither, a demo generates a pair. *)
SealMaterial ==
    CASE setup.seal_key # None /\ setup.seal_cert # None ->
            [key |-> setup.seal_key, cert |-> setup.seal_cert]
      [] setup.seal_key = None /\ setup.seal_cert = None /\ IsDemo(setup.signing_key) ->
            [key |-> "ephemeral", cert |-> generate_seal_cert("ephemeral", now)]
      [] OTHER -> None

(* The pair is proven on every pass, after the responder's own certificate was read. *)
LoadSeal ==
    LET ok == /\ setup.responder_usable
              /\ SealMaterial # None
              /\ validate_seal_materials(SealMaterial.key, SealMaterial.cert, now)
    IN /\ stage = "snapshot"
       /\ Then(ok, "sealable")
       /\ seal' = IF ok THEN SealMaterial ELSE None
       /\ UNCHANGED <<setup, now, snapshot, produced, built, file, loaded>>

(* Every signing key is of the algorithm asked of it, and no ECDSA key is the seal's. *)
LoadSigner ==
    /\ stage = "sealable"
    /\ Then(\A s \in Signers : /\ HasAlgorithm(s.key, s.alg)
                               /\ s.alg = "ecdsa-p256" => s.key.key # seal.key,
            "signable")
    /\ UNCHANGED <<setup, now, snapshot, seal, produced, built, file, loaded>>

ValidateSource ==
    /\ stage = "signable"
    /\ Then(validate_at(snapshot, now), "validated")
    /\ UNCHANGED <<setup, now, snapshot, seal, produced, built, file, loaded>>

CheckExpiry ==
    /\ stage = "validated"
    /\ Then(now < next_update_base(snapshot), "unexpired")
    /\ UNCHANGED <<setup, now, snapshot, seal, produced, built, file, loaded>>

Stamp ==
    /\ stage = "unexpired"
    /\ stage' = "stamped"
    /\ produced' = now
    /\ UNCHANGED <<setup, now, snapshot, seal, built, file, loaded>>

(* Manifest, entries, index, data, digests and seal; the file replaces the old one at once. *)
Build ==
    /\ stage = "stamped"
    /\ stage' = "built"
    /\ built' = build(NewManifest(snapshot), Entries(snapshot), seal)
    /\ file' = built'
    /\ UNCHANGED <<setup, now, snapshot, seal, produced, loaded>>

----------------------------------------------------------------------------
(* The responder *)

garble_field(cbor, i) ==
    [fields |-> [j \in DOMAIN cbor.fields \ {i} |-> cbor.fields[j]], garbled |-> {i}]

(* What storage may do to a file: it ends early, a cell is lost or holds what its   *)
(* neighbour holds, a section is located one cell short, a manifest field is garbled. *)
Damaged(f) ==
    (IF "truncate" \in Damages
     THEN {[f EXCEPT !.cells = SubSeq(@, 1, n)] : n \in 0 .. Len(f.cells) - 1} ELSE {})
    \cup
    (IF "garble" \in Damages
     THEN {[f EXCEPT !.cells[i] = [kind |-> "garbled", value |-> Garbled]] : i \in DOMAIN f.cells}
     ELSE {})
    \cup
    (IF "exchange" \in Damages
     THEN {[f EXCEPT !.cells[i].value = f.cells[i + 1].value] :
              i \in {j \in 1 .. Len(f.cells) - 1 : f.cells[j].kind = f.cells[j + 1].kind}}
     ELSE {})
    \cup
    (IF "header" \in Damages
     THEN {[f EXCEPT !.header[i].length = @ - 1] :
              i \in {j \in 1 .. 4 : f.header[j].length > 0}} ELSE {})
    \cup
    (IF "field" \in Damages
     THEN {[f EXCEPT !.cells[1].value = garble_field(@, i)] : i \in 1 .. 13} ELSE {})

Damage ==
    /\ stage = "built"
    /\ file = built
    /\ file' \in Damaged(built)
    /\ UNCHANGED <<setup, now, stage, snapshot, seal, produced, built, loaded>>

(* load_and_verify_bundle *)
Admit ==
    LET bundle == from_bytes(file)
        ok == Readable(file) /\ admit_bundle(bundle, setup.storage, now)
    IN /\ stage = "built"
       /\ Then(ok, "admitted")
       /\ loaded' = IF ok THEN bundle ELSE None
       /\ UNCHANGED <<setup, now, snapshot, seal, produced, built, file>>

Tick ==
    /\ now < setup.origin + MaxDays
    /\ now' = now + 1
    /\ UNCHANGED <<setup, stage, snapshot, seal, produced, built, file, loaded>>

Init ==
    /\ setup \in Setups
    /\ now = setup.origin
    /\ stage = "start"
    /\ snapshot = None /\ seal = None /\ produced = 0
    /\ built = None /\ file = None /\ loaded = None

Next ==
    \/ Authenticate \/ Snapshot \/ LoadSeal \/ LoadSigner \/ ValidateSource \/ CheckExpiry
    \/ Stamp \/ Build \/ Damage \/ Admit \/ Tick

Spec == Init /\ [][Next]_vars

----------------------------------------------------------------------------
(* Properties *)

Preferences == {<<>>, <<0>>, <<PqDisc>>, <<PqDisc, 0>>, <<9, PqDisc>>}

Issued == DOMAIN snapshot.entries

(* The certificate's end is known, and lies further back than the cutoff. *)
LongExpired(s) ==
    /\ s \in DOMAIN snapshot.not_after
    /\ config.archive_cutoff > 0
    /\ snapshot.this_update > snapshot.not_after[s] + config.archive_cutoff

Singles(response, certid) == {i \in DOMAIN response : response[i].single.certid = certid}

(* A bundle is built from prepared entries by pairing keys, sorting, sharing *)
(* payloads and slicing the data section again.  Whoever asks for a serial   *)
(* that the source reports and that has not long expired, under a configured *)
(* CertID hash and with any preferences, gets a response that speaks of this *)
(* CertID exactly once, with the source's status, signed by the algorithm    *)
(* preferred (prepare_entries, add_shared_entries, BundleBuilder::build,     *)
(* Bundle::lookup_preferred).                                                *)
EveryIssuedSerialIsAnswered ==
    loaded # None =>
        \A s \in Issued, h \in Range(HashesOf(config.certid_compat)), p \in Preferences :
            ~LongExpired(s) =>
                LET r == lookup_preferred(loaded, EntryKey(h, s), p)
                    wanted == IF config.dual_algorithm /\ PqDisc \in Range(p) THEN "pq" ELSE "classical"
                IN /\ r # None
                   /\ Cardinality(Singles(r, <<h, s>>)) = 1
                   /\ \A i \in Singles(r, <<h, s>>) : /\ r[i].single.status = snapshot.entries[s]
                                                      /\ r[i].signer = wanted

(* Every response in an admitted bundle ends within the window that the      *)
(* manifest announces, and no later than the source's own nextUpdate, also   *)
(* after its jitter, and as read back from the encoded dates                 *)
(* (prepare_entries, days_to_ymd, datetime_to_epoch).                        *)
ValidityIsSourced ==
    loaded # None =>
        \A i \in DOMAIN loaded.data :
            LET single == loaded.data[i].single
                end == datetime_to_epoch(single.next_update)
                window == loaded.manifest.window
            IN /\ datetime_to_epoch(single.this_update) = snapshot.this_update
               /\ window.next_update_min <= end /\ end <= window.next_update_max
               /\ end <= snapshot.next_update

(* A response says revoked only of a serial that the CA has revoked, and     *)
(* good only of one that it has not: no CRL that is not the CA's, or that    *)
(* lists only changes or a part, gets as far as a bundle                     *)
(* (CrlSource::authenticate, CrlSource::snapshot).                           *)
StatusIsTheCAs ==
    loaded # None =>
        \A i \in DOMAIN loaded.data :
            LET single == loaded.data[i].single
            IN single.status = Truth[setup.ca.name][single.certid[2]]

(* The memory-mapped reader, which searches by itself, finds for every key   *)
(* and every preference what the in-memory reader finds                      *)
(* (MmapBundle::binary_search_disc, Bundle::lookup_preferred).               *)
MappedAgrees ==
    loaded # None =>
        \A h \in {"sha256", "sha1"}, s \in DOMAIN setup.spread, p \in Preferences :
            lookup_mapped(loaded, EntryKey(h, s), p) = lookup_preferred(loaded, EntryKey(h, s), p)

(* What a responder that authenticates bundles admits after storage has      *)
(* damaged the file is, in its manifest, index and data, what the producer   *)
(* has built; and a file that is not damaged is admitted while the           *)
(* certificate of its seal is valid                                          *)
(* (verify_structure, authenticate_bundle, validate_seal_materials).         *)
DamageIsRefused ==
    /\ loaded # None /\ ~setup.storage.allow_unauthenticated_bundles =>
          LET original == from_bytes(built)
          IN /\ loaded.manifest = original.manifest
             /\ loaded.index = original.index
             /\ loaded.data = original.data
    /\ stage = "refused" /\ built # None /\ file = built => now >= seal.cert.not_after

(* A responder signs `unknown` for a serial of an authoritative-complete     *)
(* scope that has no entry.  So in every such scope every serial that the    *)
(* source reports and that is not pruned has an entry (handlers.rs:256,      *)
(* CaScopes).                                                                *)
AbsenceMeansNeverIssued ==
    loaded # None =>
        \A i \in DOMAIN loaded.manifest.ca_scopes, s \in Issued :
            LET scope == loaded.manifest.ca_scopes[i]
            IN scope.completeness = "authoritative-complete" /\ ~LongExpired(s) =>
                   lookup_preferred(loaded, EntryKey(scope.hash_algorithm, s), <<>>) # None

====
