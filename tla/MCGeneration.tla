---- MODULE MCGeneration ----
EXTENDS Generation

\* 2024-02-28, 2100-02-27 and 1999-12-31: a leap day, a February without one, a new year.
Origins == <<19781, 47539, 10956>>

\* Three orders of the digests of the six CertIDs.
Digests == <<
    [c \in {"sha256", "sha1"} \X (1 .. 3) |-> IF c[1] = "sha256" THEN c[2] ELSE 3 + c[2]],
    [c \in {"sha256", "sha1"} \X (1 .. 3) |-> IF c[1] = "sha1" THEN 7 - 2 * c[2] ELSE 2 * c[2]],
    [c \in {"sha256", "sha1"} \X (1 .. 3) |-> IF c[1] = "sha256" THEN 4 + (c[2] % 3) ELSE 1 + (c[2] % 3)]
>>

MCTruth == [ca \in {"CA"} |-> (1 :> "good") @@ (2 :> "revoked") @@ (3 :> "revoked")]

Cert(key, issued_by, not_after) ==
    [key |-> key, issued_by |-> issued_by, not_before |-> 0, not_after |-> not_after, profile |-> TRUE]

Directory(t) ==
    [kind |-> "directory",
     snapshot |-> [entries |-> MCTruth["CA"], this_update |-> t, next_update |-> t + 2,
                   not_after |-> (1 :> t - 3) @@ (2 :> t + 3)]]

IssuerCert(t) == [subject |-> "CA", key |-> "caKey", not_before |-> 0, not_after |-> t + 1, crl_sign |-> TRUE]

Revoked(serials, reason) ==
    [i \in DOMAIN serials |-> [serial |-> serials[i], reason |-> reason, unsupported |-> {}]]

Crl(t) == [issuer |-> "CA", signed_by |-> "caKey", unsupported |-> {}, this_update |-> t,
           next_update |-> t + 2, entries |-> Revoked(<<3, 2, 2>>, "keyCompromise")]

Crls(t) ==
    {[kind |-> "crl", crl |-> c[1], issuer_cert |-> c[2]] : c \in {
        <<Crl(t), IssuerCert(t)>>, <<Crl(t), None>>,
        <<Crl(t), [IssuerCert(t) EXCEPT !.key = "otherKey"]>>,
        <<[Crl(t) EXCEPT !.signed_by = "otherKey"], IssuerCert(t)>>,
        <<[Crl(t) EXCEPT !.unsupported = {"issuingDistributionPoint"}, !.entries = Revoked(<<1>>, "keyCompromise")],
          IssuerCert(t)>>,
        <<[Crl(t) EXCEPT !.entries = Revoked(<<1>>, "removeFromCRL")], IssuerCert(t)>>,
        <<[Crl(t) EXCEPT !.entries = <<[serial |-> 1, reason |-> "keyCompromise",
                                        unsupported |-> {"certificateIssuer"}]>>], IssuerCert(t)>>,
        <<[Crl(t) EXCEPT !.next_update = None], IssuerCert(t)>>}}

Config(compat, bucket, dual, cutoff, jitter, completeness) ==
    [certid_compat |-> compat, bucket_size |-> bucket, dual_algorithm |-> dual,
     archive_cutoff |-> cutoff, jitter |-> jitter, validity |-> 1, epoch |-> 1,
     sig_alg |-> "ecdsa-p256", pq_alg |-> "ml-dsa-65",
     completeness |-> completeness]

Storage(cert, anchors) ==
    [allow_unauthenticated_bundles |-> FALSE, pins |-> IF anchors = {} THEN {cert} ELSE {},
     anchors |-> anchors, authorizations |-> {}]

KeyFile(key, alg) == [kind |-> "file", key |-> key, alg |-> alg]

Demo == [kind |-> "demo", key |-> "demoKey", alg |-> None]

Setup(v, source, cfg, sealCert, anchors) ==
    [ca |-> [name |-> "CA", key |-> "caKey"], origin |-> Origins[v], digest |-> Digests[v],
     spread |-> <<0, 4, 2>>, source |-> source, config |-> cfg, responder_usable |-> TRUE,
     signing_key |-> KeyFile("signingKey", "ecdsa-p256"),
     pq_signing_key |-> KeyFile("pqKey", "ml-dsa-65"), seal_key |-> "sealKey",
     seal_cert |-> sealCert, storage |-> Storage(sealCert, anchors)]

GoodSeal(v) == Cert("sealKey", "sealKey", Origins[v] + 2)

BuildSetups ==
    {Setup(v, Directory(Origins[v]), Config(compat, bucket, dual, cutoff, 2, "partial"), GoodSeal(v), {}) :
        v \in 1 .. 3, compat \in {"sha256", "sha1", "dual"}, bucket \in {0, 2, 3},
        dual \in BOOLEAN, cutoff \in {0, 1}}

SourceSetups ==
    {Setup(1, source, Config("dual", 1, FALSE, 1, 0, completeness), GoodSeal(1), {}) :
        source \in Crls(Origins[1]), completeness \in {"partial", "authoritative-complete"}}

SealSetups ==
    LET ca == Cert("anchorKey", "anchorKey", Origins[1] + 2)
    IN {Setup(1, Directory(Origins[1]), Config("dual", 2, FALSE, 0, 0, "authoritative-complete"), s[1], s[2]) :
           s \in {<<Cert("sealKey", "anchorKey", Origins[1] + 1), {ca}>>,
                  <<Cert("otherKey", "anchorKey", Origins[1] + 2), {}>>}}

\* Key material that is incomplete, of the wrong algorithm, shared, or a demo's.
KeySetups ==
    LET base == Setup(1, Directory(Origins[1]), Config("dual", 1, FALSE, 0, 0, "partial"), GoodSeal(1), {})
        pq == [base EXCEPT !.config.sig_alg = "ml-dsa-65"]
        dual == [base EXCEPT !.config.dual_algorithm = TRUE]
        unsealed == [base EXCEPT !.seal_key = None, !.seal_cert = None, !.storage.pins = {},
                                 !.storage.allow_unauthenticated_bundles = TRUE]
    IN {[base EXCEPT !.responder_usable = FALSE],
        [base EXCEPT !.seal_cert = None],
        [base EXCEPT !.signing_key = None],
        [base EXCEPT !.signing_key = KeyFile("sealKey", "ecdsa-p256")],
        [base EXCEPT !.signing_key = Demo],
        pq,
        [pq EXCEPT !.signing_key = KeyFile("pqKey", "ml-dsa-65")],
        [dual EXCEPT !.pq_signing_key = None],
        unsealed,
        [unsealed EXCEPT !.signing_key = Demo]}

MCSetups == BuildSetups \cup SourceSetups \cup SealSetups \cup KeySetups

\* A directory that can prove completeness, with SHA-1 CertIDs only.
Sha1Setups ==
    {Setup(1, Directory(Origins[1]), Config(compat, 1, FALSE, 0, 0, "authoritative-complete"), GoodSeal(1), {}) :
        compat \in {"sha1", "dual", "sha256"}}

====
