---- MODULE Ahu ----
(***************************************************************************)
(* The ahu bundle format: building a bundle from entries, its manifest and *)
(* seal, reading it back, verifying it, and looking an entry up.  Pure     *)
(* operators, used by Generation and DeltaChain.                           *)
(*                                                                         *)
(* A file is its header followed by cells.  The manifest and the seal take *)
(* one cell each, the index one cell per record, the data section one cell *)
(* per SingleResponse of a payload, so that offsets and lengths mean what  *)
(* they mean in the file.  A digest is the value it is taken of, which is  *)
(* what collision resistance gives.                                        *)
(***************************************************************************)
EXTENDS Integers, Sequences, FiniteSets, SequencesExt

CONSTANTS
    None,       \* Option::None, and the result of a refused operation
    Garbled     \* what is read from bytes that are not of the expected kind

----------------------------------------------------------------------------
(* Index records and the builder *)

IndexRecord(key, disc, length, flags) ==
    [key |-> key, disc |-> disc, offset |-> 0, length |-> length, flags |-> flags]

IsTombstone(r) == "TOMBSTONE" \in r.flags

IsAlias(r) == "ALIAS" \in r.flags

Precedes(r, s) == r.key < s.key \/ (r.key = s.key /\ r.disc < s.disc)

add_entry(key, disc, payload) ==
    <<[record |-> IndexRecord(key, disc, Len(payload), {}), payload |-> payload]>>

add_dual_entry(key1, key2, disc, payload) ==
    LET flags == {"ALIAS", "MULTI"}
    IN [i \in 1 .. 2 |-> [record |-> IndexRecord(<<key1, key2>>[i], disc, Len(payload), flags),
                          payload |-> payload]]

add_tombstone(key, disc) ==
    <<[record |-> IndexRecord(key, disc, 0, {"TOMBSTONE"}), payload |-> <<>>]>>

(* The members of S as a sequence in the order R, a set of pairs: the k-th has k - 1 before it. *)
InOrder(S, R) ==
    [k \in 1 .. Cardinality(S) |->
        CHOOSE x \in S : Cardinality({y \in S : <<y, x>> \in R}) = k - 1]

(* sort_by_key is stable: entries with the same key keep their order. *)
StableOrder(entries) ==
    {p \in (DOMAIN entries) \X (DOMAIN entries) :
        \/ Precedes(entries[p[1]].record, entries[p[2]].record)
        \/ /\ ~Precedes(entries[p[2]].record, entries[p[1]].record)
           /\ p[1] < p[2]}

SortEntries(entries) ==
    LET order == InOrder(DOMAIN entries, StableOrder(entries))
    IN [i \in DOMAIN entries |-> entries[order[i]]]

(* The stored payloads of aliases that an alias may share. *)
Shared(placed, entry) ==
    {a \in placed.aliases : IsAlias(entry.record) /\ a.payload = entry.payload}

(* One step of the loop that lays out the data section. *)
Place(placed, entry) ==
    LET r == entry.record
        at == Len(placed.data)
        shared == Shared(placed, entry)
        Record(offset, length) == Append(placed.index, [r EXCEPT !.offset = offset, !.length = length])
    IN CASE IsTombstone(r) -> [placed EXCEPT !.index = Record(0, 0)]
         [] ~IsTombstone(r) /\ shared # {} ->
               [placed EXCEPT !.index = Record((CHOOSE a \in shared : TRUE).offset, r.length)]
         [] OTHER ->
               [index |-> Record(at, Len(entry.payload)),
                data |-> placed.data \o entry.payload,
                aliases |-> IF IsAlias(r)
                            THEN placed.aliases \cup {[payload |-> entry.payload, offset |-> at]}
                            ELSE placed.aliases]

NothingPlaced == [index |-> <<>>, data |-> <<>>, aliases |-> {}]

(* What is laid out after each of the sorted entries. *)
Placed(sorted) ==
    LET placed[n \in 0 .. Len(sorted)] ==
            IF n = 0 THEN NothingPlaced ELSE Place(placed[n - 1], sorted[n])
    IN placed

Layout(entries) == Placed(SortEntries(entries))[Len(entries)]

----------------------------------------------------------------------------
(* Manifest *)

ManifestFields ==
    <<"format_version", "bundle_id", "producer_id", "created_at", "bundle_type",
      "ca_scopes", "window", "integrity", "entry_count", "continuity", "shard",
      "compression", "extensions">>

(* A map with integer keys, 11 to 13 only when present.  In a damaged map the fields *)
(* of `garbled` are there and cannot be decoded.                                     *)
to_cbor(m) ==
    LET present == (1 .. 10) \cup {i \in 11 .. 13 : m[ManifestFields[i]] # None}
    IN [fields |-> [i \in present |-> m[ManifestFields[i]]], garbled |-> {}]

(* A mandatory field that is missing or garbled is an error. *)
Decodes(cbor) == 1 .. 10 \subseteq DOMAIN cbor.fields

(* An optional one reads as absent. *)
from_cbor(cbor) ==
    [f \in Range(ManifestFields) |->
        LET i == CHOOSE j \in 1 .. 13 : ManifestFields[j] = f
        IN IF i \in DOMAIN cbor.fields THEN cbor.fields[i] ELSE None]

(* The links to other bundles, each the set of the one digest or empty. *)
NoContinuity == [prev |-> {}, base |-> {}, chain_length |-> 0]

----------------------------------------------------------------------------
(* Seal: a CMS signature over the digest of the manifest, with its certificate *)

create_cms_seal(manifest_bytes, seal_key, seal_cert) ==
    [digest |-> manifest_bytes, signed_by |-> seal_key, cert |-> seal_cert]

validate_cert_profile(cert, now) ==
    cert.not_before <= now /\ now < cert.not_after /\ cert.profile

(* seal: the seal section, empty when there is no seal that can be decoded. *)
verify_seal(manifest_bytes, seal) ==
    /\ seal # <<>>
    /\ seal[1].digest = manifest_bytes
    /\ seal[1].signed_by = seal[1].cert.key

verify_seal_with_pins(manifest_bytes, seal, pins, now) ==
    /\ verify_seal(manifest_bytes, seal)
    /\ validate_cert_profile(seal[1].cert, now)
    /\ seal[1].cert \in pins

(* The signer's certificate is an anchor, or an anchor issued it directly. *)
verify_seal_with_anchors(manifest_bytes, seal, anchors, now) ==
    /\ verify_seal(manifest_bytes, seal)
    /\ validate_cert_profile(seal[1].cert, now)
    /\ \A a \in anchors : validate_cert_profile(a, now)
    /\ \E a \in anchors : seal[1].cert = a \/ seal[1].cert.issued_by = a.key

validate_seal_materials(key, cert, now) ==
    LET payload == "hoike:seal-preflight:v1"
    IN verify_seal_with_pins(payload, <<create_cms_seal(payload, key, cert)>>, {cert}, now)

----------------------------------------------------------------------------
(* Files *)

SectionKinds == <<"manifest", "seal", "record", "response">>

Cells(section, i) == [j \in DOMAIN section |-> [kind |-> SectionKinds[i], value |-> section[j]]]

(* The sections one after the other, and the header that locates them. *)
Assemble(sections) ==
    LET seal == Len(sections[1])
        index == seal + Len(sections[2])
        data == index + Len(sections[3])
    IN [header |-> [i \in 1 .. 4 |-> [offset |-> <<0, seal, index, data>>[i],
                                      length |-> Len(sections[i])]],
        cells |-> Cells(sections[1], 1) \o Cells(sections[2], 2)
                     \o Cells(sections[3], 3) \o Cells(sections[4], 4)]

(* sealer, a key and its certificate, seals the encoded manifest; None leaves it unsealed. *)
build(manifest, entries, sealer) ==
    LET laid == Layout(entries)
        bytes == to_cbor([manifest EXCEPT
                    !.integrity = [index_digest |-> laid.index, data_digest |-> laid.data],
                    !.entry_count = Len(laid.index)])
        seal == IF sealer = None THEN <<>> ELSE <<create_cms_seal(bytes, sealer.key, sealer.cert)>>
    IN Assemble(<<<<bytes>>, seal, laid.index, laid.data>>)

validate_bounds(header, size) == \A i \in 1 .. 4 : header[i].offset + header[i].length <= size

(* Cells of another section, read here, are garbled. *)
read_section(file, i) ==
    LET h == file.header[i]
    IN [j \in 1 .. h.length |-> LET cell == file.cells[h.offset + j]
                                IN IF cell.kind = SectionKinds[i] THEN cell.value ELSE Garbled]

Intact(file, i) ==
    \A j \in 1 .. file.header[i].length :
        file.cells[file.header[i].offset + j].kind = SectionKinds[i]

(* What from_bytes does not refuse. *)
Readable(file) ==
    /\ validate_bounds(file.header, Len(file.cells))
    /\ file.header[1].length = 1 /\ Intact(file, 1) /\ Decodes(read_section(file, 1)[1])
    /\ Intact(file, 3)

from_bytes(file) ==
    LET bytes == read_section(file, 1)[1]
    IN [manifest |-> from_cbor(bytes), manifest_bytes |-> bytes,
        seal |-> IF Intact(file, 2) THEN read_section(file, 2) ELSE <<>>,
        index |-> read_section(file, 3), data |-> read_section(file, 4)]

HasBytes(bundle, r) == ~IsTombstone(r) /\ r.offset + r.length <= Len(bundle.data)

entry_bytes(bundle, r) ==
    IF HasBytes(bundle, r) THEN SubSeq(bundle.data, r.offset + 1, r.offset + r.length) ELSE None

----------------------------------------------------------------------------
(* Verification *)

validate_sort_order(index) == \A i \in 1 .. Len(index) - 1 : Precedes(index[i], index[i + 1])

\* Mutant: only the index is compared with its digest.
IndexDigestMatches(manifest, bundle) == manifest.integrity.index_digest = bundle.index

DigestsMatch(manifest, bundle) ==
    /\ manifest.integrity.index_digest = bundle.index
    /\ manifest.integrity.data_digest = bundle.data

(* A count of entries that differs from the manifest's is only a warning. *)
verify_structure(bundle) ==
    LET manifest == from_cbor(bundle.manifest_bytes)
    IN /\ Decodes(bundle.manifest_bytes)
       /\ to_cbor(manifest) = to_cbor(bundle.manifest)
       /\ DigestsMatch(manifest, bundle)
       /\ validate_sort_order(bundle.index)
       /\ \A i \in DOMAIN bundle.index :
             IsTombstone(bundle.index[i]) \/ HasBytes(bundle, bundle.index[i])
       /\ manifest.bundle_type = "Delta" => manifest.continuity.base # {}

manifest_digest(bundle) == bundle.manifest_bytes

validate_serving_profile(bundle) ==
    /\ bundle.manifest.bundle_type = "Full"
    /\ \/ bundle.manifest.compression = None
       \/ bundle.manifest.compression = [algorithm |-> "None", dictionary |-> None]
    /\ \A i \in DOMAIN bundle.index : ~IsTombstone(bundle.index[i])
    /\ bundle.manifest.continuity.base = {}
    /\ bundle.manifest.continuity.chain_length = 0

(* Trust policy: pinned certificates, anchors, and who may seal which scope. *)
Authenticates(bundle, storage, now) ==
    \/ verify_seal_with_pins(bundle.manifest_bytes, bundle.seal, storage.pins, now)
    \/ verify_seal_with_anchors(bundle.manifest_bytes, bundle.seal, storage.anchors, now)

authenticate_bundle(bundle, storage, now) ==
    /\ verify_structure(bundle)
    /\ Authenticates(bundle, storage, now)
    /\ storage.authorizations # {} =>
          \A i \in DOMAIN bundle.manifest.ca_scopes :
              <<bundle.manifest.producer_id, bundle.manifest.ca_scopes[i].issuer_key_hash,
                bundle.seal[1].cert>> \in storage.authorizations

admit_bundle(bundle, storage, now) ==
    /\ validate_serving_profile(bundle)
    /\ IF /\ storage.allow_unauthenticated_bundles
          /\ storage.pins = {} /\ storage.anchors = {} /\ storage.authorizations = {}
       THEN verify_structure(bundle)
       ELSE authenticate_bundle(bundle, storage, now)

----------------------------------------------------------------------------
(* Lookup *)

(* The standard library's search on a sorted index: the position, 0 for no match. *)
binary_search_with_discriminator(index, key, disc) ==
    LET hits == {i \in DOMAIN index : index[i].key = key /\ index[i].disc = disc}
    IN IF hits = {} THEN 0 ELSE CHOOSE i \in hits : TRUE

(* The preferences in order, then the default discriminator 0 unless it was tried. *)
Tried(preferences) ==
    IF 0 \in Range(preferences) THEN preferences ELSE Append(preferences, 0)

(* The first position that was found, 0 for none. *)
FirstFound(found) ==
    LET hits == {i \in DOMAIN found : found[i] # 0}
    IN IF hits = {} THEN 0 ELSE found[Min(hits)]

binary_search_preferred(index, key, preferences) ==
    FirstFound([i \in DOMAIN Tried(preferences) |->
                   binary_search_with_discriminator(index, key, Tried(preferences)[i])])

lookup_preferred(bundle, key, preferences) ==
    LET i == binary_search_preferred(bundle.index, key, preferences)
    IN IF i = 0 THEN None ELSE entry_bytes(bundle, bundle.index[i])

\* Mutant: the search goes on in the lower half without its last position.
LowerHalfShort(lo, mid) == IF mid = lo THEN lo ELSE mid - 1

(* The upper end of the search when the probe at mid is too large. *)
LowerHalf(lo, mid) == mid

(* MmapBundle's own search over 0-based positions, lo .. hi - 1 for a span <<lo, hi>>. *)
binary_search_disc(index, key, disc) ==
    LET Probe[span \in (0 .. Len(index)) \X (0 .. Len(index))] ==
            LET lo == span[1]
                hi == span[2]
                mid == lo + (hi - lo) \div 2
                r == index[mid + 1]
            IN CASE lo >= hi -> 0
                 [] lo < hi /\ r.key = key /\ r.disc = disc -> mid + 1
                 [] lo < hi /\ (r.key < key \/ (r.key = key /\ r.disc < disc)) -> Probe[<<mid + 1, hi>>]
                 [] OTHER -> Probe[<<lo, LowerHalf(lo, mid)>>]
    IN Probe[<<0, Len(index)>>]

(* entry_at_mmap checks the bounds as entry_bytes does, in the mapped file. *)
lookup_mapped(bundle, key, preferences) ==
    LET i == FirstFound([j \in DOMAIN Tried(preferences) |->
                            binary_search_disc(bundle.index, key, Tried(preferences)[j])])
    IN IF i = 0 THEN None ELSE entry_bytes(bundle, bundle.index[i])

====
