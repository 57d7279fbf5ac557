-------------------------- MODULE DeltaChainProofs --------------------------
(***************************************************************************)
(* For every producer and every choice of an operator: a materialized      *)
(* bundle verifies and holds exactly what the last bundle of its chain to  *)
(* mention a slot says, its window and epoch are those of its inputs made  *)
(* conservative, diff names the net change, and only successive            *)
(* publications are materialized when deltas name their predecessors.      *)
(***************************************************************************)
EXTENDS DeltaChain, AhuProofs

-----------------------------------------------------------------------------
(* Content: what a bundle says of some slots *)

\* What payloads are made of.
Responses == UNION {Range(p) : p \in Payloads}

\* A payload, or a removal, for some of the slots.
IsContent(content) ==
  /\ DOMAIN content \subseteq Slots
  /\ content \in [DOMAIN content -> Payloads \cup {Gone}]

\* A payload is a sequence of responses.
LEMMA PayloadTypes ==
  ASSUME NEW p \in Payloads
  PROVE  p \in Seq(Responses) /\ Len(p) \in Nat /\ p # Gone /\ p # None
<1>1. p \in Seq(Range(p)) /\ p # Gone /\ p # None
  BY ConstantsAssumption
<1>2. Range(p) \subseteq Responses
  BY DEF Responses
<1>3. p \in Seq(Responses)
  BY <1>1, <1>2, SeqMonotonic
<1> QED
  BY <1>1, <1>3

\* A slot is a pair of numbers.
LEMMA SlotTypes ==
  ASSUME NEW slot \in Slots
  PROVE  slot = <<slot[1], slot[2]>> /\ slot[1] \in Int /\ slot[2] \in Int
BY ConstantsAssumption

\* The entry of the builder for a slot.
LEMMA EntryForSlot ==
  ASSUME NEW slot \in Slots, NEW payload \in Payloads \cup {Gone},
         NEW e, e = EntryFor(slot, payload)
  PROVE  /\ e \in BuilderEntry(Responses)
         /\ e.record.length = Len(e.payload)
         /\ e.record.key = slot[1] /\ e.record.disc = slot[2]
         /\ IsTombstone(e.record) <=> payload = Gone
         /\ payload # Gone => e.payload = payload
<1>1. slot[1] \in Int /\ slot[2] \in Int
  BY SlotTypes
<1>2. CASE payload = Gone
  <2>1. e = [record |-> IndexRecord(slot[1], slot[2], 0, {"TOMBSTONE"}), payload |-> <<>>]
    BY <1>2 DEF EntryFor, add_tombstone
  <2>2. e.record = [key |-> slot[1], disc |-> slot[2], offset |-> 0, length |-> 0, flags |-> {"TOMBSTONE"}]
    BY <2>1 DEF IndexRecord
  <2>3. e.record \in IndexEntry
    BY <1>1, <2>2 DEF IndexEntry
  <2>4. e.payload = <<>> /\ <<>> \in Seq(Responses) /\ Len(<<>>) = 0
    BY <2>1
  <2>5. e \in BuilderEntry(Responses)
    BY <2>1, <2>3, <2>4 DEF BuilderEntry
  <2> QED
    BY <1>2, <2>2, <2>4, <2>5 DEF IsTombstone
<1>3. CASE payload # Gone
  <2>1. payload \in Seq(Responses) /\ Len(payload) \in Nat
    BY <1>3, PayloadTypes
  <2>2. e = [record |-> IndexRecord(slot[1], slot[2], Len(payload), {}), payload |-> payload]
    BY <1>3 DEF EntryFor, add_entry
  <2>3. e.record = [key |-> slot[1], disc |-> slot[2], offset |-> 0, length |-> Len(payload), flags |-> {}]
    BY <2>2 DEF IndexRecord
  <2>4. e.record \in IndexEntry
    BY <1>1, <2>1, <2>3 DEF IndexEntry
  <2>5. e.payload = payload
    BY <2>2
  <2>6. e \in BuilderEntry(Responses)
    BY <2>1, <2>2, <2>4, <2>5 DEF BuilderEntry
  <2> QED
    BY <1>3, <2>3, <2>5, <2>6 DEF IsTombstone
<1> QED
  BY <1>2, <1>3

\* Slots are ordered by key and discriminator.
LEMMA SlotsOrdered ==
  ASSUME NEW D, D \subseteq Slots
  PROVE  Orders(SlotOrder, D)
<1> DEFINE L(x, y) == x[1] < y[1] \/ (x[1] = y[1] /\ x[2] < y[2])
<1>1. \A x \in D : x = <<x[1], x[2]>> /\ x[1] \in Int /\ x[2] \in Int
  BY SlotTypes
<1>2. \A x, y \in D : <<x, y>> \in SlotOrder <=> L(x, y)
  BY DEF SlotOrder
<1>3. \A x \in D : ~L(x, x)
  BY <1>1
<1>4. \A x, y \in D : x # y => L(x, y) \/ L(y, x)
  <2> SUFFICES ASSUME NEW x \in D, NEW y \in D, ~L(x, y), ~L(y, x) PROVE x = y
    OBVIOUS
  <2>1. x[1] = y[1] /\ x[2] = y[2]
    BY <1>1
  <2> QED
    BY <1>1, <2>1
<1>5. \A x, y, z \in D : L(x, y) /\ L(y, z) => L(x, z)
  BY <1>1
<1> HIDE DEF L
<1> QED
  BY <1>2, <1>3, <1>4, <1>5 DEF Orders

\* SlotEntries has one entry per slot.
LEMMA ContentEntries ==
  ASSUME NEW content, IsContent(content), NEW entries, entries = SlotEntries(content)
  PROVE  /\ entries \in Seq(BuilderEntry(Responses))
         /\ Sized(entries)
         /\ Distinct(entries)
         /\ \A i \in 1..Len(entries) : \E slot \in DOMAIN content : entries[i] = EntryFor(slot, content[slot])
         /\ \A slot \in DOMAIN content : \E i \in 1..Len(entries) : entries[i] = EntryFor(slot, content[slot])
<1> DEFINE D == DOMAIN content
           N == Cardinality(D)
           slots == InOrder(D, SlotOrder)
<1>1. D \subseteq Slots /\ \A slot \in D : slot \in Slots /\ content[slot] \in Payloads \cup {Gone}
  BY DEF IsContent
<1>2. IsFiniteSet(D)
  BY <1>1, ConstantsAssumption, FS_Subset
<1>3. Orders(SlotOrder, D)
  BY <1>1, SlotsOrdered
<1>4. /\ N \in Nat
      /\ slots \in [1..N -> D]
      /\ \A x \in D : \E k \in 1..N : slots[k] = x
      /\ \A j, k \in 1..N : j < k => <<slots[j], slots[k]>> \in SlotOrder
  <2> HIDE DEF D
  <2> QED
    BY <1>2, <1>3, Sorted
<1>5. entries = [i \in 1..N |-> EntryFor(slots[i], content[slots[i]])]
  BY <1>4 DEF SlotEntries
<1> HIDE DEF slots, N
<1>6. \A i \in 1..N : slots[i] \in D /\ slots[i] \in Slots /\ content[slots[i]] \in Payloads \cup {Gone}
  BY <1>1, <1>4
<1>7. ASSUME NEW i \in 1..N
      PROVE  /\ entries[i] = EntryFor(slots[i], content[slots[i]])
             /\ entries[i] \in BuilderEntry(Responses)
             /\ entries[i].record.length = Len(entries[i].payload)
             /\ entries[i].record.key = slots[i][1] /\ entries[i].record.disc = slots[i][2]
  <2>1. entries[i] = EntryFor(slots[i], content[slots[i]])
    BY <1>5
  <2> QED
    BY <1>6, <2>1, EntryForSlot
<1>8. entries \in Seq(BuilderEntry(Responses)) /\ Len(entries) = N /\ DOMAIN entries = 1..N
  BY <1>4, <1>5, <1>7
<1>9. Sized(entries)
  BY <1>7, <1>8 DEF Sized
<1>10. Distinct(entries)
  <2> SUFFICES ASSUME NEW i \in 1..N, NEW j \in 1..N, i # j,
                      entries[i].record.key = entries[j].record.key,
                      entries[i].record.disc = entries[j].record.disc
               PROVE  FALSE
    BY <1>8 DEF Distinct
  <2>1. slots[i][1] = slots[j][1] /\ slots[i][2] = slots[j][2]
    BY <1>7
  <2>2. slots[i] = slots[j]
    BY <1>6, <2>1, SlotTypes
  <2>3. <<slots[i], slots[j]>> \in SlotOrder \/ <<slots[j], slots[i]>> \in SlotOrder
    BY <1>4
  <2> QED
    BY <1>3, <1>6, <2>2, <2>3 DEF Orders
<1>11. \A i \in 1..N : \E slot \in D : entries[i] = EntryFor(slot, content[slot])
  BY <1>6, <1>7
<1>12. \A slot \in D : \E i \in 1..N : entries[i] = EntryFor(slot, content[slot])
  <2> SUFFICES ASSUME NEW slot \in D PROVE \E i \in 1..N : entries[i] = EntryFor(slot, content[slot])
    OBVIOUS
  <2>1. PICK k \in 1..N : slots[k] = slot
    BY <1>4
  <2> QED
    BY <1>7, <2>1
<1> QED
  BY <1>8, <1>9, <1>10, <1>11, <1>12

\* The bundle b says of every slot what content does.
Says(b, content) ==
  /\ DOMAIN Writes(b) = {slot \in DOMAIN content : content[slot] # Gone}
  /\ \A slot \in DOMAIN Writes(b) : Writes(b)[slot] = [data |-> content[slot], window |-> b.manifest.window]
  /\ Removes(b) = {slot \in DOMAIN content : content[slot] = Gone}
  /\ {SlotOf(b.index[i]) : i \in DOMAIN b.index} = DOMAIN content
  /\ \A i \in DOMAIN b.index : IsTombstone(b.index[i]) => content[SlotOf(b.index[i])] = Gone
  /\ \A slot \in DOMAIN content :
       LET v == binary_search_with_discriminator(b.index, slot[1], slot[2])
       IN v # 0 /\ (content[slot] # Gone => entry_bytes(b, b.index[v]) = content[slot])
  /\ \A key, disc \in Int : <<key, disc>> \notin DOMAIN content =>
       binary_search_with_discriminator(b.index, key, disc) = 0

\* A bundle that has the entries of some content says what the content does.
LEMMA BuiltSays ==
  ASSUME NEW content, IsContent(content), NEW b, IndexOf(b, SlotEntries(content), Responses)
  PROVE  Says(b, content)
<1> DEFINE entries == SlotEntries(content)
           D == DOMAIN content
           N == Len(entries)
           index == b.index
           For(slot) == EntryFor(slot, content[slot])
<1>1. /\ entries \in Seq(BuilderEntry(Responses))
      /\ \A i \in 1..N : \E slot \in D : entries[i] = For(slot)
      /\ \A slot \in D : \E i \in 1..N : entries[i] = For(slot)
  BY ContentEntries
<1>2. \A slot \in D : slot \in Slots /\ content[slot] \in Payloads \cup {Gone}
                      /\ slot = <<slot[1], slot[2]>> /\ slot[1] \in Int /\ slot[2] \in Int
  BY SlotTypes DEF IsContent
<1>3. ASSUME NEW slot \in D
      PROVE  /\ For(slot).record.key = slot[1] /\ For(slot).record.disc = slot[2]
             /\ For(slot).payload \in Seq(Responses)
             /\ IsTombstone(For(slot).record) <=> content[slot] = Gone
             /\ content[slot] # Gone => For(slot).payload = content[slot]
  <2>1. For(slot) \in BuilderEntry(Responses)
    BY <1>2, EntryForSlot
  <2>2. For(slot).payload \in Seq(Responses)
    <3> HIDE DEF For
    <3> QED
      BY <2>1 DEF BuilderEntry
  <2> QED
    BY <1>2, <2>2, EntryForSlot
<1> HIDE DEF entries, N, For
<1>4. /\ index \in Seq(IndexEntry) /\ b.data \in Seq(Responses) /\ Len(index) = N
      /\ DOMAIN index = 1..N
      /\ \A k \in 1..N : \E i \in 1..N : Stored(b.data, index[k], entries[i])
      /\ \A i \in 1..N : \E k \in 1..N : Stored(b.data, index[k], entries[i])
  BY IndexTypes DEF IndexOf, entries, N
\* Every record was written for a slot, and every slot has a record.
<1>5. ASSUME NEW k \in 1..N
      PROVE  \E slot \in D : SlotOf(index[k]) = slot /\ Stored(b.data, index[k], For(slot))
  <2>1. PICK i \in 1..N : Stored(b.data, index[k], entries[i])
    BY <1>4
  <2>2. PICK slot \in D : entries[i] = For(slot)
    BY <1>1
  <2>3. Stored(b.data, index[k], For(slot))
    BY <2>1, <2>2
  <2>4. SlotOf(index[k]) = slot
    BY <1>2, <1>3, <2>3 DEF Stored, SlotOf
  <2> QED
    BY <2>3, <2>4
<1>6. ASSUME NEW slot \in D
      PROVE  \E k \in 1..N : SlotOf(index[k]) = slot /\ Stored(b.data, index[k], For(slot))
  <2>1. PICK i \in 1..N : entries[i] = For(slot)
    BY <1>1
  <2>2. PICK k \in 1..N : Stored(b.data, index[k], entries[i])
    BY <1>4
  <2>3. Stored(b.data, index[k], For(slot))
    BY <2>1, <2>2
  <2>4. SlotOf(index[k]) = slot
    BY <1>2, <1>3, <2>3 DEF Stored, SlotOf
  <2> QED
    BY <2>3, <2>4
<1>7. ASSUME NEW k \in 1..N, NEW slot \in D, SlotOf(index[k]) = slot
      PROVE  /\ IsTombstone(index[k]) <=> content[slot] = Gone
             /\ HasBytes(b, index[k]) <=> content[slot] # Gone
             /\ content[slot] # Gone => entry_bytes(b, index[k]) = content[slot]
  <2>1. Stored(b.data, index[k], For(slot))
    BY <1>5, <1>7
  <2>2. For(slot).payload \in Seq(Responses)
    BY <1>3
  <2>3. /\ IsTombstone(index[k]) <=> IsTombstone(For(slot).record)
        /\ ~IsTombstone(For(slot).record) => entry_bytes(b, index[k]) = For(slot).payload
        /\ HasBytes(b, index[k]) <=> ~IsTombstone(For(slot).record)
    BY <1>4, <2>1, <2>2, StoredBytes
  <2> QED
    BY <1>3, <2>3
<1>8. {SlotOf(index[i]) : i \in DOMAIN index} = D
  <2>1. \A k \in 1..N : SlotOf(index[k]) \in D
    BY <1>5
  <2>2. \A slot \in D : \E k \in 1..N : SlotOf(index[k]) = slot
    BY <1>6
  <2> QED
    BY <1>4, <2>1, <2>2
<1>9. Removes(b) = {slot \in D : content[slot] = Gone}
  <2>1. ASSUME NEW slot, slot \in Removes(b) PROVE slot \in D /\ content[slot] = Gone
    <3>1. PICK k \in 1..N : IsTombstone(index[k]) /\ slot = SlotOf(index[k])
      BY <1>4, <2>1 DEF Removes
    <3>2. slot \in D
      BY <1>5, <3>1
    <3> QED
      BY <1>7, <3>1, <3>2
  <2>2. ASSUME NEW slot \in D, content[slot] = Gone PROVE slot \in Removes(b)
    <3>1. PICK k \in 1..N : SlotOf(index[k]) = slot
      BY <1>6
    <3>2. IsTombstone(index[k])
      BY <1>7, <2>2, <3>1
    <3> QED
      BY <1>4, <3>1, <3>2 DEF Removes
  <2> QED
    BY <2>1, <2>2
<1> DEFINE live == {i \in DOMAIN index : HasBytes(b, index[i])}
           Of(slot) == CHOOSE j \in live : SlotOf(index[j]) = slot
<1>10. Writes(b) = [slot \in {SlotOf(index[i]) : i \in live} |->
                      [data |-> entry_bytes(b, index[Of(slot)]), window |-> b.manifest.window]]
  BY DEF Writes
<1>11. {SlotOf(index[i]) : i \in live} = {slot \in D : content[slot] # Gone}
  <2>1. ASSUME NEW i \in live PROVE SlotOf(index[i]) \in D /\ content[SlotOf(index[i])] # Gone
    <3>1. i \in 1..N /\ HasBytes(b, index[i])
      BY <1>4
    <3>2. SlotOf(index[i]) \in D
      BY <1>5, <3>1
    <3> QED
      BY <1>7, <3>1, <3>2
  <2>2. ASSUME NEW slot \in D, content[slot] # Gone PROVE \E i \in live : SlotOf(index[i]) = slot
    <3>1. PICK k \in 1..N : SlotOf(index[k]) = slot
      BY <1>6
    <3>2. HasBytes(b, index[k])
      BY <1>7, <2>2, <3>1
    <3> QED
      BY <1>4, <3>1, <3>2
  <2> HIDE DEF live
  <2> QED
    BY <2>1, <2>2
<1>12. ASSUME NEW slot \in D, content[slot] # Gone
       PROVE  Writes(b)[slot] = [data |-> content[slot], window |-> b.manifest.window]
  <2>1. \E j \in live : SlotOf(index[j]) = slot
    BY <1>11, <1>12
  <2>2. Of(slot) \in live /\ SlotOf(index[Of(slot)]) = slot
    BY <2>1
  <2>3. Of(slot) \in 1..N
    BY <1>4, <2>2
  <2> HIDE DEF Of
  <2>4. entry_bytes(b, index[Of(slot)]) = content[slot]
    BY <1>7, <1>12, <2>2, <2>3
  <2>5. slot \in {SlotOf(index[i]) : i \in live}
    BY <1>11, <1>12
  <2> HIDE DEF live
  <2> QED
    BY <1>10, <2>4, <2>5
<1>13. DOMAIN Writes(b) = {slot \in D : content[slot] # Gone}
  <2> HIDE DEF live, Of
  <2> QED
    BY <1>10, <1>11
<1>14. ASSUME NEW slot \in D
       PROVE  LET v == binary_search_with_discriminator(index, slot[1], slot[2])
              IN v # 0 /\ (content[slot] # Gone => entry_bytes(b, index[v]) = content[slot])
  <2> DEFINE v == binary_search_with_discriminator(index, slot[1], slot[2])
  <2>1. PICK i \in 1..N : entries[i] = For(slot)
    BY <1>1
  <2>2. entries[i].record.key = slot[1] /\ entries[i].record.disc = slot[2]
    BY <1>3, <2>1
  <2>3. v \in 1..N /\ v # 0 /\ Stored(b.data, index[v], entries[i])
    BY <2>2, SlotFound DEF entries, N
  <2> HIDE DEF v
  <2>4. SlotOf(index[v]) = slot
    BY <1>2, <2>2, <2>3 DEF Stored, SlotOf
  <2>5. content[slot] # Gone => entry_bytes(b, index[v]) = content[slot]
    BY <1>7, <2>3, <2>4
  <2> QED
    BY <2>3, <2>5 DEF v
<1>15. ASSUME NEW key \in Int, NEW disc \in Int, <<key, disc>> \notin D
       PROVE  binary_search_with_discriminator(index, key, disc) = 0
  <2>1. \A i \in 1..N : ~(entries[i].record.key = key /\ entries[i].record.disc = disc)
    <3> SUFFICES ASSUME NEW i \in 1..N, entries[i].record.key = key, entries[i].record.disc = disc
                 PROVE  FALSE
      OBVIOUS
    <3>1. PICK slot \in D : entries[i] = For(slot)
      BY <1>1
    <3>2. slot = <<key, disc>>
      BY <1>2, <1>3, <3>1
    <3> QED
      BY <1>15, <3>2
  <2> QED
    BY <2>1, SlotMissing DEF entries, N
<1>16. \A i \in DOMAIN index : IsTombstone(index[i]) => content[SlotOf(index[i])] = Gone
  <2> SUFFICES ASSUME NEW k \in 1..N, IsTombstone(index[k]) PROVE content[SlotOf(index[k])] = Gone
    BY <1>4
  <2>1. SlotOf(index[k]) \in D
    BY <1>5
  <2> QED
    BY <1>7, <2>1
<1> QED
  BY <1>8, <1>9, <1>12, <1>13, <1>14, <1>15, <1>16 DEF Says

-----------------------------------------------------------------------------
(* Published bundles *)

ScopeRecords == [issuer_key_hash : {"ca"}, epoch : Int]

\* The manifest of a full bundle or of a delta.
ManifestOK(m) ==
  /\ IsManifest(m)
  /\ m.bundle_type \in {"Full", "Delta"}
  /\ m.ca_scopes \in Seq(ScopeRecords)
  /\ m.ca_scopes # <<>>
  /\ m.window \in Windows
  /\ m.compression = None
  /\ m.bundle_type = "Full" => m.continuity.base = {} /\ m.continuity.chain_length = 0
  /\ m.bundle_type = "Delta" => m.continuity.base # {}

\* A bundle that verifies and says something of some slots; a full one removes nothing.
Sound(b) ==
  /\ verify_structure(b)
  /\ b.manifest = from_cbor(b.manifest_bytes)
  /\ ManifestOK(b.manifest)
  /\ \E content : /\ IsContent(content)
                  /\ Says(b, content)
                  /\ b.manifest.bundle_type = "Full" => \A slot \in DOMAIN content : content[slot] # Gone

\* What was decoded has all fields.
LEMMA DecodedIsManifest == \A cbor : IsManifest(from_cbor(cbor))
<1> SUFFICES ASSUME NEW cbor, NEW i \in 1..13 PROVE ManifestFields[i] \in DOMAIN from_cbor(cbor)
  BY DEF IsManifest
<1>1. DOMAIN from_cbor(cbor) = Range(ManifestFields)
  BY DEF from_cbor
<1>2. DOMAIN ManifestFields = 1..13
  BY DEF ManifestFields
<1> QED
  BY <1>1, <1>2 DEF Range

\* A bundle built from such a manifest and from content is sound.
LEMMA BuildIsSound ==
  ASSUME NEW manifest, ManifestOK(manifest), NEW content, IsContent(content), NEW sealer,
         manifest.bundle_type = "Full" => \A slot \in DOMAIN content : content[slot] # Gone,
         NEW b, b = from_bytes(build(manifest, SlotEntries(content), sealer))
  PROVE  /\ Sound(b)
         /\ Says(b, content)
         /\ b.manifest.bundle_type = manifest.bundle_type
         /\ b.manifest.ca_scopes = manifest.ca_scopes
         /\ b.manifest.window = manifest.window
         /\ b.manifest.continuity = manifest.continuity
<1> DEFINE entries == SlotEntries(content)
<1>1. entries \in Seq(BuilderEntry(Responses)) /\ Sized(entries) /\ Distinct(entries)
  BY ContentEntries
<1>2. IsManifest(manifest) /\ (manifest.bundle_type = "Delta" => manifest.continuity.base # {})
  BY DEF ManifestOK
<1>3. /\ verify_structure(b)
      /\ IndexOf(b, entries, Responses)
      /\ b.manifest = from_cbor(b.manifest_bytes)
      /\ b.manifest.bundle_type = manifest.bundle_type
      /\ b.manifest.ca_scopes = manifest.ca_scopes
      /\ b.manifest.window = manifest.window
      /\ b.manifest.continuity = manifest.continuity
      /\ b.manifest.compression = manifest.compression
  BY <1>1, <1>2, BuiltVerifies
<1>4. Says(b, content)
  BY <1>3, BuiltSays
<1>5. IsManifest(b.manifest)
  BY <1>3, DecodedIsManifest
<1>6. ManifestOK(b.manifest)
  BY <1>3, <1>5 DEF ManifestOK
<1> QED
  BY <1>3, <1>4, <1>6 DEF Sound

\* A sound full bundle is of the profile that responders serve.
LEMMA FullIsServed ==
  ASSUME NEW b, Sound(b), b.manifest.bundle_type = "Full"
  PROVE  validate_serving_profile(b) /\ Removes(b) = {}
<1>1. PICK content : /\ IsContent(content)
                     /\ Says(b, content)
                     /\ \A slot \in DOMAIN content : content[slot] # Gone
  BY DEF Sound
<1>2. \A i \in DOMAIN b.index : ~IsTombstone(b.index[i])
  <2> SUFFICES ASSUME NEW i \in DOMAIN b.index, IsTombstone(b.index[i]) PROVE FALSE
    OBVIOUS
  <2>1. SlotOf(b.index[i]) \in DOMAIN content
    BY <1>1 DEF Says
  <2>2. content[SlotOf(b.index[i])] = Gone
    BY <1>1 DEF Says
  <2> QED
    BY <1>1, <2>1, <2>2
<1>3. Removes(b) = {}
  BY <1>2 DEF Removes
<1>4. /\ b.manifest.continuity.base = {} /\ b.manifest.continuity.chain_length = 0
      /\ b.manifest.compression = None
  BY DEF Sound, ManifestOK
<1> QED
  BY <1>2, <1>3, <1>4 DEF validate_serving_profile

\* What a sound bundle writes and removes.
LEMMA SoundWrites ==
  ASSUME NEW b, Sound(b)
  PROVE  /\ DOMAIN Writes(b) \subseteq Slots
         /\ Removes(b) \subseteq Slots
         /\ DOMAIN Writes(b) \cap Removes(b) = {}
         /\ \A slot \in DOMAIN Writes(b) : /\ Writes(b)[slot].data \in Payloads
                                           /\ Writes(b)[slot].window = b.manifest.window
         /\ b.manifest.window \in Windows
<1>1. PICK content : IsContent(content) /\ Says(b, content)
  BY DEF Sound
<1>2. DOMAIN content \subseteq Slots /\ \A slot \in DOMAIN content : content[slot] \in Payloads \cup {Gone}
  BY <1>1 DEF IsContent
<1>3. /\ DOMAIN Writes(b) = {slot \in DOMAIN content : content[slot] # Gone}
      /\ \A slot \in DOMAIN Writes(b) : Writes(b)[slot] = [data |-> content[slot], window |-> b.manifest.window]
      /\ Removes(b) = {slot \in DOMAIN content : content[slot] = Gone}
  BY <1>1 DEF Says
<1>4. b.manifest.window \in Windows
  BY DEF Sound, ManifestOK
<1>5. DOMAIN Writes(b) \subseteq Slots /\ Removes(b) \subseteq Slots /\ DOMAIN Writes(b) \cap Removes(b) = {}
  BY <1>2, <1>3
<1>6. ASSUME NEW slot \in DOMAIN Writes(b)
      PROVE  Writes(b)[slot].data \in Payloads /\ Writes(b)[slot].window = b.manifest.window
  <2>1. Writes(b)[slot] = [data |-> content[slot], window |-> b.manifest.window]
    BY <1>3
  <2>2. content[slot] \in Payloads
    BY <1>2, <1>3
  <2> QED
    BY <2>1, <2>2
<1> QED
  BY <1>4, <1>5, <1>6

-----------------------------------------------------------------------------
(* Greatest and smallest members *)

\* Max of a non-empty finite set of numbers is its greatest member.
LEMMA MaxIsGreatest ==
  ASSUME NEW S, S \subseteq Int, IsFiniteSet(S), S # {}
  PROVE  Max(S) \in S /\ \A x \in S : x <= Max(S)
<1>1. \E m \in S : \A x \in S : x <= m
  BY FiniteGreatest
<1>2. Max(S) = CHOOSE m \in S : \A x \in S : m >= x
  BY DEF Max
<1>3. \E m \in S : \A x \in S : m >= x
  BY <1>1
<1>4. Max(S) \in S /\ \A x \in S : Max(S) >= x
  BY <1>2, <1>3
<1> QED
  BY <1>4

\* What a function makes of a finite set is finite.
LEMMA ImageFinite ==
  ASSUME NEW f, IsFiniteSet(DOMAIN f)
  PROVE  IsFiniteSet({f[x] : x \in DOMAIN f})
<1> DEFINE S == DOMAIN f
           T == {f[x] : x \in S}
           g == [x \in S |-> f[x]]
<1>1. g \in Surjection(S, T)
  BY DEF Surjection
<1> HIDE DEF g, T, S
<1>2. IsFiniteSet(S)
  BY DEF S
<1>3. IsFiniteSet(T)
  BY <1>1, <1>2, FS_Surjection
<1> QED
  BY <1>3 DEF T, S

\* Min of a non-empty finite set of numbers is its smallest member.
LEMMA MinIsSmallest ==
  ASSUME NEW S, S \subseteq Int, IsFiniteSet(S), S # {}
  PROVE  Min(S) \in S /\ \A x \in S : Min(S) <= x
<1> DEFINE f == [x \in S |-> 0 - x]
           T == {f[x] : x \in DOMAIN f}
<1>0. \A x \in S : x \in Int /\ f[x] = 0 - x /\ f[x] \in Int /\ f[x] \in T
  OBVIOUS
<1>1. T \subseteq Int /\ T # {} /\ DOMAIN f = S
  BY <1>0
<1>2. IsFiniteSet(T)
  <2> HIDE DEF f
  <2> QED
    BY <1>1, ImageFinite
<1>3. PICK t \in T : \A x \in T : x <= t
  <2> HIDE DEF T
  <2> QED
    BY <1>1, <1>2, FiniteGreatest
<1>4. PICK m \in S : t = f[m]
  BY <1>3
<1> HIDE DEF f, T
<1>5. \A x \in S : m <= x
  <2> SUFFICES ASSUME NEW x \in S PROVE m <= x
    OBVIOUS
  <2>1. f[x] \in T /\ x \in Int /\ m \in Int /\ f[x] = 0 - x /\ f[m] = 0 - m
    BY <1>0
  <2>2. 0 - x <= 0 - m
    BY <1>3, <1>4, <2>1
  <2> QED
    BY <2>1, <2>2
<1>6. Min(S) = CHOOSE y \in S : \A x \in S : y <= x
  BY DEF Min
<1> QED
  BY <1>5, <1>6

-----------------------------------------------------------------------------
(* The working set *)

\* The loop over the deltas computes its next result from the one before.
LEMMA WorkingSteps ==
  ASSUME NEW B, NEW base, NEW deltas \in Seq(B)
  PROVE  /\ Working(base, deltas)[0] = Writes(base)
         /\ \A n \in 1..Len(deltas) : Working(base, deltas)[n] = Overlay(Working(base, deltas)[n - 1], deltas[n])
<1> DEFINE Body(g, m) == [n \in 0..m |-> IF n = 0 THEN Writes(base) ELSE Overlay(g[n - 1], deltas[n])]
           S == {m \in Nat : \E g : g = Body(g, m)}
           N == Len(deltas)
<1>1. N \in Nat
  OBVIOUS
<1>2. 0 \in S
  <2> DEFINE g == [n \in 0..0 |-> Writes(base)]
  <2>1. g = Body(g, 0)
    OBVIOUS
  <2> QED
    BY <2>1
<1>3. ASSUME NEW m \in Nat, m \in S PROVE m + 1 \in S
  <2>1. PICK g : g = Body(g, m)
    BY <1>3
  <2> DEFINE h == [n \in 0..(m + 1) |-> IF n = m + 1 THEN Overlay(g[m], deltas[m + 1]) ELSE g[n]]
  <2>2. ASSUME NEW n \in 0..(m + 1)
        PROVE  h[n] = IF n = 0 THEN Writes(base) ELSE Overlay(h[n - 1], deltas[n])
    <3>1. CASE n = m + 1
      <4>1. n # 0 /\ n - 1 = m /\ n - 1 \in 0..(m + 1) /\ n - 1 # m + 1
        BY <3>1
      <4>2. h[n - 1] = g[m]
        BY <4>1
      <4> QED
        BY <3>1, <4>1, <4>2
    <3>2. CASE n # m + 1
      <4>1. n \in 0..m
        BY <3>2
      <4>2. g[n] = IF n = 0 THEN Writes(base) ELSE Overlay(g[n - 1], deltas[n])
        BY <2>1, <4>1
      <4>3. n # 0 => n - 1 \in 0..(m + 1) /\ n - 1 # m + 1
        BY <4>1
      <4> QED
        BY <3>2, <4>2, <4>3
    <3> QED
      BY <3>1, <3>2
  <2>3. h = Body(h, m + 1)
    <3>1. DOMAIN h = 0..(m + 1)
      OBVIOUS
    <3> HIDE DEF h
    <3>2. h = [n \in 0..(m + 1) |-> h[n]]
      BY <3>1
    <3> QED
      BY <2>2, <3>2
  <2> HIDE DEF h, Body
  <2>4. m + 1 \in Nat /\ \E f : f = Body(f, m + 1)
    BY <2>3
  <2> QED
    BY <2>4
<1>4. \E g : g = Body(g, N)
  <2> HIDE DEF S
  <2>1. N \in S
    BY <1>1, <1>2, <1>3, Induction
  <2> QED
    BY <2>1 DEF S
<1>5. Working(base, deltas) = Body(Working(base, deltas), N)
  <2>1. Working(base, deltas) = CHOOSE g : g = Body(g, N)
    BY DEF Working
  <2> HIDE DEF Body
  <2> QED
    BY <1>4, <2>1
<1>6. \A n \in 0..N : Working(base, deltas)[n] =
        IF n = 0 THEN Writes(base) ELSE Overlay(Working(base, deltas)[n - 1], deltas[n])
  <2> DEFINE P == Working(base, deltas)
  <2>1. P = Body(P, N)
    BY <1>5
  <2> HIDE DEF P
  <2> QED
    BY <2>1 DEF P
<1> QED
  BY <1>1, <1>6

\* The bundle b writes or removes the slot.
Mentions(b, slot) == slot \in DOMAIN Writes(b) \cup Removes(b)

\* The i-th is the last of the first n bundles of the chain that mentions the slot.
IsLast(chain, n, slot, i) ==
  /\ i \in 1..n
  /\ Mentions(chain[i], slot)
  /\ \A j \in 1..n : i < j => ~Mentions(chain[j], slot)

\* w holds what the last of the first n bundles to mention a slot says of it.
LastWrites(w, chain, n) ==
  \A slot :
    \/ slot \notin DOMAIN w /\ \A i \in 1..n : ~Mentions(chain[i], slot)
    \/ \E i \in 1..n : /\ IsLast(chain, n, slot, i)
                       /\ slot \in Removes(chain[i]) => slot \notin DOMAIN w
                       /\ slot \notin Removes(chain[i]) => slot \in DOMAIN w /\ w[slot] = Writes(chain[i])[slot]

\* One delta more.
LEMMA OverlayStep ==
  ASSUME NEW w, NEW chain, NEW n \in Nat, LastWrites(w, chain, n),
         DOMAIN Writes(chain[n + 1]) \cap Removes(chain[n + 1]) = {}
  PROVE  LastWrites(Overlay(w, chain[n + 1]), chain, n + 1)
<1> DEFINE d == chain[n + 1]
           v == Overlay(w, d)
<1> SUFFICES ASSUME NEW slot
             PROVE  \/ slot \notin DOMAIN v /\ \A i \in 1..(n + 1) : ~Mentions(chain[i], slot)
                    \/ \E i \in 1..(n + 1) :
                         /\ IsLast(chain, n + 1, slot, i)
                         /\ slot \in Removes(chain[i]) => slot \notin DOMAIN v
                         /\ slot \notin Removes(chain[i]) => slot \in DOMAIN v /\ v[slot] = Writes(chain[i])[slot]
  BY DEF LastWrites
<1>1. /\ n + 1 \in 1..(n + 1)
      /\ \A i \in 1..n : i \in 1..(n + 1) /\ i < n + 1
      /\ \A i \in 1..(n + 1) : i = n + 1 \/ i \in 1..n
      /\ \A i \in 1..(n + 1) : ~(n + 1 < i)
  OBVIOUS
<1>2. /\ DOMAIN v = (DOMAIN w \ Removes(d)) \cup DOMAIN Writes(d)
      /\ slot \in DOMAIN v => v[slot] = IF slot \in DOMAIN Writes(d) THEN Writes(d)[slot] ELSE w[slot]
  BY DEF Overlay
<1> HIDE DEF v
<1>3. CASE Mentions(d, slot)
  <2>1. IsLast(chain, n + 1, slot, n + 1)
    BY <1>1, <1>3 DEF IsLast
  <2>2. slot \in Removes(d) => slot \notin DOMAIN v
    BY <1>2
  <2>3. slot \notin Removes(d) => slot \in DOMAIN v /\ v[slot] = Writes(d)[slot]
    BY <1>2, <1>3 DEF Mentions
  <2> QED
    BY <1>1, <2>1, <2>2, <2>3
<1>4. CASE ~Mentions(d, slot)
  <2>1. /\ slot \in DOMAIN v <=> slot \in DOMAIN w
        /\ slot \in DOMAIN v => v[slot] = w[slot]
    BY <1>2, <1>4 DEF Mentions
  <2>2. CASE slot \notin DOMAIN w /\ \A i \in 1..n : ~Mentions(chain[i], slot)
    <3>1. \A i \in 1..(n + 1) : ~Mentions(chain[i], slot)
      BY <1>1, <1>4, <2>2
    <3> QED
      BY <2>1, <2>2, <3>1
  <2>3. ASSUME NEW i \in 1..n, IsLast(chain, n, slot, i),
               slot \in Removes(chain[i]) => slot \notin DOMAIN w,
               slot \notin Removes(chain[i]) => slot \in DOMAIN w /\ w[slot] = Writes(chain[i])[slot]
        PROVE  \E k \in 1..(n + 1) :
                 /\ IsLast(chain, n + 1, slot, k)
                 /\ slot \in Removes(chain[k]) => slot \notin DOMAIN v
                 /\ slot \notin Removes(chain[k]) => slot \in DOMAIN v /\ v[slot] = Writes(chain[k])[slot]
    <3>1. IsLast(chain, n + 1, slot, i)
      BY <1>1, <1>4, <2>3 DEF IsLast
    <3> QED
      BY <1>1, <2>1, <2>3, <3>1
  <2> QED
    BY <2>2, <2>3 DEF LastWrites
<1> QED
  BY <1>3, <1>4

\* The bundles are sound and the first of them is a full one.
SoundChain(base, deltas) ==
  /\ deltas \in Seq(Range(deltas))
  /\ Sound(base) /\ base.manifest.bundle_type = "Full"
  /\ \A i \in 1..Len(deltas) : Sound(deltas[i])

\* The positions of a chain.
LEMMA ChainAt ==
  ASSUME NEW base, NEW deltas, deltas \in Seq(Range(deltas)), NEW chain, chain = <<base>> \o deltas
  PROVE  /\ Len(deltas) \in Nat
         /\ DOMAIN deltas = 1..Len(deltas)
         /\ Len(chain) = Len(deltas) + 1
         /\ DOMAIN chain = 1..(Len(deltas) + 1)
         /\ chain[1] = base
         /\ \A n \in 1..Len(deltas) : chain[n + 1] = deltas[n]
<1> DEFINE X == Range(deltas) \cup {base}
<1>1. deltas \in Seq(X) /\ <<base>> \in Seq(X)
  <2>1. Range(deltas) \subseteq X
    OBVIOUS
  <2>2. deltas \in Seq(X)
    BY <2>1, SeqMonotonic
  <2> QED
    BY <2>2
<1> HIDE DEF X
<1>2. Len(<<base>>) = 1 /\ <<base>>[1] = base
  OBVIOUS
<1>3. /\ Len(chain) = Len(deltas) + 1
      /\ DOMAIN chain = 1..(Len(deltas) + 1)
      /\ chain[1] = base
      /\ \A n \in 1..Len(deltas) : chain[n + 1] = deltas[n]
  BY <1>1, <1>2
<1>4. Len(deltas) \in Nat /\ DOMAIN deltas = 1..Len(deltas)
  BY <1>1
<1> QED
  BY <1>3, <1>4

\* The bundles of a chain are sound.
LEMMA ChainIsSound ==
  ASSUME NEW base, NEW deltas, SoundChain(base, deltas)
  PROVE  \A i \in 1..(Len(deltas) + 1) : Sound((<<base>> \o deltas)[i])
<1> SUFFICES ASSUME NEW i \in 1..(Len(deltas) + 1) PROVE Sound((<<base>> \o deltas)[i])
  OBVIOUS
<1>1. deltas \in Seq(Range(deltas)) /\ Len(deltas) \in Nat
  BY DEF SoundChain
<1>2. CASE i = 1
  BY <1>1, <1>2, ChainAt DEF SoundChain
<1>3. CASE i # 1
  <2>1. i - 1 \in 1..Len(deltas) /\ (i - 1) + 1 = i
    BY <1>1, <1>3
  <2>2. (<<base>> \o deltas)[(i - 1) + 1] = deltas[i - 1]
    BY <1>1, <2>1, ChainAt
  <2>3. Sound(deltas[i - 1])
    BY <2>1 DEF SoundChain
  <2> QED
    BY <2>1, <2>2, <2>3
<1> QED
  BY <1>2, <1>3

\* After each delta the working set holds what was written last.
LEMMA WorkingIsLast ==
  ASSUME NEW base, NEW deltas, SoundChain(base, deltas)
  PROVE  LastWrites(Working(base, deltas)[Len(deltas)], <<base>> \o deltas, Len(deltas) + 1)
<1> DEFINE chain == <<base>> \o deltas
           N == Len(deltas)
           W == Working(base, deltas)
           S == {n \in Nat : n <= N => LastWrites(W[n], chain, n + 1)}
<1>1. deltas \in Seq(Range(deltas)) /\ N \in Nat
  BY DEF SoundChain
<1>2. chain[1] = base /\ \A n \in 1..N : chain[n + 1] = deltas[n]
  BY <1>1, ChainAt
<1>3. W[0] = Writes(base) /\ \A n \in 1..N : W[n] = Overlay(W[n - 1], deltas[n])
  BY <1>1, WorkingSteps
<1>4. \A i \in 1..(N + 1) : Sound(chain[i])
  BY ChainIsSound
<1>5. Sound(base) /\ Removes(base) = {}
  BY FullIsServed DEF SoundChain
<1> HIDE DEF chain, W, N
<1>6. LastWrites(W[0], chain, 0 + 1)
  <2> SUFFICES ASSUME NEW slot
               PROVE  \/ slot \notin DOMAIN W[0] /\ \A i \in 1..(0 + 1) : ~Mentions(chain[i], slot)
                      \/ \E i \in 1..(0 + 1) :
                           /\ IsLast(chain, 0 + 1, slot, i)
                           /\ slot \in Removes(chain[i]) => slot \notin DOMAIN W[0]
                           /\ slot \notin Removes(chain[i]) => slot \in DOMAIN W[0] /\ W[0][slot] = Writes(chain[i])[slot]
    BY DEF LastWrites
  <2>1. 1 \in 1..(0 + 1) /\ \A i \in 1..(0 + 1) : i = 1 /\ ~(1 < i)
    OBVIOUS
  <2>2. Mentions(base, slot) <=> slot \in DOMAIN W[0]
    BY <1>3, <1>5 DEF Mentions
  <2>3. CASE slot \notin DOMAIN W[0]
    BY <1>2, <2>1, <2>2, <2>3
  <2>4. CASE slot \in DOMAIN W[0]
    <3>1. IsLast(chain, 0 + 1, slot, 1)
      BY <1>2, <2>1, <2>2, <2>4 DEF IsLast
    <3> QED
      BY <1>2, <1>3, <1>5, <2>1, <2>4, <3>1
  <2> QED
    BY <2>3, <2>4
<1>7. 0 \in S
  BY <1>6
<1>8. ASSUME NEW n \in Nat, n \in S PROVE n + 1 \in S
  <2> SUFFICES ASSUME n + 1 <= N PROVE LastWrites(W[n + 1], chain, (n + 1) + 1)
    OBVIOUS
  <2>1. n <= N /\ n + 1 \in 1..N /\ (n + 1) - 1 = n /\ n + 1 \in Nat /\ (n + 1) + 1 \in 1..(N + 1)
    BY <1>1
  <2>2. LastWrites(W[n], chain, n + 1)
    BY <1>8, <2>1
  <2>3. W[n + 1] = Overlay(W[n], chain[(n + 1) + 1])
    BY <1>2, <1>3, <2>1
  <2>4. DOMAIN Writes(chain[(n + 1) + 1]) \cap Removes(chain[(n + 1) + 1]) = {}
    BY <1>4, <2>1, SoundWrites
  <2>5. LastWrites(Overlay(W[n], chain[(n + 1) + 1]), chain, (n + 1) + 1)
    BY <2>1, <2>2, <2>4, OverlayStep
  <2> QED
    BY <2>3, <2>5
<1> HIDE DEF S
<1>9. N \in S
  BY <1>1, <1>7, <1>8, Induction
<1> QED
  BY <1>1, <1>9 DEF S, W, N, chain

\* What is retained was written by a bundle of the chain.
LEMMA RetainedTypes ==
  ASSUME NEW chain, NEW n \in Nat, \A i \in 1..n : Sound(chain[i]), NEW w, LastWrites(w, chain, n)
  PROVE  /\ DOMAIN w \subseteq Slots
         /\ \A slot \in DOMAIN w : /\ w[slot].data \in Payloads
                                   /\ w[slot].window \in Windows
<1> SUFFICES ASSUME NEW slot \in DOMAIN w
             PROVE  slot \in Slots /\ w[slot].data \in Payloads /\ w[slot].window \in Windows
  OBVIOUS
<1>1. PICK i \in 1..n : /\ IsLast(chain, n, slot, i)
                        /\ slot \notin Removes(chain[i])
                        /\ w[slot] = Writes(chain[i])[slot]
  BY DEF LastWrites
<1>2. slot \in DOMAIN Writes(chain[i])
  BY <1>1 DEF IsLast, Mentions
<1>3. /\ DOMAIN Writes(chain[i]) \subseteq Slots
      /\ Writes(chain[i])[slot].data \in Payloads
      /\ Writes(chain[i])[slot].window = chain[i].manifest.window
      /\ chain[i].manifest.window \in Windows
  BY <1>2, SoundWrites
<1> QED
  BY <1>1, <1>2, <1>3
-----------------------------------------------------------------------------
(* Applying *)

\* The epochs of a sound bundle.
LEMMA EpochTypes ==
  ASSUME NEW b, Sound(b)
  PROVE  Epochs(b) \subseteq Int /\ IsFiniteSet(Epochs(b)) /\ Epochs(b) # {}
<1> DEFINE s == b.manifest.ca_scopes
           f == [i \in DOMAIN s |-> s[i].epoch]
<1>1. s \in Seq(ScopeRecords) /\ s # <<>>
  BY DEF Sound, ManifestOK
<1>2. Epochs(b) = {f[i] : i \in DOMAIN f}
  BY DEF Epochs
<1> HIDE DEF s
<1>3. DOMAIN s = 1..Len(s) /\ Len(s) \in Nat /\ Len(s) # 0 /\ \A i \in DOMAIN s : s[i] \in ScopeRecords
  BY <1>1
<1>4. \A i \in DOMAIN s : s[i].epoch \in Int
  BY <1>3 DEF ScopeRecords
<1>5. IsFiniteSet(DOMAIN f)
  <2>1. DOMAIN f = 1..Len(s)
    BY <1>3
  <2>2. 1 \in Int /\ Len(s) \in Int
    BY <1>3
  <2> QED
    BY <2>1, <2>2, FS_Interval
<1>6. 1 \in DOMAIN f /\ \A i \in DOMAIN f : f[i] \in Int
  BY <1>3, <1>4
<1> HIDE DEF f
<1>7. IsFiniteSet(Epochs(b))
  BY <1>2, <1>5, ImageFinite
<1> QED
  BY <1>2, <1>6, <1>7

\* The greatest epoch of a chain is as great as any of it.
LEMMA TopEpoch ==
  ASSUME NEW chain, NEW n \in Nat, n # 0, DOMAIN chain = 1..n, \A i \in 1..n : Sound(chain[i]),
         NEW top, top = Max(UNION {Epochs(chain[i]) : i \in DOMAIN chain})
  PROVE  top \in Int /\ \A i \in 1..n : \A e \in Epochs(chain[i]) : e <= top
<1> DEFINE f == [i \in 1..n |-> Epochs(chain[i])]
           T == {f[i] : i \in DOMAIN f}
<1>1. DOMAIN f = 1..n /\ \A i \in 1..n : f[i] = Epochs(chain[i])
  OBVIOUS
<1>2. IsFiniteSet(DOMAIN f)
  BY <1>1, FS_Interval
<1>3. top = Max(UNION T)
  OBVIOUS
<1>4. \A i \in 1..n : f[i] \subseteq Int /\ IsFiniteSet(f[i]) /\ f[i] # {}
  BY <1>1, EpochTypes
<1> HIDE DEF f
<1>5. IsFiniteSet(T)
  BY <1>2, ImageFinite
<1>6. \A t \in T : t \subseteq Int /\ IsFiniteSet(t)
  BY <1>1, <1>4
<1>7. IsFiniteSet(UNION T)
  <2> HIDE DEF T
  <2> QED
    BY <1>5, <1>6, FS_UNION
<1>8. UNION T \subseteq Int
  BY <1>6
<1>9. \A i \in 1..n : \A e \in f[i] : e \in UNION T
  BY <1>1
<1>10. UNION T # {}
  <2>1. 1 \in 1..n
    OBVIOUS
  <2>2. f[1] # {}
    BY <1>4, <2>1
  <2>3. PICK e \in f[1] : TRUE
    BY <2>2
  <2> QED
    BY <1>9, <2>1, <2>3
<1> HIDE DEF T
<1>11. Max(UNION T) \in UNION T /\ \A x \in UNION T : x <= Max(UNION T)
  BY <1>7, <1>8, <1>10, MaxIsGreatest
<1> QED
  BY <1>1, <1>3, <1>8, <1>9, <1>11

\* The windows of what is retained are finitely many.
LEMMA WindowsFinite ==
  ASSUME NEW w, IsFiniteSet(DOMAIN w)
  PROVE  IsFiniteSet(WindowsOf(w))
<1> DEFINE f == [slot \in DOMAIN w |-> w[slot].window]
<1>1. WindowsOf(w) = {f[slot] : slot \in DOMAIN f} /\ DOMAIN f = DOMAIN w
  BY DEF WindowsOf
<1> HIDE DEF f
<1> QED
  BY <1>1, ImageFinite

\* Numbers taken from finitely many windows.
LEMMA TimesFinite ==
  ASSUME NEW W, W \subseteq Windows, IsFiniteSet(W), W # {}, NEW f, DOMAIN f = W, \A w \in W : f[w] \in Int,
         NEW T, T = {f[w] : w \in W}
  PROVE  /\ Min(T) \in Int /\ \A w \in W : Min(T) <= f[w]
         /\ Max(T) \in Int /\ \A w \in W : f[w] <= Max(T)
<1>1. T \subseteq Int /\ T # {} /\ \A w \in W : f[w] \in T
  OBVIOUS
<1>2. IsFiniteSet(T)
  BY ImageFinite
<1>3. Min(T) \in T /\ \A x \in T : Min(T) <= x
  BY <1>1, <1>2, MinIsSmallest
<1>4. Max(T) \in T /\ \A x \in T : x <= Max(T)
  BY <1>1, <1>2, MaxIsGreatest
<1> QED
  BY <1>1, <1>3, <1>4

\* The window `all` claims no more than the window `own`.
Covers(all, own) ==
  /\ all.next_update_max <= own.next_update_min
  /\ all.this_update_min <= own.this_update_min
  /\ own.produced_at <= all.produced_at

\* The envelope is a window that claims no more than any of them.
LEMMA EnvelopeCovers ==
  ASSUME NEW W, W \subseteq Windows, IsFiniteSet(W), W # {}
  PROVE  Envelope(W) \in Windows /\ \A w \in W : Covers(Envelope(W), w)
<1> DEFINE P == [w \in W |-> w.produced_at]
           U == [w \in W |-> w.this_update_min]
           N == [w \in W |-> w.next_update_min]
           p == Max({w.produced_at : w \in W})
           u == Min({w.this_update_min : w \in W})
           n == Min({w.next_update_min : w \in W})
<1>1. \A w \in W : w.produced_at \in Int /\ w.this_update_min \in Int /\ w.next_update_min \in Int
  BY DEF Windows
<1>2. DOMAIN P = W /\ \A w \in W : P[w] = w.produced_at /\ P[w] \in Int
  BY <1>1
<1>3. DOMAIN U = W /\ \A w \in W : U[w] = w.this_update_min /\ U[w] \in Int
  BY <1>1
<1>4. DOMAIN N = W /\ \A w \in W : N[w] = w.next_update_min /\ N[w] \in Int
  BY <1>1
<1>5. /\ {w.produced_at : w \in W} = {P[w] : w \in W}
      /\ {w.this_update_min : w \in W} = {U[w] : w \in W}
      /\ {w.next_update_min : w \in W} = {N[w] : w \in W}
  BY <1>2, <1>3, <1>4
<1> HIDE DEF P, U, N
<1>6. p \in Int /\ \A w \in W : P[w] <= p
  BY <1>2, <1>5, TimesFinite
<1>7. u \in Int /\ \A w \in W : u <= U[w]
  BY <1>3, <1>5, TimesFinite
<1>8. n \in Int /\ \A w \in W : n <= N[w]
  BY <1>4, <1>5, TimesFinite
<1> DEFINE e == [produced_at |-> p, this_update_min |-> u, next_update_min |-> n, next_update_max |-> n]
<1>9. Envelope(W) = e
  BY DEF Envelope
<1> HIDE DEF p, u, n
<1>10. e \in Windows
  BY <1>6, <1>7, <1>8 DEF Windows
<1>11. e.produced_at = p /\ e.this_update_min = u /\ e.next_update_max = n
  OBVIOUS
<1> HIDE DEF e
<1>12. \A w \in W : Covers(e, w)
  BY <1>2, <1>3, <1>4, <1>6, <1>7, <1>8, <1>11 DEF Covers
<1> QED
  BY <1>9, <1>10, <1>12
\* The payloads of a working set.
Kept(w) == [slot \in DOMAIN w |-> w[slot].data]

\* What is known of the bundle r that was made of a base and deltas.
Materializes(r, base, deltas) ==
  LET chain == <<base>> \o deltas
      w == Working(base, deltas)[Len(deltas)]
  IN /\ Sound(r)
     /\ r.manifest.bundle_type = "Full"
     /\ Says(r, Kept(w))
     /\ \A i \in 1..(Len(deltas) + 1) : \A e \in Epochs(chain[i]) : \A f \in Epochs(r) : e < f
     /\ \A slot \in DOMAIN w : Covers(r.manifest.window, w[slot].window)
     /\ \A i \in 1..Len(deltas) : Follows(base, chain[i], deltas[i])

\* The manifest of what is materialized.
NextManifest(manifest, last, top, window) ==
  [manifest EXCEPT
      !.continuity = [prev |-> {manifest_digest(last)}, base |-> {}, chain_length |-> 0],
      !.ca_scopes = [i \in DOMAIN @ |-> [@[i] EXCEPT !.epoch = top + 1]],
      !.window = window]

\* It is the manifest of a full bundle, of the same scopes at the new epoch.
LEMMA NextManifestOK ==
  ASSUME NEW manifest, ManifestOK(manifest), manifest.bundle_type = "Full", NEW last, NEW top \in Int,
         NEW window \in Windows, NEW m, m = NextManifest(manifest, last, top, window)
  PROVE  /\ ManifestOK(m)
         /\ m.bundle_type = "Full" /\ m.window = window
         /\ \A i \in DOMAIN m.ca_scopes : m.ca_scopes[i].epoch = top + 1
<1>1. /\ "bundle_type" \in DOMAIN manifest /\ "ca_scopes" \in DOMAIN manifest /\ "window" \in DOMAIN manifest
      /\ "continuity" \in DOMAIN manifest /\ "compression" \in DOMAIN manifest
  <2>1. 5 \in 1..13 /\ 6 \in 1..13 /\ 7 \in 1..13 /\ 10 \in 1..13 /\ 12 \in 1..13
    OBVIOUS
  <2> QED
    BY <2>1 DEF ManifestOK, IsManifest, ManifestFields
<1> DEFINE s == manifest["ca_scopes"]
           t == [i \in DOMAIN s |-> [s[i] EXCEPT !.epoch = top + 1]]
           c == [prev |-> {manifest_digest(last)}, base |-> {}, chain_length |-> 0]
<1>2. /\ DOMAIN m = DOMAIN manifest
      /\ m["bundle_type"] = manifest["bundle_type"] /\ m["compression"] = manifest["compression"]
      /\ m["ca_scopes"] = t /\ m["window"] = window /\ m["continuity"] = c
  BY <1>1 DEF NextManifest
<1>3. s \in Seq(ScopeRecords) /\ s # <<>>
  BY DEF ManifestOK
<1>4. DOMAIN s = 1..Len(s) /\ Len(s) \in Nat /\ Len(s) # 0 /\ \A i \in DOMAIN s : s[i] \in ScopeRecords
  <2> HIDE DEF s
  <2> QED
    BY <1>3
<1> HIDE DEF s
<1>5. \A i \in DOMAIN s : t[i] \in ScopeRecords /\ t[i].epoch = top + 1
  BY <1>4 DEF ScopeRecords
<1>6. t \in Seq(ScopeRecords) /\ t # <<>> /\ DOMAIN t = DOMAIN s
  <2>1. DOMAIN t = DOMAIN s
    OBVIOUS
  <2> HIDE DEF t
  <2>2. t = [i \in 1..Len(s) |-> t[i]]
    <3>1. t = [i \in DOMAIN t |-> t[i]]
      BY DEF t
    <3> QED
      BY <1>4, <2>1, <3>1
  <2>3. t \in Seq(ScopeRecords) /\ Len(t) = Len(s)
    BY <1>4, <1>5, <2>1, <2>2
  <2> QED
    BY <1>4, <2>1, <2>3
<1>7. c.base = {} /\ c.chain_length = 0
  OBVIOUS
<1> HIDE DEF t, c
<1>8. IsManifest(m)
  BY <1>2 DEF ManifestOK, IsManifest
<1>9. ManifestOK(m)
  BY <1>2, <1>6, <1>7, <1>8 DEF ManifestOK
<1> QED
  BY <1>2, <1>5, <1>6, <1>9

\* An application that is not refused materializes its chain.
LEMMA AppliesSoundly ==
  ASSUME NEW base, NEW deltas, deltas \in Seq(Range(deltas)), Sound(base),
         \A i \in 1..Len(deltas) : Sound(deltas[i]),
         NEW sealer, apply_sealed(base, deltas, sealer) # None,
         NEW r, r = from_bytes(apply_sealed(base, deltas, sealer))
  PROVE  SoundChain(base, deltas) /\ Materializes(r, base, deltas)
<1> DEFINE chain == <<base>> \o deltas
           N == Len(deltas)
           last == chain[Len(chain)]
           w == Working(base, deltas)[N]
           windows == WindowsOf(w)
           window == IF windows = {} THEN base.manifest.window ELSE Envelope(windows)
           top == Max(UNION {Epochs(chain[i]) : i \in DOMAIN chain})
           m == NextManifest(base.manifest, last, top, window)
<1>1. /\ base.manifest.bundle_type = "Full"
      /\ \A i \in DOMAIN deltas : Follows(base, chain[i], deltas[i])
      /\ apply_sealed(base, deltas, sealer) = build(m, SlotEntries(Kept(w)), sealer)
  BY DEF apply_sealed, NextManifest, Kept
<1>2. SoundChain(base, deltas)
  BY <1>1 DEF SoundChain
<1>3. /\ N \in Nat /\ DOMAIN deltas = 1..N
      /\ DOMAIN chain = 1..(N + 1)
  BY ChainAt
<1>4. \A i \in 1..(N + 1) : Sound(chain[i])
  BY <1>2, ChainIsSound
<1>5. LastWrites(w, chain, N + 1)
  BY <1>2, WorkingIsLast
<1>6. ManifestOK(base.manifest)
  BY DEF Sound
<1> HIDE DEF chain, N, w, windows, window, top, m, last
<1>7. N + 1 \in Nat /\ N + 1 # 0
  BY <1>3
<1>8. DOMAIN w \subseteq Slots /\ \A slot \in DOMAIN w : w[slot].data \in Payloads /\ w[slot].window \in Windows
  BY <1>4, <1>5, <1>7, RetainedTypes
<1>9. top \in Int /\ \A i \in 1..(N + 1) : \A e \in Epochs(chain[i]) : e <= top
  BY <1>3, <1>4, <1>7, TopEpoch DEF top
<1>10. IsFiniteSet(DOMAIN w)
  BY <1>8, ConstantsAssumption, FS_Subset
<1>11. IsFiniteSet(windows) /\ windows \subseteq Windows /\ \A slot \in DOMAIN w : w[slot].window \in windows
  <2>1. IsFiniteSet(windows)
    BY <1>10, WindowsFinite DEF windows
  <2> QED
    BY <1>8, <2>1 DEF windows, WindowsOf
<1>12. window \in Windows /\ \A slot \in DOMAIN w : Covers(window, w[slot].window)
  <2>1. CASE windows = {}
    <3>1. base.manifest.window \in Windows
      BY <1>6 DEF ManifestOK
    <3> QED
      BY <1>11, <2>1, <3>1 DEF window
  <2>2. CASE windows # {}
    <3>1. Envelope(windows) \in Windows /\ \A v \in windows : Covers(Envelope(windows), v)
      BY <1>11, <2>2, EnvelopeCovers
    <3> QED
      BY <1>11, <2>2, <3>1 DEF window
  <2> QED
    BY <2>1, <2>2
<1>13. IsContent(Kept(w)) /\ \A slot \in DOMAIN Kept(w) : Kept(w)[slot] # Gone
  <2> DEFINE k == Kept(w)
  <2>1. DOMAIN k = DOMAIN w /\ \A slot \in DOMAIN w : k[slot] = w[slot].data
    BY DEF Kept
  <2>2. k = [slot \in DOMAIN k |-> k[slot]]
    BY DEF Kept
  <2> HIDE DEF k
  <2>3. \A slot \in DOMAIN k : k[slot] \in Payloads /\ k[slot] # Gone
    BY <1>8, <2>1, PayloadTypes
  <2>4. k \in [DOMAIN k -> Payloads \cup {Gone}]
    BY <2>2, <2>3
  <2>5. IsContent(k)
    BY <1>8, <2>1, <2>4 DEF IsContent
  <2> QED
    BY <2>3, <2>5 DEF k
<1>14. /\ ManifestOK(m) /\ m.bundle_type = "Full" /\ m.window = window
       /\ \A i \in DOMAIN m.ca_scopes : m.ca_scopes[i].epoch = top + 1
  BY <1>1, <1>6, <1>9, <1>12, NextManifestOK DEF m
<1>15. r = from_bytes(build(m, SlotEntries(Kept(w)), sealer))
  BY <1>1
<1>16. /\ Sound(r)
       /\ Says(r, Kept(w))
       /\ r.manifest.bundle_type = "Full"
       /\ r.manifest.ca_scopes = m.ca_scopes
       /\ r.manifest.window = window
  BY <1>13, <1>14, <1>15, BuildIsSound
<1>17. \A f \in Epochs(r) : f = top + 1
  BY <1>14, <1>16 DEF Epochs
<1>18. \A i \in 1..(N + 1) : \A e \in Epochs(chain[i]) : \A f \in Epochs(r) : e < f
  <2> SUFFICES ASSUME NEW i \in 1..(N + 1), NEW e \in Epochs(chain[i]), NEW f \in Epochs(r) PROVE e < f
    OBVIOUS
  <2>1. e \in Int
    BY <1>4, EpochTypes
  <2>2. e <= top /\ f = top + 1
    BY <1>9, <1>17
  <2> QED
    BY <1>9, <2>1, <2>2
<1>19. \A slot \in DOMAIN w : Covers(r.manifest.window, w[slot].window)
  BY <1>12, <1>16
<1>20. \A i \in 1..N : Follows(base, chain[i], deltas[i])
  BY <1>1, <1>3
<1>21. Materializes(r, base, deltas)
  BY <1>16, <1>18, <1>19, <1>20 DEF Materializes, chain, N, w
<1> QED
  BY <1>2, <1>21
-----------------------------------------------------------------------------
(* The state after an application *)

Base == published[chosen.base]

Inputs == [i \in DOMAIN chosen.deltas |-> published[chosen.deltas[i]]]

Retained == Working(Base, Inputs)[Len(Inputs)]

\* The result was made of the chosen bundles.
Applied ==
  /\ chosen.base \in DOMAIN published
  /\ chosen.deltas \in Seq(DOMAIN published)
  /\ SoundChain(Base, Inputs)
  /\ Materializes(result, Base, Inputs)

\* The chosen bundles in their order.
LEMMA ChosenChain ==
  ASSUME Applied
  PROVE  /\ Len(chosen.deltas) \in Nat
         /\ DOMAIN Inputs = 1..Len(chosen.deltas)
         /\ Inputs \in Seq(Range(Inputs))
         /\ Len(Inputs) = Len(chosen.deltas)
         /\ DOMAIN Chain = 1..(Len(chosen.deltas) + 1)
         /\ Chain[1] = chosen.base
         /\ \A n \in 1..Len(chosen.deltas) : Chain[n + 1] = chosen.deltas[n]
         /\ \A i \in DOMAIN Chain : Chain[i] \in DOMAIN published
         /\ \A i \in DOMAIN Chain : (<<Base>> \o Inputs)[i] = published[Chain[i]]
<1> DEFINE ds == chosen.deltas
           N == Len(ds)
<1>1. ds \in Seq(DOMAIN published) /\ chosen.base \in DOMAIN published
  BY DEF Applied
<1> HIDE DEF ds
<1>2. N \in Nat /\ DOMAIN ds = 1..N /\ \A n \in 1..N : ds[n] \in DOMAIN published
  BY <1>1
<1>3. DOMAIN Inputs = 1..N /\ \A n \in 1..N : Inputs[n] = published[ds[n]]
  BY <1>2 DEF Inputs, ds
<1>4. Inputs \in Seq(Range(Inputs))
  BY DEF Applied, SoundChain
<1>5. Len(Inputs) = N
  BY <1>2, <1>3, <1>4
<1>6. /\ DOMAIN (<<Base>> \o Inputs) = 1..(N + 1)
      /\ (<<Base>> \o Inputs)[1] = Base
      /\ \A n \in 1..N : (<<Base>> \o Inputs)[n + 1] = Inputs[n]
  BY <1>4, <1>5, ChainAt
<1>7. ds \in Seq(Range(ds))
  BY <1>1 DEF Range
<1>8. /\ DOMAIN Chain = 1..(N + 1)
      /\ Chain[1] = chosen.base
      /\ \A n \in 1..N : Chain[n + 1] = ds[n]
  BY <1>7, ChainAt DEF Chain, ds
<1>9. ASSUME NEW i \in 1..(N + 1)
      PROVE  Chain[i] \in DOMAIN published /\ (<<Base>> \o Inputs)[i] = published[Chain[i]]
  <2>1. CASE i = 1
    BY <1>1, <1>6, <1>8, <2>1 DEF Base
  <2>2. CASE i # 1
    <3>1. i - 1 \in 1..N /\ (i - 1) + 1 = i
      BY <1>2, <2>2
    <3> QED
      BY <1>2, <1>3, <1>6, <1>8, <3>1
  <2> QED
    BY <2>1, <2>2
<1> QED
  BY <1>2, <1>3, <1>4, <1>5, <1>8, <1>9 DEF ds

\* What the chain says of a slot is what was retained.
RetainedSaid(slot) ==
  /\ slot \notin DOMAIN Retained => Said(slot) = None
  /\ slot \in DOMAIN Retained =>
       /\ Said(slot) # None
       /\ Said(slot) = Retained[slot].data
       /\ LastWriter(slot) \in DOMAIN Chain
       /\ Retained[slot].window = published[Chain[LastWriter(slot)]].manifest.window

\* It is.
LEMMA SaidIsRetained ==
  ASSUME Applied
  PROVE  \A slot : RetainedSaid(slot)
<1> SUFFICES ASSUME NEW slot PROVE RetainedSaid(slot)
  OBVIOUS
<1> DEFINE n == Len(Inputs) + 1
           chain == <<Base>> \o Inputs
           writers == {i \in DOMAIN Chain : slot \in DOMAIN Writes(published[Chain[i]]) \cup Removes(published[Chain[i]])}
<1>1. n \in Nat /\ DOMAIN Chain = 1..n /\ \A i \in 1..n : chain[i] = published[Chain[i]]
  <2>1. /\ Len(chosen.deltas) \in Nat /\ Len(Inputs) = Len(chosen.deltas)
        /\ DOMAIN Chain = 1..(Len(chosen.deltas) + 1)
        /\ \A i \in DOMAIN Chain : chain[i] = published[Chain[i]]
    BY ChosenChain
  <2> HIDE DEF chain
  <2> QED
    BY <2>1
<1>2. SoundChain(Base, Inputs)
  BY DEF Applied
<1>3. LastWrites(Retained, chain, n) /\ \A i \in 1..n : Sound(chain[i])
  BY <1>2, WorkingIsLast, ChainIsSound DEF Retained
<1>4. LastWriter(slot) = IF writers = {} THEN 0 ELSE Max(writers)
  BY DEF LastWriter
<1>5. \A i : i \in writers <=> i \in 1..n /\ Mentions(chain[i], slot)
  BY <1>1 DEF Mentions
<1> HIDE DEF n, chain, writers
<1>6. \A i \in 1..n : i \in Nat /\ i # 0
  BY <1>1
<1>7. ASSUME writers = {} PROVE slot \notin DOMAIN Retained /\ Said(slot) = None
  <2>1. \A i \in 1..n : ~Mentions(chain[i], slot)
    BY <1>5, <1>7
  <2>2. slot \notin DOMAIN Retained
    BY <1>3, <2>1 DEF LastWrites, IsLast
  <2> QED
    BY <1>4, <1>7, <2>2 DEF Said
<1>8. ASSUME NEW i \in 1..n, IsLast(chain, n, slot, i)
      PROVE  LastWriter(slot) = i
  <2>1. i \in writers
    BY <1>5, <1>8 DEF IsLast
  <2>2. \A j \in writers : j \in 1..n /\ ~(i < j)
    BY <1>5, <1>8 DEF IsLast
  <2>3. writers \subseteq Int /\ IsFiniteSet(writers)
    <3>1. writers \subseteq 1..n
      BY <2>2
    <3>2. IsFiniteSet(1..n)
      BY <1>1, FS_Interval
    <3>3. IsFiniteSet(writers)
      BY <3>1, <3>2, FS_Subset
    <3> QED
      BY <3>1, <3>3
  <2>4. Max(writers) \in writers /\ \A x \in writers : x <= Max(writers)
    BY <2>1, <2>3, MaxIsGreatest
  <2>5. i <= Max(writers) /\ ~(i < Max(writers)) /\ i \in Int /\ Max(writers) \in Int
    BY <2>1, <2>2, <2>3, <2>4
  <2> QED
    BY <1>4, <2>1, <2>5
<1>9. ASSUME writers # {}
      PROVE  \E i \in 1..n : /\ IsLast(chain, n, slot, i)
                             /\ slot \in Removes(chain[i]) => slot \notin DOMAIN Retained
                             /\ slot \notin Removes(chain[i]) =>
                                  slot \in DOMAIN Retained /\ Retained[slot] = Writes(chain[i])[slot]
  <2>1. ~(\A i \in 1..n : ~Mentions(chain[i], slot))
    BY <1>5, <1>9
  <2> QED
    BY <1>3, <2>1 DEF LastWrites
<1>10. CASE writers # {}
  <2>1. PICK i \in 1..n : /\ IsLast(chain, n, slot, i)
                          /\ slot \in Removes(chain[i]) => slot \notin DOMAIN Retained
                          /\ slot \notin Removes(chain[i]) =>
                               slot \in DOMAIN Retained /\ Retained[slot] = Writes(chain[i])[slot]
    BY <1>9, <1>10
  <2>2. LastWriter(slot) = i /\ i # 0 /\ chain[i] = published[Chain[i]] /\ i \in DOMAIN Chain
    BY <1>1, <1>6, <1>8, <2>1
  <2>3. CASE slot \in Removes(chain[i])
    BY <2>1, <2>2, <2>3 DEF Said, RetainedSaid
  <2>4. CASE slot \notin Removes(chain[i])
    <3>1. slot \in DOMAIN Writes(chain[i])
      BY <2>1, <2>4 DEF IsLast, Mentions
    <3>2. Writes(chain[i])[slot].data \in Payloads /\ Writes(chain[i])[slot].window = chain[i].manifest.window
      BY <1>3, <3>1, SoundWrites
    <3>3. Writes(chain[i])[slot].data # None
      BY <3>2, PayloadTypes
    <3>4. Said(slot) = Writes(chain[i])[slot].data
      BY <2>2, <2>4 DEF Said
    <3> QED
      BY <2>1, <2>2, <2>4, <3>2, <3>3, <3>4 DEF RetainedSaid
  <2> QED
    BY <2>3, <2>4
<1> QED
  BY <1>7, <1>10 DEF RetainedSaid
\* Searching the result for a slot.
LEMMA SearchResult ==
  ASSUME Applied, NEW key \in Int, NEW disc \in Int,
         NEW v, v = binary_search_with_discriminator(result.index, key, disc)
  PROVE  /\ v = 0 <=> Said(<<key, disc>>) = None
         /\ v # 0 => entry_bytes(result, result.index[v]) = Said(<<key, disc>>)
<1> DEFINE slot == <<key, disc>>
<1>1. Says(result, Kept(Retained))
  BY DEF Applied, Materializes, Retained
<1>2. DOMAIN Kept(Retained) = DOMAIN Retained /\ \A s \in DOMAIN Retained : Kept(Retained)[s] = Retained[s].data
  BY DEF Kept
<1>3. RetainedSaid(slot)
  BY SaidIsRetained
<1>4. slot[1] = key /\ slot[2] = disc
  OBVIOUS
<1>5. CASE slot \in DOMAIN Retained
  <2>1. SoundChain(Base, Inputs)
    BY DEF Applied
  <2>2. LastWrites(Retained, <<Base>> \o Inputs, Len(Inputs) + 1)
    BY <2>1, WorkingIsLast DEF Retained
  <2>3. \A i \in 1..(Len(Inputs) + 1) : Sound((<<Base>> \o Inputs)[i])
    BY <2>1, ChainIsSound
  <2>4. Len(Inputs) + 1 \in Nat
    BY <2>1 DEF SoundChain
  <2>5. Retained[slot].data \in Payloads
    BY <1>5, <2>2, <2>3, <2>4, RetainedTypes
  <2>6. Kept(Retained)[slot] # Gone
    BY <1>2, <1>5, <2>5, PayloadTypes
  <2>7. slot \in DOMAIN Kept(Retained)
    BY <1>2, <1>5
  <2> HIDE DEF slot
  <2>8. v # 0 /\ entry_bytes(result, result.index[v]) = Kept(Retained)[slot]
    BY <1>1, <1>4, <2>6, <2>7 DEF Says
  <2> QED
    BY <1>2, <1>3, <1>5, <2>8 DEF RetainedSaid, slot
<1>6. CASE slot \notin DOMAIN Retained
  <2>1. v = 0
    BY <1>1, <1>2, <1>6 DEF Says
  <2> QED
    BY <1>3, <1>6, <2>1 DEF RetainedSaid
<1> QED
  BY <1>5, <1>6

\* Two members in a row.
LEMMA TwoInARow ==
  ASSUME NEW d, NEW z, NEW t, t = Append(<<d>>, z)
  PROVE  DOMAIN t = 1..2 /\ t[1] = d /\ t[2] = z
<1> DEFINE X == {d, z}
           p == <<d>>
<1>1. p \in Seq(X) /\ Len(p) = 1 /\ p[1] = d /\ z \in X /\ t = Append(p, z)
  OBVIOUS
<1> HIDE DEF p, X
<1>2. /\ t \in Seq(X) /\ Len(t) = Len(p) + 1
      /\ \A k \in 1..Len(p) : t[k] = p[k]
      /\ t[Len(p) + 1] = z
  BY <1>1, AppendProperties
<1>3. 1 \in 1..1 /\ 1 + 1 = 2
  OBVIOUS
<1> QED
  BY <1>1, <1>2, <1>3

\* Looking a slot up falls back to the default discriminator.
LEMMA LookupResult ==
  ASSUME Applied, NEW key \in Int, NEW disc \in Int
  PROVE  lookup_preferred(result, key, <<disc>>) =
           IF Said(<<key, disc>>) = None /\ disc # 0 THEN Said(<<key, 0>>) ELSE Said(<<key, disc>>)
<1> DEFINE P == <<disc>>
           T == Tried(P)
           at(d) == binary_search_with_discriminator(result.index, key, d)
           found == [i \in DOMAIN T |-> at(T[i])]
           i == FirstFound(found)
<1>1. lookup_preferred(result, key, P) = IF i = 0 THEN None ELSE entry_bytes(result, result.index[i])
  BY DEF lookup_preferred, binary_search_preferred
<1>2. /\ at(disc) = 0 <=> Said(<<key, disc>>) = None
      /\ at(disc) # 0 => entry_bytes(result, result.index[at(disc)]) = Said(<<key, disc>>)
  BY SearchResult
<1>3. /\ at(0) = 0 <=> Said(<<key, 0>>) = None
      /\ at(0) # 0 => entry_bytes(result, result.index[at(0)]) = Said(<<key, 0>>)
  BY SearchResult
<1>4. Range(P) = {disc}
  BY DEF Range
<1> HIDE DEF at
<1>5. CASE disc = 0
  <2>1. T = <<disc>>
    BY <1>4, <1>5 DEF Tried
  <2>2. DOMAIN found = 1..1 /\ found[1] = at(disc)
    BY <2>1
  <2> HIDE DEF found, T
  <2>3. 1 \in Nat /\ 1 \in 1..1 /\ \A j \in 1..1 : ~(j < 1) /\ j = 1
    OBVIOUS
  <2>4. found[1] # 0 => i = found[1]
    BY <2>2, <2>3, FirstFoundAt, ZenonT(60)
  <2>5. found[1] = 0 => i = 0
    BY <2>2, <2>3, NothingFound
  <2> HIDE DEF i
  <2> QED
    BY <1>1, <1>2, <1>5, <2>2, <2>4, <2>5
<1>6. CASE disc # 0
  <2>1. DOMAIN T = 1..2 /\ T[1] = disc /\ T[2] = 0
    <3>1. T = Append(P, 0)
      BY <1>4, <1>6 DEF Tried
    <3> QED
      BY <3>1, TwoInARow
  <2>2. DOMAIN found = 1..2 /\ found[1] = at(disc) /\ found[2] = at(0)
    BY <2>1
  <2> HIDE DEF found, T
  <2>3. /\ 2 \in Nat /\ 1 \in 1..2 /\ 2 \in 1..2 /\ \A j \in 1..2 : (j = 1 \/ j = 2)
        /\ \A j \in 1..2 : ~(j < 1) /\ (j < 2 => j = 1)
    OBVIOUS
  <2>4. found[1] # 0 => i = found[1]
    BY <2>2, <2>3, FirstFoundAt, ZenonT(60)
  <2>5. ASSUME found[1] = 0, found[2] # 0 PROVE i = found[2]
    <3>1. \A j \in 1..2 : j < 2 => found[j] = 0
      BY <2>3, <2>5
    <3> HIDE DEF i
    <3>2. 2 \in Nat /\ 2 \in 1..2
      OBVIOUS
    <3>3. FirstFound(found) = found[2]
      BY <2>2, <2>5, <3>1, <3>2, FirstFoundAt
    <3> QED
      BY <3>3 DEF i
  <2>6. found[1] = 0 /\ found[2] = 0 => i = 0
    BY <2>2, <2>3, NothingFound
  <2> HIDE DEF i
  <2> QED
    BY <1>1, <1>2, <1>3, <1>6, <2>2, <2>4, <2>5, <2>6
<1> QED
  BY <1>5, <1>6

\* What was materialized is the last write.
LEMMA LastWriteIsServed == Applied => MaterializedIsLastWrite
<1> SUFFICES ASSUME Applied PROVE MaterializedIsLastWrite
  OBVIOUS
<1>1. Sound(result) /\ result.manifest.bundle_type = "Full"
  BY DEF Applied, Materializes
<1>2. verify_structure(result)
  BY <1>1 DEF Sound
<1>3. validate_serving_profile(result)
  BY <1>1, FullIsServed
<1>4. ASSUME NEW slot \in Slots
      PROVE  lookup_preferred(result, slot[1], <<slot[2]>>) =
                  IF Said(slot) = None /\ slot[2] # 0 THEN Said(<<slot[1], 0>>) ELSE Said(slot)
  <2>1. slot = <<slot[1], slot[2]>> /\ slot[1] \in Int /\ slot[2] \in Int
    BY SlotTypes
  <2> DEFINE key == slot[1]
             disc == slot[2]
  <2>2. lookup_preferred(result, key, <<disc>>) =
           IF Said(<<key, disc>>) = None /\ disc # 0 THEN Said(<<key, 0>>) ELSE Said(<<key, disc>>)
    BY <2>1, LookupResult
  <2> QED
    BY <2>1, <2>2
<1> QED
  BY <1>2, <1>3, <1>4 DEF MaterializedIsLastWrite

\* Its window and its epoch are conservative.
LEMMA EnvelopeHolds == Applied => EnvelopeIsConservative
<1> SUFFICES ASSUME Applied PROVE EnvelopeIsConservative
  OBVIOUS
<1>1. /\ \A i \in 1..(Len(Inputs) + 1) : \A e \in Epochs((<<Base>> \o Inputs)[i]) : \A f \in Epochs(result) : e < f
      /\ \A slot \in DOMAIN Retained : Covers(result.manifest.window, Retained[slot].window)
  BY DEF Applied, Materializes, Retained
<1>2. /\ DOMAIN Chain = 1..(Len(Inputs) + 1)
      /\ \A i \in DOMAIN Chain : (<<Base>> \o Inputs)[i] = published[Chain[i]]
  BY ChosenChain
<1>3. ASSUME NEW slot \in Slots, Said(slot) # None
      PROVE  Covers(result.manifest.window, published[Chain[LastWriter(slot)]].manifest.window)
  <2>1. RetainedSaid(slot)
    BY SaidIsRetained
  <2>2. slot \in DOMAIN Retained /\ Retained[slot].window = published[Chain[LastWriter(slot)]].manifest.window
    BY <1>3, <2>1 DEF RetainedSaid
  <2> QED
    BY <1>1, <2>2
<1>4. \A i \in DOMAIN Chain : \A e \in Epochs(published[Chain[i]]) : \A f \in Epochs(result) : e < f
  BY <1>1, <1>2
<1> QED
  BY <1>3, <1>4 DEF EnvelopeIsConservative, Covers

\* What a full bundle holds of a slot.
LEMMA FullData ==
  ASSUME NEW b, NEW content, IsContent(content), Says(b, content),
         \A slot \in DOMAIN content : content[slot] # Gone
  PROVE  /\ {SlotOf(b.index[i]) : i \in DOMAIN b.index} = DOMAIN content
         /\ DOMAIN Writes(b) = DOMAIN content
         /\ \A slot \in DOMAIN content : /\ Writes(b)[slot].data = content[slot]
                                         /\ DiffData(b, slot) = content[slot]
                                         /\ content[slot] # None
<1>1. /\ {SlotOf(b.index[i]) : i \in DOMAIN b.index} = DOMAIN content
      /\ DOMAIN Writes(b) = DOMAIN content
  BY DEF Says
<1>2. ASSUME NEW slot \in DOMAIN content
      PROVE  Writes(b)[slot].data = content[slot] /\ DiffData(b, slot) = content[slot] /\ content[slot] # None
  <2>1. content[slot] \in Payloads
    BY DEF IsContent
  <2>2. content[slot] # None
    BY <2>1, PayloadTypes
  <2>3. Writes(b)[slot] = [data |-> content[slot], window |-> b.manifest.window]
    BY <1>1 DEF Says
  <2>4. Writes(b)[slot].data = content[slot]
    BY <2>3
  <2> DEFINE v == binary_search_with_discriminator(b.index, slot[1], slot[2])
  <2>5. v # 0 /\ entry_bytes(b, b.index[v]) = content[slot]
    BY DEF Says
  <2> HIDE DEF v
  <2>6. DiffData(b, slot) = content[slot]
    BY <2>5 DEF DiffData, v
  <2> QED
    BY <2>2, <2>4, <2>6
<1> QED
  BY <1>1, <1>2

\* The difference to the base is the net change.
LEMMA DiffHolds == Applied => DiffIsNetChange
<1> SUFFICES ASSUME Applied PROVE DiffIsNetChange
  OBVIOUS
<1> DEFINE Was(slot) == IF slot \in DOMAIN Writes(Base) THEN Writes(Base)[slot].data ELSE None
           A == {SlotOf(Base.index[i]) : i \in DOMAIN Base.index}
           B == {SlotOf(result.index[i]) : i \in DOMAIN result.index}
<1>1. Sound(Base) /\ Base.manifest.bundle_type = "Full"
  BY DEF Applied, SoundChain
<1>2. PICK content : IsContent(content) /\ Says(Base, content) /\ \A slot \in DOMAIN content : content[slot] # Gone
  BY <1>1 DEF Sound
<1>3. /\ A = DOMAIN content
      /\ DOMAIN Writes(Base) = DOMAIN content
      /\ \A slot \in DOMAIN content : /\ Writes(Base)[slot].data = content[slot]
                                      /\ DiffData(Base, slot) = content[slot]
                                      /\ content[slot] # None
  BY <1>2, FullData
<1>4. \A slot : /\ slot \in A <=> Was(slot) # None
                /\ slot \in A => DiffData(Base, slot) = Was(slot)
  BY <1>3
<1>5. B = DOMAIN Retained /\ Says(result, Kept(Retained))
  BY DEF Applied, Materializes, Says, Kept, Retained
<1>6. \A slot : slot \in B <=> Said(slot) # None
  BY <1>5, SaidIsRetained DEF RetainedSaid
<1>7. ASSUME NEW slot \in B, slot \in Slots PROVE DiffData(result, slot) = Said(slot)
  <2> DEFINE v == binary_search_with_discriminator(result.index, slot[1], slot[2])
  <2>1. slot = <<slot[1], slot[2]>> /\ slot[1] \in Int /\ slot[2] \in Int
    BY <1>7, SlotTypes
  <2>2. /\ v = 0 <=> Said(<<slot[1], slot[2]>>) = None
        /\ v # 0 => entry_bytes(result, result.index[v]) = Said(<<slot[1], slot[2]>>)
    BY <2>1, SearchResult
  <2>3. Said(slot) # None
    BY <1>6
  <2> HIDE DEF v
  <2> QED
    BY <2>1, <2>2, <2>3 DEF DiffData, v
<1> HIDE DEF A, B
<1>8. diff(Base, result) = [added |-> B \ A, removed |-> A \ B,
                            changed |-> {slot \in A \cap B : DiffData(Base, slot) # DiffData(result, slot)}]
  BY DEF diff, A, B
<1> HIDE DEF Was
<1>9. ASSUME NEW slot \in Slots
      PROVE  /\ (slot \in diff(Base, result).added) <=> (Was(slot) = None /\ Said(slot) # None)
             /\ (slot \in diff(Base, result).removed) <=> (Was(slot) # None /\ Said(slot) = None)
             /\ (slot \in diff(Base, result).changed) <=> (Was(slot) # None /\ Said(slot) # None /\ Was(slot) # Said(slot))
  BY <1>4, <1>6, <1>7, <1>8
<1> QED
  BY <1>9 DEF DiffIsNetChange, Base, Was
\* A delta names no predecessor or the publication before it.
Linked ==
  \A i \in DOMAIN published :
    ~IsFull(i) => i # 1 /\ published[i].manifest.continuity.prev \subseteq {manifest_digest(published[i - 1])}

\* What was materialized is a run of publications.
LEMMA ChainsAreWhole ==
  ASSUME Applied, Linked, NEW L \in Nat, DOMAIN published = 1..L,
         \A i \in DOMAIN published : Sound(published[i])
  PROVE  OnlyWholeChainsApply
<1> SUFFICES ASSUME \A i \in DOMAIN published : IsFull(i) \/ published[i].manifest.continuity.prev # {}
             PROVE  \E first \in DOMAIN published :
                      \A n \in DOMAIN Chain :
                        /\ first + n - 1 \in DOMAIN published
                        /\ manifest_digest(published[Chain[n]]) = manifest_digest(published[first + n - 1])
  BY DEF OnlyWholeChainsApply
<1> DEFINE N == Len(chosen.deltas)
           q == Chain[N + 1]
           D(i) == manifest_digest(published[i])
           S == {m \in Nat : m <= N => q - m \in 1..L /\ D(Chain[N + 1 - m]) = D(q - m)}
<1>1. /\ N \in Nat /\ Len(Inputs) = N /\ DOMAIN Chain = 1..(N + 1)
      /\ \A n \in 1..N : Inputs[n] = published[Chain[n + 1]]
      /\ \A i \in 1..(N + 1) : Chain[i] \in 1..L
      /\ \A i \in 1..(N + 1) : (<<Base>> \o Inputs)[i] = published[Chain[i]]
  <2>1. /\ N \in Nat /\ Len(Inputs) = N /\ DOMAIN Chain = 1..(N + 1)
        /\ \A i \in 1..(N + 1) : Chain[i] \in 1..L
        /\ \A i \in 1..(N + 1) : (<<Base>> \o Inputs)[i] = published[Chain[i]]
        /\ Inputs \in Seq(Range(Inputs))
    BY ChosenChain
  <2>2. \A n \in 1..Len(Inputs) : (<<Base>> \o Inputs)[n + 1] = Inputs[n]
    BY <2>1, ChainAt
  <2>3. \A n \in 1..N : n + 1 \in 1..(N + 1)
    BY <2>1
  <2> QED
    BY <2>1, <2>2, <2>3
<1>2. \A n \in 1..N : Follows(Base, published[Chain[n]], published[Chain[n + 1]])
  <2>1. \A n \in 1..Len(Inputs) : Follows(Base, (<<Base>> \o Inputs)[n], Inputs[n])
    BY DEF Applied, Materializes
  <2>2. \A n \in 1..N : n \in 1..(N + 1)
    BY <1>1
  <2> QED
    BY <1>1, <2>1, <2>2
<1>3. \A i, j \in 1..L : D(i) = D(j) => published[i].manifest = published[j].manifest
  BY DEF Sound, manifest_digest
<1>4. N + 1 \in 1..(N + 1) /\ q \in 1..L /\ q \in Int
  <2>1. N + 1 \in 1..(N + 1)
    BY <1>1
  <2>2. q \in 1..L
    BY <1>1, <2>1
  <2> HIDE DEF q
  <2> QED
    BY <2>1, <2>2
<1> HIDE DEF N, q
<1>5. 0 \in S
  BY <1>1, <1>4 DEF q
<1>6. ASSUME NEW m \in Nat, m \in S PROVE m + 1 \in S
  <2> SUFFICES ASSUME m + 1 <= N PROVE q - (m + 1) \in 1..L /\ D(Chain[N + 1 - (m + 1)]) = D(q - (m + 1))
    OBVIOUS
  <2> DEFINE a == N - m
             b == q - m
  <2>1. /\ m <= N /\ a \in 1..N /\ a + 1 \in 1..(N + 1) /\ N + 1 - m = a + 1 /\ N + 1 - (m + 1) = a
        /\ q - (m + 1) = b - 1 /\ a \in 1..(N + 1)
    BY <1>1, <1>4
  <2>2. b \in 1..L /\ D(Chain[a + 1]) = D(b)
    BY <1>6, <2>1
  <2> HIDE DEF a, b
  <2>3. Chain[a] \in 1..L /\ Chain[a + 1] \in 1..L
    BY <1>1, <2>1
  <2>4. /\ published[Chain[a + 1]].manifest.bundle_type = "Delta"
        /\ published[Chain[a + 1]].manifest.continuity.prev \subseteq {D(Chain[a])}
    BY <1>2, <2>1 DEF Follows
  <2>5. published[Chain[a + 1]].manifest = published[b].manifest
    BY <1>3, <2>2, <2>3
  <2>6. ~IsFull(b)
    BY <2>4, <2>5 DEF IsFull
  <2>7. b # 1 /\ published[b].manifest.continuity.prev \subseteq {D(b - 1)}
    BY <2>2, <2>6 DEF Linked
  <2>8. published[b].manifest.continuity.prev # {}
    BY <2>2, <2>6
  <2>9. D(Chain[a]) = D(b - 1)
    <3> HIDE DEF D
    <3> QED
      BY <2>4, <2>5, <2>7, <2>8
  <2>10. b - 1 \in 1..L
    BY <2>2, <2>7
  <2> QED
    BY <2>1, <2>9, <2>10
<1> HIDE DEF S
<1>7. \A m \in Nat : m \in S
  BY <1>5, <1>6, Induction
<1> DEFINE first == q - N
<1>8. first \in DOMAIN published
  BY <1>1, <1>7 DEF S
<1>9. ASSUME NEW n \in DOMAIN Chain
      PROVE  first + n - 1 \in DOMAIN published /\ D(Chain[n]) = D(first + n - 1)
  <2>1. n \in 1..(N + 1) /\ N + 1 - n \in Nat /\ N + 1 - n <= N /\ N + 1 - (N + 1 - n) = n
        /\ q - (N + 1 - n) = first + n - 1
    BY <1>1, <1>4
  <2>2. N + 1 - n \in S
    BY <1>7, <2>1
  <2>3. q - (N + 1 - n) \in 1..L /\ D(Chain[N + 1 - (N + 1 - n)]) = D(q - (N + 1 - n))
    BY <2>1, <2>2 DEF S
  <2> HIDE DEF D, first
  <2> QED
    BY <2>1, <2>3
<1> HIDE DEF first
<1> QED
  BY <1>8, <1>9
-----------------------------------------------------------------------------
(* The invariant *)

\* Published bundles are sound and linked, and a result was made of them.
IndInv ==
  /\ \E B : published \in Seq(B)
  /\ \A i \in DOMAIN published : Sound(published[i])
  /\ Linked
  /\ epoch \in Int
  /\ result # None => Applied

\* The links of a full bundle, and of a delta.
LinksOf(type, c) ==
  /\ type = "Full" => c.base = {} /\ c.chain_length = 0
  /\ type = "Delta" => c.base # {}

\* The manifests of the producer.
LEMMA ProducedManifest ==
  ASSUME NEW type \in {"Full", "Delta"}, NEW producer, NEW at \in Int, NEW window \in Windows, NEW c, LinksOf(type, c),
         NEW m, m = Manifest(type, producer, at, window, c)
  PROVE  ManifestOK(m) /\ m.bundle_type = type /\ m.continuity = c
<1>1. /\ m.bundle_type = type /\ m.window = window /\ m.continuity = c /\ m.compression = None
      /\ m.ca_scopes = <<[issuer_key_hash |-> "ca", epoch |-> at]>>
  BY DEF Manifest
<1>2. IsManifest(m)
  <2>1. DOMAIN m = {"format_version", "bundle_id", "producer_id", "created_at", "bundle_type",
                    "ca_scopes", "window", "integrity", "entry_count", "continuity", "shard",
                    "compression", "extensions"}
    BY DEF Manifest
  <2> SUFFICES ASSUME NEW i \in 1..13 PROVE ManifestFields[i] \in DOMAIN m
    BY DEF IsManifest
  <2>2. \/ i = 1 \/ i = 2 \/ i = 3 \/ i = 4 \/ i = 5 \/ i = 6 \/ i = 7
        \/ i = 8 \/ i = 9 \/ i = 10 \/ i = 11 \/ i = 12 \/ i = 13
    OBVIOUS
  <2> QED
    BY <2>1, <2>2 DEF ManifestFields
<1>3. m.ca_scopes \in Seq(ScopeRecords) /\ m.ca_scopes # <<>>
  <2>1. [issuer_key_hash |-> "ca", epoch |-> at] \in ScopeRecords
    BY DEF ScopeRecords
  <2> QED
    BY <1>1, <2>1
<1> QED
  BY <1>1, <1>2, <1>3 DEF ManifestOK, LinksOf

\* Publishing a sound bundle keeps what is known of the others.
LEMMA PublishKeeps ==
  ASSUME IndInv, NEW b, Sound(b), published' = Append(published, b),
         UNCHANGED <<chosen, result>> \/ result' = None,
         b.manifest.bundle_type # "Full" =>
           /\ Len(published) # 0
           /\ b.manifest.continuity.prev \subseteq {manifest_digest(published[Len(published)])},
         epoch' \in Int
  PROVE  IndInv'
<1> DEFINE L == Len(published)
<1>1. PICK B : published \in Seq(B)
  BY DEF IndInv
<1> DEFINE C == B \cup {b}
<1>2. published \in Seq(C) /\ b \in C
  <2>1. B \subseteq C
    OBVIOUS
  <2> HIDE DEF C
  <2>2. published \in Seq(C)
    BY <1>1, <2>1, SeqMonotonic
  <2> QED
    BY <2>2 DEF C
<1> HIDE DEF C
<1>3. /\ published' \in Seq(C) /\ L \in Nat /\ DOMAIN published = 1..L /\ DOMAIN published' = 1..(L + 1)
      /\ \A i \in 1..L : published'[i] = published[i]
      /\ published'[L + 1] = b
  BY <1>2, AppendProperties
<1> HIDE DEF L
<1>4. \A i \in 1..(L + 1) : i \in 1..L \/ i = L + 1
  BY <1>3
<1>5. \A i \in DOMAIN published' : Sound(published'[i])
  BY <1>3, <1>4 DEF IndInv
<1>6. Linked'
  <2> SUFFICES ASSUME NEW i \in 1..(L + 1), published'[i].manifest.bundle_type # "Full"
               PROVE  /\ i # 1
                      /\ published'[i].manifest.continuity.prev \subseteq {manifest_digest(published'[i - 1])}
    BY <1>3 DEF Linked, IsFull
  <2>1. CASE i \in 1..L
    <3>1. published'[i] = published[i] /\ ~IsFull(i)
      BY <1>3, <2>1 DEF IsFull
    <3>2. i # 1 /\ published[i].manifest.continuity.prev \subseteq {manifest_digest(published[i - 1])}
      BY <1>3, <2>1, <3>1 DEF IndInv, Linked
    <3>3. i - 1 \in 1..L
      BY <1>3, <2>1, <3>2
    <3> QED
      BY <1>3, <3>1, <3>2, <3>3
  <2>2. CASE i = L + 1
    <3>1. /\ L # 0
          /\ b.manifest.continuity.prev \subseteq {manifest_digest(published[L])}
      BY <1>3, <2>2 DEF L
    <3>2. L \in 1..L /\ i - 1 = L /\ i # 1
      BY <1>3, <2>2, <3>1
    <3> QED
      BY <1>3, <2>2, <3>1, <3>2
  <2> QED
    BY <1>4, <2>1, <2>2
<1>7. result' # None => Applied'
  <2> SUFFICES ASSUME UNCHANGED <<chosen, result>>, result # None PROVE Applied'
    OBVIOUS
  <2>1. Applied
    BY DEF IndInv
  <2>2. chosen.base \in 1..L /\ chosen.deltas \in Seq(1..L)
    BY <1>3, <2>1 DEF Applied
  <2>3. chosen.base \in 1..(L + 1) /\ chosen.deltas \in Seq(1..(L + 1))
    <3>1. 1..L \subseteq 1..(L + 1)
      BY <1>3
    <3>2. chosen.deltas \in Seq(1..(L + 1))
      BY <2>2, <3>1, SeqMonotonic
    <3> QED
      BY <2>2, <3>1, <3>2
  <2>4. \A i \in DOMAIN chosen.deltas : chosen.deltas[i] \in 1..L
    <3> DEFINE ds == chosen.deltas
               X == 1..L
    <3>1. ds \in Seq(X)
      BY <2>2
    <3> HIDE DEF ds, X
    <3>2. \A i \in DOMAIN ds : ds[i] \in X
      BY <3>1
    <3> QED
      BY <3>2 DEF ds, X
  <2>5. Inputs' = Inputs
    BY <1>3, <2>4 DEF Inputs
  <2>6. Base' = Base
    BY <1>3, <2>2 DEF Base
  <2> QED
    BY <1>3, <2>1, <2>3, <2>5, <2>6 DEF Applied
<1>8. \E A : published' \in Seq(A)
  BY <1>3
<1> QED
  BY <1>5, <1>6, <1>7, <1>8 DEF IndInv

\* What the producer writes is some content.
LEMMA ProducedContent ==
  ASSUME NEW content, DOMAIN content \subseteq Slots, NEW P, content \in [DOMAIN content -> P],
         P \subseteq Payloads \cup {Gone}
  PROVE  IsContent(content)
BY DEF IsContent

\* Initially nothing is published.
LEMMA InitEstablishes == Init => IndInv
<1> SUFFICES ASSUME Init PROVE IndInv
  OBVIOUS
<1>1. published = <<>> /\ result = None /\ epoch \in Int
  BY ConstantsAssumption DEF Init
<1>2. published \in Seq({}) /\ DOMAIN published = {}
  BY <1>1
<1> QED
  BY <1>1, <1>2 DEF IndInv, Linked

\* Publishing a full bundle keeps the invariant.
LEMMA PublishFullKeeps == ASSUME IndInv, NEW f \in Fulls, PublishFull(f) PROVE IndInv'
<1> DEFINE m == Manifest("Full", f.producer, epoch, f.window, NoContinuity)
           b == from_bytes(build(m, SlotEntries(f.content), Sealer))
<1>1. /\ published' = Append(published, b)
      /\ epoch' = epoch + 1 /\ UNCHANGED <<chosen, result>>
  BY DEF PublishFull
<1>2. epoch \in Int
  BY DEF IndInv
<1>3. /\ DOMAIN f.content \subseteq Slots /\ f.content \in [DOMAIN f.content -> Payloads]
      /\ f.window \in Windows
  BY ConstantsAssumption
<1>4. IsContent(f.content) /\ \A slot \in DOMAIN f.content : f.content[slot] # Gone
  <2> DEFINE c == f.content
  <2>1. DOMAIN c \subseteq Slots /\ c \in [DOMAIN c -> Payloads]
    BY <1>3
  <2> HIDE DEF c
  <2>2. IsContent(c)
    BY <2>1, ProducedContent
  <2>3. \A slot \in DOMAIN c : c[slot] # Gone
    BY <2>1, PayloadTypes
  <2> QED
    BY <2>2, <2>3 DEF c
<1>5. LinksOf("Full", NoContinuity)
  BY DEF NoContinuity, LinksOf
<1>6. ManifestOK(m) /\ m.bundle_type = "Full"
  BY <1>2, <1>3, <1>5, ProducedManifest
<1> HIDE DEF m
<1>7. Sound(b) /\ b.manifest.bundle_type = "Full"
  BY <1>4, <1>6, BuildIsSound
<1> HIDE DEF b
<1>8. epoch' \in Int
  BY <1>1, <1>2
<1> QED
  BY <1>1, <1>7, <1>8, PublishKeeps

\* Publishing a delta keeps the invariant.
LEMMA PublishDeltaKeeps == ASSUME IndInv, NEW d \in Deltas, PublishDelta(d) PROVE IndInv'
<1> DEFINE c == [prev |-> IF d.linked THEN {manifest_digest(published[Len(published)])} ELSE {},
                 base |-> {manifest_digest(published[LastFull])},
                 chain_length |-> Len(published) - LastFull + 1]
           m == Manifest("Delta", d.producer, epoch, d.window, c)
           b == from_bytes(build(m, SlotEntries(d.changes), Sealer))
<1>1. /\ published' = Append(published, b) /\ Len(published) \in 1..(MaxPublished - 1)
      /\ epoch' = epoch + 1 /\ UNCHANGED <<chosen, result>>
  BY DEF PublishDelta
<1>2. epoch \in Int
  BY DEF IndInv
<1>3. /\ DOMAIN d.changes \subseteq Slots /\ d.changes \in [DOMAIN d.changes -> Payloads \cup {Gone}]
      /\ d.window \in Windows
  BY ConstantsAssumption
<1>4. IsContent(d.changes)
  BY <1>3, ProducedContent
<1>5. c.base # {} /\ c.prev \subseteq {manifest_digest(published[Len(published)])}
  OBVIOUS
<1> HIDE DEF c
<1>6. ManifestOK(m) /\ m.bundle_type = "Delta" /\ m.continuity = c
  <2> DEFINE type == "Delta"
             producer == d.producer
             window == d.window
  <2>1. type \in {"Full", "Delta"} /\ type # "Full" /\ window \in Windows
    BY <1>3
  <2>2. m = Manifest(type, producer, epoch, window, c)
    OBVIOUS
  <2> HIDE DEF m, type, producer, window
  <2>3. LinksOf(type, c)
    BY <1>5, <2>1 DEF LinksOf
  <2>4. ManifestOK(m) /\ m.bundle_type = type /\ m.continuity = c
    BY <1>2, <2>1, <2>2, <2>3, ProducedManifest
  <2> QED
    BY <2>4 DEF type
<1> HIDE DEF m
<1>7. Sound(b) /\ b.manifest.continuity = c
  BY <1>4, <1>6, BuildIsSound
<1> HIDE DEF b
<1>8. epoch' \in Int /\ Len(published) # 0
  BY <1>1, <1>2
<1> QED
  BY <1>1, <1>5, <1>7, <1>8, PublishKeeps

\* Applying keeps the invariant.
LEMMA ApplyKeeps ==
  ASSUME IndInv, NEW b \in DOMAIN published, NEW ds \in Selections, NEW s \in BOOLEAN, Apply(b, ds, s)
  PROVE  IndInv'
<1> DEFINE inputs == [i \in DOMAIN ds |-> published[ds[i]]]
           sealer == IF s THEN Sealer ELSE None
           written == apply_sealed(published[b], inputs, sealer)
           choice == [base |-> b, deltas |-> ds]
<1>1. /\ written # None /\ chosen' = choice
      /\ result' = from_bytes(written) /\ UNCHANGED <<published, epoch>>
  BY DEF Apply
<1>2. PICK n \in 0..MaxApplied : ds \in [1..n -> DOMAIN published]
  BY DEF Selections
<1>3. n \in Nat
  BY ConstantsAssumption
<1>4. ds \in Seq(DOMAIN published) /\ DOMAIN ds = 1..n /\ \A i \in 1..n : ds[i] \in DOMAIN published
  BY <1>2, <1>3
<1>5. DOMAIN inputs = 1..n /\ \A i \in 1..n : inputs[i] = published[ds[i]]
  BY <1>4
<1>6. inputs \in Seq(Range(inputs)) /\ Len(inputs) = n
  <2>1. inputs = [i \in 1..n |-> inputs[i]]
    BY <1>4
  <2> HIDE DEF inputs
  <2>2. \A i \in 1..n : inputs[i] \in Range(inputs)
    BY <1>5 DEF Range
  <2> QED
    BY <1>3, <2>1, <2>2
<1>7. Sound(published[b]) /\ \A i \in 1..Len(inputs) : Sound(inputs[i])
  BY <1>4, <1>5, <1>6 DEF IndInv
<1> HIDE DEF inputs, sealer
<1>8. SoundChain(published[b], inputs) /\ Materializes(result', published[b], inputs)
  BY <1>1, <1>6, <1>7, AppliesSoundly
<1>9. choice.base = b /\ choice.deltas = ds
  OBVIOUS
<1> HIDE DEF choice, written
<1>10. Base' = published[b] /\ Inputs' = inputs
  BY <1>1, <1>9 DEF Base, Inputs, inputs
<1>11. Applied'
  BY <1>1, <1>4, <1>8, <1>9, <1>10 DEF Applied
<1> QED
  BY <1>1, <1>11 DEF IndInv, Linked, IsFull

\* Making the result the next base keeps the invariant.
LEMMA RebaseKeeps == ASSUME IndInv, Rebase PROVE IndInv'
<1>1. /\ result # None /\ published' = Append(published, result) /\ chosen' = None /\ result' = None
      /\ epoch' = Max({epoch} \cup {e + 1 : e \in Epochs(result)})
  BY DEF Rebase
<1>2. Sound(result) /\ result.manifest.bundle_type = "Full"
  BY <1>1 DEF IndInv, Applied, Materializes
<1>3. epoch' \in Int
  <2> DEFINE E == Epochs(result)
             f == [e \in E |-> e + 1]
             T == {f[e] : e \in DOMAIN f}
             U == T \cup {epoch}
  <2>1. E \subseteq Int /\ IsFiniteSet(E)
    BY <1>2, EpochTypes
  <2> HIDE DEF E
  <2>2. DOMAIN f = E /\ \A e \in E : f[e] = e + 1 /\ f[e] \in Int
    BY <2>1
  <2>3. T = {e + 1 : e \in E} /\ T \subseteq Int
    BY <2>2
  <2> HIDE DEF f
  <2>4. IsFiniteSet(T)
    BY <2>1, <2>2, ImageFinite
  <2>5. epoch' = Max(U)
    BY <1>1, <2>3 DEF E
  <2> HIDE DEF T
  <2>6. IsFiniteSet(U)
    BY <2>4, FS_AddElement
  <2>7. U \subseteq Int /\ U # {}
    BY <2>3 DEF IndInv
  <2> HIDE DEF U
  <2> QED
    BY <2>5, <2>6, <2>7, MaxIsGreatest
<1> QED
  BY <1>1, <1>2, <1>3, PublishKeeps

\* The invariant holds in every state.
LEMMA Invariance == Spec => []IndInv
<1>1. Init => IndInv
  BY InitEstablishes
<1>2. IndInv /\ [Next]_vars => IndInv'
  <2> SUFFICES ASSUME IndInv, [Next]_vars PROVE IndInv'
    OBVIOUS
  <2>1. ASSUME NEW f \in Fulls, PublishFull(f) PROVE IndInv'
    BY <2>1, PublishFullKeeps
  <2>2. ASSUME NEW d \in Deltas, PublishDelta(d) PROVE IndInv'
    BY <2>2, PublishDeltaKeeps
  <2>3. ASSUME NEW b \in DOMAIN published, NEW ds \in Selections, NEW s \in BOOLEAN, Apply(b, ds, s)
        PROVE  IndInv'
    BY <2>3, ApplyKeeps
  <2>4. CASE Rebase
    BY <2>4, RebaseKeeps
  <2>5. CASE UNCHANGED vars
    BY <2>5 DEF vars, IndInv, Linked, IsFull, Applied, Base, Inputs
  <2> QED
    BY <2>1, <2>2, <2>3, <2>4, <2>5 DEF Next
<1> QED
  BY <1>1, <1>2, PTL DEF Spec

-----------------------------------------------------------------------------
(* Theorems *)

\* A materialized bundle verifies, is of the serving profile, and a lookup in it
\* gives exactly what the last bundle of the chain to mention the slot said.
THEOREM LastWrite == Spec => []MaterializedIsLastWrite
<1>1. IndInv => MaterializedIsLastWrite
  BY LastWriteIsServed DEF IndInv, MaterializedIsLastWrite
<1> QED
  BY <1>1, Invariance, PTL

\* Its window claims no more than the window of any bundle that one of its
\* entries comes from, and its epoch is above that of all its inputs.
THEOREM Conservative == Spec => []EnvelopeIsConservative
<1>1. IndInv => EnvelopeIsConservative
  BY EnvelopeHolds DEF IndInv, EnvelopeIsConservative
<1> QED
  BY <1>1, Invariance, PTL

\* When deltas name their predecessors only successive publications apply.
THEOREM WholeChains == Spec => []OnlyWholeChainsApply
<1>1. ASSUME IndInv PROVE OnlyWholeChainsApply
  <2>1. PICK B : published \in Seq(B)
    BY <1>1 DEF IndInv
  <2>2. Len(published) \in Nat /\ DOMAIN published = 1..Len(published)
    BY <2>1
  <2>3. CASE result # None
    BY <1>1, <2>2, <2>3, ChainsAreWhole DEF IndInv
  <2>4. CASE result = None
    BY <2>4 DEF OnlyWholeChainsApply
  <2> QED
    BY <2>3, <2>4
<1>2. IndInv => OnlyWholeChainsApply
  BY <1>1
<1> QED
  BY <1>2, Invariance, PTL

\* The difference between the base and the result is the net change of the chain.
THEOREM NetChange == Spec => []DiffIsNetChange
<1>1. IndInv => DiffIsNetChange
  BY DiffHolds DEF IndInv, DiffIsNetChange
<1> QED
  BY <1>1, Invariance, PTL
=============================================================================
