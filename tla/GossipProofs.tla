------------------------------ MODULE GossipProofs ------------------------------
(***************************************************************************)
(* Proofs about Gossip, for every fleet and every assignment of names and  *)
(* keys to its nodes, every bound on the channel, on the admitted scopes   *)
(* and on the table, and every sequence of losses, restarts and expiries.  *)
(***************************************************************************)
EXTENDS Gossip, FiniteSetTheorems, WellFoundedInduction, TLAPS

-----------------------------------------------------------------------------
(* The inductive invariant *)

\* What `admitted` may hold.
AdmittedFits(f) ==
  /\ DOMAIN f \subseteq Scopes
  /\ IsFiniteSet(DOMAIN f)
  /\ Cardinality(DOMAIN f) <= AdmittedCap

\* What the table of generations may hold.
TableFits(t) ==
  /\ DOMAIN t \subseteq GenKey
  /\ IsFiniteSet(DOMAIN t)
  /\ Cardinality(DOMAIN t) <= TableCap
  /\ \A k \in DOMAIN t : t[k] \in GenRecord

Shape ==
  /\ fleet \in Fleets
  /\ up \subseteq Nodes
  /\ epoch \in [Nodes -> [Scopes -> 0..MaxEpoch]]
  /\ backlog \in [Nodes -> SUBSET GossipMessage]
  /\ channel \in [Nodes -> Seq(GossipMessage)]
  /\ \A n \in Nodes : Len(channel[n]) <= ChannelCap
  /\ DOMAIN admitted = Nodes
  /\ \A n \in Nodes : AdmittedFits(admitted[n])
  /\ DOMAIN table = Nodes
  /\ \A n \in Nodes : TableFits(table[n])
  /\ announced \subseteq Nodes \X GossipMessage
  /\ faults \in 0..MaxFaults
  /\ now \in 0..MaxFaults
  /\ now <= faults

\* Whoever runs has loaded its authentication material.
Authenticated == \A n \in up : LoadsAuthentication(fleet[n])

\* Whoever announced something did so under its own name and with its own key.
Honest ==
  \A a \in announced :
    /\ a[2].origin = fleet[a[1]].name
    /\ a[2].signer = fleet[a[1]].key
    /\ LoadsAuthentication(fleet[a[1]])

\* Some node announced the message, and node n accepts it.
Heard(n, m) ==
  /\ \E a \in announced : a[2] = m
  /\ Accepts(fleet[n], m)

\* A row of n repeats an announcement of a generation that n accepts.
RowHeard(n, k, r) ==
  \E a \in announced :
    /\ a[2].kind = "generation"
    /\ Key(a[2]) = k
    /\ a[2].epoch = r.epoch
    /\ a[2].digest = r.digest
    /\ Accepts(fleet[n], a[2])

BacklogHeard == \A n \in Nodes : \A m \in backlog[n] : Heard(n, m)

ChannelHeard ==
  \A n \in Nodes : \A i \in 1..Len(channel[n]) : Heard(n, channel[n][i])

TableHeard ==
  \A n \in Nodes : \A k \in DOMAIN table[n] : RowHeard(n, k, table[n][k])

IndInv ==
  /\ Shape
  /\ Authenticated
  /\ Honest
  /\ BacklogHeard
  /\ ChannelHeard
  /\ TableHeard

-----------------------------------------------------------------------------
(* Mappings with a bound *)

\* An insertion touches one key.
LEMMA PutFacts ==
  ASSUME NEW f, NEW k, NEW v
  PROVE  /\ DOMAIN Put(f, k, v) = DOMAIN f \cup {k}
         /\ Put(f, k, v)[k] = v
         /\ \A x \in DOMAIN f : x # k => Put(f, k, v)[x] = f[x]
BY DEF Put

\* A mapping that is pruned keeps the values of what it keeps.
LEMMA RetainFacts ==
  ASSUME NEW f, NEW K
  PROVE  /\ DOMAIN Retain(f, K) = DOMAIN f \cap K
         /\ \A x \in DOMAIN Retain(f, K) : Retain(f, K)[x] = f[x]
BY DEF Retain

\* A HashMap starts empty, and fits.
LEMMA EmptyFits == AdmittedFits(Empty) /\ TableFits(Empty)
<1>1. DOMAIN Empty = {}
  BY DEF Empty
<1> QED
  BY <1>1, FS_EmptySet, GossipAssumption DEF AdmittedFits, TableFits

\* Expiry keeps the bounds.
LEMMA PrunedFits ==
  ASSUME NEW f, NEW K
  PROVE  /\ AdmittedFits(f) => AdmittedFits(Retain(f, K))
         /\ TableFits(f) => TableFits(Retain(f, K))
<1> DEFINE g == Retain(f, K)
<1>1. DOMAIN g \subseteq DOMAIN f /\ \A x \in DOMAIN g : g[x] = f[x]
  BY RetainFacts
<1> HIDE DEF g
<1>2. ASSUME IsFiniteSet(DOMAIN f)
      PROVE  /\ IsFiniteSet(DOMAIN g)
             /\ Cardinality(DOMAIN g) <= Cardinality(DOMAIN f)
             /\ Cardinality(DOMAIN g) \in Nat
             /\ Cardinality(DOMAIN f) \in Nat
  BY <1>1, <1>2, FS_Subset, FS_CardinalityType
<1>3. AdmittedCap \in Nat /\ TableCap \in Nat
  BY GossipAssumption
<1>4. AdmittedFits(f) => AdmittedFits(g)
  BY <1>1, <1>2, <1>3 DEF AdmittedFits
<1>5. TableFits(f) => TableFits(g)
  BY <1>1, <1>2, <1>3 DEF TableFits
<1> QED
  BY <1>4, <1>5 DEF g

\* The domain of a mapping grows by at most the inserted key.
LEMMA PutCardinality ==
  ASSUME NEW f, NEW k, NEW v, NEW Cap \in Nat,
         IsFiniteSet(DOMAIN f),
         Cardinality(DOMAIN f) <= Cap,
         k \in DOMAIN f \/ Cardinality(DOMAIN f) < Cap
  PROVE  /\ IsFiniteSet(DOMAIN Put(f, k, v))
         /\ Cardinality(DOMAIN Put(f, k, v)) <= Cap
<1>1. Cardinality(DOMAIN f) \in Nat
  BY FS_CardinalityType
<1>2. /\ IsFiniteSet(DOMAIN f \cup {k})
      /\ Cardinality(DOMAIN f \cup {k}) =
           IF k \in DOMAIN f THEN Cardinality(DOMAIN f)
                             ELSE Cardinality(DOMAIN f) + 1
  BY FS_AddElement
<1>3. DOMAIN Put(f, k, v) = DOMAIN f \cup {k}
  BY PutFacts
<1>4. /\ IsFiniteSet(DOMAIN Put(f, k, v))
      /\ Cardinality(DOMAIN Put(f, k, v)) =
           IF k \in DOMAIN f THEN Cardinality(DOMAIN f)
                             ELSE Cardinality(DOMAIN f) + 1
  BY <1>2, <1>3, Zenon
<1> HIDE DEF Put
<1> QED
  BY <1>1, <1>4

-----------------------------------------------------------------------------
(* Receiving *)

\* A node's configuration is one.
LEMMA ConfigType ==
  ASSUME Shape, NEW n \in Nodes
  PROVE  /\ fleet[n] \in Config
         /\ fleet[n].name \in Names
         /\ fleet[n].mode \in {"required", "permissive"}
         /\ fleet[n].key \in Keys \cup {None}
BY GossipAssumption DEF Shape, Config

\* receive_item keeps the state of foca, of the handler and of the channel in
\* shape, and changes it for the receiving node only.
LEMMA ReceiveShape ==
  ASSUME Shape, NEW n \in Nodes, NEW m \in GossipMessage, receive_item(n, m)
  PROVE  /\ backlog' \in [Nodes -> SUBSET GossipMessage]
         /\ channel' \in [Nodes -> Seq(GossipMessage)]
         /\ \A p \in Nodes : Len(channel'[p]) <= ChannelCap
         /\ DOMAIN admitted' = Nodes
         /\ \A p \in Nodes : AdmittedFits(admitted'[p])
<1>1. AdmittedFits(AdmittedLive(n))
  BY PrunedFits DEF Shape, AdmittedLive
<1>2. ASSUME AdmitsScope(n, m.scope)
      PROVE  AdmittedFits(Put(AdmittedLive(n), m.scope, now))
  <2>1. m.scope \in Scopes
    BY DEF GossipMessage
  <2>2. AdmittedCap \in Nat
    BY GossipAssumption
  <2>3. DOMAIN Put(AdmittedLive(n), m.scope, now) \subseteq Scopes
    <3>1. DOMAIN Put(AdmittedLive(n), m.scope, now)
            = DOMAIN AdmittedLive(n) \cup {m.scope}
      BY DEF Put
    <3> QED
      BY <1>1, <2>1, <3>1 DEF AdmittedFits
  <2>4. /\ IsFiniteSet(DOMAIN Put(AdmittedLive(n), m.scope, now))
        /\ Cardinality(DOMAIN Put(AdmittedLive(n), m.scope, now)) <= AdmittedCap
    <3>1. /\ IsFiniteSet(DOMAIN AdmittedLive(n))
          /\ Cardinality(DOMAIN AdmittedLive(n)) <= AdmittedCap
      BY <1>1 DEF AdmittedFits
    <3>2. \/ m.scope \in DOMAIN AdmittedLive(n)
          \/ Cardinality(DOMAIN AdmittedLive(n)) < AdmittedCap
      BY <1>2 DEF AdmitsScope
    <3> QED
      BY <2>2, <3>1, <3>2, PutCardinality, Zenon
  <2> QED
    BY <2>3, <2>4 DEF AdmittedFits
<1>3. /\ TrySend(channel[n], m) \in Seq(GossipMessage)
      /\ Len(TrySend(channel[n], m)) <= ChannelCap
  BY GossipAssumption DEF TrySend, Shape
<1>4. Stored(backlog[n], m) \in SUBSET GossipMessage
  BY DEF Stored, Shape
<1>5. CASE ~Authentic(n, m)
  BY <1>5 DEF receive_item, Shape
<1>6. CASE Authentic(n, m) /\ ~AdmitsScope(n, m.scope)
  BY <1>1, <1>6 DEF receive_item, Shape
<1>7. CASE Authentic(n, m) /\ AdmitsScope(n, m.scope)
  BY <1>2, <1>3, <1>4, <1>7 DEF receive_item, Shape
<1> QED
  BY <1>5, <1>6, <1>7

\* What receive_item stores or hands to the consumer was there before, or is the
\* message itself, which the node accepts.
LEMMA ReceiveSource ==
  ASSUME Shape, NEW n \in Nodes, NEW m \in GossipMessage, receive_item(n, m),
         NEW p \in Nodes
  PROVE  /\ \A o \in backlog'[p] :
              \/ o \in backlog[p]
              \/ p = n /\ o = m /\ Accepts(fleet[n], m)
         /\ \A i \in 1..Len(channel'[p]) :
              \/ i \in 1..Len(channel[p]) /\ channel'[p][i] = channel[p][i]
              \/ p = n /\ channel'[p][i] = m /\ Accepts(fleet[n], m)
<1>1. CASE ~Authentic(n, m)
  BY <1>1 DEF receive_item
<1>2. CASE Authentic(n, m) /\ ~AdmitsScope(n, m.scope)
  BY <1>2 DEF receive_item
<1>3. CASE Authentic(n, m) /\ AdmitsScope(n, m.scope)
  <2>1. Accepts(fleet[n], m)
    BY <1>3 DEF Authentic
  <2>2. /\ backlog' = [backlog EXCEPT ![n] = Stored(@, m)]
        /\ channel' = [channel EXCEPT ![n] = TrySend(@, m)]
    BY <1>3 DEF receive_item
  <2>3. \A o \in Stored(backlog[n], m) : o \in backlog[n] \/ o = m
    BY DEF Stored
  <2>4. ASSUME NEW i \in 1..Len(TrySend(channel[n], m))
        PROVE  \/ i \in 1..Len(channel[n]) /\ TrySend(channel[n], m)[i] = channel[n][i]
               \/ TrySend(channel[n], m)[i] = m
    BY DEF TrySend, Shape
  <2> QED
    BY <2>1, <2>2, <2>3, <2>4 DEF Shape
<1> QED
  BY <1>1, <1>2, <1>3

-----------------------------------------------------------------------------
(* The table *)

\* The row of an announcement is a row, and its epoch is the higher one.
LEMMA RowFacts ==
  ASSUME Shape, NEW t, TableFits(t), NEW m \in GossipMessage
  PROVE  /\ Row(t, m) \in GenRecord
         /\ Key(m) \in DOMAIN t => Row(t, m).epoch >= t[Key(m)].epoch
         /\ \/ /\ Row(t, m).epoch = m.epoch
               /\ Row(t, m).digest = m.digest
            \/ /\ Key(m) \in DOMAIN t
               /\ Row(t, m).epoch = t[Key(m)].epoch
               /\ Row(t, m).digest = t[Key(m)].digest
<1>1. now \in 0..MaxFaults
  BY DEF Shape
<1>2. /\ m.epoch \in 1..MaxEpoch
      /\ m.digest \in Digests
      /\ MaxEpoch \in Nat
  BY GossipAssumption DEF GossipMessage
<1>3. CASE Key(m) \in DOMAIN t /\ m.epoch < t[Key(m)].epoch
  <2>1. t[Key(m)] \in GenRecord
    BY <1>3 DEF TableFits
  <2>2. Row(t, m) = [t[Key(m)] EXCEPT !.seen = now]
    BY <1>3 DEF Row
  <2> HIDE DEF Key, Row
  <2> QED
    BY <1>1, <1>2, <1>3, <2>1, <2>2 DEF GenRecord
<1>4. CASE ~(Key(m) \in DOMAIN t /\ m.epoch < t[Key(m)].epoch)
  <2>1. Key(m) \in DOMAIN t => t[Key(m)] \in GenRecord
    BY DEF TableFits
  <2>2. Row(t, m) = [epoch |-> m.epoch, digest |-> m.digest, seen |-> now]
    BY <1>4 DEF Row
  <2> HIDE DEF Key, Row
  <2> QED
    BY <1>1, <1>2, <1>4, <2>1, <2>2 DEF GenRecord
<1> QED
  BY <1>3, <1>4

\* Recording an announcement keeps the table within its bounds; every row is a
\* row that was kept, or the row of the announcement.
LEMMA RecordFacts ==
  ASSUME Shape, NEW n \in Nodes, NEW m \in GossipMessage
  PROVE  /\ TableFits(record_generation(n, m))
         /\ \A k \in DOMAIN record_generation(n, m) :
              \/ /\ k \in DOMAIN TableLive(n)
                 /\ record_generation(n, m)[k] = TableLive(n)[k]
              \/ /\ k = Key(m)
                 /\ record_generation(n, m)[k] = Row(TableLive(n), m)
<1> DEFINE t == TableLive(n)
<1>1. TableFits(t)
  BY PrunedFits DEF Shape, TableLive
<1>2. Row(t, m) \in GenRecord
  BY <1>1, RowFacts
<1>3. Key(m) \in GenKey
  BY DEF Key, GenKey, GossipMessage
<1>4. record_generation(n, m) =
        IF Key(m) \notin DOMAIN t /\ Cardinality(DOMAIN t) >= TableCap
        THEN t
        ELSE Put(t, Key(m), Row(t, m))
  BY DEF record_generation
<1> HIDE DEF t
<1>5. CASE Key(m) \notin DOMAIN t /\ Cardinality(DOMAIN t) >= TableCap
  BY <1>1, <1>4, <1>5 DEF t
<1>6. CASE ~(Key(m) \notin DOMAIN t /\ Cardinality(DOMAIN t) >= TableCap)
  <2> DEFINE u == Put(t, Key(m), Row(t, m))
  <2>1. record_generation(n, m) = u
    BY <1>4, <1>6
  <2>2. /\ DOMAIN u = DOMAIN t \cup {Key(m)}
        /\ u[Key(m)] = Row(t, m)
        /\ \A x \in DOMAIN t : x # Key(m) => u[x] = t[x]
    BY DEF Put
  <2>3. IsFiniteSet(DOMAIN u) /\ Cardinality(DOMAIN u) <= TableCap
    <3>1. /\ IsFiniteSet(DOMAIN t)
          /\ Cardinality(DOMAIN t) <= TableCap
          /\ TableCap \in Nat
          /\ Cardinality(DOMAIN t) \in Nat
      BY <1>1, GossipAssumption, FS_CardinalityType DEF TableFits
    <3>2. Key(m) \in DOMAIN t \/ Cardinality(DOMAIN t) < TableCap
      BY <1>6, <3>1
    <3> QED
      BY <3>1, <3>2, PutCardinality, Zenon
  <2> HIDE DEF u
  <2>4. TableFits(u)
    BY <1>1, <1>2, <1>3, <2>2, <2>3 DEF TableFits
  <2> QED
    BY <2>1, <2>2, <2>4 DEF t
<1> QED
  BY <1>5, <1>6

-----------------------------------------------------------------------------
(* Steps *)

\* A node announces, under its name and with its key, a message of its own.
LEMMA AnnounceFacts ==
  ASSUME Shape, NEW n \in Nodes, NEW s \in Scopes,
         announce_generation(n, s) \/ announce_urgent_revocation(n, s)
  PROVE  /\ n \in up
         /\ epoch' \in [Nodes -> [Scopes -> 0..MaxEpoch]]
         /\ \E m \in GossipMessage :
              /\ AddBroadcast(n, m)
              /\ m.origin = fleet[n].name
              /\ m.signer = fleet[n].key
<1>1. MaxEpoch \in Nat /\ epoch[n][s] \in 0..MaxEpoch
  BY GossipAssumption DEF Shape
<1>2. ASSUME NEW kind \in {"generation", "urgent"}, NEW e \in 1..MaxEpoch,
             NEW d \in Digests
      PROVE  /\ Frame(n, kind, s, e, d) \in GossipMessage
             /\ Frame(n, kind, s, e, d).origin = fleet[n].name
             /\ Frame(n, kind, s, e, d).signer = fleet[n].key
  BY ConfigType DEF Frame, GossipMessage
<1>3. CASE announce_generation(n, s)
  <2>1. /\ epoch[n][s] + 1 \in 1..MaxEpoch
        /\ <<n, epoch[n][s] + 1>> \in Digests
    BY <1>1, <1>3 DEF announce_generation, Digests
  <2>2. epoch' \in [Nodes -> [Scopes -> 0..MaxEpoch]]
    BY <1>1, <1>3, <2>1 DEF announce_generation, Shape
  <2> QED
    BY <1>2, <1>3, <2>1, <2>2 DEF announce_generation
<1>4. CASE announce_urgent_revocation(n, s)
  <2>1. epoch[n][s] \in 1..MaxEpoch /\ None \in Digests
    BY <1>1, <1>4 DEF announce_urgent_revocation, Digests
  <2>2. epoch' \in [Nodes -> [Scopes -> 0..MaxEpoch]]
    BY <1>4 DEF announce_urgent_revocation, Shape
  <2> QED
    BY <1>2, <1>4, <2>1, <2>2 DEF announce_urgent_revocation
<1> QED
  BY <1>3, <1>4

\* The shape of the state is kept by every step.
LEMMA ShapeStep ==
  ASSUME Shape, [Next]_vars
  PROVE  Shape'
<1>1. MaxFaults \in Nat
  BY GossipAssumption
<1>2. ASSUME NEW n \in Nodes, Start(n) PROVE Shape'
  BY <1>2 DEF Start, Shape, AdmittedFits, TableFits
<1>3. ASSUME NEW n \in Nodes, Stop(n) PROVE Shape'
  BY <1>1, <1>3, EmptyFits, GossipAssumption DEF Stop, Shape
<1>4. ASSUME NEW n \in Nodes, Consume(n) PROVE Shape'
  <2>1. /\ Head(channel[n]) \in GossipMessage
        /\ Tail(channel[n]) \in Seq(GossipMessage)
        /\ Len(Tail(channel[n])) <= ChannelCap
    BY <1>4, GossipAssumption DEF Consume, Shape
  <2>2. TableFits(record_generation(n, Head(channel[n])))
    BY <2>1, RecordFacts
  <2>3. DOMAIN table' = Nodes /\ \A p \in Nodes : TableFits(table'[p])
    BY <1>4, <2>2 DEF Consume, Shape
  <2> QED
    BY <1>4, <2>1, <2>3 DEF Consume, Shape
<1>5. ASSUME NEW n \in Nodes, View(n) PROVE Shape'
  <2>1. TableFits(TableLive(n))
    BY PrunedFits DEF Shape, TableLive
  <2> QED
    BY <1>5, <2>1 DEF View, Shape
<1>6. ASSUME NEW n \in Nodes, NEW s \in Scopes,
             announce_generation(n, s) \/ announce_urgent_revocation(n, s)
      PROVE  Shape'
  <2>1. PICK m \in GossipMessage : AddBroadcast(n, m)
    BY <1>6, AnnounceFacts
  <2>2. epoch' \in [Nodes -> [Scopes -> 0..MaxEpoch]]
    BY <1>6, AnnounceFacts
  <2> QED
    BY <2>1, <2>2, ReceiveShape DEF AddBroadcast, Shape
<1>7. ASSUME NEW n \in Nodes, NEW p \in Nodes, NEW m \in backlog[n], Transmit(n, p, m)
      PROVE  Shape'
  <2>1. m \in GossipMessage
    BY DEF Shape
  <2> QED
    BY <1>7, <2>1, ReceiveShape DEF Transmit, Shape
<1>8. ASSUME NEW n \in Nodes, NEW m \in backlog[n], Forget(n, m) PROVE Shape'
  BY <1>1, <1>8 DEF Forget, Shape
<1>9. ASSUME Tick PROVE Shape'
  BY <1>1, <1>9 DEF Tick, Shape
<1>10. ASSUME UNCHANGED vars PROVE Shape'
  BY <1>10 DEF vars, Shape
<1> QED
  BY <1>2, <1>3, <1>4, <1>5, <1>6, <1>7, <1>8, <1>9, <1>10 DEF Next

\* The configuration is fixed, announcements are never taken back, and a step
\* that announces something is the announcement of one node's own message.
LEMMA HistoryStep ==
  ASSUME Shape, [Next]_vars
  PROVE  /\ fleet' = fleet
         /\ announced \subseteq announced'
         /\ \A a \in announced' \ announced :
              /\ a[1] \in up
              /\ a[2].origin = fleet[a[1]].name
              /\ a[2].signer = fleet[a[1]].key
<1>1. ASSUME NEW n \in Nodes, NEW s \in Scopes,
             announce_generation(n, s) \/ announce_urgent_revocation(n, s)
      PROVE  /\ fleet' = fleet
             /\ announced \subseteq announced'
             /\ \A a \in announced' \ announced :
                  /\ a[1] \in up
                  /\ a[2].origin = fleet[a[1]].name
                  /\ a[2].signer = fleet[a[1]].key
  <2>1. n \in up
    BY <1>1, AnnounceFacts
  <2>2. PICK m \in GossipMessage :
          /\ AddBroadcast(n, m)
          /\ m.origin = fleet[n].name
          /\ m.signer = fleet[n].key
    BY <1>1, AnnounceFacts
  <2>3. fleet' = fleet /\ announced' = announced \cup {<<n, m>>}
    BY <2>2 DEF AddBroadcast
  <2> QED
    BY <2>1, <2>2, <2>3
<1>2. ASSUME ~\E n \in Nodes, s \in Scopes :
               announce_generation(n, s) \/ announce_urgent_revocation(n, s)
      PROVE  fleet' = fleet /\ announced' = announced
  BY <1>2 DEF Next, Start, Stop, Consume, View, Transmit, Forget, Tick, vars
<1> QED
  BY <1>1, <1>2

\* What was heard stays heard.
LEMMA HeardStep ==
  ASSUME Shape, [Next]_vars, NEW n \in Nodes
  PROVE  /\ \A m : Heard(n, m) => Heard(n, m)'
         /\ \A k, r : RowHeard(n, k, r) => RowHeard(n, k, r)'
<1>1. fleet' = fleet /\ announced \subseteq announced'
  BY HistoryStep
<1>2. ASSUME NEW m, Heard(n, m) PROVE Heard(n, m)'
  BY <1>1, <1>2 DEF Heard
<1>3. ASSUME NEW k, NEW r, RowHeard(n, k, r) PROVE RowHeard(n, k, r)'
  BY <1>1, <1>3 DEF RowHeard
<1> QED
  BY <1>2, <1>3

\* Running nodes have loaded their authentication material, and announce under
\* their own name.
LEMMA HonestStep ==
  ASSUME Shape, Authenticated, Honest, [Next]_vars
  PROVE  Authenticated' /\ Honest'
<1>1. /\ fleet' = fleet
      /\ announced \subseteq announced'
      /\ \A a \in announced' \ announced :
           /\ a[1] \in up
           /\ a[2].origin = fleet[a[1]].name
           /\ a[2].signer = fleet[a[1]].key
  BY HistoryStep
<1>2. \A n \in up' : n \in up \/ LoadsAuthentication(fleet[n])
  BY DEF Next, Start, Stop, Consume, View, announce_generation,
         announce_urgent_revocation, AddBroadcast, Transmit, Forget, Tick, vars
<1>3. Authenticated'
  BY <1>1, <1>2 DEF Authenticated
<1>4. Honest'
  BY <1>1 DEF Honest, Authenticated
<1> QED
  BY <1>3, <1>4

\* receive_item adds nothing to a backlog or a channel that was not announced
\* and accepted.
LEMMA ReceiveHeard ==
  ASSUME Shape, BacklogHeard, ChannelHeard, [Next]_vars,
         NEW n \in Nodes, NEW m \in GossipMessage, receive_item(n, m),
         \E a \in announced' : a[2] = m
  PROVE  BacklogHeard' /\ ChannelHeard'
<1>1. fleet' = fleet
  BY HistoryStep
<1>2. Accepts(fleet[n], m) => Heard(n, m)'
  BY <1>1 DEF Heard
<1>3. ASSUME NEW p \in Nodes, NEW o \in backlog'[p] PROVE Heard(p, o)'
  <2>1. CASE o \in backlog[p]
    BY <2>1, HeardStep DEF BacklogHeard
  <2>2. CASE p = n /\ o = m /\ Accepts(fleet[n], m)
    BY <1>2, <2>2
  <2> QED
    BY <1>3, <2>1, <2>2, ReceiveSource
<1>4. ASSUME NEW p \in Nodes, NEW i \in 1..Len(channel'[p])
      PROVE  Heard(p, channel[p][i])'
  <2>1. CASE i \in 1..Len(channel[p]) /\ channel'[p][i] = channel[p][i]
    <3>1. Heard(p, channel[p][i])
      BY <2>1 DEF ChannelHeard
    <3> QED
      BY <2>1, <3>1, HistoryStep DEF Heard
  <2>2. CASE p = n /\ channel'[p][i] = m /\ Accepts(fleet[n], m)
    BY <1>2, <2>2 DEF Heard
  <2> QED
    BY <1>4, <2>1, <2>2, ReceiveSource
<1> QED
  BY <1>3, <1>4 DEF BacklogHeard, ChannelHeard

\* A step that only takes messages out of backlogs and channels.
LEMMA FewerHeard ==
  ASSUME Shape, BacklogHeard, ChannelHeard, [Next]_vars,
         \A p \in Nodes : backlog'[p] \subseteq backlog[p],
         \A p \in Nodes : \A i \in 1..Len(channel'[p]) :
           \E j \in 1..Len(channel[p]) : channel'[p][i] = channel[p][j]
  PROVE  BacklogHeard' /\ ChannelHeard'
<1>1. BacklogHeard'
  BY HistoryStep DEF BacklogHeard, Heard
<1>2. ChannelHeard'
  BY HistoryStep DEF ChannelHeard, Heard
<1> QED
  BY <1>1, <1>2

\* Backlogs and channels hold announced and accepted messages only.
LEMMA BacklogStep ==
  ASSUME Shape, BacklogHeard, ChannelHeard, [Next]_vars
  PROVE  BacklogHeard' /\ ChannelHeard'
<1>1. ASSUME NEW n \in Nodes, NEW s \in Scopes,
             announce_generation(n, s) \/ announce_urgent_revocation(n, s)
      PROVE  BacklogHeard' /\ ChannelHeard'
  <2>1. PICK m \in GossipMessage : AddBroadcast(n, m)
    BY <1>1, AnnounceFacts
  <2>2. receive_item(n, m) /\ \E a \in announced' : a[2] = m
    BY <2>1 DEF AddBroadcast
  <2> QED
    BY <2>2, ReceiveHeard
<1>2. ASSUME NEW n \in Nodes, NEW p \in Nodes, NEW m \in backlog[n], Transmit(n, p, m)
      PROVE  BacklogHeard' /\ ChannelHeard'
  <2>1. m \in GossipMessage /\ \E a \in announced : a[2] = m
    BY DEF Shape, BacklogHeard, Heard
  <2>2. receive_item(p, m) /\ \E a \in announced' : a[2] = m
    BY <1>2, <2>1 DEF Transmit
  <2> QED
    BY <2>1, <2>2, ReceiveHeard
<1>3. ASSUME NEW n \in Nodes, Stop(n) PROVE BacklogHeard' /\ ChannelHeard'
  BY <1>3, FewerHeard DEF Stop, Shape
<1>4. ASSUME NEW n \in Nodes, Consume(n) PROVE BacklogHeard' /\ ChannelHeard'
  <2>1. ASSUME NEW i \in 1..Len(Tail(channel[n]))
        PROVE  /\ i + 1 \in 1..Len(channel[n])
               /\ Tail(channel[n])[i] = channel[n][i + 1]
    BY <1>4 DEF Consume, Shape
  <2>2. /\ backlog' = backlog
        /\ channel' = [channel EXCEPT ![n] = Tail(@)]
    BY <1>4 DEF Consume
  <2>3. \A p \in Nodes : \A i \in 1..Len(channel'[p]) :
          \E j \in 1..Len(channel[p]) : channel'[p][i] = channel[p][j]
    BY <2>1, <2>2 DEF Shape
  <2> QED
    BY <2>2, <2>3, FewerHeard
<1>5. ASSUME NEW n \in Nodes, NEW m \in backlog[n], Forget(n, m)
      PROVE  BacklogHeard' /\ ChannelHeard'
  BY <1>5, FewerHeard DEF Forget, Shape
<1>6. ASSUME UNCHANGED <<backlog, channel>> PROVE BacklogHeard' /\ ChannelHeard'
  BY <1>6, FewerHeard
<1> QED
  BY <1>1, <1>2, <1>3, <1>4, <1>5, <1>6 DEF Next, Start, View, Tick, vars

\* Every row after an announcement was consumed repeats a row from before or the
\* announcement, and a row that has not expired does not go back.
LEMMA ConsumeRows ==
  ASSUME Shape, NEW n \in Nodes, NEW m \in GossipMessage,
         NEW k \in DOMAIN record_generation(n, m)
  PROVE  LET r == record_generation(n, m)[k] IN
         /\ \/ /\ k \in DOMAIN table[n]
               /\ r.epoch = table[n][k].epoch
               /\ r.digest = table[n][k].digest
            \/ k = Key(m) /\ r.epoch = m.epoch /\ r.digest = m.digest
         /\ k \in DOMAIN table[n] /\ Live(table[n][k].seen)
              => r.epoch >= table[n][k].epoch
<1> DEFINE t == TableLive(n)
           r == record_generation(n, m)[k]
<1>1. TableFits(t)
  BY PrunedFits DEF Shape, TableLive
<1>2. /\ DOMAIN t = {j \in DOMAIN table[n] : Live(table[n][j].seen)}
      /\ \A j \in DOMAIN t : t[j] = table[n][j]
  BY DEF TableLive, Retain
<1>3. \/ k \in DOMAIN t /\ r = t[k]
      \/ k = Key(m) /\ r = Row(t, m)
  BY RecordFacts
<1>4. /\ Key(m) \in DOMAIN t => Row(t, m).epoch >= t[Key(m)].epoch
      /\ \/ /\ Row(t, m).epoch = m.epoch
            /\ Row(t, m).digest = m.digest
         \/ /\ Key(m) \in DOMAIN t
            /\ Row(t, m).epoch = t[Key(m)].epoch
            /\ Row(t, m).digest = t[Key(m)].digest
  BY <1>1, RowFacts
<1>5. \A j \in DOMAIN t : t[j].epoch \in Int
  BY <1>1, GossipAssumption DEF TableFits, GenRecord
<1> HIDE DEF t, r
<1>6. \/ /\ k \in DOMAIN table[n]
         /\ r.epoch = table[n][k].epoch
         /\ r.digest = table[n][k].digest
      \/ k = Key(m) /\ r.epoch = m.epoch /\ r.digest = m.digest
  BY <1>2, <1>3, <1>4
<1>7. ASSUME k \in DOMAIN table[n], Live(table[n][k].seen)
      PROVE  r.epoch >= table[n][k].epoch
  <2>1. k \in DOMAIN t /\ t[k] = table[n][k]
    BY <1>2, <1>7
  <2> QED
    BY <1>3, <1>4, <1>5, <2>1
<1> QED
  BY <1>6, <1>7 DEF r

\* How a step may change a table: it consumes an announcement, or drops rows.
LEMMA TableChange ==
  ASSUME Shape, [Next]_vars, NEW n \in Nodes
  PROVE  \/ /\ DOMAIN table'[n] \subseteq DOMAIN table[n]
            /\ \A k \in DOMAIN table'[n] : table'[n][k] = table[n][k]
         \/ /\ channel[n] # <<>>
            /\ Head(channel[n]).kind # "urgent"
            /\ table'[n] = record_generation(n, Head(channel[n]))
<1>1. ASSUME NEW p \in Nodes, Consume(p)
      PROVE  \/ table'[n] = table[n]
             \/ /\ channel[n] # <<>>
                /\ Head(channel[n]).kind # "urgent"
                /\ table'[n] = record_generation(n, Head(channel[n]))
  BY <1>1 DEF Consume, Shape
<1>2. ASSUME NEW p \in Nodes, View(p)
      PROVE  /\ DOMAIN table'[n] \subseteq DOMAIN table[n]
             /\ \A k \in DOMAIN table'[n] : table'[n][k] = table[n][k]
  <2>1. /\ DOMAIN TableLive(p) \subseteq DOMAIN table[p]
        /\ \A k \in DOMAIN TableLive(p) : TableLive(p)[k] = table[p][k]
    BY DEF TableLive, Retain
  <2> QED
    BY <1>2, <2>1 DEF View, Shape
<1>3. ASSUME NEW p \in Nodes, Stop(p)
      PROVE  /\ DOMAIN table'[n] \subseteq DOMAIN table[n]
             /\ \A k \in DOMAIN table'[n] : table'[n][k] = table[n][k]
  BY <1>3 DEF Stop, Shape, Empty
<1> QED
  BY <1>1, <1>2, <1>3 DEF Next, Start, announce_generation,
     announce_urgent_revocation, AddBroadcast, Transmit, Forget, Tick, vars

\* Tables hold announced and accepted generations only.
LEMMA TableStep ==
  ASSUME Shape, ChannelHeard, TableHeard, [Next]_vars
  PROVE  TableHeard'
<1> SUFFICES ASSUME NEW n \in Nodes, NEW k \in DOMAIN table'[n]
             PROVE  RowHeard(n, k, table[n][k])'
  BY DEF TableHeard
<1>1. fleet' = fleet /\ announced \subseteq announced'
  BY HistoryStep
<1>2. ASSUME k \in DOMAIN table[n],
             table'[n][k].epoch = table[n][k].epoch,
             table'[n][k].digest = table[n][k].digest
      PROVE  RowHeard(n, k, table[n][k])'
  <2>1. RowHeard(n, k, table[n][k])
    BY <1>2 DEF TableHeard
  <2> QED
    BY <1>1, <1>2, <2>1 DEF RowHeard
<1>3. CASE /\ DOMAIN table'[n] \subseteq DOMAIN table[n]
           /\ \A j \in DOMAIN table'[n] : table'[n][j] = table[n][j]
  BY <1>2, <1>3
<1>4. CASE /\ channel[n] # <<>>
           /\ Head(channel[n]).kind # "urgent"
           /\ table'[n] = record_generation(n, Head(channel[n]))
  <2> DEFINE m == Head(channel[n])
  <2>1. m \in GossipMessage /\ Heard(n, m)
    <3>1. /\ 1 \in 1..Len(channel[n])
          /\ m = channel[n][1]
          /\ m \in GossipMessage
      BY <1>4 DEF Shape
    <3>2. Heard(n, channel[n][1])
      BY <3>1 DEF ChannelHeard
    <3> QED
      BY <3>1, <3>2
  <2>2. m.kind = "generation"
    BY <1>4, <2>1 DEF GossipMessage
  <2>3. ASSUME k = Key(m), table'[n][k].epoch = m.epoch,
               table'[n][k].digest = m.digest
        PROVE  RowHeard(n, k, table[n][k])'
    BY <1>1, <2>1, <2>2, <2>3 DEF RowHeard, Heard
  <2> HIDE DEF m
  <2> QED
    BY <1>2, <1>4, <2>1, <2>3, ConsumeRows DEF m
<1> QED
  BY <1>3, <1>4, TableChange

-----------------------------------------------------------------------------
(* Theorems *)

\* The invariant holds of every reachable state.
LEMMA Inductive == Spec => []IndInv
<1>1. Init => IndInv
  <2> SUFFICES ASSUME Init PROVE IndInv
    OBVIOUS
  <2>1. Shape
    BY EmptyFits, GossipAssumption DEF Init, Shape
  <2>2. Authenticated /\ Honest
    BY DEF Init, Authenticated, Honest
  <2>3. BacklogHeard /\ ChannelHeard
    BY DEF Init, BacklogHeard, ChannelHeard
  <2>4. TableHeard
    BY DEF Init, TableHeard, Empty
  <2> QED
    BY <2>1, <2>2, <2>3, <2>4 DEF IndInv
<1>2. IndInv /\ [Next]_vars => IndInv'
  BY ShapeStep, HonestStep, BacklogStep, TableStep DEF IndInv
<1> QED
  BY <1>1, <1>2, PTL DEF Spec

\* The bounded channel, the bounded set of admitted scopes and the bounded table
\* never exceed their caps, and hold messages, scopes and rows.
THEOREM TypeCorrect == Spec => []TypeOK
<1>1. IndInv => TypeOK
  BY DEF IndInv, Shape, TypeOK, AdmittedFits, TableFits
<1> QED
  BY <1>1, Inductive, PTL

\* Epoch and digest of a row were announced together, for that name and scope.
THEOREM Announced == Spec => []RowsWereAnnounced
<1>1. IndInv => RowsWereAnnounced
  BY DEF IndInv, TableHeard, RowHeard, RowsWereAnnounced
<1> QED
  BY <1>1, Inductive, PTL

\* What a message accepted by a node that requires authentication says was
\* announced by the owner of a key that the node maps to its origin.
LEMMA AcceptedIsMapped ==
  ASSUME IndInv, NEW n \in Nodes, fleet[n].mode = "required",
         NEW a \in announced, Accepts(fleet[n], a[2])
  PROVE  AnnouncedBy(n, a[1], Key(a[2]), a[2].epoch, a[2].digest)
<1>1. a[2].signer # None
  BY DEF Accepts
<1>2. /\ a[2].signer = fleet[a[1]].key
      /\ <<a[2].origin, a[2].signer>> \in Identities(fleet[n])
  BY <1>1 DEF IndInv, Honest, Accepts
<1> QED
  BY <1>2 DEF AnnouncedBy, Key

\* A node that requires authentication shows, and relays, only what the owner of
\* a mapped key announced.
THEOREM Authentication == Spec => []OnlyMappedKeysAreHeard
<1>1. ASSUME IndInv PROVE OnlyMappedKeysAreHeard
  <2> SUFFICES ASSUME NEW n \in up, fleet[n].mode = "required"
               PROVE  /\ \A k \in DOMAIN table[n] : \E p \in Nodes :
                           AnnouncedBy(n, p, k, table[n][k].epoch, table[n][k].digest)
                      /\ \A m \in backlog[n] : \E p \in Nodes :
                           AnnouncedBy(n, p, Key(m), m.epoch, m.digest)
    BY DEF OnlyMappedKeysAreHeard
  <2>1. n \in Nodes /\ announced \subseteq Nodes \X GossipMessage
    BY <1>1 DEF IndInv, Shape
  <2>2. ASSUME NEW k \in DOMAIN table[n]
        PROVE  \E p \in Nodes : AnnouncedBy(n, p, k, table[n][k].epoch, table[n][k].digest)
    <3>1. PICK a \in announced :
            /\ Key(a[2]) = k
            /\ a[2].epoch = table[n][k].epoch
            /\ a[2].digest = table[n][k].digest
            /\ Accepts(fleet[n], a[2])
      BY <1>1, <2>1 DEF IndInv, TableHeard, RowHeard
    <3>2. AnnouncedBy(n, a[1], Key(a[2]), a[2].epoch, a[2].digest)
      BY <1>1, <2>1, <3>1, AcceptedIsMapped
    <3> QED
      BY <2>1, <3>1, <3>2
  <2>3. ASSUME NEW m \in backlog[n]
        PROVE  \E p \in Nodes : AnnouncedBy(n, p, Key(m), m.epoch, m.digest)
    <3>1. PICK a \in announced : a[2] = m /\ Accepts(fleet[n], m)
      BY <1>1, <2>1 DEF IndInv, BacklogHeard, Heard
    <3>2. AnnouncedBy(n, a[1], Key(a[2]), a[2].epoch, a[2].digest)
      BY <1>1, <2>1, <3>1, AcceptedIsMapped
    <3> QED
      BY <2>1, <3>1, <3>2
  <2> QED
    BY <2>2, <2>3
<1> QED
  BY <1>1, Inductive, PTL

\* A node accepts its own frames: configuration that it loaded maps its name to
\* its key, or does not sign and does not require signatures.
THEOREM OwnFrames == Spec => []OwnFramesAreAccepted
<1>1. ASSUME IndInv PROVE OwnFramesAreAccepted
  <2> SUFFICES ASSUME NEW n \in up, NEW a \in announced, a[1] = n
               PROVE  Accepts(fleet[n], a[2])
    BY DEF OwnFramesAreAccepted
  <2>1. /\ a[2].origin = fleet[n].name
        /\ a[2].signer = fleet[n].key
        /\ LoadsAuthentication(fleet[n])
    BY <1>1 DEF IndInv, Honest
  <2>2. fleet[n].mode \in {"required", "permissive"}
    BY <1>1, ConfigType DEF IndInv, Shape
  <2> QED
    BY <2>1, <2>2 DEF Accepts, Identities, LoadsAuthentication
<1> QED
  BY <1>1, Inductive, PTL

\* A row does not go back to a lower epoch before it has expired.
THEOREM Forward == Spec => RowsNeverGoBack
<1>1. ASSUME IndInv, [Next]_vars,
             NEW n \in Nodes, NEW k \in DOMAIN table[n] \cap DOMAIN table'[n]
      PROVE  \/ table'[n][k].epoch >= table[n][k].epoch
             \/ ~Live(table[n][k].seen)
  <2>1. Shape
    BY <1>1 DEF IndInv
  <2>2. table[n][k].epoch \in Int
    BY <2>1, GossipAssumption DEF Shape, TableFits, GenRecord
  <2>3. CASE table'[n][k] = table[n][k]
    BY <2>2, <2>3
  <2>4. CASE /\ channel[n] # <<>>
             /\ table'[n] = record_generation(n, Head(channel[n]))
    <3>1. Head(channel[n]) \in GossipMessage
      BY <2>1, <2>4 DEF Shape
    <3> QED
      BY <2>1, <2>4, <3>1, ConsumeRows
  <2> QED
    BY <1>1, <2>1, <2>3, <2>4, TableChange
<1>2. IndInv /\ [Next]_vars =>
        \A n \in Nodes : \A k \in DOMAIN table[n] \cap DOMAIN table'[n] :
          \/ table'[n][k].epoch >= table[n][k].epoch
          \/ ~Live(table[n][k].seen)
  BY <1>1
<1> QED
  BY <1>2, Inductive, PTL DEF Spec, RowsNeverGoBack

\* A non-empty set of natural numbers has a smallest one.
LEMMA Smallest ==
  ASSUME NEW S, S \subseteq Nat, S # {}
  PROVE  \E m \in S : \A n \in S : m <= n
<1> DEFINE R == OpToRel(<, Nat)
<1>1. IsWellFoundedOn(R, Nat)
  BY NatLessThanWellFounded, Zenon
<1>2. \A x \in S, y \in S : x < y => <<x, y>> \in R
  BY DEF OpToRel
<1> HIDE DEF R
<1>3. PICK m \in S : \A n \in S : ~(<<n, m>> \in R)
  BY <1>1, WFMin
<1>4. \A n \in S : n \in Nat /\ m \in Nat
  OBVIOUS
<1>5. \A n \in S : ~(n < m)
  BY <1>2, <1>3
<1> QED
  BY <1>4, <1>5

\* A non-empty set of numbers up to N has a greatest one.
LEMMA Greatest ==
  ASSUME NEW N \in Nat, NEW S, S \subseteq 0..N, S # {}
  PROVE  \E m \in S : \A n \in S : n <= m
<1> DEFINE T == {N - n : n \in S}
<1>1. \A t \in T : t \in Nat
  OBVIOUS
<1>2. T \subseteq Nat /\ T # {}
  BY <1>1
<1>3. PICK t \in T : \A o \in T : t <= o
  BY <1>2, Smallest
<1>4. PICK m \in S : t = N - m
  BY <1>3
<1>5. ASSUME NEW n \in S PROVE n <= m
  <2>1. n \in Int /\ m \in Int
    OBVIOUS
  <2>2. N - n \in T
    OBVIOUS
  <2>3. N - m <= N - n
    BY <1>3, <1>4, <2>2
  <2> QED
    BY <2>1, <2>3
<1>6. \A n \in S : n <= m
  BY <1>5
<1> QED
  BY <1>6

\* The lag of a row is at most its distance from a generation that was announced.
THEOREM Lag == Spec => []LagIsNotOverstated
<1>1. ASSUME IndInv PROVE LagIsNotOverstated
  <2> SUFFICES ASSUME NEW n \in Nodes, NEW k \in DOMAIN table[n]
               PROVE  \E a \in announced :
                        /\ a[2].scope = k[2]
                        /\ a[2].epoch >= table[n][k].epoch + EpochsBehind(table[n], k)
    BY DEF LagIsNotOverstated
  <2> DEFINE t == table[n]
             rows == {j \in DOMAIN t : j[2] = k[2]}
             E == {t[j].epoch : j \in rows}
  <2>1. MaxEpoch \in Nat /\ \A j \in DOMAIN t : t[j].epoch \in 1..MaxEpoch
    BY <1>1, GossipAssumption DEF IndInv, Shape, TableFits, GenRecord
  <2>2. E \subseteq 0..MaxEpoch /\ E # {}
    BY <2>1
  <2>3. \E e \in E : \A o \in E : o <= e
    BY <2>1, <2>2, Greatest
  <2>4. ScopeMax(t, k[2]) \in E
    BY <2>3 DEF ScopeMax
  <2>5. PICK j \in rows : ScopeMax(t, k[2]) = t[j].epoch
    BY <2>4
  <2>6. PICK a \in announced : Key(a[2]) = j /\ a[2].epoch = t[j].epoch
    BY <1>1 DEF IndInv, TableHeard, RowHeard
  <2>7. a[2].scope = k[2]
    BY <2>5, <2>6 DEF Key
  <2>8. a[2].epoch = t[k].epoch + EpochsBehind(t, k)
    BY <2>1, <2>5, <2>6 DEF EpochsBehind
  <2>9. a[2].epoch \in Int
    BY <2>1, <2>5, <2>6
  <2> QED
    BY <2>7, <2>8, <2>9
<1> QED
  BY <1>1, Inductive, PTL

=============================================================================
