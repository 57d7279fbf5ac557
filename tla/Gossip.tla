---- MODULE Gossip ----
(***************************************************************************)
(* The gossip mesh of hoike-gossip: nodes announce the generations they    *)
(* have signed, foca carries each announcement as a custom broadcast from  *)
(* backlog to backlog, every node authenticates and admits what it hears,  *)
(* hands it to a consumer through a bounded channel, and the consumer      *)
(* keeps one row per (origin, scope) for the operator's fleet view.        *)
(*                                                                         *)
(* foca itself is external: its backlog of broadcasts is a set, a          *)
(* transmission is one step, and a broadcast whose transmissions are used  *)
(* up, or were lost, is forgotten.                                         *)
(***************************************************************************)
EXTENDS Integers, Sequences, FiniteSets

CONSTANTS
    Nodes,          \* processes that take part in the mesh
    Names,          \* configured node names, not necessarily distinct
    Keys,           \* Ed25519 identity keys
    Scopes,         \* (producer, issuer key hash) pairs
    OutOfBounds,    \* the scopes that valid_bounds refuses
    Produces,       \* Produces[n]: the scopes for which n signs
    Urgent,         \* the scopes with urgent_revocation
    Fleets,         \* configurations: functions from Nodes to Config
    None,           \* no identity key, no digest
    ChannelCap,     \* 256 in the code
    AdmittedCap,    \* 4096 in the code
    TableCap,       \* 4096 in the code
    Ttl,            \* 3600 seconds in the code
    MaxEpoch,       \* bound on the generations of one node and scope
    MaxAnnounced,   \* bound on the announcements of all nodes
    MaxFaults,      \* bound on the number of faults
    Faults          \* which of "forget", "stop", "expire" may happen

VARIABLES
    fleet,          \* the configuration of every node
    up,             \* running nodes
    epoch,          \* epoch[n][s]: n's latest signed generation, 0 for none
    backlog,        \* backlog[n]: foca's custom broadcasts at n
    admitted,       \* admitted[n]: scope to time, HoikeBroadcastHandler::admitted
    channel,        \* channel[n]: the mpsc channel to the consumer
    table,          \* table[n]: GossipNode::generations
    now,            \* the clock
    announced,      \* history: every <<node, message>> ever announced
    faults          \* number of faults so far

vars == <<fleet, up, epoch, backlog, admitted, channel, table, now, announced,
          faults>>

----------------------------------------------------------------------------
(* Types and configuration *)

Config == [name: Names, mode: {"required", "permissive"}, key: Keys \cup {None},
           peers: SUBSET (Names \X Keys)]

Digests == (Nodes \X (1 .. MaxEpoch)) \cup {None}

GossipMessage == [kind: {"generation", "urgent"}, scope: Scopes, epoch: 1 .. MaxEpoch,
                  digest: Digests, origin: Names, signer: Keys \cup {None}]

GenKey == Names \X Scopes

GenRecord == [epoch: 1 .. MaxEpoch, digest: Digests, seen: 0 .. MaxFaults]

ASSUME GossipAssumption ==
    /\ Fleets \subseteq [Nodes -> Config]
    /\ Produces \in [Nodes -> SUBSET Scopes]
    /\ OutOfBounds \subseteq Scopes
    /\ {ChannelCap, AdmittedCap, TableCap, Ttl, MaxEpoch, MaxAnnounced} \subseteq Nat \ {0}
    /\ MaxFaults \in Nat
    /\ None \notin Keys
    /\ Faults \subseteq {"forget", "stop", "expire"}

\* A mapping without entries, as a HashMap starts.
Empty == [x \in {} |-> None]

Put(f, k, v) == [x \in DOMAIN f \cup {k} |-> IF x = k THEN v ELSE f[x]]

Retain(f, K) == [x \in DOMAIN f \cap K |-> f[x]]

----------------------------------------------------------------------------
(* Authentication: crypto.rs *)

\* load_authentication refuses the configuration of a node that must sign and
\* cannot, and one that maps the node's own name to another key.
LoadsAuthentication(c) ==
    /\ c.mode = "required" => c.key # None
    /\ c.key # None => \A p \in c.peers : p[1] = c.name => p[2] = c.key

\* Mutant: the local identity is not folded in.
IdentitiesOfPeers(c) == c.peers

\* The identities of the verifier: the mapped peers and, if it signs, the node
\* itself.
Identities(c) ==
    c.peers \cup (IF c.key = None THEN {} ELSE {<<c.name, c.key>>})

\* Mutant: any trusted key signs for any origin.
AcceptsAnyOrigin(c, m) ==
    IF m.signer = None
    THEN c.mode = "permissive"
    ELSE \E i \in Identities(c) : i[2] = m.signer

\* GossipVerifier::check. An empty set of identities trusts no key.
Accepts(c, m) ==
    IF m.signer = None
    THEN c.mode = "permissive"
    ELSE <<m.origin, m.signer>> \in Identities(c)

----------------------------------------------------------------------------
(* Receiving: broadcast.rs, and the part of foca that calls it *)

\* BroadcastKey::invalidates: a higher epoch of the same scope, whoever sent it.
Invalidates(m, o) == m.scope = o.scope /\ m.epoch > o.epoch

\* foca's add_or_replace.
Stored(b, m) == {o \in b : ~Invalidates(m, o)} \cup {m}

Live(t) == now - t < Ttl

\* The entries of `admitted` that receive_item retains.
AdmittedLive(n) == Retain(admitted[n], {s \in Scopes : s \in DOMAIN admitted[n] => Live(admitted[n][s])})

AdmitsScope(n, s) ==
    \/ s \in DOMAIN AdmittedLive(n)
    \/ Cardinality(DOMAIN AdmittedLive(n)) < AdmittedCap

\* What receive_item checks before it touches any state.
Authentic(n, m) == Accepts(fleet[n], m) /\ m.scope \notin OutOfBounds

\* try_send: a full channel drops the message, which is relayed all the same.
TrySend(q, m) == IF Len(q) < ChannelCap THEN Append(q, m) ELSE q

\* Mutant: what the channel drops is not relayed either.
receive_item_unrelayed(n, m) ==
    IF ~Authentic(n, m) \/ Len(channel[n]) >= ChannelCap
    THEN UNCHANGED <<backlog, admitted, channel>>
    ELSE IF ~AdmitsScope(n, m.scope)
    THEN /\ admitted' = [admitted EXCEPT ![n] = AdmittedLive(n)]
         /\ UNCHANGED <<backlog, channel>>
    ELSE /\ admitted' = [admitted EXCEPT ![n] = Put(AdmittedLive(n), m.scope, now)]
         /\ channel' = [channel EXCEPT ![n] = TrySend(@, m)]
         /\ backlog' = [backlog EXCEPT ![n] = Stored(@, m)]

receive_item(n, m) ==
    IF ~Authentic(n, m)
    THEN UNCHANGED <<backlog, admitted, channel>>
    ELSE IF ~AdmitsScope(n, m.scope)
    THEN /\ admitted' = [admitted EXCEPT ![n] = AdmittedLive(n)]
         /\ UNCHANGED <<backlog, channel>>
    ELSE /\ admitted' = [admitted EXCEPT ![n] = Put(AdmittedLive(n), m.scope, now)]
         /\ channel' = [channel EXCEPT ![n] = TrySend(@, m)]
         /\ backlog' = [backlog EXCEPT ![n] = Stored(@, m)]

\* A transmission from one node's backlog reaches another node.
Transmit(n, p, m) ==
    /\ n \in up /\ p \in up \ {n} /\ m \in backlog[n]
    /\ receive_item(p, m)
    /\ UNCHANGED <<fleet, up, epoch, table, now, announced, faults>>

\* The transmissions of a broadcast are used up.
Forget(n, m) ==
    /\ "forget" \in Faults /\ faults < MaxFaults
    /\ n \in up /\ m \in backlog[n]
    /\ backlog' = [backlog EXCEPT ![n] = @ \ {m}]
    /\ faults' = faults + 1
    /\ UNCHANGED <<fleet, up, epoch, admitted, channel, table, now, announced>>

----------------------------------------------------------------------------
(* Announcing: node.rs *)

\* The message with the node's name, framed when the node has a key.
Frame(n, kind, s, e, d) ==
    [kind |-> kind, scope |-> s, epoch |-> e, digest |-> d,
     origin |-> fleet[n].name, signer |-> fleet[n].key]

\* add_broadcast hands the node its own message first.
AddBroadcast(n, m) ==
    /\ Cardinality(announced) < MaxAnnounced /\ <<n, m>> \notin announced
    /\ receive_item(n, m)
    /\ announced' = announced \cup {<<n, m>>}
    /\ UNCHANGED <<fleet, up, table, now, faults>>

announce_generation(n, s) ==
    /\ n \in up /\ s \in Produces[n] /\ epoch[n][s] < MaxEpoch
    /\ epoch' = [epoch EXCEPT ![n][s] = @ + 1]
    /\ AddBroadcast(n, Frame(n, "generation", s, epoch[n][s] + 1, <<n, epoch[n][s] + 1>>))

announce_urgent_revocation(n, s) ==
    /\ n \in up /\ s \in Produces[n] \cap Urgent /\ epoch[n][s] > 0
    /\ AddBroadcast(n, Frame(n, "urgent", s, epoch[n][s], None))
    /\ UNCHANGED epoch

----------------------------------------------------------------------------
(* The generation table: node.rs *)

TableLive(n) == Retain(table[n], {k \in DOMAIN table[n] : Live(table[n][k].seen)})

Key(m) == <<m.origin, m.scope>>

\* Mutant: a newer epoch keeps the digest of the row.
RowKeepsDigest(t, m) ==
    [epoch |-> IF Key(m) \in DOMAIN t /\ m.epoch < t[Key(m)].epoch THEN t[Key(m)].epoch ELSE m.epoch,
     digest |-> IF Key(m) \in DOMAIN t THEN t[Key(m)].digest ELSE m.digest,
     seen |-> now]

\* Mutant: the last announcement wins.
RowLastWins(t, m) == [epoch |-> m.epoch, digest |-> m.digest, seen |-> now]

\* The row after an announcement: a lower epoch only refreshes last_seen.
Row(t, m) ==
    IF Key(m) \in DOMAIN t /\ m.epoch < t[Key(m)].epoch
    THEN [t[Key(m)] EXCEPT !.seen = now]
    ELSE [epoch |-> m.epoch, digest |-> m.digest, seen |-> now]

\* Mutant: no cap on the table.
record_generation_uncapped(n, m) == Put(TableLive(n), Key(m), Row(TableLive(n), m))

record_generation(n, m) ==
    LET t == TableLive(n) IN
    IF Key(m) \notin DOMAIN t /\ Cardinality(DOMAIN t) >= TableCap
    THEN t
    ELSE Put(t, Key(m), Row(t, m))

\* The consumer task: an urgent notice is only logged.
Consume(n) ==
    /\ n \in up /\ channel[n] # <<>>
    /\ channel' = [channel EXCEPT ![n] = Tail(@)]
    /\ table' = IF Head(channel[n]).kind = "urgent"
                THEN table
                ELSE [table EXCEPT ![n] = record_generation(n, Head(channel[n]))]
    /\ UNCHANGED <<fleet, up, epoch, backlog, admitted, now, announced, faults>>

\* generations(): the fleet view drops the rows that have expired.
View(n) ==
    /\ n \in up /\ TableLive(n) # table[n]
    /\ table' = [table EXCEPT ![n] = TableLive(n)]
    /\ UNCHANGED <<fleet, up, epoch, backlog, admitted, channel, now, announced, faults>>

\* get_gossip: how far a row is behind the best row of its scope.
ScopeMax(t, s) ==
    LET epochs == {t[k].epoch : k \in {j \in DOMAIN t : j[2] = s}}
    IN CHOOSE e \in epochs : \A o \in epochs : o <= e

\* Mutant: the row itself is counted.
EpochsBehindInclusive(t, k) == ScopeMax(t, k[2]) - t[k].epoch + 1

EpochsBehind(t, k) == ScopeMax(t, k[2]) - t[k].epoch

----------------------------------------------------------------------------
(* Life of a node *)

\* GossipNode::start: bad authentication material is fatal.
Start(n) ==
    /\ n \notin up /\ LoadsAuthentication(fleet[n])
    /\ up' = up \cup {n}
    /\ UNCHANGED <<fleet, epoch, backlog, admitted, channel, table, now, announced, faults>>

\* A process ends and with it everything but the generations on its disk.
Stop(n) ==
    /\ "stop" \in Faults /\ faults < MaxFaults
    /\ n \in up
    /\ up' = up \ {n}
    /\ backlog' = [backlog EXCEPT ![n] = {}]
    /\ admitted' = [admitted EXCEPT ![n] = Empty]
    /\ channel' = [channel EXCEPT ![n] = <<>>]
    /\ table' = [table EXCEPT ![n] = Empty]
    /\ faults' = faults + 1
    /\ UNCHANGED <<fleet, epoch, now, announced>>

Tick ==
    /\ "expire" \in Faults /\ faults < MaxFaults
    /\ now' = now + 1
    /\ faults' = faults + 1
    /\ UNCHANGED <<fleet, up, epoch, backlog, admitted, channel, table, announced>>

Init ==
    /\ fleet \in Fleets
    /\ up = {n \in Nodes : LoadsAuthentication(fleet[n])}
    /\ epoch = [n \in Nodes |-> [s \in Scopes |-> 0]]
    /\ backlog = [n \in Nodes |-> {}]
    /\ admitted = [n \in Nodes |-> Empty]
    /\ channel = [n \in Nodes |-> <<>>]
    /\ table = [n \in Nodes |-> Empty]
    /\ now = 0
    /\ announced = {}
    /\ faults = 0

Next ==
    \/ \E n \in Nodes : Start(n) \/ Stop(n) \/ Consume(n) \/ View(n)
    \/ \E n \in Nodes, s \in Scopes : announce_generation(n, s) \/ announce_urgent_revocation(n, s)
    \/ \E n, p \in Nodes : \E m \in backlog[n] : Transmit(n, p, m)
    \/ \E n \in Nodes : \E m \in backlog[n] : Forget(n, m)
    \/ Tick

Spec == Init /\ [][Next]_vars

\* The table shows the announcement or a newer one, or has no room for it.
Shows(n, m) == Key(m) \in DOMAIN table[n] /\ table[n][Key(m)].epoch >= m.epoch

Full(n, m) == Key(m) \notin DOMAIN table[n] /\ Cardinality(DOMAIN table[n]) >= TableCap

\* The newest announcements: nobody announced a higher epoch of the scope.
Newest == {m \in {x[2] : x \in announced} :
              m.kind = "generation" /\ \A x \in announced : ~Invalidates(x[2], m)}

\* A transmission to p of a newest announcement that it does not have yet, at a
\* moment at which the consumer has caught up.
News(p) ==
    /\ Len(channel[p]) < ChannelCap
    /\ \E n \in Nodes : \E m \in backlog[n] :
          /\ m \in Newest /\ (m \notin backlog[p] \/ ~(Shows(p, m) \/ Full(p, m)))
          /\ Authentic(p, m) /\ AdmitsScope(p, m.scope)
          /\ Transmit(n, p, m)

\* The broadcasts of a backlog ride on the probes that a node sends to members
\* chosen at random, again and again, and the consumer only updates a table.
Fairness ==
    \A n \in Nodes : WF_vars(Start(n)) /\ WF_vars(Consume(n)) /\ SF_vars(News(n))

FairSpec == Spec /\ Fairness

----------------------------------------------------------------------------
(* Properties *)

\* Every variable has its type.
TypeOK ==
    /\ fleet \in Fleets
    /\ up \subseteq Nodes
    /\ epoch \in [Nodes -> [Scopes -> 0 .. MaxEpoch]]
    /\ \A n \in Nodes :
          /\ backlog[n] \subseteq GossipMessage
          /\ channel[n] \in Seq(GossipMessage) /\ Len(channel[n]) <= ChannelCap
          /\ DOMAIN admitted[n] \subseteq Scopes /\ Cardinality(DOMAIN admitted[n]) <= AdmittedCap
          /\ DOMAIN table[n] \subseteq GenKey /\ Cardinality(DOMAIN table[n]) <= TableCap
          /\ \A k \in DOMAIN table[n] : table[n][k] \in GenRecord
    /\ now \in 0 .. MaxFaults

\* Node p really announced this generation under this name, with a key that n
\* maps to the name.
AnnouncedBy(n, p, k, e, d) ==
    /\ <<k[1], fleet[p].key>> \in Identities(fleet[n])
    /\ \E a \in announced : /\ a[1] = p /\ a[2].origin = k[1] /\ a[2].scope = k[2]
                            /\ a[2].epoch = e /\ a[2].digest = d

\* A node that requires authentication shows, and relays, only what the owner of
\* the mapped key announced, although permissive nodes around it relay unsigned
\* messages and another node uses its name (GossipVerifier::check, receive_item).
OnlyMappedKeysAreHeard ==
    \A n \in up : fleet[n].mode = "required" =>
        /\ \A k \in DOMAIN table[n] :
              \E p \in Nodes : AnnouncedBy(n, p, k, table[n][k].epoch, table[n][k].digest)
        /\ \A m \in backlog[n] :
              \E p \in Nodes : AnnouncedBy(n, p, Key(m), m.epoch, m.digest)

\* In every node's table the epoch and the digest of a row were announced
\* together for that scope and name, whatever was lost, repeated, reordered or
\* expired on the way (record_generation).
RowsWereAnnounced ==
    \A n \in Nodes : \A k \in DOMAIN table[n] :
        \E a \in announced :
            /\ a[2].kind = "generation" /\ Key(a[2]) = k
            /\ a[2].epoch = table[n][k].epoch /\ a[2].digest = table[n][k].digest

\* A delayed or repeated announcement of a lower epoch does not take a row back
\* while the row is kept (record_generation).
RowsNeverGoBack ==
    [][\A n \in Nodes : \A k \in DOMAIN table[n] \cap DOMAIN table'[n] :
          \/ table'[n][k].epoch >= table[n][k].epoch
          \/ ~Live(table[n][k].seen)]_vars

\* The lag that get_gossip reports for a row is at most its distance from the
\* newest generation that anybody announced for that scope.
LagIsNotOverstated ==
    \A n \in Nodes : \A k \in DOMAIN table[n] :
        \E a \in announced :
            /\ a[2].scope = k[2]
            /\ a[2].epoch >= table[n][k].epoch + EpochsBehind(table[n], k)

\* A node hears what it announces itself: a configuration that starts always
\* accepts its own frames (load_authentication folds the local key in).
OwnFramesAreAccepted ==
    \A n \in up : \A a \in announced : a[1] = n => Accepts(fleet[n], a[2])

\* Another node takes the message too, so that a node that dropped it can hear it
\* again.
Relayed(n, m) == \E p \in up \ {n} : Authentic(p, m) /\ m.scope \in DOMAIN admitted[p]

UpToDate(n) ==
    \A m \in Newest :
        (Authentic(n, m) /\ m.scope \in DOMAIN admitted[n] /\ Relayed(n, m))
            => Shows(n, m) \/ Full(n, m)

\* The newest generation of a scope reaches every table that has room, even when
\* a full channel dropped it the first time: receive_item relays what it dropped,
\* and what is relayed comes back.
NewestIsLearned ==
    \A n \in Nodes :
        (Cardinality(announced) = MaxAnnounced /\ n \in up) ~> (UpToDate(n) \/ faults > 0)

====
