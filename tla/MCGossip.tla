---- MODULE MCGossip ----
(* Instances of Gossip. *)
EXTENDS Gossip

CONSTANTS A, B, C, a, b, c, ka, kb, kc, s1, s2

Node(name, mode, key, peers) == [name |-> name, mode |-> mode, key |-> key, peers |-> peers]

Strict == Node(a, "required", ka, {<<b, kb>>, <<c, kc>>})
Relay == Node(b, "permissive", kb, {<<a, ka>>, <<c, kc>>})
Unsigned == Node(a, "permissive", None, {})
Renamed == Node(a, "permissive", kc, {})
Keyless == Node(c, "required", None, {})

\* C uses A's name without a key, or with the key that is mapped to c, or cannot
\* start.
MixedFleets == {[n \in {A, B, C} |-> CASE n = A -> Strict [] n = B -> Relay [] n = C -> x] :
                    x \in {Unsigned, Renamed, Keyless}}

MixedProduces == [n \in {A, B, C} |-> CASE n = A -> {s1} [] n = B -> {s1, s2} [] n = C -> {s1}]

====
