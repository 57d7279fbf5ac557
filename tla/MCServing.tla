---- MODULE MCServing ----
(* Instances of Serving. *)
EXTENDS Serving

CONSTANTS ca1, ca2, r1, r2

TwoOrder == <<ca1, ca2>>

For(policy, complete, forward, single) ==
    [policy |-> policy, complete |-> complete, forward |-> forward, single |-> single]

\* A CRL-fed label before one that signs live; a live label before a forwarding
\* one; an edge before a label whose stored answers cannot be signed live.
ThreeSetups ==
    {[l \in {ca1, ca2} |-> IF l = ca1 THEN s[1] ELSE s[2]] : s \in
        {<<For("ignore", FALSE, FALSE, TRUE), For("live", TRUE, FALSE, TRUE)>>,
         <<For("live", TRUE, FALSE, TRUE), For("forward", FALSE, TRUE, TRUE)>>,
         <<For("forward", TRUE, TRUE, TRUE), For("live", TRUE, FALSE, FALSE)>>}}

====
