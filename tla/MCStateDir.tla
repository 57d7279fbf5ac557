------------------------------ MODULE MCStateDir ------------------------------
(* Instances of StateDir.  A bundle is a model value; Row gives its scopes, *)
(* its epoch and its predecessor, and its manifest digest is itself.        *)
EXTENDS StateDir

CONSTANTS a1, a2, a2x, a5, c1, m1, m3, A, B, C, kA, kC, fA, fC

Row ==
  [b \in {a1, a2, a2x, a5, c1, m1, m3} |->
     CASE b = a1  -> [scopes |-> {kA}, epoch |-> 1, prev |-> None]
       [] b = a2  -> [scopes |-> {kA}, epoch |-> 2, prev |-> a1]
       [] b = a2x -> [scopes |-> {kA}, epoch |-> 2, prev |-> None]
       [] b = a5  -> [scopes |-> {kA}, epoch |-> 5, prev |-> None]
       [] b = c1  -> [scopes |-> {kC}, epoch |-> 0, prev |-> None]
       [] b = m1  -> [scopes |-> {kA, kC}, epoch |-> 1, prev |-> None]
       [] b = m3  -> [scopes |-> {kA, kC}, epoch |-> 3, prev |-> None]]

MCScopes  == [b \in Bundle |-> Row[b].scopes]
MCEpoch   == [b \in Bundle |-> [k \in Key |-> Row[b].epoch]]
MCDigest  == [b \in Bundle |-> b]
MCPrev    == [b \in Bundle |-> Row[b].prev]
MCMaxJump == 2

\* One CA: a chain a1, a2, a fork a2x of a2, and a5 beyond the jump limit.
OneLabel   == {A}
OneOrder   == <<A>>
OnePath    == {fA}
OnePathOf  == [l \in OneLabel |-> fA]
OneBundle  == {a1, a2, a2x, a5}
OneKey     == {kA}
OnePublish == [p \in OnePath |-> OneBundle]

\* Two CAs that share a file, and a third with a key and a file of its own.
ThreeLabel   == {A, B, C}
ThreeOrder   == <<A, B, C>>
TwoPath      == {fA, fC}
TwoKey       == {kA, kC}
ThreePathOf  == [l \in ThreeLabel |-> IF l = C THEN fC ELSE fA]
ThreeBundle  == {a1, a2, c1}
ThreePublish == [p \in TwoPath |-> IF p = fA THEN {a1, a2} ELSE {c1}]

\* No [[ca]] entries: one default label, the newest of two files.
LegacyBundle  == {a1, c1, m1, m3}
LegacyPathOf  == [l \in OneLabel |-> fA]
LegacyPublish == [p \in TwoPath |-> IF p = fA THEN {a1, m3} ELSE {c1, m1}]
=============================================================================
