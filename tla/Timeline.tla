------------------------------- MODULE Timeline -------------------------------
(***************************************************************************)
(* What the anti-rollback store promises, without files, commits or        *)
(* crashes: for every scope there is one timeline of generations.  A       *)
(* recorded point of it is never taken back and never gets a second        *)
(* manifest, and nothing is served that is not on the timeline.            *)
(***************************************************************************)
EXTENDS Integers

CONSTANTS Key, Digest, None

VARIABLES
  mark,   \* mark[k]: the newest recorded generation of the scope k
  live    \* the generations being served, as <<scope, generation>>

Generation == [epoch : Nat, digest : Digest]

\* g is the generation h or an older one.
NotAfter(g, h) == h # None /\ (g = h \/ g.epoch < h.epoch)

OnTimeline(gens, marks) == \A g \in gens : NotAfter(g[2], marks[g[1]])

Init ==
  /\ mark = [k \in Key |-> None]
  /\ live = {}

\* New generations are recorded; what is served stays or stops.
Record ==
  /\ mark' \in [Key -> Generation \cup {None}]
  /\ \A k \in Key : mark[k] # None => NotAfter(mark[k], mark'[k])
  /\ live' \in {live, {}}

\* The served generations are replaced by recorded ones, or none.
Serve ==
  /\ live' \in SUBSET (Key \X Generation)
  /\ OnTimeline(live', mark)
  /\ UNCHANGED mark

Next == Record \/ Serve

Spec == Init /\ [][Next]_<<mark, live>>
=============================================================================
