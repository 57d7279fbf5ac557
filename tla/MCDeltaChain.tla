---- MODULE MCDeltaChain ----
EXTENDS DeltaChain

MCSlots == {<<1, 0>>, <<1, 2>>, <<2, 0>>}

Window(produced, end) ==
    [produced_at |-> produced, this_update_min |-> produced, next_update_min |-> end,
     next_update_max |-> end + 1]

MCFulls == {
    [content |-> (<<1, 0>> :> <<"a">>) @@ (<<1, 2>> :> <<"b", "c">>), window |-> Window(1, 5), producer |-> "p"],
    [content |-> (<<2, 0>> :> <<"a">>), window |-> Window(2, 3), producer |-> "p"]}

Delta(changes, window, linked) ==
    [changes |-> changes, window |-> window, producer |-> "p", linked |-> linked]

\* Writes that replace or add, removals of one variant, both at once, also without a link;
\* a window that begins when another has ended, one that is inconsistent, another producer.
MCDeltas == {
    Delta((<<1, 0>> :> <<"d">>), Window(2, 4), TRUE),
    Delta((<<1, 2>> :> Gone), Window(1, 5), TRUE),
    Delta((<<1, 2>> :> Gone), Window(1, 5), FALSE),
    Delta((<<1, 0>> :> Gone) @@ (<<2, 0>> :> <<"a">>), Window(2, 3), FALSE),
    Delta((<<2, 0>> :> Gone) @@ (<<1, 2>> :> <<"b", "c">>), Window(3, 6), TRUE),
    Delta((<<1, 0>> :> <<"a">>), Window(5, 2), TRUE),
    [Delta((<<1, 0>> :> <<"d">>), Window(2, 4), TRUE) EXCEPT !.producer = "q"]}

MCSealCert == [key |-> "sealKey", issued_by |-> "sealKey", not_before |-> 0, not_after |-> 9, profile |-> TRUE]

====
