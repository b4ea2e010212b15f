--------------------------- MODULE MCTransmission ---------------------------
(* Events for two hosts, one of which the peers' transmission cannot dial.   *)
EXTENDS Transmission

Plain(h, n, l) == [data |-> TRUE, dataset |-> "ds", host |-> h, size |-> n,
                   peerSize |-> n + SizeOf(l, [k \in Range(l) |-> k]), logs |-> l]

MCShapes ==
    {<<Plain("h", 2, <<>>), Plain("h", 2, <<>>), Plain("h", 4, <<>>)>>,
     <<Plain("h", 1, <<>>), Plain("bad", 1, <<>>), Plain("h", 1, <<>>)>>,
     <<[Plain("h", 1, <<>>) EXCEPT !.data = FALSE], Plain("", 1, <<>>),
       [Plain("h", 1, <<>>) EXCEPT !.dataset = ""]>>}

\* Every batch of up to 4 spans that fill a call of 3, overflow it or are too
\* large for it.
MCLists ==
    {[i \in DOMAIN size |-> Plain("h", size[i], <<>>)] :
        size \in UNION {[1..n -> 1..4] : n \in 1..3} \cup [1..4 -> {1, 2, 4}]}
    \cup {<<Plain("h", 1, <<a, b>>), Plain("h", 1, <<c>>)>> : a, b, c \in 1..4}
=============================================================================
