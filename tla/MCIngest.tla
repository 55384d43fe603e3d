------------------------------- MODULE MCIngest -------------------------------
(* Two requests at a time, each any of ten envelopes.  With a cap of 3 bytes   *)
(* and a threshold of 1 there are envelopes just under, at and over the cap,   *)
(* by the first, the second or the third item.                                 *)
EXTENDS Ingest

CONSTANTS r1, r2

File(n) == [kind |-> "file", size |-> n]
Text(n) == [kind |-> "text", size |-> n]
Other == [kind |-> "video", size |-> 1]

MCRequests == {r1, r2}
MCEnvelopes ==
    [channel : {"clipboard"},
     items : {<<>>, <<Text(1), File(3)>>, <<File(2), File(1), File(1)>>,
              <<Text(2), Text(2)>>, <<File(1), Other>>}]
    \cup
    [channel : {"agent"},
     items : {<<>>, <<Text(1), File(2), Text(1)>>, <<File(3), File(0)>>,
              <<File(1), File(3)>>, <<Text(0), Text(3)>>}]
=============================================================================
