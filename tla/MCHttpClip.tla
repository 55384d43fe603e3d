------------------------------ MODULE MCHttpClip ------------------------------
(* Two requests; one to be refused by each gate, and pushes of up to two       *)
(* items, one that does not decode, one that repeats its payload key, one      *)
(* file without payload.                                                       *)
EXTENDS HttpClip

CONSTANTS r1, r2

MCRequests == {r1, r2}
File(k, g) == [text |-> FALSE, keys |-> k, good |-> g]
Text == [text |-> TRUE, keys |-> 0, good |-> TRUE]
Push(s, t, l, i) == [source |-> s, token |-> t, length |-> l, items |-> i]

MCPushes ==
    {Push("foreign", TRUE, "fits", <<File(1, TRUE)>>),
     Push("loopback", FALSE, "over", <<File(1, TRUE)>>),
     Push("peer", TRUE, "absent", <<>>),
     Push("peer", TRUE, "fits", <<Text, File(1, FALSE)>>),
     Push("peer", TRUE, "fits", <<File(2, TRUE), File(1, TRUE)>>),
     Push("loopback", TRUE, "fits", <<Text, File(0, TRUE)>>)}
=============================================================================
