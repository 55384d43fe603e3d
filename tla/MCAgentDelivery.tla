--------------------------- MODULE MCAgentDelivery ---------------------------
(* Two ingest processes, one of which journals two items, an item pushed to    *)
(* the daemon, and two clients that call recv again and again.                 *)
EXTENDS AgentDelivery

CONSTANTS g1, g2, c1, c2, a, b, x, y

MCIngests == {g1, g2}
MCFrame == [p \in MCIngests |-> IF p = g1 THEN <<a, b>> ELSE <<x>>]
MCCallers == {c1, c2}
MCItems == {a, b, x, y}
MCPushed == {y}

(* One item journaled by one ingest process, one client. *)
OneFrame == [p \in {g1} |-> <<a>>]
=============================================================================
