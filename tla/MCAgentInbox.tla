----------------------------- MODULE MCAgentInbox -----------------------------
(* Three receivers, one of which polls for ever, and three items that arrive   *)
(* one at a time (as every caller in the code enqueues them) or in pairs (as   *)
(* the signature of enqueue allows and its tests do).                          *)
EXTENDS AgentInbox

CONSTANTS r1, r2, r3, i1, i2, i3

MCReceivers == {r1, r2, r3}
MCPollers == {r1}
MCItems == {i1, i2, i3}
MCBatches == {<<i>> : i \in MCItems} \cup (MCItems \X MCItems)
=============================================================================
