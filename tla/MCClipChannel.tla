---------------------------- MODULE MCClipChannel ----------------------------
(* Two savers of the daemon, one of which has saved two paths, and an ingest   *)
(* process; two wait calls; a ring of two recents and one restart.             *)
EXTENDS ClipChannel

CONSTANTS s1, s2, g, w1, w2, p1, p2, p3, p4

MCSavers == {s1, s2, g}
MCIngests == {g}
MCWaiters == {w1, w2}
MCPaths == {p1, p2, p3, p4}
MCSaved == [s \in MCSavers |-> CASE s = s1 -> <<p1, p2>>
                                 [] s = s2 -> <<p3>>
                                 [] s = g  -> <<p4>>]
=============================================================================
