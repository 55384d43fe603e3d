---------------------------- MODULE MCSavePipeline ----------------------------
(* Two saves of the daemon and two of ingest processes.  Three of them want    *)
(* the same leaf; the fourth's leaf is what a collision makes of it.  Another  *)
(* program owns, or comes to own, one of the names.                            *)
EXTENDS SavePipeline

CONSTANTS s1, s2, t, u, daemon, ingest1, ingest2, n1, n2, n3, n4, n5

MCSavers == {s1, s2, t, u}
MCProcesses == {daemon, ingest1, ingest2}
MCProcessOf == [s \in MCSavers |-> IF s \in {s1, s2} THEN daemon
                                   ELSE IF s = t THEN ingest1 ELSE ingest2]
MCNames == {n1, n2, n3, n4, n5}
MCCandidates == [s \in MCSavers |-> IF s = u THEN <<n2, n4, n5>>
                                    ELSE <<n1, n2, n3, n4, n5>>]
=============================================================================
