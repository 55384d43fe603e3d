--------------------------------- MODULE Cli ---------------------------------
(***************************************************************************)
(* Calls of the CLI that run at the same time over the same files: setups  *)
(* and sends on a laptop, ingest, daemons and their clients on the boxes.  *)
(***************************************************************************)
EXTENDS Push, Setup, ControlSocket

vars == <<job, calls, laptop, net, box, proc, pushVars, setupVars, sockVars>>

Init == HostsInit /\ PushInit /\ SetupInit /\ SocketInit

Network ==
    /\ (\E c \in Calls : Cut(c)) \/ (\E b \in Boxes : Rekey(b))
    /\ UNCHANGED <<pushVars, setupVars, sockVars>>

Next ==
    \/ \E c \in Calls :
          \/ (Sending(c) \/ Ingest(c)) /\ UNCHANGED <<setupVars, sockVars>>
          \/ (SettingUp(c) \/ BoxStep(c)) /\ UNCHANGED <<pushVars, sockVars>>
          \/ Controlling(c) /\ UNCHANGED <<pushVars, setupVars>>
    \/ Network

(* No fairness: a session has no timeout, and a cut may go unnoticed.      *)
Spec == Init /\ [][Next]_vars

TypeOK == HostsTypeOK /\ PushTypeOK /\ SetupTypeOK /\ SocketTypeOK
=============================================================================
