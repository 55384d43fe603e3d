---------------------------- MODULE ControlSocket ----------------------------
(***************************************************************************)
(* How a box's clients reach its daemon (internal/httpd/socket_unix.go,    *)
(* httpd.go:106-138, cmd/clipbeam/cli/verbs_serve.go, control.go and       *)
(* verbs_read.go): daemons over one socket path or one port, stopped or    *)
(* killed, and the calls of last, which turn to the disk when nobody       *)
(* answers.  wait and recv find the daemon in the same way.                *)
(***************************************************************************)
EXTENDS Hosts

VARIABLES sock,     \* the daemon that bound what is under the socket path
          port,     \* the daemon that has the TCP port
          steady,   \* history: daemons that have served for all of a client's call
          crowded,  \* history: boxes on which two socket daemons met
          deserted  \* history: boxes on which a client may hold on to, or find,
                    \*   the socket of a daemon that has ended

sockVars == <<sock, port, steady, crowded, deserted>>
local == <<job, target, net, laptop, proc, box>>

Socket(c) == job[c].verb = "serve" /\ job[c].listen = "socket"
Tcp(c) == job[c].verb = "serve" /\ job[c].listen = "tcp"
Listening(d) == d \in Calls /\ pc[d] \in {"chmodsock", "serving"}
Serving(b) == {d \in Calls : job[d].verb = "serve" /\ Box(d) = b /\ pc[d] = "serving"}

SocketInit ==
    /\ sock = [b \in Boxes |-> None]
    /\ port = [b \in Boxes |-> None]
    /\ steady = [c \in Calls |-> {}]
    /\ crowded = {} /\ deserted = {}

Sock(c, d) == sock' = [sock EXCEPT ![Box(c)] = d]
Gone(c) == steady' = [x \in Calls |-> steady[x] \ {c}]

(* runServe: the token is read now and never again. *)
Serve(c) ==
    /\ pc[c] = "start" /\ job[c].verb = "serve"
    /\ held' = [held EXCEPT ![c] = rtoken[Box(c)]]
    /\ IF Tcp(c)
       THEN (IF rtoken[Box(c)] = None THEN End(c, "config") ELSE Goto(c, "listen"))
            /\ UNCHANGED crowded
       ELSE /\ Goto(c, "lstat")
            /\ LET others == {d \in Calls : Socket(d) /\ Box(d) = Box(c)
                                             /\ pc[d] \notin {"start", "end"}}
               IN  crowded' = IF others = {} THEN crowded ELSE crowded \cup {Box(c)}
    /\ UNCHANGED <<local, sock, port, steady, deserted>>

(* listenUnixSocket: whatever of its own is under the path is taken for    *)
(* stale and unlinked.                                                     *)
Lstat(c) ==
    /\ pc[c] = "lstat"
    /\ Goto(c, IF sock[Box(c)] = None THEN "bind" ELSE "unlink")
    /\ UNCHANGED <<local, held, sockVars>>
Unlink(c) ==
    /\ pc[c] = "unlink"
    /\ IF sock[Box(c)] = None THEN End(c, "generic") ELSE Goto(c, "bind")
    /\ Sock(c, None)
    /\ UNCHANGED <<local, held, port, steady, crowded, deserted>>
Bind(c) ==
    /\ pc[c] = "bind"
    /\ IF sock[Box(c)] = None
       THEN Sock(c, c) /\ Goto(c, "chmodsock")
       ELSE End(c, "generic") /\ UNCHANGED sock
    /\ UNCHANGED <<local, held, port, steady, crowded, deserted>>
(* chmod goes by the path; when it fails, Close unlinks the path. *)
ChmodSocket(c) ==
    /\ pc[c] = "chmodsock"
    /\ IF sock[Box(c)] = None THEN End(c, "generic") ELSE Goto(c, "serving")
    /\ UNCHANGED <<local, held, sockVars>>
ListenTcp(c) ==
    /\ pc[c] = "listen"
    /\ IF port[Box(c)] = None
       THEN port' = [port EXCEPT ![Box(c)] = c] /\ Goto(c, "serving")
       ELSE End(c, "generic") /\ UNCHANGED port
    /\ UNCHANGED <<local, held, sock, steady, crowded, deserted>>

LeftBehind(c) == UNCHANGED sock  \* mutant: no SetUnlinkOnClose
(* The listener is closed: the kernel frees the port, and Go unlinks the   *)
(* socket path, whoever's socket is under it.                              *)
Unlinked(c) == Sock(c, None)
FreePort(c) == port' = [port EXCEPT ![Box(c)] = IF @ = c THEN None ELSE @]
Stop(c) ==
    /\ pc[c] = "serving"
    /\ End(c, "ok")
    /\ IF Socket(c) THEN Unlinked(c) ELSE UNCHANGED sock
    /\ deserted' = IF \E d \in Calls : pc[d] = "asksocket" /\ Box(d) = Box(c)
                   THEN deserted \cup {Box(c)} ELSE deserted
    /\ FreePort(c) /\ Gone(c)
    /\ UNCHANGED <<local, held, crowded>>
Kill(c) ==
    /\ pc[c] \in {"chmodsock", "serving"}
    /\ End(c, "killed")
    /\ deserted' = IF Socket(c) THEN deserted \cup {Box(c)} ELSE deserted
    /\ FreePort(c) /\ Gone(c)
    /\ UNCHANGED <<local, held, sock, crowded>>

(* loadControl and newControlClient: any file under the socket path means  *)
(* the socket, none the port; then one request.                            *)
Prefer(c) == IF sock[Box(c)] # None THEN "asksocket" ELSE "askport"
StatSocket(c) ==
    /\ pc[c] = "start" /\ job[c].verb = "last"
    /\ held' = [held EXCEPT ![c] = rtoken[Box(c)]]
    /\ steady' = [steady EXCEPT ![c] = Serving(Box(c))]
    /\ Goto(c, Prefer(c))
    /\ UNCHANGED <<local, sock, port, crowded, deserted>>
AskSocket(c) ==
    /\ pc[c] = "asksocket"
    /\ End(c, IF Listening(sock[Box(c)]) THEN "daemon" ELSE "disk")
    /\ UNCHANGED <<local, held, sockVars>>
AskPort(c) ==
    /\ pc[c] = "askport"
    /\ LET d == port[Box(c)]
       IN  End(c, IF d = None THEN "disk" ELSE IF held[c] = held[d] THEN "daemon" ELSE "unauthorized")
    /\ UNCHANGED <<local, held, sockVars>>

Controlling(c) ==
    \/ Serve(c) \/ Lstat(c) \/ Unlink(c) \/ Bind(c) \/ ChmodSocket(c) \/ ListenTcp(c)
    \/ Stop(c) \/ Kill(c) \/ StatSocket(c) \/ AskSocket(c) \/ AskPort(c)

SocketTypeOK ==
    /\ sock \in [Boxes -> Calls \cup {None}]
    /\ port \in [Boxes -> Calls \cup {None}]
    /\ \A c \in Calls : \A d \in steady[c] : pc[d] = "serving"

(* A daemon is found by its clients.  On a box where no two socket daemons *)
(* met, the path is the serving daemon's, and names no daemon that has     *)
(* stopped.  A client goes to the disk although a daemon served all the    *)
(* while only there, or where the socket of a daemon that was killed, or   *)
(* stopped before the request, hides a TCP daemon; and it is refused only  *)
(* when the box was paired anew.                                           *)
DaemonIsReached ==
    /\ \A b \in Boxes \ crowded :
          /\ \A d \in Serving(b) : Socket(d) => sock[b] = d
          /\ sock[b] # None => Listening(sock[b]) \/ code[sock[b]] = "killed"
    /\ \A c \in Calls : job[c].verb = "last" =>
          /\ code[c] = "disk" /\ steady[c] # {} =>
                Box(c) \in crowded \/ (Box(c) \in deserted /\ \A d \in steady[c] : Tcp(d))
          /\ code[c] = "unauthorized" =>
                \E s \in Calls : job[s].verb = "setup" /\ Box(s) = Box(c) /\ proc[s].prog = "token"
=============================================================================
