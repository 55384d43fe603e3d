-------------------------------- MODULE Hosts --------------------------------
(***************************************************************************)
(* What the verbs of the CLI share: the laptop's files, the boxes' files,  *)
(* and the ssh connections between them (internal/sshx/sshx.go,            *)
(* hostkey.go, session.go).  A call is one run of `clipbeam <verb>'.  The  *)
(* remote end of an exec session is a process of its own: it reads the     *)
(* stdin it is sent unit by unit, sees EOF when the sender has closed it   *)
(* or when the connection is cut, and goes on after a cut.                 *)
(***************************************************************************)
EXTENDS Naturals, Sequences, FiniteSets

CONSTANTS Calls,
          Boxes,
          Keys, CertKeys,   \* host keys; those signed by a CA
          BinUnits,         \* units in which a binary arrives
          Worlds,           \* the calls and the files of the initial states
          MaxCuts,          \* bound: connections that may be cut
          FirstKey,         \* what each box presents first; bound: it changes once
          None

ASSUME HostsAssumption ==
    /\ CertKeys \subseteq Keys /\ FirstKey \in Keys
    /\ BinUnits \in Nat \ {0} /\ MaxCuts \in Nat
    /\ None \notin Calls \cup Boxes \cup Keys /\ {"older", "same"} \cap Calls = {}

(* The calls and files that the program may begin with: a setup, a daemon  *)
(* and a client of one have a box of their own, a push has something to    *)
(* send, and a daemon listens on a socket or on a port.  The alias store   *)
(* is one that setups have written: nothing else writes it.                *)
Jobs ==
    [verb : {"none", "send", "post", "setup", "serve", "last"}, box : Boxes \cup {None},
     accept : BOOLEAN, force : BOOLEAN, route : {"stream", "tarball", "release", "unreleased"},
     locked : BOOLEAN, keychain : BOOLEAN, sizes : Seq(Nat), listen : {"none", "socket", "tcp"}]

ASSUME WorldsAssumption ==
    \A w \in Worlds :
        /\ w.job \in [Calls -> Jobs]
        /\ \A c \in Calls : w.job[c].verb \in {"setup", "serve", "last"} => w.job[c].box \in Boxes
        /\ \A c \in Calls : w.job[c].verb \in {"send", "post"} => w.job[c].sizes # <<>>
        /\ \A c \in Calls : w.job[c].verb = "serve" => w.job[c].listen # "none"
        /\ w.bin \in [Boxes -> {None, "older", "same"}]
        /\ w.pins \subseteq Boxes \X Keys
        /\ w.token \in {None, "first"} /\ w.rtoken \in [Boxes -> {None, "first"}]
        /\ w.aliases.def \in Boxes \cup {None}
        /\ DOMAIN w.aliases.flag \subseteq Boxes
        /\ w.aliases.flag \in [DOMAIN w.aliases.flag -> BOOLEAN]
        /\ \A b \in Boxes : w.aliases.def = b <=> (b \in DOMAIN w.aliases.flag /\ w.aliases.flag[b])

VARIABLES job,        \* the arguments of each call
          pc, code,   \* where it stands, and what it ends with
          target,     \* the box it resolved, and whether an alias records a path there
          held,       \* the token it holds
          knownHosts, \* the pinned <<box, key>> pairs of the laptop
          accepted,   \* history: <<call, pair>> for the pairs that calls have pinned
          db,         \* what each call loaded of them
          token,      \* the laptop's token
          aliases,    \* the laptop's alias store: the Default flags and DefaultAlias
          hostKey,    \* the key each box presents
          peer,       \* the key of the box a call is connected to
          cut,        \* calls whose connection is gone
          proc,       \* the remote process of each call's exec session
          bin, tmp,   \* the file under clipbeam and clipbeam.clipbeam-tmp on each box
          bytes,      \* the units in the file that each call has created
          rtoken      \* the token file of each box

calls == <<pc, code, target, held>>
pins == <<knownHosts, accepted>>
laptop == <<pins, token, aliases>>
net == <<db, peer, cut, hostKey>>
box == <<bin, tmp, bytes, rtoken>>

Exits == {"-", "ok", "generic", "unauthorized", "forbidden", "unreachable", "toolarge",
          "config", "remoteIO", "missing", "disk", "daemon", "killed"}
Box(c) == target[c].box
Idle == [prog |-> "none", at |-> "none", left |-> 0, item |-> 0, got |-> 0,
         fd |-> None, rc |-> "-"]

(* The binaries a box may have from before: one of an older version, and   *)
(* one of the version of the laptop's.                                     *)
Older == "older"
Same == "same"
Whole(f) == f \in {Older, Same} \/ (f \in Calls /\ bytes[f] = 1..BinUnits)
Installed(b) == bin[b] # Older /\ Whole(bin[b])

HostsInit ==
    \E w \in Worlds :
        /\ job = w.job
        /\ bin = w.bin
        /\ knownHosts = w.pins /\ accepted = {}
        /\ token = w.token
        /\ rtoken = w.rtoken
        /\ aliases = w.aliases
        /\ pc = [c \in Calls |-> IF job[c].verb = "none" THEN "end" ELSE "start"]
        /\ code = [c \in Calls |-> "-"]
        /\ target = [c \in Calls |-> [box |-> job[c].box, known |-> FALSE]]
        /\ held = [c \in Calls |-> None]
        /\ hostKey = [b \in Boxes |-> FirstKey]
        /\ db = [c \in Calls |-> {}]
        /\ peer = [c \in Calls |-> None]
        /\ cut = {}
        /\ proc = [c \in Calls |-> Idle]
        /\ tmp = [b \in Boxes |-> None]
        /\ bytes = [c \in Calls |-> {}]

Goto(c, l) == pc' = [pc EXCEPT ![c] = l] /\ UNCHANGED code
End(c, k) == pc' = [pc EXCEPT ![c] = "end"] /\ code' = [code EXCEPT ![c] = k]

(***************************************************************************)
(* The host-key policy.  known_hosts is parsed once, in NewClient; the     *)
(* callback judges the key that the box presents by what was loaded.       *)
(***************************************************************************)
NewClient(c) == db' = [db EXCEPT ![c] = knownHosts]

Verdict(c) ==
    LET want == {p \in db[c] : p[1] = Box(c)}
    IN  IF hostKey[Box(c)] \in CertKeys THEN "CAUnsupported"
        ELSE IF <<Box(c), hostKey[Box(c)]>> \in want THEN "trusted"
        ELSE IF want = {} THEN "unknown" ELSE "mismatch"

AcceptsChanged(c) ==  \* mutant: a changed key is taken for an unknown one
    Verdict(c) \in {"unknown", "mismatch"} /\ job[c].accept
PinnedAlone(c) == {<<Box(c), hostKey[Box(c)]>>}  \* mutant: no O_APPEND
(* handleUnknown and appendKnownHost: only under --accept-new-hostkey, and *)
(* only once the line is in the file.                                      *)
Accepts(c) == Verdict(c) = "unknown" /\ job[c].accept
Pinned(c) == knownHosts \cup {<<Box(c), hostKey[Box(c)]>>}

Connects(c, l) ==
    /\ peer' = [peer EXCEPT ![c] = hostKey[Box(c)]]
    /\ Goto(c, l)

Dial(c, l) ==
    /\ pc[c] = "dial"
    /\ \/ Verdict(c) = "trusted" /\ Connects(c, l) /\ UNCHANGED pins
       \* the key is pinned first, and then the login may fail
       \/ /\ Accepts(c)
          /\ knownHosts' = Pinned(c)
          /\ accepted' = accepted \cup {<<c, <<Box(c), hostKey[Box(c)]>>>>}
          /\ Connects(c, l) \/ (End(c, "unreachable") /\ UNCHANGED peer)
       \/ Verdict(c) = "CAUnsupported" /\ End(c, "config") /\ UNCHANGED <<pins, peer>>
       \* no network, no login, or a key that is not trusted
       \/ End(c, "unreachable") /\ UNCHANGED <<pins, peer>>
    /\ UNCHANGED <<job, target, held, db, cut, hostKey, token, aliases, proc, box>>

(***************************************************************************)
(* Exec sessions.  All sessions of a call run over its one connection.     *)
(***************************************************************************)
Exec(c, prog, units) ==
    proc' = [proc EXCEPT ![c] = [Idle EXCEPT !.prog = prog, !.at = "start",
                                             !.left = units, !.item = 1]]

(* Run relays the exit status; a connection that is gone is an error, as   *)
(* is a write to stdin that failed.                                        *)
RunOk(c) == c \notin cut /\ proc[c].at = "exited" /\ proc[c].rc = "ok"
RunFails(c) == c \in cut \/ (proc[c].at = "exited" /\ proc[c].rc # "ok")

At(c, prog, l) == proc[c].prog = prog /\ proc[c].at = l
Step(c, l) == proc' = [proc EXCEPT ![c].at = l]
Exit(c, k) == proc' = [proc EXCEPT ![c].at = "exited", ![c].rc = k]
Arrives(c) == c \notin cut /\ proc[c].left > 0
Eof(c) == c \in cut \/ proc[c].left = 0

Cut(c) ==
    /\ peer[c] # None /\ pc[c] # "end"
    /\ c \notin cut /\ Cardinality(cut) < MaxCuts
    /\ cut' = cut \cup {c}
    /\ UNCHANGED <<job, calls, db, peer, hostKey, laptop, proc, box>>

(* Another machine answers under the name of the box, or it was installed  *)
(* anew; only calls that are still to dial can tell.                       *)
Rekey(b) ==
    /\ hostKey[b] = FirstKey
    /\ \E c \in Calls : Box(c) = b /\ pc[c] \in {"start", "dial"}
    /\ \E k \in Keys \ {FirstKey} : hostKey' = [hostKey EXCEPT ![b] = k]
    /\ UNCHANGED <<job, calls, db, peer, cut, laptop, proc, box>>

HostsTypeOK ==
    /\ code \in [Calls -> Exits]
    /\ \A c \in Calls : pc[c] = "end" => job[c].verb = "none" \/ code[c] # "-"
    /\ target \in [Calls -> [box : Boxes \cup {None}, known : BOOLEAN]]
    /\ held \in [Calls -> Calls \cup {None, "first"}]
    /\ token \in Calls \cup {None, "first"}
    /\ rtoken \in [Boxes -> Calls \cup {None, "first"}]
    /\ knownHosts \subseteq Boxes \X Keys /\ accepted \subseteq Calls \X knownHosts
    /\ \A c \in Calls : db[c] \subseteq knownHosts
    /\ hostKey \in [Boxes -> Keys]
    /\ peer \in [Calls -> Keys \cup {None}]
    /\ cut \subseteq {c \in Calls : peer[c] # None}
    /\ bin \in [Boxes -> Calls \cup {None, Older, Same}]
    /\ tmp \in [Boxes -> Calls \cup {None}]
    /\ bytes \in [Calls -> SUBSET (1..BinUnits)]
    /\ aliases.def \in Boxes \cup {None}
    /\ aliases.flag \in [DOMAIN aliases.flag -> BOOLEAN] /\ DOMAIN aliases.flag \subseteq Boxes
    /\ \A c \in Calls : proc[c].at = "exited" <=> proc[c].rc # "-"

(* A connection is open only to a box whose key is in known_hosts.  A box  *)
(* that the call had found there has the key it had found, a call without  *)
(* --accept-new-hostkey never goes further than that, and CA-signed keys   *)
(* are never accepted.  A key that a call has pinned stands beside another *)
(* key of the box only if another call has pinned that one, and neither    *)
(* had found a key of the box when it looked.                              *)
OnlyTrustedHosts ==
    /\ \A c \in Calls : peer[c] # None =>
          /\ <<Box(c), peer[c]>> \in knownHosts
          /\ peer[c] \notin CertKeys
          /\ (~job[c].accept \/ \E p \in db[c] : p[1] = Box(c)) => <<Box(c), peer[c]>> \in db[c]
    /\ \A p, q \in knownHosts, c \in Calls :
          p[1] = q[1] /\ p # q /\ <<c, p>> \in accepted =>
             \E d \in Calls \ {c} :
                /\ <<d, q>> \in accepted
                /\ \A e \in {c, d} : job[e].accept /\ ~\E r \in db[e] : r[1] = p[1]
=============================================================================
