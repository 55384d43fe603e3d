-------------------------------- MODULE Setup --------------------------------
(***************************************************************************)
(* clipbeam setup (cmd/clipbeam/cli/verbs_setup*.go): one connection, over *)
(* which the platform is detected, the binary put in place unless the box  *)
(* has this version, the laptop's token copied to the box, and at last the *)
(* box recorded as the default alias.  Nothing is locked: two setups share *)
(* the temp name on the box, the token store and the alias file.           *)
(***************************************************************************)
EXTENDS Hosts

VARIABLES snap,     \* the alias store that a setup has loaded
          met,      \* history: setups that ran at the same time as another
          begun,    \* history: the setups in the order in which they began
          replaced  \* history: a token was saved, or deleted, over another

setupVars == <<snap, met, begun, replaced>>
history == <<met, begun, replaced>>
unset == <<job, net, laptop, box>>

Installing(c) == job[c].verb = "setup"
Active(c) == Installing(c) /\ pc[c] # "start" /\ (pc[c] # "end" \/ proc[c].at \notin {"none", "exited"})

SetupInit ==
    /\ snap = [c \in Calls |-> aliases]
    /\ met = {} /\ begun = <<>> /\ replaced = FALSE

---------------------------------------------------------------------------
(* selectInstaller and NewClient.  A build without a release has nothing   *)
(* to fetch.                                                               *)
BeginSetup(c) ==
    /\ pc[c] = "start" /\ Installing(c)
    /\ IF job[c].route = "unreleased"
       THEN End(c, "config") /\ UNCHANGED <<db, met, begun>>
       ELSE /\ NewClient(c) /\ Goto(c, "dial")
            /\ LET others == {d \in Calls : Active(d)}
               IN  met' = IF others = {} THEN met ELSE met \cup others \cup {c}
            /\ begun' = Append(begun, c)
    /\ UNCHANGED <<job, target, held, peer, cut, hostKey, laptop, proc, box, snap, replaced>>

DialToSetUp(c) == Installing(c) /\ Dial(c, "uname") /\ UNCHANGED setupVars

(* detectRemotePlatform. *)
Detect(c) ==
    /\ pc[c] = "uname"
    /\ \/ c \notin cut /\ (Goto(c, "version") \/ End(c, "config"))
       \/ c \in cut /\ End(c, "unreachable")
    /\ UNCHANGED <<unset, target, held, proc, setupVars>>

(* remoteVersion: whatever goes wrong means that nothing is installed. *)
UpToDate(c) == c \notin cut /\ ~job[c].force /\ Installed(Box(c))
Version(c) ==
    /\ pc[c] = "version"
    /\ Goto(c, IF UpToDate(c) THEN "gettoken" ELSE "prepare")
    /\ UNCHANGED <<unset, target, held, proc, setupVars>>

(* buildCrossBinary, or fetchBytes, verifyChecksum and the extraction. *)
Prepare(c) ==
    /\ pc[c] = "prepare"
    /\ \/ c \notin cut /\ Goto(c, "installing")
          /\ Exec(c, IF job[c].route = "release" THEN "release" ELSE "place", BinUnits)
       \/ c \in cut /\ End(c, "unreachable") /\ UNCHANGED proc
       \/ job[c].route = "stream" /\ End(c, "generic") /\ UNCHANGED proc
       \/ job[c].route = "tarball" /\ (End(c, "unreachable") \/ End(c, "generic")) /\ UNCHANGED proc
    /\ UNCHANGED <<unset, target, held, setupVars>>

Placed(c) ==
    /\ pc[c] = "installing"
    /\ \/ RunOk(c) /\ Goto(c, "gettoken")
       \/ RunFails(c) /\ End(c, "remoteIO")
    /\ UNCHANGED <<unset, target, held, proc, setupVars>>

(* ensureLocalToken: a store that does not answer, or refuses, counts as   *)
(* empty; a new token then takes the place of the old.                     *)
GetToken(c) ==
    /\ pc[c] = "gettoken"
    /\ \/ token # None /\ held' = [held EXCEPT ![c] = token] /\ Goto(c, "sendtoken")
       \/ (token = None \/ job[c].locked) /\ held' = [held EXCEPT ![c] = c] /\ Goto(c, "savetoken")
    /\ UNCHANGED <<unset, target, proc, setupVars>>

SaveToken(c) ==
    /\ pc[c] = "savetoken"
    /\ \/ /\ replaced' = (replaced \/ token # None)
          /\ IF job[c].keychain   \* the old item is deleted before the new is added
             THEN token' = None /\ Goto(c, "addtoken")
             ELSE token' = held[c] /\ Goto(c, "sendtoken")
       \/ End(c, "config") /\ UNCHANGED <<token, replaced>>
    /\ UNCHANGED <<job, target, held, net, pins, aliases, proc, box, snap, met, begun>>
AddToken(c) ==
    /\ pc[c] = "addtoken"
    /\ \/ token' = held[c] /\ replaced' = (replaced \/ token # None) /\ Goto(c, "sendtoken")
       \/ End(c, "config") /\ UNCHANGED <<token, replaced>>
    /\ UNCHANGED <<job, target, held, net, pins, aliases, proc, box, snap, met, begun>>

(* writeRemoteToken. *)
SendToken(c) ==
    /\ pc[c] = "sendtoken"
    /\ \/ c \notin cut /\ Exec(c, "token", 1) /\ Goto(c, "pairing")
       \/ c \in cut /\ End(c, "unreachable") /\ UNCHANGED proc
    /\ UNCHANGED <<unset, target, held, setupVars>>
TokenSent(c) ==
    /\ pc[c] = "pairing"
    /\ \/ RunOk(c) /\ Goto(c, "loadaliases")
       \/ RunFails(c) /\ End(c, "remoteIO")
    /\ UNCHANGED <<unset, target, held, proc, setupVars>>

(* recordAlias: load, replaceAlias, save. *)
LoadAliases(c) ==
    /\ pc[c] = "loadaliases"
    /\ snap' = [snap EXCEPT ![c] = aliases]
    /\ Goto(c, "savealiases")
    /\ UNCHANGED <<unset, target, held, proc, history>>
RecordedFlagsKept(s, b) ==  \* mutant: the other aliases keep their Default flag
    [flag |-> [x \in DOMAIN s.flag \cup {b} |-> x = b \/ (x \in DOMAIN s.flag /\ s.flag[x])], def |-> b]
Recorded(s, b) ==
    [flag |-> [x \in DOMAIN s.flag \cup {b} |-> x = b], def |-> b]
SaveAliases(c) ==
    /\ pc[c] = "savealiases"
    /\ \/ aliases' = Recorded(snap[c], Box(c)) /\ End(c, "ok")
       \/ UNCHANGED aliases /\ End(c, "config")
    /\ UNCHANGED <<job, target, held, net, pins, token, proc, box, setupVars>>

---------------------------------------------------------------------------
(* On the box: mkdir -p && cat > tmp && chmod 755 tmp && mv -f tmp bin.    *)
(* cat opens the file that is under the temp name, if there is one, and    *)
(* keeps writing to it wherever it is moved; it takes a cut for the end.   *)
OnBox(c) == UNCHANGED <<job, calls, net, laptop, setupVars>>

OpenTemp(c) ==
    /\ At(c, "place", "start")
    /\ LET f == IF tmp[Box(c)] = None THEN c ELSE tmp[Box(c)]
       IN  \/ /\ tmp' = [tmp EXCEPT ![Box(c)] = f]
              /\ bytes' = [bytes EXCEPT ![f] = {}]
              /\ proc' = [proc EXCEPT ![c].at = "write", ![c].fd = f]
           \/ Exit(c, "generic") /\ UNCHANGED <<tmp, bytes>>
    /\ OnBox(c) /\ UNCHANGED <<bin, rtoken>>
WriteTemp(c) ==
    /\ At(c, "place", "write")
    /\ \/ /\ Arrives(c)
          /\ bytes' = [bytes EXCEPT ![proc[c].fd] = @ \cup {proc[c].got + 1}]
          /\ proc' = [proc EXCEPT ![c].got = @ + 1, ![c].left = @ - 1]
       \/ Eof(c) /\ Step(c, "chmod") /\ UNCHANGED bytes
       \/ Exit(c, "generic") /\ UNCHANGED bytes      \* the disk is full
    /\ OnBox(c) /\ UNCHANGED <<bin, tmp, rtoken>>
ChmodTemp(c) ==
    /\ At(c, "place", "chmod")
    /\ IF tmp[Box(c)] = None THEN Exit(c, "generic") ELSE Step(c, "mv")
    /\ OnBox(c) /\ UNCHANGED box
MoveTemp(c) ==
    /\ At(c, "place", "mv")
    /\ IF tmp[Box(c)] = None
       THEN Exit(c, "generic") /\ UNCHANGED <<bin, tmp>>
       ELSE /\ bin' = [bin EXCEPT ![Box(c)] = tmp[Box(c)]]
            /\ tmp' = [tmp EXCEPT ![Box(c)] = None]
            /\ Exit(c, "ok")
    /\ OnBox(c) /\ UNCHANGED <<bytes, rtoken>>

(* The box fetches install.sh and pipes it to sh.  A pipe has the status   *)
(* of its last command: when the download fails, sh reads nothing and ends *)
(* well.  The script itself moves a complete file into place.              *)
Fetch(c) ==
    /\ At(c, "release", "start")
    /\ \/ bin' = [bin EXCEPT ![Box(c)] = Same] /\ Exit(c, "ok")
       \/ UNCHANGED bin /\ (Exit(c, "ok") \/ Exit(c, "missing") \/ Exit(c, "generic"))
    /\ OnBox(c) /\ UNCHANGED <<tmp, bytes, rtoken>>

(* mkdir -p && chmod 700 && cat > token && chmod 600 token; the token is   *)
(* short enough to arrive whole or not at all.                             *)
OpenToken(c) ==
    /\ At(c, "token", "start")
    /\ \/ rtoken' = [rtoken EXCEPT ![Box(c)] = None] /\ Step(c, "write")
       \/ Exit(c, "generic") /\ UNCHANGED rtoken
    /\ OnBox(c) /\ UNCHANGED <<bin, tmp, bytes>>
WriteToken(c) ==
    /\ At(c, "token", "write")
    /\ \/ /\ Arrives(c)
          /\ rtoken' = [rtoken EXCEPT ![Box(c)] = held[c]]
          /\ proc' = [proc EXCEPT ![c].left = 0]
       \/ Eof(c) /\ Exit(c, "ok") /\ UNCHANGED rtoken
       \/ Exit(c, "generic") /\ UNCHANGED rtoken     \* the disk is full
    /\ OnBox(c) /\ UNCHANGED <<bin, tmp, bytes>>

SettingUp(c) ==
    \/ BeginSetup(c) \/ DialToSetUp(c) \/ Detect(c) \/ Version(c) \/ Prepare(c)
    \/ Placed(c) \/ GetToken(c) \/ SaveToken(c) \/ AddToken(c) \/ SendToken(c)
    \/ TokenSent(c) \/ LoadAliases(c) \/ SaveAliases(c)
BoxStep(c) ==
    \/ OpenTemp(c) \/ WriteTemp(c) \/ ChmodTemp(c) \/ MoveTemp(c) \/ Fetch(c)
    \/ OpenToken(c) \/ WriteToken(c)

SetupTypeOK ==
    /\ met \subseteq Calls
    /\ \A c \in Calls : snap[c].def \in Boxes \cup {None}
    /\ \A i \in 1..Len(begun) : Installing(begun[i])
    /\ replaced \in BOOLEAN

---------------------------------------------------------------------------
SetUp(c) == Installing(c) /\ code[c] = "ok"
Quiet == \A c \in Calls : ~Active(c)

(* The binary is there, whole and of this version, once the last setup of  *)
(* a box that met no other has reported success; except where the box      *)
(* fetched it itself and could not.                                        *)
BinaryReady ==
    \A c \in Calls :
        /\ SetUp(c) /\ c \notin met
        /\ \A i \in 1..Len(begun) : Box(begun[i]) = Box(c) =>
              \E j \in i..Len(begun) : begun[j] = c
        /\ job[c].route # "release"
        => Installed(Box(c))

(* Whoever is paired has the laptop's token, unless a token was replaced   *)
(* or a later setup of the box has failed.                                 *)
TokensShared ==
    Quiet /\ ~replaced =>
        \A c \in Calls : SetUp(c) =>
            \/ rtoken[Box(c)] = token
            \/ \E d \in Calls : Installing(d) /\ Box(d) = Box(c) /\ code[d] \in Exits \ {"-", "ok"}

(* Exactly one alias has the Default flag, and it is DefaultAlias; an      *)
(* alias is lost only to a setup that ran at the same time.                *)
AliasesKept ==
    /\ \A b \in Boxes : aliases.def = b <=> (b \in DOMAIN aliases.flag /\ aliases.flag[b])
    /\ \A c \in Calls : SetUp(c) /\ c \notin met => Box(c) \in DOMAIN aliases.flag

(* What a setup that reports success has achieved.                         *)
SetupMeansReady == BinaryReady /\ TokensShared /\ AliasesKept
=============================================================================
