------------------------------ MODULE CliProofs ------------------------------
(***************************************************************************)
(* The safety of the calls of the CLI, for any number of calls and boxes,  *)
(* any keys, frames of any length and any number of cuts: whom a call      *)
(* trusts, what a push leaves behind, how a client finds its daemon, and   *)
(* what a setup that reports success has achieved.                         *)
(* The inductive invariant has a part for each beside the types: Trusted,  *)
(* Pushed, Reachable and Achieved.                                         *)
(***************************************************************************)
EXTENDS Cli, SequenceTheorems, TLAPS

Lemmas == INSTANCE SequenceLemmas

SendSteps == {"start", "dial", "exec", "wait", "end"}
SetupSteps ==
    {"start", "dial", "uname", "version", "prepare", "installing", "gettoken", "savetoken",
     "addtoken", "sendtoken", "pairing", "loadaliases", "savealiases", "end"}
ServeSteps == {"start", "lstat", "unlink", "bind", "chmodsock", "listen", "serving", "end"}
LastSteps == {"start", "asksocket", "askport", "end"}
Steps == SendSteps \cup SetupSteps \cup ServeSteps \cup LastSteps

(* A call takes the steps of its verb. *)
StepsOfVerb ==
    \A c \in Calls :
        /\ job[c].verb = "none" => pc[c] = "end"
        /\ job[c].verb = "send" => pc[c] \in SendSteps
        /\ job[c].verb = "post" => pc[c] \in {"start", "end"}
        /\ job[c].verb = "setup" => pc[c] \in SetupSteps
        /\ job[c].verb = "serve" => pc[c] \in ServeSteps
        /\ job[c].verb = "last" => pc[c] \in LastSteps

Store(s) ==
    /\ s.def \in Boxes \cup {None}
    /\ DOMAIN s.flag \subseteq Boxes /\ s.flag \in [DOMAIN s.flag -> BOOLEAN]

Procs ==
    [prog : {"none", "ingest", "place", "release", "token"},
     at : {"none", "start", "magic", "head", "spill", "save", "finish", "write", "chmod", "mv",
           "exited"},
     left : Nat, item : Nat, got : Nat, fd : Calls \cup {None}, rc : Exits]

(* The types, by the state they are about; with TypeOK, what it leaves open: the
   jobs, and that the variables are functions. *)
JobsTyped ==
    /\ job \in [Calls -> Jobs]
    /\ \A c \in Calls : job[c].verb \in {"setup", "serve", "last"} => job[c].box \in Boxes
    /\ \A c \in Calls : job[c].verb \in {"send", "post"} => job[c].sizes # <<>>
    /\ \A c \in Calls : job[c].verb = "serve" => job[c].listen # "none"

CallsTyped ==
    /\ pc \in [Calls -> Steps]
    /\ StepsOfVerb
    /\ code \in [Calls -> Exits]
    /\ \A c \in Calls : pc[c] = "end" => job[c].verb = "none" \/ code[c] # "-"
    /\ target \in [Calls -> [box : Boxes \cup {None}, known : BOOLEAN]]
    /\ \A c \in Calls : pc[c] \notin {"start", "end"} => Box(c) \in Boxes
    /\ \A c \in Calls : job[c].verb \in {"setup", "serve", "last"} => Box(c) \in Boxes

NetTyped ==
    /\ knownHosts \subseteq Boxes \X Keys /\ accepted \subseteq Calls \X knownHosts
    /\ db \in [Calls -> SUBSET (Boxes \X Keys)]
    /\ \A c \in Calls : db[c] \subseteq knownHosts
    /\ hostKey \in [Boxes -> Keys]
    /\ peer \in [Calls -> Keys \cup {None}]
    /\ cut \subseteq {c \in Calls : peer[c] # None}
    /\ \A c \in Calls : peer[c] # None => Box(c) \in Boxes /\ pc[c] \notin {"start", "dial"}
    /\ \A c \in Calls : job[c].verb \in {"send", "setup"} /\ pc[c] \notin {"start", "dial", "end"} =>
                           peer[c] # None

TokensTyped ==
    /\ held \in [Calls -> Calls \cup {None, "first"}]
    /\ token \in Calls \cup {None, "first"}
    /\ rtoken \in [Boxes -> Calls \cup {None, "first"}]

(* A remote process runs over a connection.  The cat of an installation has got
   what is not left. *)
ProcsTyped ==
    /\ proc \in [Calls -> Procs]
    /\ \A c \in Calls : proc[c].at = "exited" <=> proc[c].rc # "-"
    /\ \A c \in Calls : proc[c].prog # "none" => peer[c] # None
    /\ \A c \in Calls : proc[c].prog = "none" => proc[c].at = "none"
    /\ \A c \in Calls : proc[c].prog = "place" /\ proc[c].at = "start" =>
                           proc[c].got = 0 /\ proc[c].left = BinUnits
    /\ \A c \in Calls : proc[c].prog = "place" /\ proc[c].at = "write" =>
                           proc[c].got + proc[c].left = BinUnits /\ proc[c].fd \in Calls

FilesTyped ==
    /\ bin \in [Boxes -> Calls \cup {None, Older, Same}]
    /\ tmp \in [Boxes -> Calls \cup {None}]
    /\ bytes \in [Calls -> SUBSET (1..BinUnits)]

AliasesTyped ==
    /\ Store(aliases)
    /\ snap = [c \in Calls |-> snap[c]] /\ \A c \in Calls : Store(snap[c])

PushTyped ==
    /\ PushTypeOK
    /\ spills \in [Calls -> SUBSET Nat]

SetupTyped ==
    /\ met \subseteq Calls
    /\ begun \in Seq(Calls) /\ \A i \in 1..Len(begun) : Installing(begun[i])
    /\ replaced \in BOOLEAN

SocketTyped ==
    /\ SocketTypeOK
    /\ steady \in [Calls -> SUBSET Calls]
    /\ crowded \subseteq Boxes /\ deserted \subseteq Boxes

Typed ==
    /\ JobsTyped /\ CallsTyped /\ NetTyped /\ TokensTyped /\ ProcsTyped /\ FilesTyped
    /\ AliasesTyped /\ PushTyped /\ SetupTyped /\ SocketTyped

(* The types of this module imply those of the specification. *)
LEMMA TypedIsTypeOK == Typed => TypeOK
<1> SUFFICES ASSUME Typed PROVE TypeOK
  OBVIOUS
<1>1. HostsTypeOK
  BY DEF Typed, CallsTyped, NetTyped, TokensTyped, ProcsTyped, FilesTyped, AliasesTyped, Store,
         HostsTypeOK
<1>2. SetupTypeOK
  BY DEF Typed, AliasesTyped, SetupTyped, SetupTypeOK, Store
<1> QED BY <1>1, <1>2 DEF Typed, PushTyped, SocketTyped, TypeOK
------------------------------------------------------------------------------
(* A world gives the variables their types. *)
LEMMA InitTyped == Init => Typed
<1> SUFFICES ASSUME Init PROVE Typed
  OBVIOUS
<1>1. PICK w \in Worlds :
        /\ job = w.job /\ bin = w.bin /\ knownHosts = w.pins /\ accepted = {} /\ token = w.token
        /\ rtoken = w.rtoken /\ aliases = w.aliases
        /\ pc = [c \in Calls |-> IF job[c].verb = "none" THEN "end" ELSE "start"]
        /\ code = [c \in Calls |-> "-"]
        /\ target = [c \in Calls |-> [box |-> job[c].box, known |-> FALSE]]
        /\ held = [c \in Calls |-> None]
        /\ hostKey = [b \in Boxes |-> FirstKey]
        /\ db = [c \in Calls |-> {}]
        /\ peer = [c \in Calls |-> None]
        /\ cut = {}
        /\ proc = [c \in Calls |-> Idle]
        /\ tmp = [b \in Boxes |-> None]
        /\ bytes = [c \in Calls |-> {}]
  BY DEF Init, HostsInit
<1>2. /\ job \in [Calls -> Jobs]
      /\ \A c \in Calls : job[c].verb \in {"setup", "serve", "last"} => job[c].box \in Boxes
      /\ \A c \in Calls : job[c].verb \in {"send", "post"} => job[c].sizes # <<>>
      /\ \A c \in Calls : job[c].verb = "serve" => job[c].listen # "none"
      /\ bin \in [Boxes -> {None, "older", "same"}]
      /\ knownHosts \subseteq Boxes \X Keys
      /\ token \in {None, "first"} /\ rtoken \in [Boxes -> {None, "first"}]
      /\ Store(aliases)
  BY <1>1, WorldsAssumption DEF Store
<1>3. Idle \in Procs /\ Idle.prog = "none" /\ Idle.at = "none" /\ Idle.rc = "-"
  BY DEF Idle, Procs, Exits
<1>4. JobsTyped /\ TokensTyped /\ FilesTyped
  BY <1>1, <1>2 DEF JobsTyped, TokensTyped, FilesTyped, Older, Same
<1>5. CallsTyped
  <2>1. pc \in [Calls -> Steps] /\ StepsOfVerb
    BY <1>1, <1>2 DEF Steps, StepsOfVerb, SendSteps, SetupSteps, ServeSteps, LastSteps, Jobs
  <2>2. \A c \in Calls : Box(c) = job[c].box
    BY <1>1 DEF Box
  <2> QED BY <1>1, <1>2, <2>1, <2>2 DEF CallsTyped, Exits, Jobs
<1>6. NetTyped /\ ProcsTyped
  BY <1>1, <1>2, <1>3, HostsAssumption DEF NetTyped, ProcsTyped
<1>7. PushTyped
  BY DEF Init, PushInit, PushTypeOK, PushTyped
<1>8. AliasesTyped /\ SetupTyped
  <2>1. snap = [c \in Calls |-> aliases] /\ met = {} /\ begun = <<>> /\ replaced = FALSE
    BY DEF Init, SetupInit
  <2>2. begun \in Seq(Calls) /\ 1..Len(begun) = {}
    BY <2>1
  <2>3. snap = [c \in Calls |-> snap[c]] /\ \A c \in Calls : snap[c] = aliases
    BY <2>1
  <2>4. replaced \in BOOLEAN /\ met \subseteq Calls
    BY <2>1
  <2> QED BY <1>2, <2>2, <2>3, <2>4 DEF AliasesTyped, SetupTyped
<1>9. SocketTyped
  BY DEF Init, SocketInit, SocketTypeOK, SocketTyped
<1> QED BY <1>4, <1>5, <1>6, <1>7, <1>8, <1>9 DEF Typed

(* The kinds of steps. *)
LEMMA StepKinds ==
    ASSUME [Next]_vars
    PROVE  \/ \E c \in Calls : \/ Sending(c) /\ UNCHANGED <<setupVars, sockVars>>
                               \/ Ingest(c) /\ UNCHANGED <<setupVars, sockVars>>
                               \/ SettingUp(c) /\ UNCHANGED <<pushVars, sockVars>>
                               \/ BoxStep(c) /\ UNCHANGED <<pushVars, sockVars>>
                               \/ Controlling(c) /\ UNCHANGED <<pushVars, setupVars>>
           \/ Network
           \/ UNCHANGED vars
BY DEF Next

(* Nothing changes what a call was asked to do. *)
LEMMA JobsStay ==
    ASSUME [Next]_vars
    PROVE  UNCHANGED job
<1> USE DEF laptop, pins, net, box, calls, unpushed, unset, local
<1>1. ASSUME NEW c \in Calls, Sending(c)
      PROVE  UNCHANGED job
  BY <1>1 DEF Sending, Resolve, DialToSend, Dial, ExecIngest, WaitForIngest, Post
<1>2. ASSUME NEW c \in Calls, Ingest(c)
      PROVE  UNCHANGED job
  BY <1>2 DEF Ingest, Ingesting, IngestStarts, BadFrame, ReadMagic, ReadHead, SpillByte, Spilled,
              SaveFails, SaveSpilled, SaveByte, SaveLast, FinishIngest
<1>3. ASSUME NEW c \in Calls, SettingUp(c)
      PROVE  UNCHANGED job
  BY <1>3 DEF SettingUp, BeginSetup, DialToSetUp, Dial, Detect, Version, Prepare, Placed, GetToken,
              SaveToken, AddToken, SendToken, TokenSent, LoadAliases, SaveAliases
<1>4. ASSUME NEW c \in Calls, BoxStep(c)
      PROVE  UNCHANGED job
  BY <1>4 DEF BoxStep, OnBox, OpenTemp, WriteTemp, ChmodTemp, MoveTemp, Fetch, OpenToken, WriteToken
<1>5. ASSUME NEW c \in Calls, Controlling(c)
      PROVE  UNCHANGED job
  BY <1>5 DEF Controlling, Serve, Lstat, Unlink, Bind, ChmodSocket, ListenTcp, Stop, Kill,
              StatSocket, AskSocket, AskPort
<1>6. ASSUME Network
      PROVE  UNCHANGED job
  BY <1>6 DEF Network, Cut, Rekey
<1> QED BY <1>1, <1>2, <1>3, <1>4, <1>5, <1>6, StepKinds DEF vars

(* A call goes on to a step among S, or ends. *)
Moves(c, S) ==
    /\ UNCHANGED target
    /\ (\E l \in S \ {"start", "end"} : Goto(c, l)) \/ (\E k \in Exits \ {"-"} : End(c, k))

(* The steps of the verb of a call. *)
StepsOf(c) ==
    IF job[c].verb = "send" THEN SendSteps
    ELSE IF job[c].verb = "setup" THEN SetupSteps
    ELSE IF job[c].verb = "serve" THEN ServeSteps
    ELSE IF job[c].verb = "last" THEN LastSteps
    ELSE {"start", "end"}

(* A call that moves among the steps of its verb keeps the types. *)
LEMMA MovesTyped ==
    ASSUME CallsTyped, job' = job, NEW c \in Calls, job[c].verb # "none", Moves(c, StepsOf(c)),
           Box(c) \in Boxes \/ StepsOf(c) = {"start", "end"}
    PROVE  CallsTyped'
<1>1. UNCHANGED target
  BY DEF Moves
<1>2. PICK l \in Steps, k \in Exits :
        /\ pc' = [pc EXCEPT ![c] = l] /\ code' = [code EXCEPT ![c] = k]
        /\ l \in StepsOf(c) /\ (l = "end" => k # "-")
        /\ l \notin {"start", "end"} => Box(c) \in Boxes
  <2>1. StepsOf(c) \subseteq Steps
    BY DEF StepsOf, Steps, SendSteps
  <2>2. CASE \E l \in StepsOf(c) \ {"start", "end"} : Goto(c, l)
    <3>1. PICK l \in StepsOf(c) \ {"start", "end"} : Goto(c, l)
      BY <2>2
    <3>2. code[c] \in Exits /\ code' = [code EXCEPT ![c] = code[c]]
      BY <3>1 DEF Goto, CallsTyped
    <3> QED BY <2>1, <3>1, <3>2 DEF Goto
  <2>3. CASE \E k \in Exits \ {"-"} : End(c, k)
    <3>1. "end" \in StepsOf(c)
      BY DEF StepsOf, SendSteps, SetupSteps, ServeSteps, LastSteps
    <3> QED BY <2>1, <2>3, <3>1 DEF End
  <2> QED BY <2>2, <2>3 DEF Moves
<1>3. pc' \in [Calls -> Steps] /\ code' \in [Calls -> Exits]
  BY <1>2 DEF CallsTyped
<1>4. \A d \in Calls \ {c} : pc'[d] = pc[d] /\ code'[d] = code[d]
  BY <1>2 DEF CallsTyped
<1>5. pc'[c] = l /\ code'[c] = k
  BY <1>2 DEF CallsTyped
<1>6. StepsOfVerb'
  BY <1>2, <1>4, <1>5 DEF CallsTyped, StepsOfVerb, StepsOf
<1>7. \A d \in Calls : pc'[d] = "end" => job[d].verb = "none" \/ code'[d] # "-"
  BY <1>2, <1>4, <1>5 DEF CallsTyped
<1>8. \A d \in Calls : Box(d)' = Box(d) /\ (pc'[d] \notin {"start", "end"} => Box(d)' \in Boxes)
  BY <1>1, <1>2, <1>4, <1>5 DEF CallsTyped, Box
<1> QED BY <1>1, <1>3, <1>6, <1>7, <1>8 DEF CallsTyped

(* A call goes from step to step of its verb, and ends with an exit. *)
LEMMA CallsTypedKept ==
    ASSUME Typed, [Next]_vars
    PROVE  CallsTyped'
<1>1. job' = job /\ CallsTyped /\ JobsTyped /\ Store(aliases)
  BY JobsStay DEF Typed, AliasesTyped
<1>2. \A c \in Calls : job[c].verb \in {"none", "send", "post", "setup", "serve", "last"}
  BY <1>1 DEF JobsTyped, Jobs
<1>3. CASE UNCHANGED calls
  BY <1>1, <1>3 DEF calls, CallsTyped, StepsOfVerb, Box
<1>4. ASSUME NEW c \in Calls, Sending(c)
      PROVE  CallsTyped'
  <2>1. CASE Resolve(c)
    <3>1. job[c].box \in Boxes \cup {None} /\ aliases.def \in Boxes \cup {None}
      BY <1>1 DEF JobsTyped, Jobs, Store
    <3>2. job[c].verb = "send"
      BY <2>1 DEF Resolve
    <3>3. CASE \E b \in Boxes :
                  /\ target' = [target EXCEPT ![c] = [box |-> b, known |-> b \in DOMAIN aliases.flag]]
                  /\ pc' = [pc EXCEPT ![c] = "dial"] /\ UNCHANGED code
      <4>1. target' \in [Calls -> [box : Boxes \cup {None}, known : BOOLEAN]]
        BY <1>1, <3>3 DEF CallsTyped
      <4>2. Box(c)' \in Boxes /\ \A d \in Calls \ {c} : Box(d)' = Box(d)
        BY <1>1, <3>3 DEF CallsTyped, Box
      <4>3. /\ pc' \in [Calls -> Steps] /\ pc'[c] = "dial" /\ \A d \in Calls \ {c} : pc'[d] = pc[d]
        BY <1>1, <3>3 DEF CallsTyped, Steps, SendSteps
      <4>4. StepsOfVerb'
        BY <1>1, <3>2, <4>3 DEF CallsTyped, StepsOfVerb, SendSteps
      <4> QED BY <1>1, <3>3, <4>1, <4>2, <4>3, <4>4 DEF CallsTyped
    <3>4. CASE End(c, "config") /\ UNCHANGED target
      <4>1. /\ pc' \in [Calls -> Steps] /\ code' \in [Calls -> Exits]
            /\ pc'[c] = "end" /\ code'[c] = "config"
            /\ \A d \in Calls \ {c} : pc'[d] = pc[d] /\ code'[d] = code[d]
        BY <1>1, <3>4 DEF End, CallsTyped, Steps, SendSteps, Exits
      <4>2. StepsOfVerb'
        BY <1>1, <3>2, <4>1 DEF CallsTyped, StepsOfVerb, SendSteps
      <4> QED BY <1>1, <3>4, <4>1, <4>2 DEF CallsTyped, Box
    <3> QED BY <2>1, <3>1, <3>3, <3>4 DEF Resolve, Goto
  <2>2. CASE DialToSend(c) \/ ExecIngest(c) \/ WaitForIngest(c)
    <3>1. /\ job[c].verb = "send" /\ StepsOf(c) = SendSteps /\ pc[c] \in {"dial", "exec", "wait"}
      BY <2>2 DEF DialToSend, Dial, ExecIngest, WaitForIngest, StepsOf
    <3>2. Box(c) \in Boxes
      BY <1>1, <3>1 DEF CallsTyped
    <3>3. Moves(c, SendSteps)
      <4> USE DEF Moves, SendSteps, Exits
      <4>1. CASE DialToSend(c)
        BY <4>1 DEF DialToSend, Dial, Connects
      <4>2. CASE ExecIngest(c)
        BY <4>2 DEF ExecIngest
      <4>3. CASE WaitForIngest(c)
        BY <4>3 DEF WaitForIngest, Relayed
      <4> QED BY <2>2, <4>1, <4>2, <4>3
    <3> QED BY <1>1, <3>1, <3>2, <3>3, MovesTyped
  <2>3. CASE Post(c)
    <3>1. job[c].verb = "post" /\ StepsOf(c) = {"start", "end"}
      BY <2>3 DEF Post, StepsOf
    <3>2. Moves(c, {"start", "end"})
      BY <2>3 DEF Post, Moves, Exits
    <3> QED BY <1>1, <3>1, <3>2, MovesTyped
  <2> QED BY <1>4, <2>1, <2>2, <2>3 DEF Sending
<1>5. ASSUME NEW c \in Calls, Ingest(c) \/ BoxStep(c)
      PROVE  UNCHANGED calls
  BY <1>5 DEF Ingest, Ingesting, IngestStarts, BadFrame, ReadMagic, ReadHead, SpillByte, Spilled,
              SaveFails, SaveSpilled, SaveByte, SaveLast, FinishIngest,
              BoxStep, OnBox, OpenTemp, WriteTemp, ChmodTemp, MoveTemp, Fetch, OpenToken, WriteToken
<1>6. ASSUME Network
      PROVE  UNCHANGED calls
  BY <1>6 DEF Network, Cut, Rekey
<1>7. ASSUME NEW c \in Calls, SettingUp(c)
      PROVE  CallsTyped'
  <2>1. job[c].verb = "setup"
    <3>1. job[c].verb = "setup" \/ pc[c] \in SetupSteps \ {"start", "dial", "end"}
      BY <1>7 DEF SettingUp, BeginSetup, DialToSetUp, Installing, Detect, Version, Prepare, Placed,
                  GetToken, SaveToken, AddToken, SendToken, TokenSent, LoadAliases, SaveAliases,
                  SetupSteps
    <3> QED BY <1>1, <1>2, <3>1
            DEF CallsTyped, StepsOfVerb, SendSteps, SetupSteps, ServeSteps, LastSteps
  <2>2. StepsOf(c) = SetupSteps /\ Box(c) \in Boxes
    BY <1>1, <2>1 DEF StepsOf, CallsTyped
  <2>3. Moves(c, SetupSteps)
    <3> USE DEF Moves, SetupSteps, Exits, unset
    <3>1. CASE BeginSetup(c) \/ DialToSetUp(c)
      BY <3>1 DEF BeginSetup, DialToSetUp, Dial, Connects
    <3>2. CASE Detect(c) \/ Version(c) \/ Prepare(c) \/ Placed(c)
      BY <3>2 DEF Detect, Version, Prepare, Placed
    <3>3. CASE GetToken(c) \/ SaveToken(c) \/ AddToken(c) \/ SendToken(c)
      BY <3>3 DEF GetToken, SaveToken, AddToken, SendToken
    <3>4. CASE TokenSent(c) \/ LoadAliases(c) \/ SaveAliases(c)
      BY <3>4 DEF TokenSent, LoadAliases, SaveAliases
    <3> QED BY <1>7, <3>1, <3>2, <3>3, <3>4 DEF SettingUp
  <2> QED BY <1>1, <2>1, <2>2, <2>3, MovesTyped
<1>8. ASSUME NEW c \in Calls, Controlling(c)
      PROVE  CallsTyped'
  <2>1. job[c].verb \in {"serve", "last"}
    <3>1. job[c].verb \in {"serve", "last"} \/ pc[c] \in (ServeSteps \cup LastSteps) \ {"start", "end"}
      BY <1>8 DEF Controlling, Serve, Lstat, Unlink, Bind, ChmodSocket, ListenTcp, Stop, Kill,
                  StatSocket, AskSocket, AskPort, ServeSteps, LastSteps
    <3> QED BY <1>1, <1>2, <3>1
            DEF CallsTyped, StepsOfVerb, SendSteps, SetupSteps, ServeSteps, LastSteps
  <2>2. Box(c) \in Boxes
    BY <1>1, <2>1 DEF CallsTyped
  <2>3. CASE Serve(c) \/ Lstat(c) \/ Unlink(c) \/ Bind(c) \/ ChmodSocket(c) \/ ListenTcp(c)
             \/ Stop(c) \/ Kill(c)
    <3>1. job[c].verb = "serve" /\ StepsOf(c) = ServeSteps
      <4>1. pc[c] \in LastSteps => Serve(c)
        BY <2>3 DEF Serve, Lstat, Unlink, Bind, ChmodSocket, ListenTcp, Stop, Kill, LastSteps
      <4> QED BY <1>1, <2>1, <4>1 DEF Serve, CallsTyped, StepsOfVerb, StepsOf
    <3>2. Moves(c, ServeSteps)
      <4> USE DEF Moves, ServeSteps, Exits, local
      <4>1. CASE Serve(c) \/ Lstat(c) \/ Unlink(c) \/ Bind(c)
        BY <4>1 DEF Serve, Lstat, Unlink, Bind
      <4>2. CASE ChmodSocket(c) \/ ListenTcp(c) \/ Stop(c) \/ Kill(c)
        BY <4>2 DEF ChmodSocket, ListenTcp, Stop, Kill
      <4> QED BY <2>3, <4>1, <4>2
    <3> QED BY <1>1, <2>2, <3>1, <3>2, MovesTyped
  <2>4. CASE StatSocket(c) \/ AskSocket(c) \/ AskPort(c)
    <3>1. job[c].verb = "last" /\ StepsOf(c) = LastSteps
      <4>1. pc[c] \in ServeSteps => StatSocket(c)
        BY <2>4 DEF StatSocket, AskSocket, AskPort, ServeSteps
      <4> QED BY <1>1, <2>1, <4>1 DEF StatSocket, CallsTyped, StepsOfVerb, StepsOf
    <3>2. Moves(c, LastSteps)
      BY <2>4 DEF StatSocket, Prefer, AskSocket, AskPort, Moves, LastSteps, Exits, local
    <3> QED BY <1>1, <2>2, <3>1, <3>2, MovesTyped
  <2> QED BY <1>8, <2>3, <2>4 DEF Controlling
<1> QED BY <1>3, <1>4, <1>5, <1>6, <1>7, <1>8, StepKinds DEF vars

(* Connections are opened by Dial, and known_hosts is read when a call begins. *)
LEMMA NetTypedKept ==
    ASSUME Typed, [Next]_vars
    PROVE  NetTyped'
<1> USE DEF calls, laptop, pins, net, box, unpushed, unset, local, Goto, End, Box, NewClient
<1>1. /\ job' = job /\ CallsTyped /\ CallsTyped' /\ JobsTyped /\ NetTyped /\ HostsAssumption
  BY JobsStay, CallsTypedKept, HostsAssumption DEF Typed
<1>2. CASE /\ UNCHANGED <<net, pins, target>>
           /\ \A c \in Calls : peer[c] # None => pc'[c] \notin {"start", "dial"}
           /\ \A c \in Calls : job[c].verb \in {"send", "setup"} /\ pc'[c] \notin {"start", "dial", "end"} =>
                                  pc[c] \notin {"start", "dial", "end"}
  BY <1>1, <1>2 DEF NetTyped
<1>3. ASSUME NEW c \in Calls, NEW l \in Steps \ {"start", "dial"}, Dial(c, l)
      PROVE  NetTyped'
  <2>1. Box(c) \in Boxes /\ hostKey[Box(c)] \in Keys /\ UNCHANGED <<job, target, db, cut, hostKey>>
    BY <1>1, <1>3 DEF Dial, CallsTyped, NetTyped
  <2>2. /\ pc' = [pc EXCEPT ![c] = pc'[c]] /\ pc'[c] \notin {"start", "dial"}
        /\ \/ peer' = peer /\ pc'[c] = "end"
           \/ peer' = [peer EXCEPT ![c] = hostKey[Box(c)]]
    BY <1>1, <1>3 DEF Dial, Connects, CallsTyped
  <2>3. \/ UNCHANGED <<knownHosts, accepted>>
        \/ /\ knownHosts' = knownHosts \cup {<<Box(c), hostKey[Box(c)]>>}
           /\ accepted' = accepted \cup {<<c, <<Box(c), hostKey[Box(c)]>>>>}
    BY <1>3 DEF Dial, Pinned
  <2>4. knownHosts' \subseteq Boxes \X Keys /\ accepted' \subseteq Calls \X knownHosts'
        /\ knownHosts \subseteq knownHosts'
    BY <1>1, <2>1, <2>3 DEF NetTyped
  <2>5. /\ peer' \in [Calls -> Keys \cup {None}] /\ cut' \subseteq {d \in Calls : peer'[d] # None}
        /\ db' \in [Calls -> SUBSET (Boxes \X Keys)] /\ hostKey' \in [Boxes -> Keys]
    BY <1>1, <2>1, <2>2 DEF NetTyped
  <2>6. \A d \in Calls : db'[d] \subseteq knownHosts'
    BY <1>1, <2>1, <2>4 DEF NetTyped
  <2>7. \A d \in Calls : peer'[d] # None => (Box(d) \in Boxes)' /\ pc'[d] \notin {"start", "dial"}
    BY <1>1, <2>1, <2>2 DEF NetTyped, CallsTyped
  <2>8. \A d \in Calls : job'[d].verb \in {"send", "setup"} /\ pc'[d] \notin {"start", "dial", "end"} =>
                            peer'[d] # None
    BY <1>1, <2>1, <2>2 DEF NetTyped, CallsTyped
  <2> QED BY <2>4, <2>5, <2>6, <2>7, <2>8 DEF NetTyped
<1>4. ASSUME NEW c \in Calls, pc[c] = "start", UNCHANGED <<knownHosts, accepted, peer, cut, hostKey>>,
             db' \in {db, [db EXCEPT ![c] = knownHosts]},
             pc' = [pc EXCEPT ![c] = pc'[c]], pc'[c] \in {"dial", "end"},
             \A d \in Calls \ {c} : target'[d] = target[d]
      PROVE  NetTyped'
  <2>1. peer[c] = None
    BY <1>1, <1>4 DEF NetTyped
  <2>2. \A d \in Calls \ {c} : pc'[d] = pc[d]
    BY <1>1, <1>4 DEF CallsTyped
  <2> QED BY <1>1, <1>4, <2>1, <2>2 DEF NetTyped
<1>5. ASSUME NEW c \in Calls, Sending(c)
      PROVE  NetTyped'
  <2>1. CASE Resolve(c)
    BY <1>1, <1>4, <2>1 DEF Resolve, CallsTyped
  <2>2. CASE DialToSend(c)
    BY <1>3, <2>2 DEF DialToSend, Steps, SendSteps
  <2>3. CASE ExecIngest(c) \/ WaitForIngest(c)
    BY <1>1, <1>2, <2>3 DEF ExecIngest, WaitForIngest, Relayed, CallsTyped, NetTyped
  <2>4. CASE Post(c)
    <3>1. UNCHANGED <<net, laptop, target>> /\ pc' = [pc EXCEPT ![c] = "end"]
      BY <2>4 DEF Post
    <3> QED BY <1>1, <1>2, <3>1 DEF CallsTyped, NetTyped
  <2> QED BY <1>5, <2>1, <2>2, <2>3, <2>4 DEF Sending
<1>6. ASSUME NEW c \in Calls, Ingest(c) \/ BoxStep(c)
      PROVE  UNCHANGED <<net, laptop, calls>>
  BY <1>6 DEF Ingest, Ingesting, IngestStarts, BadFrame, ReadMagic, ReadHead, SpillByte, Spilled,
              SaveFails, SaveSpilled, SaveByte, SaveLast, FinishIngest,
              BoxStep, OnBox, OpenTemp, WriteTemp, ChmodTemp, MoveTemp, Fetch, OpenToken, WriteToken
<1>7. ASSUME NEW c \in Calls, SettingUp(c)
      PROVE  NetTyped'
  <2>1. CASE BeginSetup(c)
    BY <1>1, <1>4, <2>1 DEF BeginSetup, CallsTyped
  <2>2. CASE DialToSetUp(c)
    BY <1>3, <2>2 DEF DialToSetUp, Steps, SetupSteps
  <2>3. CASE Detect(c) \/ Version(c) \/ Prepare(c) \/ Placed(c)
    BY <1>1, <1>2, <2>3 DEF Detect, Version, Prepare, Placed, CallsTyped, NetTyped
  <2>4. CASE GetToken(c) \/ SaveToken(c) \/ AddToken(c) \/ SendToken(c)
    BY <1>1, <1>2, <2>4 DEF GetToken, SaveToken, AddToken, SendToken, CallsTyped, NetTyped
  <2>5. CASE TokenSent(c) \/ LoadAliases(c) \/ SaveAliases(c)
    BY <1>1, <1>2, <2>5 DEF TokenSent, LoadAliases, SaveAliases, CallsTyped, NetTyped
  <2> QED BY <1>7, <2>1, <2>2, <2>3, <2>4, <2>5 DEF SettingUp
<1>8. ASSUME NEW c \in Calls, Controlling(c)
      PROVE  NetTyped'
  <2>1. UNCHANGED <<net, laptop, target>>
    BY <1>8 DEF Controlling, Serve, Lstat, Unlink, Bind, ChmodSocket, ListenTcp, Stop, Kill,
                StatSocket, AskSocket, AskPort
  <2>2. job[c].verb \notin {"send", "setup"}
    BY <1>1, <1>8 DEF Controlling, Serve, Lstat, Unlink, Bind, ChmodSocket, ListenTcp, Stop, Kill,
                StatSocket, AskSocket, AskPort, CallsTyped, StepsOfVerb, SendSteps, SetupSteps
  <2>3. pc' = [pc EXCEPT ![c] = pc'[c]] /\ pc'[c] \notin {"start", "dial"}
    BY <1>1, <1>8 DEF Controlling, Serve, Lstat, Unlink, Bind, ChmodSocket, ListenTcp, Stop, Kill,
                StatSocket, Prefer, AskSocket, AskPort, CallsTyped
  <2> QED BY <1>1, <1>2, <2>1, <2>2, <2>3 DEF NetTyped, CallsTyped
<1>9. ASSUME Network
      PROVE  NetTyped'
  <2>1. ASSUME NEW c \in Calls, Cut(c)
        PROVE  NetTyped'
    BY <1>1, <2>1 DEF Cut, NetTyped
  <2>2. ASSUME NEW b \in Boxes, Rekey(b)
        PROVE  NetTyped'
    BY <1>1, <2>2 DEF Rekey, NetTyped
  <2> QED BY <1>9, <2>1, <2>2 DEF Network
<1>10. CASE UNCHANGED <<net, laptop, calls>>
  BY <1>1, <1>2, <1>10 DEF NetTyped
<1> QED BY <1>5, <1>6, <1>7, <1>8, <1>9, <1>10, StepKinds DEF vars

(* A token is the first one, or one that a setup has made. *)
LEMMA TokensTypedKept ==
    ASSUME Typed, [Next]_vars
    PROVE  TokensTyped'
<1> USE DEF calls, laptop, pins, net, box, unpushed, unset, local
<1>1. CallsTyped /\ TokensTyped /\ HostsAssumption
  BY HostsAssumption DEF Typed
<1>2. CASE UNCHANGED <<held, token, rtoken>>
  BY <1>1, <1>2 DEF TokensTyped
<1>3. ASSUME NEW c \in Calls, Sending(c) \/ Ingest(c)
      PROVE  UNCHANGED <<held, token, rtoken>>
  BY <1>3 DEF Sending, Resolve, DialToSend, Dial, ExecIngest, WaitForIngest, Post,
              Ingest, Ingesting, IngestStarts, BadFrame, ReadMagic, ReadHead, SpillByte, Spilled,
              SaveFails, SaveSpilled, SaveByte, SaveLast, FinishIngest
<1>4. ASSUME NEW c \in Calls, SettingUp(c)
      PROVE  TokensTyped'
  <2>1. CASE BeginSetup(c) \/ DialToSetUp(c) \/ Detect(c) \/ Version(c) \/ Prepare(c) \/ Placed(c)
             \/ SendToken(c) \/ TokenSent(c) \/ LoadAliases(c) \/ SaveAliases(c)
    BY <1>2, <2>1 DEF BeginSetup, DialToSetUp, Dial, Detect, Version, Prepare, Placed, SendToken,
                      TokenSent, LoadAliases, SaveAliases
  <2>2. CASE GetToken(c)
    BY <1>1, <2>2 DEF GetToken, TokensTyped
  <2>3. CASE SaveToken(c) \/ AddToken(c)
    BY <1>1, <2>3 DEF SaveToken, AddToken, TokensTyped
  <2> QED BY <1>4, <2>1, <2>2, <2>3 DEF SettingUp
<1>5. ASSUME NEW c \in Calls, BoxStep(c)
      PROVE  TokensTyped'
  <2>1. CASE OpenTemp(c) \/ WriteTemp(c) \/ ChmodTemp(c) \/ MoveTemp(c) \/ Fetch(c)
    BY <1>2, <2>1 DEF OnBox, OpenTemp, WriteTemp, ChmodTemp, MoveTemp, Fetch
  <2>2. CASE OpenToken(c) \/ WriteToken(c)
    BY <1>1, <2>2 DEF OnBox, OpenToken, WriteToken, TokensTyped
  <2> QED BY <1>5, <2>1, <2>2 DEF BoxStep
<1>6. ASSUME NEW c \in Calls, Controlling(c)
      PROVE  TokensTyped'
  <2>1. CASE Serve(c) \/ StatSocket(c)
    <3>1. UNCHANGED <<token, rtoken>> /\ held' = [held EXCEPT ![c] = rtoken[Box(c)]]
      BY <2>1 DEF Serve, StatSocket
    <3>2. Box(c) \in Boxes
      BY <1>1, <2>1 DEF Serve, StatSocket, CallsTyped
    <3> QED BY <1>1, <3>1, <3>2 DEF TokensTyped
  <2>2. CASE Lstat(c) \/ Unlink(c) \/ Bind(c) \/ ChmodSocket(c) \/ ListenTcp(c) \/ Stop(c) \/ Kill(c)
             \/ AskSocket(c) \/ AskPort(c)
    BY <1>2, <2>2 DEF Lstat, Unlink, Bind, ChmodSocket, ListenTcp, Stop, Kill, AskSocket, AskPort
  <2> QED BY <1>6, <2>1, <2>2 DEF Controlling
<1>7. ASSUME Network
      PROVE  UNCHANGED <<held, token, rtoken>>
  BY <1>7 DEF Network, Cut, Rekey
<1> QED BY <1>2, <1>3, <1>4, <1>5, <1>6, <1>7, StepKinds DEF vars

(* A connection that is open stays open, to the same box. *)
LEMMA PeersStay ==
    ASSUME Typed, [Next]_vars, NEW c \in Calls, peer[c] # None
    PROVE  peer'[c] = peer[c] /\ Box(c)' = Box(c)
<1> USE DEF calls, laptop, pins, net, box, unpushed, unset, local
<1>1. NetTyped /\ CallsTyped /\ pc[c] \notin {"start", "dial"}
  BY DEF Typed, NetTyped
<1>2. ASSUME NEW d \in Calls, Sending(d)
      PROVE  peer'[c] = peer[c] /\ target'[c] = target[c]
  BY <1>1, <1>2 DEF Sending, Resolve, DialToSend, Dial, Connects, ExecIngest, WaitForIngest, Post,
                    NetTyped, CallsTyped
<1>3. ASSUME NEW d \in Calls, Ingest(d) \/ BoxStep(d)
      PROVE  UNCHANGED <<peer, target>>
  BY <1>3 DEF Ingest, Ingesting, IngestStarts, BadFrame, ReadMagic, ReadHead, SpillByte, Spilled,
              SaveFails, SaveSpilled, SaveByte, SaveLast, FinishIngest,
              BoxStep, OnBox, OpenTemp, WriteTemp, ChmodTemp, MoveTemp, Fetch, OpenToken, WriteToken
<1>4. ASSUME NEW d \in Calls, SettingUp(d)
      PROVE  peer'[c] = peer[c] /\ target'[c] = target[c]
  BY <1>1, <1>4 DEF SettingUp, BeginSetup, DialToSetUp, Dial, Connects, Detect, Version, Prepare,
              Placed, GetToken, SaveToken, AddToken, SendToken, TokenSent, LoadAliases, SaveAliases,
              NetTyped, CallsTyped
<1>5. ASSUME NEW d \in Calls, Controlling(d)
      PROVE  UNCHANGED <<peer, target>>
  BY <1>5 DEF Controlling, Serve, Lstat, Unlink, Bind, ChmodSocket, ListenTcp, Stop, Kill,
              StatSocket, AskSocket, AskPort
<1>6. ASSUME Network
      PROVE  UNCHANGED <<peer, target>>
  BY <1>6 DEF Network, Cut, Rekey
<1> QED BY <1>2, <1>3, <1>4, <1>5, <1>6, StepKinds DEF vars, Box

(* What SumTo adds up. *)
Summed(c) ==
    /\ Last(c) \in Nat
    /\ \A n \in 1..Last(c) : Sizes(c)[n] \in Nat
    /\ \A n \in 0..Last(c) : SumTo(c, n) \in Nat
    /\ SumTo(c, 0) = 0
    /\ \A n \in 1..Last(c) : SumTo(c, n) = SumTo(c, n - 1) + Sizes(c)[n]
    /\ Units(c) \in Nat

(* SumTo adds up the sizes of the frame. *)
LEMMA SumsUp ==
    ASSUME JobsTyped, NEW c \in Calls
    PROVE  Summed(c)
<1> DEFINE N == Last(c)
           w == Sizes(c)
           S == CHOOSE f : f = [k \in 0..Last(c) |-> IF k = 0 THEN 0 ELSE f[k - 1] + Sizes(c)[k]]
<1>1. N \in Nat /\ w \in [1..N -> Nat]
  <2>1. job[c] \in Jobs
    BY DEF JobsTyped
  <2>2. w \in Seq(Nat)
    BY <2>1 DEF Jobs, Sizes
  <2> QED BY <2>2, LenProperties DEF Last
<1>2. PICK f \in [0..N -> Nat] : f = [k \in 0..N |-> IF k = 0 THEN 0 ELSE f[k - 1] + w[k]]
  <2> HIDE DEF N, w
  <2> QED BY <1>1, Lemmas!PrefixSums
<1>3. S = [k \in 0..N |-> IF k = 0 THEN 0 ELSE S[k - 1] + w[k]]
  BY <1>2
<1>4. \A n : SumTo(c, n) = S[n]
  BY DEF SumTo
<1> HIDE DEF S
<1>5. S[0] = 0 /\ \A n \in 1..N : S[n] = S[n - 1] + w[n]
  <2> HIDE DEF N, w
  <2> QED BY <1>1, <1>3
<1>6. \A n \in 0..N : S[n] \in Nat
  <2> HIDE DEF N, w
  <2> QED BY <1>1, <1>5, Lemmas!SumsAreNatural
<1>7. Units(c) \in Nat
  <2>1. SumTo(c, N) \in Nat
    BY <1>1, <1>4, <1>6
  <2> QED BY <1>1, <2>1 DEF Units
<1>8. \A n \in 0..N : SumTo(c, n) \in Nat
  BY <1>4, <1>6
<1>9. SumTo(c, 0) = 0 /\ \A n \in 1..N : SumTo(c, n) = SumTo(c, n - 1) + w[n]
  BY <1>4, <1>5
<1> QED BY <1>1, <1>7, <1>8, <1>9 DEF Summed

(* The fields of a process. *)
LEMMA FieldsOfProcs ==
    ASSUME NEW p \in Procs
    PROVE  /\ p.left \in Nat /\ p.item \in Nat /\ p.got \in Nat
           /\ p.fd \in Calls \cup {None} /\ p.rc \in Exits
           /\ p = [prog |-> p.prog, at |-> p.at, left |-> p.left, item |-> p.item, got |-> p.got,
                   fd |-> p.fd, rc |-> p.rc]
BY DEF Procs

(* The remote processes.  A session is opened over a connection; nothing but its own
   steps changes a process. *)
LEMMA ProcsTypedKept ==
    ASSUME Typed, [Next]_vars
    PROVE  ProcsTyped'
<1> USE DEF calls, laptop, pins, net, box, unpushed, unset, local
<1>1. /\ job' = job /\ CallsTyped /\ JobsTyped /\ NetTyped /\ ProcsTyped /\ FilesTyped
      /\ HostsAssumption /\ BinUnits \in Nat
  BY JobsStay, HostsAssumption DEF Typed
<1>2. \A c \in Calls : peer[c] # None => peer'[c] # None
  BY PeersStay
<1>3. CASE UNCHANGED proc
  BY <1>1, <1>2, <1>3 DEF ProcsTyped
<1>4. ASSUME NEW c \in Calls, proc'[c] \in Procs, proc' = [proc EXCEPT ![c] = proc'[c]],
             proc'[c].at = "exited" <=> proc'[c].rc # "-",
             proc'[c].prog # "none", peer[c] # None,
             proc'[c].prog = "place" /\ proc'[c].at = "start" =>
                proc'[c].got = 0 /\ proc'[c].left = BinUnits,
             proc'[c].prog = "place" /\ proc'[c].at = "write" =>
                proc'[c].got + proc'[c].left = BinUnits /\ proc'[c].fd \in Calls
      PROVE  ProcsTyped'
  <2>1. \A d \in Calls : proc'[d] = proc[d] \/ d = c
    BY <1>1, <1>4 DEF ProcsTyped
  <2>2. proc' \in [Calls -> Procs]
    BY <1>1, <1>4, <2>1 DEF ProcsTyped
  <2> QED BY <1>1, <1>2, <1>4, <2>1, <2>2 DEF ProcsTyped
<1>5. ASSUME NEW c \in Calls, NEW prog \in {"ingest", "place", "release", "token"}, NEW n \in Nat,
             Exec(c, prog, n), peer[c] # None, prog = "place" => n = BinUnits
      PROVE  ProcsTyped'
  <2> DEFINE p == [Idle EXCEPT !.prog = prog, !.at = "start", !.left = n, !.item = 1]
  <2>1. /\ p \in Procs /\ p.at = "start" /\ p.rc = "-" /\ p.prog = prog /\ p.got = 0 /\ p.left = n
    BY DEF Idle, Procs, Exits
  <2>2. proc' = [proc EXCEPT ![c] = p]
    BY <1>5 DEF Exec
  <2> HIDE DEF p
  <2>3. proc'[c] = p
    BY <1>1, <2>2 DEF ProcsTyped
  <2> QED BY <1>4, <1>5, <2>1, <2>2, <2>3
<1>6. ASSUME NEW c \in Calls, Sending(c)
      PROVE  ProcsTyped'
  <2>1. CASE ExecIngest(c)
    <3>1. Units(c) \in Nat
      BY <1>1, SumsUp DEF Summed
    <3>2. peer[c] # None
      BY <1>1, <2>1 DEF ExecIngest, NetTyped
    <3> QED BY <1>3, <1>5, <2>1, <3>1, <3>2 DEF ExecIngest
  <2>2. CASE Resolve(c) \/ DialToSend(c) \/ WaitForIngest(c) \/ Post(c)
    BY <1>3, <2>2 DEF Resolve, DialToSend, Dial, WaitForIngest, Post
  <2> QED BY <1>6, <2>1, <2>2 DEF Sending
<1>7. ASSUME NEW c \in Calls, Ingest(c)
      PROVE  ProcsTyped'
  <2>1. /\ proc[c] \in Procs /\ proc[c].prog = "ingest" /\ proc[c].rc = "-" /\ peer[c] # None
        /\ proc[c].at # "exited"
    BY <1>1, <1>7 DEF Ingest, Ingesting, At, IngestStarts, BadFrame, ReadMagic, ReadHead, SpillByte,
                      Spilled, SaveFails, SaveSpilled, SaveByte, SaveLast, FinishIngest, ProcsTyped
  <2>2. /\ proc'[c] \in Procs /\ proc' = [proc EXCEPT ![c] = proc'[c]] /\ proc'[c].prog = "ingest"
        /\ proc'[c].at = "exited" <=> proc'[c].rc # "-"
    <3> USE <1>1, <2>1 DEF Step, Exit, Consume, Procs, Exits, ProcsTyped
    <3>1. CASE IngestStarts(c)
      BY <3>1 DEF IngestStarts
    <3>2. CASE BadFrame(c) \/ SaveFails(c) \/ FinishIngest(c)
      BY <3>2 DEF BadFrame, SaveFails, FinishIngest
    <3>3. CASE ReadMagic(c)
      BY <3>3 DEF ReadMagic, Arrives
    <3>4. CASE ReadHead(c)
      BY <3>4 DEF ReadHead, Arrives, Here
    <3>5. CASE SpillByte(c)
      BY <3>5 DEF SpillByte, Arrives, Here
    <3>6. CASE Spilled(c)
      BY <3>6 DEF Spilled
    <3>7. CASE SaveSpilled(c)
      <4>1. Exit(c, "toolarge") \/ proc' = [proc EXCEPT ![c].item = @ + 1]
        BY <3>7 DEF SaveSpilled
      <4> QED BY <4>1
    <3>9. CASE SaveLast(c)
      <4>1. Exit(c, "toolarge") \/ Step(c, "finish")
        BY <3>9 DEF SaveLast
      <4> QED BY <4>1
    <3>8. CASE SaveByte(c)
      BY <3>8 DEF SaveByte, Arrives, Here
    <3> QED BY <1>7, <3>1, <3>2, <3>3, <3>4, <3>5, <3>6, <3>7, <3>8, <3>9 DEF Ingest
  <2> QED BY <1>4, <2>1, <2>2
<1>8. ASSUME NEW c \in Calls, SettingUp(c)
      PROVE  ProcsTyped'
  <2>1. CASE Prepare(c)
    <3>1. peer[c] # None
      BY <1>1, <2>1 DEF Prepare, NetTyped, CallsTyped, StepsOfVerb, SendSteps, ServeSteps, LastSteps,
                        JobsTyped, Jobs
    <3> QED BY <1>1, <1>3, <1>5, <2>1, <3>1 DEF Prepare
  <2>2. CASE SendToken(c)
    <3>1. peer[c] # None
      BY <1>1, <2>2 DEF SendToken, NetTyped, CallsTyped, StepsOfVerb, SendSteps, ServeSteps, LastSteps,
                        JobsTyped, Jobs
    <3> QED BY <1>3, <1>5, <2>2, <3>1 DEF SendToken
  <2>3. CASE BeginSetup(c) \/ DialToSetUp(c) \/ Detect(c) \/ Version(c) \/ Placed(c) \/ GetToken(c)
             \/ SaveToken(c) \/ AddToken(c) \/ TokenSent(c) \/ LoadAliases(c) \/ SaveAliases(c)
    BY <1>3, <2>3 DEF BeginSetup, DialToSetUp, Dial, Detect, Version, Placed, GetToken, SaveToken,
                      AddToken, TokenSent, LoadAliases, SaveAliases
  <2> QED BY <1>8, <2>1, <2>2, <2>3 DEF SettingUp
<1>9. ASSUME NEW c \in Calls, BoxStep(c)
      PROVE  ProcsTyped'
  <2>1. /\ proc[c] \in Procs /\ proc[c].prog # "none" /\ proc[c].rc = "-" /\ peer[c] # None
        /\ proc[c].at # "exited"
    BY <1>1, <1>9 DEF BoxStep, At, OpenTemp, WriteTemp, ChmodTemp, MoveTemp, Fetch, OpenToken,
                      WriteToken, ProcsTyped
  <2>2. /\ proc'[c] \in Procs /\ proc' = [proc EXCEPT ![c] = proc'[c]]
        /\ proc'[c].prog = proc[c].prog /\ proc'[c].at # "start"
        /\ proc'[c].at = "exited" <=> proc'[c].rc # "-"
        /\ proc'[c].prog = "place" /\ proc'[c].at = "write" =>
              proc'[c].got + proc'[c].left = BinUnits /\ proc'[c].fd \in Calls
    <3> USE <1>1, <2>1 DEF Step, Exit, Procs, Exits, ProcsTyped
    <3>1. CASE OpenTemp(c)
      <4>1. tmp[Box(c)] \in Calls \cup {None}
        BY DEF FilesTyped, NetTyped
      <4> QED BY <3>1, <4>1 DEF OpenTemp, At
    <3>2. CASE WriteTemp(c)
      BY <3>2 DEF WriteTemp, At, Arrives
    <3>3. CASE ChmodTemp(c)
      BY <3>3 DEF ChmodTemp
    <3>4. CASE MoveTemp(c)
      BY <3>4 DEF MoveTemp
    <3>5. CASE Fetch(c)
      BY <3>5 DEF Fetch
    <3>6. CASE OpenToken(c)
      BY <3>6 DEF OpenToken, At
    <3>7. CASE WriteToken(c)
      BY <3>7 DEF WriteToken, At
    <3> QED BY <1>9, <3>1, <3>2, <3>3, <3>4, <3>5, <3>6, <3>7 DEF BoxStep
  <2> QED BY <1>3, <1>4, <2>1, <2>2
<1>10. ASSUME NEW c \in Calls, Controlling(c)
       PROVE  UNCHANGED proc
  BY <1>10 DEF Controlling, Serve, Lstat, Unlink, Bind, ChmodSocket, ListenTcp, Stop, Kill,
               StatSocket, AskSocket, AskPort
<1>11. ASSUME Network
       PROVE  UNCHANGED proc
  BY <1>11 DEF Network, Cut, Rekey
<1> QED BY <1>3, <1>6, <1>7, <1>8, <1>9, <1>10, <1>11, StepKinds DEF vars

(* Only the shells on the boxes write there. *)
LEMMA FilesTypedKept ==
    ASSUME Typed, [Next]_vars
    PROVE  FilesTyped'
<1> USE DEF calls, laptop, pins, net, box, unpushed, unset, local
<1>1. CallsTyped /\ NetTyped /\ ProcsTyped /\ FilesTyped /\ HostsAssumption
  BY HostsAssumption DEF Typed
<1>2. CASE UNCHANGED <<bin, tmp, bytes>>
  BY <1>1, <1>2 DEF FilesTyped
<1>3. ASSUME NEW c \in Calls, Sending(c) \/ Ingest(c)
      PROVE  UNCHANGED <<bin, tmp, bytes>>
  BY <1>3 DEF Sending, Resolve, DialToSend, Dial, ExecIngest, WaitForIngest, Post,
              Ingest, Ingesting, IngestStarts, BadFrame, ReadMagic, ReadHead, SpillByte, Spilled,
              SaveFails, SaveSpilled, SaveByte, SaveLast, FinishIngest
<1>4. ASSUME NEW c \in Calls, SettingUp(c)
      PROVE  UNCHANGED <<bin, tmp, bytes>>
  BY <1>4 DEF SettingUp, BeginSetup, DialToSetUp, Dial, Detect, Version, Prepare, Placed, GetToken,
              SaveToken, AddToken, SendToken, TokenSent, LoadAliases, SaveAliases
<1>5. ASSUME NEW c \in Calls, BoxStep(c)
      PROVE  FilesTyped'
  <2>1. Box(c) \in Boxes
    BY <1>1, <1>5 DEF BoxStep, At, OpenTemp, WriteTemp, ChmodTemp, MoveTemp, Fetch, OpenToken,
                      WriteToken, ProcsTyped, NetTyped
  <2>2. CASE OpenTemp(c)
    BY <1>1, <2>1, <2>2 DEF OpenTemp, FilesTyped
  <2>3. CASE WriteTemp(c)
    <3>1. proc[c] \in Procs /\ proc[c].got + proc[c].left = BinUnits /\ proc[c].fd \in Calls
      BY <1>1, <2>3 DEF WriteTemp, At, ProcsTyped
    <3>2. Arrives(c) => proc[c].got + 1 \in 1..BinUnits
      BY <1>1, <3>1, FieldsOfProcs DEF Arrives, HostsAssumption
    <3> QED BY <1>1, <2>3, <3>1, <3>2 DEF WriteTemp, FilesTyped
  <2>4. CASE ChmodTemp(c) \/ OpenToken(c) \/ WriteToken(c)
    BY <1>2, <2>4 DEF ChmodTemp, OpenToken, WriteToken
  <2>5. CASE MoveTemp(c) \/ Fetch(c)
    BY <1>1, <2>1, <2>5 DEF MoveTemp, Fetch, FilesTyped, Same
  <2> QED BY <1>5, <2>2, <2>3, <2>4, <2>5 DEF BoxStep
<1>6. ASSUME NEW c \in Calls, Controlling(c)
      PROVE  UNCHANGED <<bin, tmp, bytes>>
  BY <1>6 DEF Controlling, Serve, Lstat, Unlink, Bind, ChmodSocket, ListenTcp, Stop, Kill,
              StatSocket, AskSocket, AskPort
<1>7. ASSUME Network
      PROVE  UNCHANGED <<bin, tmp, bytes>>
  BY <1>7 DEF Network, Cut, Rekey
<1> QED BY <1>2, <1>3, <1>4, <1>5, <1>6, <1>7, StepKinds DEF vars

(* The alias file is written by SaveAliases, from what LoadAliases has read. *)
LEMMA AliasesTypedKept ==
    ASSUME Typed, [Next]_vars
    PROVE  AliasesTyped'
<1> USE DEF calls, laptop, pins, net, box, unpushed, unset, local, setupVars, history
<1>1. CallsTyped /\ AliasesTyped /\ JobsTyped
  BY DEF Typed
<1>2. CASE UNCHANGED <<aliases, snap>>
  BY <1>1, <1>2 DEF AliasesTyped, Store
<1>3. ASSUME NEW c \in Calls, Sending(c) \/ Ingest(c)
      PROVE  UNCHANGED aliases
  BY <1>3 DEF Sending, Resolve, DialToSend, Dial, ExecIngest, WaitForIngest, Post,
              Ingest, Ingesting, IngestStarts, BadFrame, ReadMagic, ReadHead, SpillByte, Spilled,
              SaveFails, SaveSpilled, SaveByte, SaveLast, FinishIngest
<1>4. ASSUME NEW c \in Calls, SettingUp(c)
      PROVE  AliasesTyped'
  <2>1. CASE LoadAliases(c)
    <3>1. aliases' = aliases /\ snap' = [snap EXCEPT ![c] = aliases]
      BY <2>1 DEF LoadAliases
    <3>2. snap' = [d \in Calls |-> snap'[d]] /\ \A d \in Calls : snap'[d] \in {snap[d], aliases}
      BY <1>1, <3>1 DEF AliasesTyped
    <3> QED BY <1>1, <3>1, <3>2 DEF AliasesTyped, Store
  <2>2. CASE SaveAliases(c)
    <3>1. Box(c) \in Boxes
      BY <1>1, <2>2 DEF SaveAliases, CallsTyped
    <3>2. Store(snap[c]) => Store(Recorded(snap[c], Box(c)))
      BY <3>1 DEF Store, Recorded
    <3>3. UNCHANGED snap /\ aliases' \in {aliases, Recorded(snap[c], Box(c))}
      BY <2>2 DEF SaveAliases
    <3> QED BY <1>1, <3>2, <3>3 DEF AliasesTyped, Store
  <2>3. CASE BeginSetup(c) \/ DialToSetUp(c) \/ Detect(c) \/ Version(c) \/ Prepare(c) \/ Placed(c)
             \/ GetToken(c) \/ SaveToken(c) \/ AddToken(c) \/ SendToken(c) \/ TokenSent(c)
    BY <1>2, <2>3 DEF BeginSetup, DialToSetUp, Dial, Detect, Version, Prepare, Placed, GetToken,
                      SaveToken, AddToken, SendToken, TokenSent
  <2> QED BY <1>4, <2>1, <2>2, <2>3 DEF SettingUp
<1>5. ASSUME NEW c \in Calls, BoxStep(c)
      PROVE  UNCHANGED <<aliases, snap>>
  BY <1>5 DEF BoxStep, OnBox, OpenTemp, WriteTemp, ChmodTemp, MoveTemp, Fetch, OpenToken, WriteToken
<1>6. ASSUME NEW c \in Calls, Controlling(c)
      PROVE  UNCHANGED aliases
  BY <1>6 DEF Controlling, Serve, Lstat, Unlink, Bind, ChmodSocket, ListenTcp, Stop, Kill,
              StatSocket, AskSocket, AskPort
<1>7. ASSUME Network
      PROVE  UNCHANGED <<aliases, snap>>
  BY <1>7 DEF Network, Cut, Rekey
<1> QED BY <1>2, <1>3, <1>4, <1>5, <1>6, <1>7, StepKinds DEF vars

------------------------------------------------------------------------------
(* The items of c that are on the box. *)
WholeUpTo(c, n) == \A i \in 1..Last(c) : <<c, i, TRUE>> \in taken <=> i <= n
NoneShort(c) == \A i \in 1..Last(c) : <<c, i, FALSE>> \notin taken
AllSaved(c) ==
    \/ WholeUpTo(c, Last(c)) /\ NoneShort(c)
    \/ /\ c \in cut /\ WholeUpTo(c, Last(c) - 1)
       /\ \A i \in 1..Last(c) : <<c, i, FALSE>> \in taken <=> i = Last(c)

(* Where `clipbeam ingest' stands: what it has not been sent, the spills that wait and
   the items it has saved. *)
Before(c) ==  \* the payloads of the items before this one
    SumTo(c, Last(c)) - SumTo(c, Here(c) - 1)
Position(c) ==
    LET p == proc[c]
    IN  /\ p.at \in {"start", "magic"} =>
              p.left = Units(c) /\ spills[c] = {} /\ WholeUpTo(c, 0) /\ NoneShort(c)
        /\ p.at = "head" =>
              /\ Here(c) \in 1..Last(c) /\ p.left = Last(c) - Here(c) + 1 + Before(c)
              /\ spills[c] \subseteq 1..(Here(c) - 1) /\ WholeUpTo(c, 0) /\ NoneShort(c)
        /\ p.at = "spill" =>
              /\ Here(c) \in 1..(Last(c) - 1) /\ p.got <= Sizes(c)[Here(c)]
              /\ p.left = Last(c) - Here(c) + Before(c) - p.got
              /\ spills[c] \subseteq 1..Here(c) /\ WholeUpTo(c, 0) /\ NoneShort(c)
        /\ p.at = "save" =>
              /\ Here(c) \in 1..Last(c) /\ p.left + p.got = Sizes(c)[Last(c)]
              /\ Here(c) < Last(c) => p.got = 0
              /\ spills[c] \subseteq Here(c)..(Last(c) - 1)
              /\ WholeUpTo(c, Here(c) - 1) /\ NoneShort(c)
        /\ p.at = "finish" => spills[c] = {} /\ AllSaved(c)
        /\ p.at = "exited" =>
              \/ spills[c] = {} /\ AllSaved(c)
              \/ /\ p.rc # "ok" /\ NoneShort(c)
                 /\ \E n \in 0..(Last(c) - 1) : WholeUpTo(c, n)
                 /\ spills[c] # {} => p.rc \in {"remoteIO", "toolarge"}
        /\ p.at \in {"start", "magic", "head", "spill", "save", "finish", "exited"}

(* A push and its remote end. *)
Pushed(c) ==
    /\ proc[c].prog = "ingest" =>
          job[c].verb = "send" /\ pc[c] \in {"wait", "end"} /\ Position(c)
    /\ proc[c].prog \notin {"none", "ingest"} => job[c].verb = "setup"
    /\ job[c].verb = "send" /\ pc[c] = "wait" => proc[c].prog = "ingest"
    /\ job[c].verb = "send" /\ code[c] = "ok" =>
          /\ pc[c] = "end" /\ c \notin cut
          /\ proc[c].prog = "ingest" /\ proc[c].at = "exited" /\ proc[c].rc = "ok"
    /\ proc[c].prog # "ingest" =>
          spills[c] = {} /\ (job[c].verb # "post" => WholeUpTo(c, 0) /\ NoneShort(c))
    /\ job[c].verb = "post" =>
          /\ NoneShort(c)
          /\ \E n \in 0..Last(c) : WholeUpTo(c, n) /\ (code[c] = "ok" => n = Last(c))
          /\ pc[c] = "start" => WholeUpTo(c, 0) /\ code[c] = "-"

(* Whom a call has been let connect to.  A key that nobody has pinned was there from
   the start, and every call that dials has loaded it. *)
Trusted ==
    /\ \A c \in Calls : peer[c] # None =>
          /\ <<Box(c), peer[c]>> \in knownHosts
          /\ peer[c] \notin CertKeys
          /\ (~job[c].accept \/ \E p \in db[c] : p[1] = Box(c)) => <<Box(c), peer[c]>> \in db[c]
    /\ \A c \in Calls, p \in knownHosts : <<c, p>> \in accepted =>
          /\ job[c].accept /\ Box(c) = p[1] /\ pc[c] \notin {"start", "dial"}
          /\ ~\E r \in db[c] : r[1] = p[1]
          /\ \A q \in knownHosts : <<c, q>> \in accepted => q = p
    /\ \A q \in knownHosts :
          \/ \E c \in Calls : <<c, q>> \in accepted
          \/ \A c \in Calls : pc[c] = "dial" \/ (\E p \in knownHosts : <<c, p>> \in accepted) =>
                q \in db[c]

------------------------------------------------------------------------------
(* The record of the setups is kept by the steps of setups. *)
LEMMA SetupTypedKept ==
    ASSUME Typed, [Next]_vars
    PROVE  SetupTyped'
<1> USE DEF setupVars, history, pushVars, sockVars, Installing
<1>1. job' = job /\ SetupTyped
  BY JobsStay DEF Typed
<1>2. CASE UNCHANGED <<met, begun, replaced>>
  BY <1>1, <1>2 DEF SetupTyped
<1>3. ASSUME NEW c \in Calls, SettingUp(c)
      PROVE  SetupTyped'
  <2>1. CASE BeginSetup(c)
    <3>1. met' \subseteq Calls /\ replaced' = replaced
      BY <1>1, <2>1 DEF BeginSetup, SetupTyped
    <3>2. begun' = begun \/ begun' = Append(begun, c)
      BY <2>1 DEF BeginSetup
    <3>3. ASSUME begun' = Append(begun, c)
          PROVE  begun' \in Seq(Calls) /\ \A i \in 1..Len(begun') : Installing(begun'[i])
      <4>1. begun \in Seq(Calls) /\ job[c].verb = "setup"
        BY <1>1, <2>1 DEF BeginSetup, SetupTyped
      <4>2. /\ begun' \in Seq(Calls) /\ Len(begun') = Len(begun) + 1 /\ begun'[Len(begun) + 1] = c
            /\ \A i \in 1..Len(begun) : begun'[i] = begun[i]
        BY <3>3, <4>1
      <4> QED BY <1>1, <4>1, <4>2 DEF SetupTyped
    <3> QED BY <1>1, <3>1, <3>2, <3>3 DEF SetupTyped
  <2>2. CASE SaveToken(c) \/ AddToken(c)
    BY <1>1, <2>2 DEF SaveToken, AddToken, SetupTyped
  <2>3. CASE DialToSetUp(c) \/ Detect(c) \/ Version(c) \/ Prepare(c) \/ Placed(c)
             \/ GetToken(c) \/ SendToken(c) \/ TokenSent(c) \/ LoadAliases(c) \/ SaveAliases(c)
    BY <1>2, <2>3 DEF DialToSetUp, Detect, Version, Prepare, Placed, GetToken,
                      SendToken, TokenSent, LoadAliases, SaveAliases
  <2> QED BY <1>3, <2>1, <2>2, <2>3 DEF SettingUp
<1>4. ASSUME NEW c \in Calls, BoxStep(c)
      PROVE  UNCHANGED <<met, begun, replaced>>
  BY <1>4 DEF BoxStep, OnBox, OpenTemp, WriteTemp, ChmodTemp, MoveTemp, Fetch, OpenToken, WriteToken
<1> QED BY <1>2, <1>3, <1>4, StepKinds DEF vars, Network

(* Sockets and ports are taken by daemons; who is counted as serving serves. *)
LEMMA SocketTypedKept ==
    ASSUME Typed, [Next]_vars
    PROVE  SocketTyped'
<1> USE DEF calls, laptop, pins, net, box, unpushed, unset, local, sockVars, Goto, End
<1>1. job' = job /\ CallsTyped /\ JobsTyped /\ SocketTyped /\ NetTyped
  BY JobsStay DEF Typed
<1>2. CASE /\ UNCHANGED sockVars
           /\ \A d \in Calls : pc[d] = "serving" => pc'[d] = "serving"
  BY <1>1, <1>2 DEF SocketTyped, SocketTypeOK
<1>3. ASSUME NEW c \in Calls, Sending(c) \/ Ingest(c)
      PROVE  \A d \in Calls : pc[d] = "serving" => pc'[d] = "serving"
  BY <1>1, <1>3
     DEF Sending, Resolve, DialToSend, Dial, Connects, ExecIngest, WaitForIngest, Relayed, Post,
         Ingest, Ingesting, IngestStarts, BadFrame, ReadMagic, ReadHead, SpillByte, Spilled,
         SaveFails, SaveSpilled, SaveByte, SaveLast, FinishIngest, CallsTyped
<1>4. ASSUME NEW c \in Calls, SettingUp(c)
      PROVE  \A d \in Calls : pc[d] = "serving" => pc'[d] = "serving"
  BY <1>1, <1>4
     DEF SettingUp, BeginSetup, DialToSetUp, Dial, Connects, Detect, Version, Prepare, Placed,
         GetToken, SaveToken, AddToken, SendToken, TokenSent, LoadAliases, SaveAliases, CallsTyped
<1>5. ASSUME NEW c \in Calls, BoxStep(c)
      PROVE  UNCHANGED calls
  BY <1>5 DEF BoxStep, OnBox, OpenTemp, WriteTemp, ChmodTemp, MoveTemp, Fetch, OpenToken, WriteToken
<1>6. ASSUME NEW c \in Calls, Controlling(c)
      PROVE  SocketTyped'
  <2>1. /\ sock \in [Boxes -> Calls \cup {None}] /\ port \in [Boxes -> Calls \cup {None}]
        /\ steady \in [Calls -> SUBSET Calls]
        /\ \A d \in Calls : \A e \in steady[d] : pc[e] = "serving"
        /\ crowded \subseteq Boxes /\ deserted \subseteq Boxes
    BY <1>1 DEF SocketTyped, SocketTypeOK
  <2>2. Box(c) \in Boxes
    BY <1>1, <1>6
       DEF Controlling, Serve, Lstat, Unlink, Bind, ChmodSocket, ListenTcp, Stop, Kill, StatSocket,
           AskSocket, AskPort, CallsTyped
  <2>3. CASE Serve(c)
    BY <1>1, <2>1, <2>2, <2>3 DEF Serve, CallsTyped, SocketTyped, SocketTypeOK
  <2>4. CASE Lstat(c) \/ Unlink(c) \/ Bind(c)
    BY <1>1, <2>1, <2>2, <2>4 DEF Lstat, Unlink, Bind, Sock, CallsTyped, SocketTyped, SocketTypeOK
  <2>5. CASE ChmodSocket(c) \/ ListenTcp(c)
    BY <1>1, <2>1, <2>2, <2>5 DEF ChmodSocket, ListenTcp, CallsTyped, SocketTyped, SocketTypeOK
  <2>6. CASE Stop(c) \/ Kill(c)
    <3>1. sock' \in [Boxes -> Calls \cup {None}] /\ port' \in [Boxes -> Calls \cup {None}]
      BY <2>1, <2>2, <2>6 DEF Stop, Kill, Unlinked, Sock, FreePort
    <3>2. crowded' \subseteq Boxes /\ deserted' \subseteq Boxes
      BY <2>1, <2>2, <2>6 DEF Stop, Kill
    <3>3. steady' = [x \in Calls |-> steady[x] \ {c}] /\ \A d \in Calls \ {c} : pc'[d] = pc[d]
      BY <1>1, <2>6 DEF Stop, Kill, Gone, CallsTyped
    <3> QED BY <2>1, <3>1, <3>2, <3>3 DEF SocketTyped, SocketTypeOK
  <2>7. CASE StatSocket(c)
    <3>1. /\ UNCHANGED <<sock, port, crowded, deserted>>
          /\ steady' = [steady EXCEPT ![c] = Serving(Box(c))]
          /\ \A d \in Calls : pc[d] = "serving" => pc'[d] = "serving"
      BY <1>1, <2>7 DEF StatSocket, CallsTyped
    <3>2. Serving(Box(c)) \subseteq {d \in Calls : pc[d] = "serving"}
      BY DEF Serving
    <3> QED BY <2>1, <3>1, <3>2 DEF SocketTyped, SocketTypeOK
  <2>8. CASE AskSocket(c) \/ AskPort(c)
    BY <1>1, <1>2, <2>8 DEF AskSocket, AskPort, CallsTyped
  <2> QED BY <1>6, <2>3, <2>4, <2>5, <2>6, <2>7, <2>8 DEF Controlling
<1>7. ASSUME Network
      PROVE  UNCHANGED calls
  BY <1>7 DEF Network, Cut, Rekey
<1> QED BY <1>2, <1>3, <1>4, <1>5, <1>6, <1>7, StepKinds DEF vars, Network

------------------------------------------------------------------------------
(* A frame is what it is. *)
LEMMA FramesStay ==
    ASSUME job' = job, NEW c
    PROVE  /\ Last(c)' = Last(c) /\ Sizes(c)' = Sizes(c) /\ Units(c)' = Units(c)
           /\ \A n : SumTo(c, n)' = SumTo(c, n)
<1>1. Last(c)' = Last(c) /\ Sizes(c)' = Sizes(c)
  BY DEF Last, Sizes
<1>2. \A n : SumTo(c, n)' = SumTo(c, n)
  BY DEF SumTo, Last, Sizes
<1>3. SumTo(c, Last(c))' = SumTo(c, Last(c))
  BY DEF SumTo, Last, Sizes
<1> QED BY <1>1, <1>2, <1>3 DEF Units

(* The step of another call changes nothing of this push, and a cut only what it may
   end with. *)
LEMMA PushUntouched ==
    ASSUME job' = job, NEW c \in Calls, Pushed(c),
           proc'[c] = proc[c], spills'[c] = spills[c], code'[c] = code[c], pc'[c] = pc[c],
           c \in cut => c \in cut',
           code[c] = "ok" /\ c \in cut' => c \in cut \/ pc[c] # "end",
           \A i \in 1..Last(c) : /\ <<c, i, TRUE>> \in taken' <=> <<c, i, TRUE>> \in taken
                                 /\ <<c, i, FALSE>> \in taken' <=> <<c, i, FALSE>> \in taken
    PROVE  Pushed(c)'
<1>1. /\ Last(c)' = Last(c) /\ Sizes(c)' = Sizes(c) /\ Units(c)' = Units(c)
      /\ \A n : SumTo(c, n)' = SumTo(c, n)
  BY FramesStay
<1>2. Here(c)' = Here(c)
  BY DEF Here
<1>3. \A n : WholeUpTo(c, n)' <=> WholeUpTo(c, n)
  BY <1>1 DEF WholeUpTo
<1>4. NoneShort(c)' <=> NoneShort(c)
  BY <1>1 DEF NoneShort
<1>5. AllSaved(c) => AllSaved(c)'
  BY <1>1 DEF AllSaved, WholeUpTo, NoneShort
<1>6. Before(c)' = Before(c)
  BY <1>1, <1>2 DEF Before
<1>7. Position(c) => Position(c)'
  BY <1>1, <1>2, <1>3, <1>4, <1>5, <1>6 DEF Position
<1> QED BY <1>1, <1>3, <1>4, <1>7 DEF Pushed

(* A step of clipbeam ingest. *)
LEMMA IngestMoves ==
    ASSUME job' = job, NEW c \in Calls, Pushed(c), proc[c].prog = "ingest", proc[c].at # "exited",
           proc'[c].prog = "ingest", code'[c] = code[c], pc'[c] = pc[c], Position(c)'
    PROVE  Pushed(c)'
BY DEF Pushed

(* What ingest does keeps to its place in the frame. *)
LEMMA IngestKeepsPlace ==
    ASSUME Typed, job' = job, NEW c \in Calls, Pushed(c), Ingest(c)
    PROVE  Pushed(c)'
<1> DEFINE i == proc[c].item
           n == proc[c].got
           L == Last(c)
<1>1. /\ Last(c)' = Last(c) /\ Sizes(c)' = Sizes(c) /\ Units(c)' = Units(c)
      /\ \A k : SumTo(c, k)' = SumTo(c, k)
  BY FramesStay
<1>2. Summed(c) /\ proc[c] \in Procs /\ proc \in [Calls -> Procs] /\ spills \in [Calls -> SUBSET Nat]
  BY SumsUp DEF Typed, ProcsTyped, PushTyped
<1>3. /\ proc[c].prog = "ingest" /\ proc[c].at # "exited" /\ Position(c)
      /\ UNCHANGED <<job, calls, cut>>
  BY DEF Ingest, Ingesting, At, IngestStarts, BadFrame, ReadMagic, ReadHead, SpillByte, Spilled,
         SaveFails, SaveSpilled, SaveByte, SaveLast, FinishIngest, unpushed, net, Pushed
<1>4. i \in Nat /\ n \in Nat /\ proc[c].left \in Nat /\ L \in Nat /\ SumTo(c, L) \in Nat
  BY <1>2, FieldsOfProcs DEF Summed
<1>5. L >= 1
  <2>1. job[c] \in Jobs /\ job[c].sizes # <<>>
    BY <1>3 DEF Typed, JobsTyped, Pushed
  <2>2. job[c].sizes \in Seq(Nat)
    BY <2>1 DEF Jobs
  <2> QED BY <1>4, <2>1, <2>2, EmptySeq DEF Last, Sizes
<1>6. \A k \in 1..L : SumTo(c, k - 1) \in Nat /\ Sizes(c)[k] \in Nat
                      /\ SumTo(c, k) = SumTo(c, k - 1) + Sizes(c)[k]
  BY <1>2, <1>4 DEF Summed
<1>7. ASSUME UNCHANGED taken
      PROVE  /\ \A k : WholeUpTo(c, k)' <=> WholeUpTo(c, k)
             /\ NoneShort(c)' <=> NoneShort(c)
             /\ AllSaved(c)' <=> AllSaved(c)
  BY <1>1, <1>3, <1>7 DEF WholeUpTo, NoneShort, AllSaved
<1>8. ASSUME NEW k \in 0..(L - 1), WholeUpTo(c, k)', NoneShort(c)', proc'[c].prog = "ingest",
             proc'[c].at = "exited", proc'[c].rc # "ok",
             spills'[c] = {} \/ proc'[c].rc \in {"remoteIO", "toolarge"}
      PROVE  Pushed(c)'
  BY <1>1, <1>3, <1>8, IngestMoves DEF Position, calls
<1>f. ASSUME UNCHANGED taken, WholeUpTo(c, 0), NoneShort(c), spills'[c] = {},
              NEW rc \in {"config", "missing", "generic"}, Exit(c, rc)
       PROVE  Pushed(c)'
  <2>1. proc'[c].prog = "ingest" /\ proc'[c].at = "exited" /\ proc'[c].rc = rc
    BY <1>2, <1>3, <1>f DEF Exit
  <2>2. WholeUpTo(c, 0)' /\ NoneShort(c)'
    BY <1>7, <1>f
  <2>3. 0 \in 0..(L - 1)
    BY <1>4, <1>5
  <2> QED BY <1>8, <1>f, <2>1, <2>2, <2>3
<1>9. CASE IngestStarts(c)
  <2>1. proc[c].at = "start" /\ UNCHANGED <<taken, spills>>
    BY <1>9 DEF IngestStarts, Ingesting, At, pushVars
  <2>2. proc' = [proc EXCEPT ![c].at = "magic"]
        \/ \E k \in {"config", "missing"} : Exit(c, k)
    BY <1>9 DEF IngestStarts, Step
  <2>3. CASE proc' = [proc EXCEPT ![c].at = "magic"]
    <3>1. proc'[c].at = "magic" /\ proc'[c].left = proc[c].left /\ proc'[c].prog = "ingest"
      BY <1>2, <1>3, <2>3
    <3> QED BY <1>1, <1>3, <1>7, <2>1, <3>1, IngestMoves DEF Position, calls
  <2>4. CASE \E k \in {"config", "missing"} : Exit(c, k)
    BY <1>3, <1>f, <2>1, <2>4 DEF Position
  <2> QED BY <2>2, <2>3, <2>4
<1>10. CASE BadFrame(c)
  <2>1. /\ proc[c].at \in {"magic", "head", "spill"} /\ UNCHANGED taken /\ Exit(c, "generic")
        /\ spills'[c] = {}
    BY <1>2, <1>10 DEF BadFrame, Ingesting, At, Closed
  <2> QED BY <1>3, <1>f, <2>1 DEF Position
<1>11. CASE ReadMagic(c)
  <2>1. /\ proc[c].at = "magic" /\ UNCHANGED <<taken, spills>>
        /\ proc'[c].prog = "ingest" /\ proc'[c].at = "head" /\ proc'[c].item = 1
        /\ proc'[c].left = proc[c].left - 1
    BY <1>2, <1>3, <1>11 DEF ReadMagic, Ingesting, At, Consume, pushVars
  <2>2. Here(c)' = 1 /\ Here(c)' - 1 = 0
    BY <2>1 DEF Here
  <2>3. Before(c)' = SumTo(c, L)
    BY <1>1, <1>2, <1>4, <2>2 DEF Before, Summed
  <2>4. proc'[c].left = L - 1 + 1 + SumTo(c, L)
    BY <1>3, <1>4, <2>1 DEF Position, Units
  <2> QED BY <1>1, <1>3, <1>5, <1>7, <2>1, <2>2, <2>3, <2>4, IngestMoves DEF Position, calls
<1>12. CASE ReadHead(c)
  <2>1. /\ proc[c].at = "head" /\ UNCHANGED taken /\ i \in 1..L
        /\ spills[c] \subseteq 1..(i - 1) /\ WholeUpTo(c, 0) /\ NoneShort(c)
        /\ proc[c].left = L - i + 1 + (SumTo(c, L) - SumTo(c, i - 1))
    BY <1>3, <1>12 DEF ReadHead, Ingesting, At, Position, Here, Before
  <2>2. CASE i = L /\ Consume(c, "save", 1, 0) /\ UNCHANGED spills
    <3>1. /\ proc'[c].prog = "ingest" /\ proc'[c].at = "save" /\ proc'[c].item = 1
          /\ proc'[c].got = 0 /\ proc'[c].left = proc[c].left - 1
      BY <1>2, <1>3, <2>2 DEF Consume
    <3>2. Here(c)' = 1 /\ Here(c)' - 1 = 0
      BY <3>1 DEF Here
    <3>3. proc'[c].left + proc'[c].got = Sizes(c)[L]
      BY <1>4, <1>5, <1>6, <2>1, <2>2, <3>1
    <3> QED BY <1>1, <1>3, <1>5, <1>7, <2>1, <2>2, <3>1, <3>2, <3>3, IngestMoves DEF Position, calls
  <2>3. CASE i # L /\ Consume(c, "spill", i, 0) /\ spills' = [spills EXCEPT ![c] = @ \cup {i}]
    <3>1. /\ proc'[c].prog = "ingest" /\ proc'[c].at = "spill" /\ proc'[c].item = i
          /\ proc'[c].got = 0 /\ proc'[c].left = proc[c].left - 1
          /\ spills'[c] = spills[c] \cup {i}
      BY <1>2, <1>3, <2>3 DEF Consume
    <3>2. Here(c)' = i /\ Here(c)' - 1 = i - 1
      BY <3>1 DEF Here
    <3>3. Before(c)' = SumTo(c, L) - SumTo(c, i - 1)
      BY <1>1, <3>2 DEF Before
    <3>4. proc'[c].left = L - i + Before(c)' - 0
      BY <1>4, <1>6, <2>1, <3>1, <3>3
    <3>6. spills'[c] \subseteq 1..i /\ i \in 1..(L - 1)
      BY <1>4, <2>1, <2>3, <3>1
    <3>5. 0 <= Sizes(c)[i]
      BY <1>6, <2>1
    <3> QED BY <1>1, <1>3, <1>7, <2>1, <3>1, <3>2, <3>4, <3>5, <3>6, IngestMoves DEF Position, calls
  <2>4. CASE Closed(c) /\ Exit(c, "generic")
    BY <1>2, <1>f, <2>1, <2>4 DEF Closed
  <2> QED BY <1>12, <2>2, <2>3, <2>4 DEF ReadHead, Here
<1>13. CASE SpillByte(c) \/ Spilled(c)
  <2>1. /\ proc[c].at = "spill" /\ UNCHANGED taken /\ i \in 1..(L - 1) /\ n <= Sizes(c)[i]
        /\ spills[c] \subseteq 1..i /\ WholeUpTo(c, 0) /\ NoneShort(c)
        /\ proc[c].left = L - i + (SumTo(c, L) - SumTo(c, i - 1)) - n
    BY <1>3, <1>13 DEF SpillByte, Spilled, Ingesting, At, Position, Here, Before, pushVars
  <2>2. CASE /\ n < Sizes(c)[i] /\ proc[c].left > 0 /\ Consume(c, "spill", i, n + 1)
             /\ UNCHANGED spills
    <3>1. /\ proc'[c].prog = "ingest" /\ proc'[c].at = "spill" /\ proc'[c].item = i
          /\ proc'[c].got = n + 1 /\ proc'[c].left = proc[c].left - 1
      BY <1>2, <1>3, <2>2 DEF Consume
    <3>2. Here(c)' = i /\ Here(c)' - 1 = i - 1
      BY <3>1 DEF Here
    <3>3. Before(c)' = SumTo(c, L) - SumTo(c, i - 1)
      BY <1>1, <3>2 DEF Before
    <3>4. proc'[c].left = L - i + Before(c)' - (n + 1) /\ n + 1 <= Sizes(c)[i]
      BY <1>4, <1>6, <2>1, <2>2, <3>1, <3>3
    <3> QED BY <1>1, <1>3, <1>7, <2>1, <2>2, <3>1, <3>2, <3>4, IngestMoves DEF Position, calls
  <2>3. CASE Closed(c) /\ Exit(c, "generic")
    BY <1>2, <1>f, <2>1, <2>3 DEF Closed
  <2>4. CASE Spilled(c)
    <3>1. /\ n = Sizes(c)[i] /\ UNCHANGED spills
          /\ proc'[c].prog = "ingest" /\ proc'[c].at = "head" /\ proc'[c].item = i + 1
          /\ proc'[c].left = proc[c].left
      BY <1>2, <1>3, <2>4 DEF Spilled, pushVars, Here
    <3>2. Here(c)' = i + 1 /\ Here(c)' - 1 = i
      BY <1>4, <3>1 DEF Here
    <3>3. Before(c)' = SumTo(c, L) - SumTo(c, i)
      BY <1>1, <3>2 DEF Before
    <3>4. proc'[c].left = L - (i + 1) + 1 + Before(c)' /\ i + 1 \in 1..L
      <4>1. SumTo(c, i) \in Nat
        BY <1>2, <2>1, <1>4 DEF Summed
      <4> QED BY <1>4, <1>6, <2>1, <3>1, <3>3, <4>1
    <3> QED BY <1>1, <1>3, <1>4, <1>7, <2>1, <3>1, <3>2, <3>4, IngestMoves DEF Position, calls
  <2> QED BY <1>13, <2>2, <2>3, <2>4 DEF SpillByte, Here, Arrives
<1>14. CASE SaveFails(c)
  BY <1>2, <1>3, <1>4, <1>7, <1>8, <1>14
     DEF SaveFails, Ingesting, At, Exit, Position, Here, pushVars
<1>15. CASE SaveSpilled(c)
  <2>1. /\ proc[c].at = "save" /\ i \in 1..(L - 1) /\ n = 0
        /\ proc[c].left + n = Sizes(c)[L]
        /\ spills[c] \subseteq i..(L - 1) /\ spills'[c] = spills[c] \ {i}
        /\ WholeUpTo(c, i - 1) /\ NoneShort(c)
    BY <1>2, <1>3, <1>4, <1>15 DEF SaveSpilled, Ingesting, At, Position, Here
  <2>2. CASE Exit(c, "toolarge") /\ UNCHANGED taken
    <3>1. i - 1 \in 0..(L - 1)
      BY <1>4, <2>1
    <3> QED BY <1>2, <1>3, <1>7, <1>8, <2>1, <2>2, <3>1 DEF Exit
  <2>3. CASE taken' = taken \cup {<<c, i, TRUE>>} /\ proc' = [proc EXCEPT ![c].item = @ + 1]
    <3>1. /\ proc'[c].prog = "ingest" /\ proc'[c].at = "save" /\ proc'[c].item = i + 1
          /\ proc'[c].left = proc[c].left /\ proc'[c].got = n
      BY <1>2, <1>3, <2>1, <2>3
    <3>2. Here(c)' = i + 1 /\ Here(c)' - 1 = i
      BY <1>4, <3>1 DEF Here
    <3>3. NoneShort(c)'
      BY <1>1, <2>1, <2>3 DEF NoneShort
    <3>4. WholeUpTo(c, Here(c) - 1)'
      <4>1. \A k \in 1..L : <<c, k, TRUE>> \in taken' <=> k = i \/ <<c, k, TRUE>> \in taken
        BY <2>3
      <4>2. \A k \in 1..L : k = i \/ k <= i - 1 <=> k <= i
        BY <1>4
      <4>3. \A k \in 1..L : <<c, k, TRUE>> \in taken' <=> k <= i
        BY <2>1, <4>1, <4>2 DEF WholeUpTo
      <4> QED BY <1>1, <3>2, <4>3 DEF WholeUpTo
    <3>5. spills'[c] \subseteq (i + 1)..(L - 1) /\ i + 1 \in 1..L
      BY <1>4, <2>1
    <3> QED BY <1>1, <1>3, <2>1, <3>1, <3>2, <3>3, <3>4, <3>5, IngestMoves DEF Position, calls
  <2> QED BY <1>15, <2>2, <2>3 DEF SaveSpilled, Take, Here
<1>16. CASE SaveByte(c)
  <2>1. /\ proc[c].at = "save" /\ i = L /\ UNCHANGED <<taken, spills>> /\ i \in 1..L
        /\ proc[c].left + n = Sizes(c)[L] /\ spills[c] \subseteq i..(L - 1)
        /\ WholeUpTo(c, i - 1) /\ NoneShort(c)
        /\ proc'[c].prog = "ingest" /\ proc'[c].at = "save" /\ proc'[c].item = i
        /\ proc'[c].got = n + 1 /\ proc'[c].left = proc[c].left - 1
    BY <1>2, <1>3, <1>16 DEF SaveByte, Ingesting, At, Position, Here, Consume, pushVars
  <2>2. Here(c)' = i /\ Here(c)' - 1 = i - 1
    BY <2>1 DEF Here
  <2>3. proc'[c].left + proc'[c].got = Sizes(c)[L]
    BY <1>4, <2>1
  <2> QED BY <1>1, <1>3, <1>7, <2>1, <2>2, <2>3, IngestMoves DEF Position, calls
<1>17. CASE SaveLast(c)
  <2>1. /\ proc[c].at = "save" /\ i = L /\ UNCHANGED spills
        /\ proc[c].left + n = Sizes(c)[L] /\ spills[c] = {}
        /\ WholeUpTo(c, L - 1) /\ NoneShort(c)
        /\ n = Sizes(c)[L] \/ c \in cut
    BY <1>2, <1>3, <1>4, <1>6, <1>17 DEF SaveLast, Ingesting, At, Position, Here, AtEnd, Eof
  <2>2. CASE Exit(c, "toolarge") /\ UNCHANGED taken
    <3>1. L - 1 \in 0..(L - 1)
      BY <1>4, <1>5
    <3> QED BY <1>2, <1>3, <1>7, <1>8, <2>1, <2>2, <3>1 DEF Exit
  <2>3. CASE taken' = taken \cup {<<c, L, n = Sizes(c)[L]>>} /\ Step(c, "finish")
    <3>1. proc'[c].prog = "ingest" /\ proc'[c].at = "finish"
      BY <1>2, <1>3, <2>3 DEF Step
    <3>2. AllSaved(c)'
      <4>1. CASE n = Sizes(c)[L]
        <5>1. taken' = taken \cup {<<c, L, TRUE>>}
          BY <2>3, <4>1
        <5>2. \A k \in 1..L : <<c, k, TRUE>> \in taken' <=> k = L \/ <<c, k, TRUE>> \in taken
          BY <5>1
        <5>3. \A k \in 1..L : k = L \/ k <= L - 1 <=> k <= L
          BY <1>4
        <5>4. \A k \in 1..L : <<c, k, TRUE>> \in taken' <=> k <= L
          BY <2>1, <5>2, <5>3 DEF WholeUpTo
        <5>5. \A k \in 1..L : <<c, k, FALSE>> \notin taken'
          BY <2>1, <5>1 DEF NoneShort
        <5> QED BY <1>1, <5>4, <5>5 DEF AllSaved, WholeUpTo, NoneShort
      <4>2. CASE n # Sizes(c)[L]
        <5>1. taken' = taken \cup {<<c, L, FALSE>>} /\ c \in cut'
          BY <1>3, <2>1, <2>3, <4>2
        <5> QED BY <1>1, <1>4, <2>1, <5>1 DEF AllSaved, WholeUpTo, NoneShort
      <4> QED BY <4>1, <4>2
    <3> QED BY <1>1, <1>3, <2>1, <3>1, <3>2, IngestMoves DEF Position, calls
  <2> QED BY <1>17, <2>1, <2>2, <2>3 DEF SaveLast, Take, Here
<1>18. CASE FinishIngest(c)
  <2>1. proc[c].at = "finish" /\ UNCHANGED <<taken, spills>> /\ \E rc \in Exits : Exit(c, rc)
    BY <1>18 DEF FinishIngest, Ingesting, At, pushVars, Exits
  <2>2. /\ spills'[c] = {} /\ AllSaved(c)'
        /\ proc'[c].prog = "ingest" /\ proc'[c].at = "exited"
    BY <1>2, <1>3, <1>7, <2>1 DEF Position, Exit
  <2> QED BY <1>1, <1>3, <2>2, IngestMoves DEF Position, calls
<1> QED BY <1>9, <1>10, <1>11, <1>12, <1>13, <1>14, <1>15, <1>16, <1>17, <1>18 DEF Ingest

(* The sender starts with nothing on the box, and believes the status it is relayed. *)
LEMMA SendingKeepsPlace ==
    ASSUME Typed, job' = job, NEW c \in Calls, Pushed(c), Sending(c)
    PROVE  Pushed(c)'
<1> DEFINE L == Last(c)
<1> USE DEF calls, laptop, pins, net, box, unpushed, pushVars, Goto, End
<1>1. /\ Last(c)' = Last(c) /\ Sizes(c)' = Sizes(c) /\ Units(c)' = Units(c)
      /\ \A k : SumTo(c, k)' = SumTo(c, k)
  BY FramesStay
<1>2. /\ Summed(c) /\ L \in Nat /\ SumTo(c, L) \in Nat /\ proc[c] \in Procs
      /\ proc \in [Calls -> Procs] /\ CallsTyped
  BY SumsUp DEF Typed, ProcsTyped, Summed
<1>3. ASSUME UNCHANGED taken
      PROVE  /\ \A k : WholeUpTo(c, k)' <=> WholeUpTo(c, k)
             /\ NoneShort(c)' <=> NoneShort(c)
  BY <1>1, <1>3 DEF WholeUpTo, NoneShort
<1>4. ASSUME job[c].verb = "send", proc[c].prog # "ingest", UNCHANGED <<proc, taken, spills>>,
             pc'[c] # "wait", code'[c] # "ok"
      PROVE  Pushed(c)'
  BY <1>3, <1>4 DEF Pushed
<1>5. CASE Resolve(c) \/ DialToSend(c)
  <2>1. job[c].verb = "send" /\ pc[c] \in {"start", "dial"} /\ UNCHANGED <<proc, taken, spills>>
    BY <1>5 DEF Resolve, DialToSend, Dial
  <2>2. proc[c].prog # "ingest" /\ code[c] # "ok"
    BY <2>1 DEF Pushed
  <2>3. pc'[c] # "wait" /\ code'[c] # "ok"
    BY <1>2, <1>5, <2>2 DEF Resolve, DialToSend, Dial, Connects, CallsTyped
  <2> QED BY <1>4, <2>1, <2>2, <2>3
<1>6. CASE ExecIngest(c)
  <2>1. job[c].verb = "send" /\ pc[c] = "exec" /\ UNCHANGED <<taken, spills, cut>>
    BY <1>6 DEF ExecIngest
  <2>2. proc[c].prog # "ingest" /\ code[c] # "ok"
    BY <2>1 DEF Pushed
  <2>3. CASE Exec(c, "ingest", Units(c)) /\ Goto(c, "wait")
    <3>1. proc'[c].prog = "ingest" /\ proc'[c].at = "start" /\ proc'[c].left = Units(c)
      BY <1>2, <2>3 DEF Exec, Idle
    <3>2. pc'[c] = "wait" /\ code'[c] # "ok"
      BY <1>2, <2>2, <2>3 DEF CallsTyped
    <3>3. spills'[c] = {} /\ WholeUpTo(c, 0)' /\ NoneShort(c)'
      BY <1>3, <2>1, <2>2 DEF Pushed
    <3>4. Position(c)'
      BY <1>1, <3>1, <3>3 DEF Position
    <3> QED BY <2>1, <3>1, <3>2, <3>4 DEF Pushed
  <2>4. CASE End(c, "unreachable") /\ UNCHANGED proc
    <3>1. pc'[c] # "wait" /\ code'[c] # "ok"
      BY <1>2, <2>4 DEF CallsTyped
    <3> QED BY <1>4, <2>1, <2>2, <2>4, <3>1
  <2> QED BY <1>6, <2>3, <2>4 DEF ExecIngest
<1>7. CASE WaitForIngest(c)
  <2>1. /\ job[c].verb = "send" /\ pc[c] = "wait" /\ UNCHANGED <<proc, taken, spills, cut>>
        /\ proc[c].prog = "ingest"
    BY <1>7 DEF WaitForIngest, Pushed
  <2>2. /\ pc'[c] = "end"
        /\ code'[c] = "ok" => c \notin cut /\ proc[c].at = "exited" /\ proc[c].rc = "ok"
    BY <1>2, <1>7 DEF WaitForIngest, Relayed, RunOk, CallsTyped
  <2>3. Position(c)'
    <3>1. AllSaved(c)' <=> AllSaved(c)
      BY <1>1, <2>1 DEF AllSaved, WholeUpTo, NoneShort
    <3>2. Here(c)' = Here(c) /\ Before(c)' = Before(c)
      BY <1>1, <2>1 DEF Here, Before
    <3>3. Position(c)
      BY <2>1 DEF Pushed
    <3> QED BY <1>1, <1>3, <2>1, <3>1, <3>2, <3>3 DEF Position
  <2> QED BY <2>1, <2>2, <2>3 DEF Pushed
<1>8. CASE Post(c)
  <2>1. /\ job[c].verb = "post" /\ pc[c] = "start" /\ UNCHANGED <<proc, spills>>
        /\ WholeUpTo(c, 0) /\ NoneShort(c) /\ pc'[c] = "end" /\ proc[c].prog = "none"
    BY <1>2, <1>8 DEF Post, Pushed, CallsTyped
  <2>2. PICK n \in 0..L : /\ taken' = taken \cup {<<c, i, TRUE>> : i \in 1..n}
                          /\ code'[c] = "ok" => n = L
    <3> DEFINE T(n) == taken \cup {<<c, i, TRUE>> : i \in 1..n}
    <3>1. \/ taken' = T(0) /\ \E k \in Exits \ {"ok"} : End(c, k)
          \/ taken' = T(L)
          \/ \E n \in 0..(L - 1) : taken' = T(n) /\ \E k \in Exits \ {"ok"} : End(c, k)
      BY <1>8 DEF Post, Exits
    <3>2. 0 \in 0..L /\ L \in 0..L /\ \A n \in 0..(L - 1) : n \in 0..L
      BY <1>2
    <3>3. (\E k \in Exits \ {"ok"} : End(c, k)) => code'[c] # "ok"
      BY <1>2 DEF CallsTyped
    <3> HIDE DEF T
    <3>4. \E n \in 0..L : taken' = T(n) /\ (code'[c] = "ok" => n = L)
      BY <3>1, <3>2, <3>3
    <3> QED BY <3>4 DEF T
  <2>3. \A k \in 1..L : <<c, k, TRUE>> \in taken' <=> k <= n
    <3> DEFINE W(i) == <<c, i, TRUE>>
    <3>1. \A k, i : W(k) = W(i) => k = i
      OBVIOUS
    <3>2. taken' = taken \cup {W(i) : i \in 1..n}
      BY <2>2
    <3>3. \A k \in 1..L : W(k) \notin taken
      <4>1. \A k \in 1..L : ~(k <= 0)
        BY <1>2
      <4>2. WholeUpTo(c, 0)
        BY <2>1
      <4> QED BY <4>1, <4>2 DEF WholeUpTo
    <3>4. \A k \in 1..L : k \in 1..n <=> k <= n
      BY <1>2
    <3>5. \A k \in 1..L : W(k) \in taken' <=> k <= n
      <4> HIDE DEF W
      <4> QED BY <3>1, <3>2, <3>3, <3>4
    <3> QED BY <3>5
  <2>4. \A k \in 1..L : <<c, k, FALSE>> \notin taken'
    BY <2>1, <2>2 DEF NoneShort
  <2>5. WholeUpTo(c, n)' /\ NoneShort(c)'
    BY <1>1, <2>3, <2>4 DEF WholeUpTo, NoneShort
  <2> QED BY <1>1, <2>1, <2>2, <2>5 DEF Pushed
<1> QED BY <1>5, <1>6, <1>7, <1>8 DEF Sending

(* Every push keeps to its place, whoever moves. *)
LEMMA PushKept ==
    ASSUME Typed, \A d \in Calls : Pushed(d), [Next]_vars
    PROVE  \A d \in Calls : Pushed(d)'
<1> USE DEF calls, laptop, pins, net, box, unpushed, pushVars, setupVars, sockVars, unset, local,
            Goto, End
<1>1. /\ job' = job /\ CallsTyped /\ ProcsTyped /\ JobsTyped
      /\ spills \in [Calls -> SUBSET Nat]
  BY JobsStay DEF Typed, PushTyped
<1> DEFINE Left(d) == /\ proc'[d] = proc[d] /\ spills'[d] = spills[d] /\ code'[d] = code[d]
                      /\ pc'[d] = pc[d]
                      /\ \A i \in 1..Last(d) : /\ <<d, i, TRUE>> \in taken' <=> <<d, i, TRUE>> \in taken
                                               /\ <<d, i, FALSE>> \in taken' <=> <<d, i, FALSE>> \in taken
<1>2. ASSUME NEW d \in Calls, UNCHANGED cut, Left(d)
      PROVE  Pushed(d)'
  BY <1>1, <1>2, PushUntouched
<1>3. ASSUME NEW c \in Calls, Sending(c)
      PROVE  \A d \in Calls : Pushed(d)'
  <2>1. Pushed(c)'
    BY <1>1, <1>3, SendingKeepsPlace
  <2>2. ASSUME NEW d \in Calls \ {c}
        PROVE  Left(d) /\ UNCHANGED cut
    <3>1. CASE Resolve(c) \/ DialToSend(c) \/ ExecIngest(c) \/ WaitForIngest(c)
      BY <1>1, <3>1 DEF Resolve, DialToSend, Dial, Connects, ExecIngest, Exec, WaitForIngest, Relayed,
                        CallsTyped, ProcsTyped
    <3>2. CASE Post(c)
      <4>1. /\ UNCHANGED <<proc, spills, cut>> /\ pc'[d] = pc[d] /\ code'[d] = code[d]
        BY <1>1, <3>2 DEF Post, CallsTyped
      <4>2. \E n : taken' = taken \cup {<<c, i, TRUE>> : i \in 1..n}
        BY <3>2 DEF Post
      <4>3. \A i, v : <<d, i, v>> \in taken' <=> <<d, i, v>> \in taken
        BY <4>2
      <4> QED BY <4>1, <4>3
    <3> QED BY <1>3, <3>1, <3>2 DEF Sending
  <2> QED BY <1>2, <2>1, <2>2
<1>4. ASSUME NEW c \in Calls, Ingest(c)
      PROVE  \A d \in Calls : Pushed(d)'
  <2>1. Pushed(c)'
    BY <1>1, <1>4, IngestKeepsPlace
  <2>2. ASSUME NEW d \in Calls \ {c}
        PROVE  Left(d) /\ UNCHANGED cut
    <3>1. UNCHANGED <<cut, pc, code>>
      BY <1>4 DEF Ingest, Ingesting, IngestStarts, BadFrame, ReadMagic, ReadHead, SpillByte, Spilled,
                  SaveFails, SaveSpilled, SaveByte, SaveLast, FinishIngest
    <3>2. proc'[d] = proc[d] /\ spills'[d] = spills[d]
      BY <1>1, <1>4 DEF Ingest, IngestStarts, BadFrame, Closed, ReadMagic, ReadHead, SpillByte, Spilled,
                  SaveFails, SaveSpilled, SaveByte, SaveLast, FinishIngest, Step, Exit, Consume,
                  ProcsTyped
    <3>3. \/ UNCHANGED taken
          \/ \E i, v : taken' = taken \cup {<<c, i, v>>}
      BY <1>4 DEF Ingest, IngestStarts, BadFrame, ReadMagic, ReadHead, SpillByte, Spilled,
                  SaveFails, SaveSpilled, SaveByte, SaveLast, FinishIngest, Take
    <3>4. \A i, v : <<d, i, v>> \in taken' <=> <<d, i, v>> \in taken
      BY <3>3
    <3> QED BY <3>1, <3>2, <3>4
  <2> QED BY <1>2, <2>1, <2>2
<1>5. ASSUME NEW c \in Calls, job[c].verb \notin {"send", "post"}, UNCHANGED <<taken, spills, cut>>,
             proc'[c].prog # "ingest", proc'[c].prog = "none" \/ job[c].verb = "setup",
             \A d \in Calls \ {c} : proc'[d] = proc[d] /\ code'[d] = code[d] /\ pc'[d] = pc[d]
      PROVE  \A d \in Calls : Pushed(d)'
  <2>1. \A d \in Calls \ {c} : Pushed(d)'
    BY <1>2, <1>5
  <2>2. /\ \A k : WholeUpTo(c, k)' <=> WholeUpTo(c, k)
        /\ NoneShort(c)' <=> NoneShort(c)
    BY <1>1, <1>5, FramesStay DEF WholeUpTo, NoneShort
  <2>3. Pushed(c)'
    BY <1>1, <1>5, <2>2 DEF Pushed
  <2> QED BY <2>1, <2>3
<1>6. ASSUME NEW c \in Calls, SettingUp(c), UNCHANGED pushVars
      PROVE  \A d \in Calls : Pushed(d)'
  <2>1. job[c].verb = "setup"
    BY <1>1, <1>6 DEF SettingUp, BeginSetup, DialToSetUp, Detect, Version, Prepare, Placed, GetToken,
                      SaveToken, AddToken, SendToken, TokenSent, LoadAliases, SaveAliases, Installing,
                      CallsTyped, StepsOfVerb, SendSteps, ServeSteps, LastSteps, JobsTyped, Jobs
  <2>2. \A d \in Calls \ {c} : code'[d] = code[d] /\ pc'[d] = pc[d]
    BY <1>1, <1>6 DEF SettingUp, BeginSetup, DialToSetUp, Dial, Connects, Detect, Version, Prepare,
              Placed, GetToken, SaveToken, AddToken, SendToken, TokenSent, LoadAliases, SaveAliases,
              CallsTyped
  <2>3. /\ UNCHANGED cut
        /\ UNCHANGED proc \/ \E prog \in {"release", "place", "token"} : \E n : Exec(c, prog, n)
    BY <1>6 DEF SettingUp, BeginSetup, DialToSetUp, Dial, Detect, Version, Prepare,
              Placed, GetToken, SaveToken, AddToken, SendToken, TokenSent, LoadAliases, SaveAliases
  <2>4. proc'[c].prog # "ingest" /\ \A d \in Calls \ {c} : proc'[d] = proc[d]
    <3>1. CASE UNCHANGED proc
      BY <2>1, <3>1 DEF Pushed
    <3>2. ASSUME NEW prog \in {"release", "place", "token"}, NEW n, Exec(c, prog, n)
          PROVE  proc'[c].prog # "ingest" /\ \A d \in Calls \ {c} : proc'[d] = proc[d]
      <4>1. proc'[c].prog = prog
        BY <1>1, <3>2 DEF Exec, Idle, ProcsTyped
      <4>2. \A d \in Calls \ {c} : proc'[d] = proc[d]
        BY <1>1, <3>2 DEF Exec, ProcsTyped
      <4> QED BY <4>1, <4>2
    <3> QED BY <2>3, <3>1, <3>2
  <2> QED BY <1>5, <1>6, <2>1, <2>2, <2>3, <2>4
<1>7. ASSUME NEW c \in Calls, BoxStep(c), UNCHANGED pushVars
      PROVE  \A d \in Calls : Pushed(d)'
  <2>1. UNCHANGED <<cut, pc, code>> /\ proc[c].prog \in {"place", "release", "token"}
    BY <1>7 DEF BoxStep, OnBox, At, OpenTemp, WriteTemp, ChmodTemp, MoveTemp, Fetch, OpenToken,
                WriteToken
  <2>2. job[c].verb = "setup"
    BY <2>1 DEF Pushed
  <2>3. proc'[c].prog = proc[c].prog /\ \A d \in Calls \ {c} : proc'[d] = proc[d]
    <3> USE <1>1 DEF Step, Exit, ProcsTyped, Procs
    <3>1. CASE OpenTemp(c)
      BY <3>1 DEF OpenTemp
    <3>2. CASE WriteTemp(c)
      BY <3>2 DEF WriteTemp
    <3>3. CASE ChmodTemp(c)
      BY <3>3 DEF ChmodTemp
    <3>4. CASE MoveTemp(c)
      BY <3>4 DEF MoveTemp
    <3>5. CASE Fetch(c)
      BY <3>5 DEF Fetch
    <3>6. CASE OpenToken(c) \/ WriteToken(c)
      BY <3>6 DEF OpenToken, WriteToken
    <3> QED BY <1>7, <3>1, <3>2, <3>3, <3>4, <3>5, <3>6 DEF BoxStep
  <2> QED BY <1>5, <1>7, <2>1, <2>2, <2>3
<1>8. ASSUME NEW c \in Calls, Controlling(c), UNCHANGED pushVars
      PROVE  \A d \in Calls : Pushed(d)'
  <2>1. job[c].verb \in {"serve", "last"}
    BY <1>1, <1>8 DEF Controlling, Serve, Lstat, Unlink, Bind, ChmodSocket, ListenTcp, Stop, Kill,
                StatSocket, AskSocket, AskPort, CallsTyped, StepsOfVerb, SendSteps, SetupSteps,
                JobsTyped, Jobs
  <2>2. UNCHANGED <<proc, cut>> /\ \A d \in Calls \ {c} : code'[d] = code[d] /\ pc'[d] = pc[d]
    BY <1>1, <1>8 DEF Controlling, Serve, Lstat, Unlink, Bind, ChmodSocket, ListenTcp, Stop, Kill,
                StatSocket, AskSocket, AskPort, CallsTyped
  <2>3. proc[c].prog = "none"
    BY <2>1 DEF Pushed
  <2> QED BY <1>5, <1>8, <2>1, <2>2, <2>3
<1>9. ASSUME Network
      PROVE  \A d \in Calls : Pushed(d)'
  <2>1. ASSUME NEW c \in Calls, Cut(c), UNCHANGED pushVars
        PROVE  \A d \in Calls : Pushed(d)'
    BY <1>1, <2>1, PushUntouched DEF Cut
  <2>2. ASSUME NEW b \in Boxes, Rekey(b), UNCHANGED pushVars
        PROVE  \A d \in Calls : Pushed(d)'
    BY <1>2, <2>2 DEF Rekey
  <2> QED BY <1>9, <2>1, <2>2 DEF Network
<1>10. CASE UNCHANGED vars
  BY <1>2, <1>10 DEF vars
<1> QED BY <1>3, <1>4, <1>6, <1>7, <1>8, <1>9, <1>10, StepKinds

(* Only what is in a frame waits in a spill, and only items of calls are saved. *)
LEMMA PushTypedKept ==
    ASSUME Typed, \A d \in Calls : Pushed(d), [Next]_vars
    PROVE  PushTyped'
<1> USE DEF pushVars
<1>1. /\ job' = job /\ ProcsTyped /\ JobsTyped
      /\ taken \subseteq Calls \X Nat \X BOOLEAN /\ spills \in [Calls -> SUBSET Nat]
      /\ \A d \in Calls : spills[d] \subseteq 1..Last(d)
  BY JobsStay DEF Typed, PushTyped, PushTypeOK
<1>2. \A d : Last(d)' = Last(d)
  BY <1>1 DEF Last, Sizes
<1>3. ASSUME taken' \subseteq Calls \X Nat \X BOOLEAN, spills' \in [Calls -> SUBSET Nat],
             \A d \in Calls : spills'[d] \subseteq 1..Last(d)
      PROVE  PushTyped'
  BY <1>2, <1>3 DEF PushTyped, PushTypeOK
<1>4. CASE UNCHANGED <<taken, spills>>
  BY <1>1, <1>3, <1>4
<1>5. ASSUME NEW c \in Calls, Sending(c)
      PROVE  PushTyped'
  <2>1. CASE Resolve(c) \/ DialToSend(c) \/ ExecIngest(c) \/ WaitForIngest(c)
    BY <1>4, <2>1 DEF Resolve, DialToSend, ExecIngest, WaitForIngest
  <2>2. CASE Post(c)
    <3> DEFINE T(n) == taken \cup {<<c, i, TRUE>> : i \in 1..n}
    <3>1. /\ UNCHANGED spills
          /\ taken' = T(0) \/ taken' = T(Last(c)) \/ \E n \in 0..(Last(c) - 1) : taken' = T(n)
      BY <2>2 DEF Post
    <3>2. taken' \subseteq Calls \X Nat \X BOOLEAN
      <4>1. PICK n \in Nat : taken' = T(n)
        <5>1. Last(c) \in Nat
          BY <1>1, SumsUp DEF Summed
        <5> HIDE DEF T
        <5> QED BY <3>1, <5>1
      <4>2. {<<c, i, TRUE>> : i \in 1..n} \subseteq Calls \X Nat \X BOOLEAN
        <5> DEFINE W(i) == <<c, i, TRUE>>
                   All3 == Calls \X Nat \X BOOLEAN
        <5>1. ASSUME NEW i \in 1..n
              PROVE  W(i) \in All3
          <6>1. i \in Nat
            BY <5>1
          <6>2. \A v \in BOOLEAN : <<c, i, v>> \in All3
            BY <6>1
          <6> QED BY <6>2
        <5> HIDE DEF W, All3
        <5>2. {W(i) : i \in 1..n} \subseteq All3
          BY <5>1
        <5> QED BY <5>2 DEF W, All3
      <4> QED BY <1>1, <4>1, <4>2
    <3> QED BY <1>1, <1>3, <3>1, <3>2
  <2> QED BY <1>5, <2>1, <2>2 DEF Sending
<1>6. ASSUME NEW c \in Calls, Ingest(c)
      PROVE  PushTyped'
  <2>1. proc[c] \in Procs /\ Here(c) \in Nat
    BY <1>1, FieldsOfProcs DEF ProcsTyped, Here
  <2>2. taken' \subseteq Calls \X Nat \X BOOLEAN
    <3>1. \/ UNCHANGED taken
          \/ \E v \in BOOLEAN : taken' = taken \cup {<<c, Here(c), v>>}
      BY <1>6 DEF Ingest, IngestStarts, BadFrame, ReadMagic, ReadHead, SpillByte, Spilled,
                  SaveFails, SaveSpilled, SaveByte, SaveLast, FinishIngest, Take
    <3> QED BY <1>1, <2>1, <3>1
  <2>3. \/ UNCHANGED spills
        \/ spills' = [spills EXCEPT ![c] = {}]
        \/ spills' = [spills EXCEPT ![c] = @ \ {Here(c)}]
        \/ proc[c].prog = "ingest" /\ proc[c].at = "head"
           /\ spills' = [spills EXCEPT ![c] = @ \cup {Here(c)}]
    BY <1>6 DEF Ingest, Ingesting, At, Closed, IngestStarts, BadFrame, ReadMagic, ReadHead, SpillByte,
                Spilled, SaveFails, SaveSpilled, SaveByte, SaveLast, FinishIngest
  <2>4. proc[c].prog = "ingest" /\ proc[c].at = "head" => Here(c) \in 1..Last(c)
    <3>1. Pushed(c)
      OBVIOUS
    <3> QED BY <3>1 DEF Pushed, Position
  <2>5. \A d \in Calls \ {c} : spills'[d] = spills[d]
    BY <1>1, <2>3
  <2>6. spills' \in [Calls -> SUBSET Nat] /\ spills'[c] \subseteq 1..Last(c)
    BY <1>1, <2>1, <2>3, <2>4
  <2> QED BY <1>1, <1>3, <2>2, <2>5, <2>6
<1> QED BY <1>4, <1>5, <1>6, StepKinds DEF vars, Network
------------------------------------------------------------------------------
(* Whom a call trusts changes when it begins, and loads known_hosts, and when it dials. *)
LEMMA TrustUntouched ==
    ASSUME Typed, Trusted, job' = job, UNCHANGED <<knownHosts, accepted, peer, db>>,
           \A d \in Calls : target'[d] = target[d] \/ pc[d] = "start",
           \A d \in Calls : pc'[d] = "dial" => pc[d] = "dial",
           \A d \in Calls : pc'[d] = "start" => pc[d] = "start"
    PROVE  Trusted'
<1>1. \A d \in Calls : peer[d] # None \/ (\E p : <<d, p>> \in accepted) => Box(d)' = Box(d)
  BY DEF Typed, NetTyped, Trusted, Box
<1>2. \A d \in Calls : peer'[d] # None =>
          /\ <<Box(d)', peer'[d]>> \in knownHosts'
          /\ peer'[d] \notin CertKeys
          /\ (~job'[d].accept \/ \E p \in db'[d] : p[1] = Box(d)') => <<Box(d)', peer'[d]>> \in db'[d]
  BY <1>1 DEF Trusted
<1>3. \A d \in Calls, p \in knownHosts' : <<d, p>> \in accepted' =>
          /\ job'[d].accept /\ Box(d)' = p[1] /\ pc'[d] \notin {"start", "dial"}
          /\ ~\E r \in db'[d] : r[1] = p[1]
          /\ \A q \in knownHosts' : <<d, q>> \in accepted' => q = p
  BY <1>1 DEF Trusted
<1>4. \A q \in knownHosts' :
          \/ \E d \in Calls : <<d, q>> \in accepted'
          \/ \A d \in Calls : pc'[d] = "dial" \/ (\E p \in knownHosts' : <<d, p>> \in accepted') =>
                q \in db'[d]
  BY DEF Trusted
<1> QED BY <1>2, <1>3, <1>4 DEF Trusted

(* A call that begins has loaded every key that is pinned. *)
LEMMA TrustBegins ==
    ASSUME Typed, Trusted, job' = job, NEW c \in Calls, pc[c] = "start",
           UNCHANGED <<knownHosts, accepted, peer>>,
           \/ pc'[c] = "dial" /\ db' = [db EXCEPT ![c] = knownHosts]
           \/ pc'[c] = "end" /\ UNCHANGED db,
           \A d \in Calls \ {c} : pc'[d] = pc[d] /\ target'[d] = target[d]
    PROVE  Trusted'
<1>1. /\ peer[c] = None /\ \A p \in knownHosts : <<c, p>> \notin accepted
      /\ db \in [Calls -> SUBSET (Boxes \X Keys)]
  BY DEF Typed, NetTyped, Trusted
<1>2. \A d \in Calls \ {c} : Box(d)' = Box(d) /\ db'[d] = db[d]
  BY <1>1 DEF Box
<1>3. \A d \in Calls : peer'[d] # None =>
          /\ <<Box(d)', peer'[d]>> \in knownHosts'
          /\ peer'[d] \notin CertKeys
          /\ (~job'[d].accept \/ \E p \in db'[d] : p[1] = Box(d)') => <<Box(d)', peer'[d]>> \in db'[d]
  BY <1>1, <1>2 DEF Trusted
<1>4. \A d \in Calls, p \in knownHosts' : <<d, p>> \in accepted' =>
          /\ job'[d].accept /\ Box(d)' = p[1] /\ pc'[d] \notin {"start", "dial"}
          /\ ~\E r \in db'[d] : r[1] = p[1]
          /\ \A q \in knownHosts' : <<d, q>> \in accepted' => q = p
  BY <1>1, <1>2 DEF Trusted
<1>5. \A q \in knownHosts' :
          \/ \E d \in Calls : <<d, q>> \in accepted'
          \/ \A d \in Calls : pc'[d] = "dial" \/ (\E p \in knownHosts' : <<d, p>> \in accepted') =>
                q \in db'[d]
  <2>1. ASSUME NEW q \in knownHosts, \A d \in Calls : <<d, q>> \notin accepted, NEW d \in Calls,
               pc'[d] = "dial" \/ (\E p \in knownHosts : <<d, p>> \in accepted)
        PROVE  q \in db'[d]
    <3>1. CASE d = c
      BY <1>1, <2>1, <3>1
    <3>2. CASE d # c
      BY <1>2, <2>1, <3>2 DEF Trusted
    <3> QED BY <3>1, <3>2
  <2> QED BY <2>1
<1> QED BY <1>3, <1>4, <1>5 DEF Trusted

(* A call connects to a key that it has loaded, or pins the first for its box. *)
LEMMA TrustDials ==
    ASSUME Typed, Trusted, job' = job, NEW c \in Calls, NEW l \in Steps \ {"start", "dial"},
           Dial(c, l)
    PROVE  Trusted'
<1> DEFINE p == <<Box(c), hostKey[Box(c)]>>
<1> USE DEF Goto, End
<1>1. /\ pc[c] = "dial" /\ UNCHANGED <<job, target, db>>
      /\ pc \in [Calls -> Steps] /\ peer \in [Calls -> Keys \cup {None}] /\ Box(c) \in Boxes
      /\ hostKey[Box(c)] \in Keys /\ db[c] \subseteq knownHosts /\ peer[c] = None
      /\ accepted \subseteq Calls \X knownHosts
  BY DEF Dial, Typed, NetTyped, CallsTyped
<1>2. \A d \in Calls : Box(d)' = Box(d)
  BY <1>1 DEF Box
<1>3. /\ pc'[c] \notin {"start", "dial"} /\ \A d \in Calls \ {c} : pc'[d] = pc[d] /\ peer'[d] = peer[d]
      /\ peer'[c] \in {None, hostKey[Box(c)]}
  BY <1>1 DEF Dial, Connects
<1>4. CASE UNCHANGED pins /\ (peer'[c] = None \/ Verdict(c) = "trusted")
  <2>1. peer'[c] # None => p \in db[c] /\ hostKey[Box(c)] \notin CertKeys
    BY <1>4 DEF Verdict
  <2>2. \A d \in Calls : peer'[d] # None =>
            /\ <<Box(d)', peer'[d]>> \in knownHosts'
            /\ peer'[d] \notin CertKeys
            /\ (~job'[d].accept \/ \E r \in db'[d] : r[1] = Box(d)') => <<Box(d)', peer'[d]>> \in db'[d]
    BY <1>1, <1>2, <1>3, <1>4, <2>1 DEF Trusted, pins
  <2>3. \A d \in Calls, r \in knownHosts' : <<d, r>> \in accepted' =>
            /\ job'[d].accept /\ Box(d)' = r[1] /\ pc'[d] \notin {"start", "dial"}
            /\ ~\E s \in db'[d] : s[1] = r[1]
            /\ \A q \in knownHosts' : <<d, q>> \in accepted' => q = r
    BY <1>1, <1>2, <1>3, <1>4 DEF Trusted, pins
  <2>4. \A q \in knownHosts' :
            \/ \E d \in Calls : <<d, q>> \in accepted'
            \/ \A d \in Calls : pc'[d] = "dial" \/ (\E r \in knownHosts' : <<d, r>> \in accepted') =>
                  q \in db'[d]
    BY <1>1, <1>3, <1>4 DEF Trusted, pins
  <2> QED BY <2>2, <2>3, <2>4 DEF Trusted
<1>5. CASE Accepts(c) /\ knownHosts' = knownHosts \cup {p} /\ accepted' = accepted \cup {<<c, p>>}
  <2>1. /\ hostKey[Box(c)] \notin CertKeys /\ job[c].accept /\ ~\E r \in db[c] : r[1] = Box(c)
    BY <1>5 DEF Accepts, Verdict
  <2>2. \A r \in knownHosts' : <<c, r>> \in accepted' => r = p
    BY <1>1, <1>5 DEF Trusted
  <2>3. \A d \in Calls \ {c} : \A r : <<d, r>> \in accepted' <=> <<d, r>> \in accepted
    BY <1>5
  <2>4. \A d \in Calls \ {c} : \A r : <<d, r>> \in accepted => r \in knownHosts
    BY <1>1
  <2>5. \A d \in Calls : peer'[d] # None =>
            /\ <<Box(d)', peer'[d]>> \in knownHosts'
            /\ peer'[d] \notin CertKeys
            /\ (~job'[d].accept \/ \E r \in db'[d] : r[1] = Box(d)') => <<Box(d)', peer'[d]>> \in db'[d]
    <3>1. \A d \in Calls \ {c} : peer[d] # None =>
            /\ <<Box(d), peer[d]>> \in knownHosts
            /\ peer[d] \notin CertKeys
            /\ (~job[d].accept \/ \E r \in db[d] : r[1] = Box(d)) => <<Box(d), peer[d]>> \in db[d]
      BY DEF Trusted
    <3>2. \A d \in Calls \ {c} : peer'[d] # None =>
            /\ <<Box(d)', peer'[d]>> \in knownHosts'
            /\ peer'[d] \notin CertKeys
            /\ (~job'[d].accept \/ \E r \in db'[d] : r[1] = Box(d)') => <<Box(d)', peer'[d]>> \in db'[d]
      BY <1>1, <1>2, <1>3, <1>5, <3>1
    <3>3. peer'[c] # None =>
            /\ <<Box(c)', peer'[c]>> \in knownHosts'
            /\ peer'[c] \notin CertKeys
            /\ ~(~job'[c].accept \/ \E r \in db'[c] : r[1] = Box(c)')
      BY <1>1, <1>2, <1>3, <1>5, <2>1
    <3> QED BY <3>2, <3>3
  <2>6. \A d \in Calls, r \in knownHosts' : <<d, r>> \in accepted' =>
            /\ job'[d].accept /\ Box(d)' = r[1] /\ pc'[d] \notin {"start", "dial"}
            /\ ~\E s \in db'[d] : s[1] = r[1]
            /\ \A q \in knownHosts' : <<d, q>> \in accepted' => q = r
    <3>1. ASSUME NEW r \in knownHosts', <<c, r>> \in accepted'
          PROVE  /\ job'[c].accept /\ Box(c)' = r[1] /\ pc'[c] \notin {"start", "dial"}
                 /\ ~\E s \in db'[c] : s[1] = r[1]
                 /\ \A q \in knownHosts' : <<c, q>> \in accepted' => q = r
      BY <1>1, <1>2, <1>3, <2>1, <2>2, <3>1
    <3>2. ASSUME NEW d \in Calls \ {c}, NEW r \in knownHosts', <<d, r>> \in accepted'
          PROVE  /\ job'[d].accept /\ Box(d)' = r[1] /\ pc'[d] \notin {"start", "dial"}
                 /\ ~\E s \in db'[d] : s[1] = r[1]
                 /\ \A q \in knownHosts' : <<d, q>> \in accepted' => q = r
      BY <1>1, <1>2, <1>3, <2>3, <2>4, <3>2 DEF Trusted
    <3> QED BY <3>1, <3>2
  <2>7. \A q \in knownHosts' :
            \/ \E d \in Calls : <<d, q>> \in accepted'
            \/ \A d \in Calls : pc'[d] = "dial" \/ (\E r \in knownHosts' : <<d, r>> \in accepted') =>
                  q \in db'[d]
    <3> QED BY <1>1, <1>3, <1>5, <2>3, <2>4 DEF Trusted
  <2> QED BY <2>5, <2>6, <2>7 DEF Trusted
<1> QED BY <1>1, <1>4, <1>5 DEF Dial, Connects, Pinned, pins

(* What Dial and the beginnings of calls do to trust, and that nothing else matters. *)
LEMMA TrustKept ==
    ASSUME Typed, Trusted, [Next]_vars
    PROVE  Trusted'
<1> USE DEF calls, laptop, pins, net, box, unpushed, unset, local, Goto, End, Box, NewClient
<1>1. job' = job /\ CallsTyped /\ JobsTyped
  BY JobsStay DEF Typed
<1>2. ASSUME UNCHANGED <<pins, peer, db, target>>,
             \A d \in Calls : pc'[d] \in {"start", "dial"} => pc'[d] = pc[d]
      PROVE  Trusted'
  BY <1>1, <1>2, TrustUntouched
<1>3. ASSUME NEW c \in Calls, Sending(c)
      PROVE  Trusted'
  <2>1. CASE Resolve(c)
    BY <1>1, <2>1, TrustBegins DEF Resolve, CallsTyped
  <2>2. CASE DialToSend(c)
    BY <1>1, <2>2, TrustDials DEF DialToSend, Steps, SendSteps
  <2>3. CASE ExecIngest(c) \/ WaitForIngest(c)
    BY <1>1, <1>2, <2>3 DEF ExecIngest, WaitForIngest, Relayed, CallsTyped
  <2>4. CASE Post(c)
    <3>1. UNCHANGED <<net, laptop, target>> /\ pc' = [pc EXCEPT ![c] = "end"]
      BY <2>4 DEF Post
    <3> QED BY <1>1, <1>2, <3>1 DEF CallsTyped
  <2> QED BY <1>3, <2>1, <2>2, <2>3, <2>4 DEF Sending
<1>4. ASSUME NEW c \in Calls, Ingest(c) \/ BoxStep(c)
      PROVE  UNCHANGED <<net, laptop, calls>>
  BY <1>4 DEF Ingest, Ingesting, IngestStarts, BadFrame, ReadMagic, ReadHead, SpillByte, Spilled,
              SaveFails, SaveSpilled, SaveByte, SaveLast, FinishIngest,
              BoxStep, OnBox, OpenTemp, WriteTemp, ChmodTemp, MoveTemp, Fetch, OpenToken, WriteToken
<1>5. ASSUME NEW c \in Calls, SettingUp(c)
      PROVE  Trusted'
  <2>1. CASE BeginSetup(c)
    BY <1>1, <2>1, TrustBegins DEF BeginSetup, CallsTyped
  <2>2. CASE DialToSetUp(c)
    BY <1>1, <2>2, TrustDials DEF DialToSetUp, Steps, SetupSteps
  <2>3. CASE Detect(c) \/ Version(c) \/ Prepare(c) \/ Placed(c)
    BY <1>1, <1>2, <2>3 DEF Detect, Version, Prepare, Placed, CallsTyped
  <2>4. CASE GetToken(c) \/ SaveToken(c) \/ AddToken(c) \/ SendToken(c)
    BY <1>1, <1>2, <2>4 DEF GetToken, SaveToken, AddToken, SendToken, CallsTyped
  <2>5. CASE TokenSent(c) \/ LoadAliases(c) \/ SaveAliases(c)
    BY <1>1, <1>2, <2>5 DEF TokenSent, LoadAliases, SaveAliases, CallsTyped
  <2> QED BY <1>5, <2>1, <2>2, <2>3, <2>4, <2>5 DEF SettingUp
<1>6. ASSUME NEW c \in Calls, Controlling(c)
      PROVE  Trusted'
  <2>1. UNCHANGED <<net, laptop, target>>
    BY <1>6 DEF Controlling, Serve, Lstat, Unlink, Bind, ChmodSocket, ListenTcp, Stop, Kill,
                StatSocket, AskSocket, AskPort
  <2>2. pc' = [pc EXCEPT ![c] = pc'[c]] /\ pc'[c] \notin {"start", "dial"}
    BY <1>1, <1>6 DEF Controlling, Serve, Lstat, Unlink, Bind, ChmodSocket, ListenTcp, Stop, Kill,
                StatSocket, Prefer, AskSocket, AskPort, CallsTyped
  <2> QED BY <1>1, <1>2, <2>1, <2>2 DEF CallsTyped
<1>7. ASSUME Network
      PROVE  UNCHANGED <<pins, peer, db, calls>>
  BY <1>7 DEF Network, Cut, Rekey
<1> QED BY <1>2, <1>3, <1>4, <1>5, <1>6, <1>7, StepKinds DEF vars
------------------------------------------------------------------------------
(* A box whose token file a setup may have written. *)
Paired(b) ==
    \E s \in Calls : job[s].verb = "setup" /\ Box(s) = b /\ proc[s].prog = "token"
Local(c) == job[c].verb \in {"serve", "last"}
Live(d) == Socket(d) /\ pc[d] \notin {"start", "end"}
Found(b) == sock[b] # None /\ Listening(sock[b])

(* The daemons and their clients on their machines. *)
LocalSteps ==
    \A c \in Calls :
        /\ job[c].verb = "serve" /\ pc[c] \in {"lstat", "unlink", "bind", "chmodsock"} => Socket(c)
        /\ job[c].verb = "serve" /\ pc[c] = "listen" => Tcp(c)
        /\ Local(c) /\ pc[c] # "end" => code[c] = "-"
        /\ proc[c].prog = "token" =>
              job[c].verb = "setup" /\ pc[c] \in {"pairing", "loadaliases", "savealiases", "end"}
        /\ Socket(c) /\ code[c] = "killed" => Box(c) \in deserted
        /\ \A d \in steady[c] : job[c].verb = "last" /\ d \in Serving(Box(c))

(* What is under the paths, and who has the ports. *)
Binders ==
    /\ \A b \in Boxes : sock[b] # None =>
          /\ Socket(sock[b]) /\ Box(sock[b]) = b /\ pc[sock[b]] \in {"chmodsock", "serving", "end"}
    /\ \A b \in Boxes : port[b] # None =>
          Tcp(port[b]) /\ Box(port[b]) = b /\ pc[port[b]] = "serving"
    /\ \A d \in Calls : Tcp(d) /\ pc[d] = "serving" => port[Box(d)] = d

(* A box on which no two socket daemons met has at most one, which keeps the path that
   it has bound. *)
Orderly(b) ==
    /\ \A d, e \in Calls : Live(d) /\ Live(e) /\ Box(d) = b /\ Box(e) = b => d = e
    /\ \A d \in Calls : Socket(d) /\ Box(d) = b /\ pc[d] \in {"chmodsock", "serving"} => sock[b] = d
    /\ sock[b] # None => Found(b) \/ (pc[sock[b]] = "end" /\ code[sock[b]] = "killed")
    /\ \A c \in Calls : pc[c] = "asksocket" /\ Box(c) = b => b \in deserted \/ Found(b)
    /\ \A c \in Calls : pc[c] = "askport" /\ Box(c) = b => \A d \in steady[c] : Tcp(d)

(* The token that a daemon or a client holds is the box's, unless the box was paired. *)
TokensRead ==
    \A b \in Boxes :
        \/ Paired(b)
        \/ \A c \in Calls : Local(c) /\ Box(c) = b /\ pc[c] # "start" => held[c] = rtoken[b]

Answer(c) ==
    /\ code[c] = "disk" /\ steady[c] # {} =>
          Box(c) \in crowded \/ (Box(c) \in deserted /\ \A d \in steady[c] : Tcp(d))
    /\ code[c] = "unauthorized" => Paired(Box(c))
Answered == \A c \in Calls : job[c].verb = "last" => Answer(c)

Reachable ==
    LocalSteps /\ Binders /\ (\A b \in Boxes \ crowded : Orderly(b)) /\ TokensRead /\ Answered

------------------------------------------------------------------------------
(* A step that is not of a daemon or a client. *)
Aside ==
    /\ UNCHANGED <<job, sockVars>>
    /\ \A d \in Calls : Local(d) =>
          pc'[d] = pc[d] /\ code'[d] = code[d] /\ target'[d] = target[d] /\ held'[d] = held[d]

(* Who has started to write a token stays the one who has, and only such a setup
   changes the token file of its box. *)
TokensMove ==
    /\ \A d \in Calls : proc[d].prog = "token" => proc'[d].prog = "token" /\ target'[d] = target[d]
    /\ \A d \in Calls : proc'[d].prog = "token" =>
          job[d].verb = "setup" /\ pc'[d] \in {"pairing", "loadaliases", "savealiases", "end"}
    /\ \A b \in Boxes : rtoken'[b] = rtoken[b] \/ Paired(b)

(* Only daemons and clients touch sockets, ports and each other. *)
LEMMA OthersStandAside ==
    ASSUME Typed, [Next]_vars, ~\E c \in Calls : Controlling(c)
    PROVE  Aside
<1> USE DEF calls, laptop, pins, net, box, unpushed, unset, local, sockVars, Goto, End, Local
<1>1. job' = job /\ CallsTyped /\ JobsTyped
  BY JobsStay DEF Typed
<1>2. ASSUME NEW c \in Calls, Sending(c), UNCHANGED <<setupVars, sockVars>>
      PROVE  Aside
  BY <1>1, <1>2
     DEF Sending, Resolve, DialToSend, Dial, Connects, ExecIngest, WaitForIngest, Relayed, Post,
         CallsTyped, Aside
<1>3. ASSUME NEW c \in Calls, Ingest(c) \/ BoxStep(c)
      PROVE  UNCHANGED calls
  BY <1>3 DEF Ingest, Ingesting, IngestStarts, BadFrame, ReadMagic, ReadHead, SpillByte, Spilled,
              SaveFails, SaveSpilled, SaveByte, SaveLast, FinishIngest,
              BoxStep, OnBox, OpenTemp, WriteTemp, ChmodTemp, MoveTemp, Fetch, OpenToken, WriteToken
<1>4. ASSUME NEW c \in Calls, SettingUp(c), UNCHANGED <<pushVars, sockVars>>
      PROVE  Aside
  <2>1. job[c].verb = "setup"
    BY <1>1, <1>4
       DEF SettingUp, BeginSetup, DialToSetUp, Installing, Detect, Version, Prepare, Placed,
           GetToken, SaveToken, AddToken, SendToken, TokenSent, LoadAliases, SaveAliases,
           CallsTyped, StepsOfVerb, SendSteps, ServeSteps, LastSteps, JobsTyped, Jobs
  <2>2. \A d \in Calls \ {c} : pc'[d] = pc[d] /\ code'[d] = code[d]
    BY <1>1, <1>4
       DEF SettingUp, BeginSetup, DialToSetUp, Dial, Connects, Detect, Version, Prepare, Placed,
           GetToken, SaveToken, AddToken, SendToken, TokenSent, LoadAliases, SaveAliases, CallsTyped
  <2>3. UNCHANGED target /\ \A d \in Calls \ {c} : held'[d] = held[d]
    <3>1. held \in [Calls -> Calls \cup {None, "first"}]
      BY DEF Typed, TokensTyped
    <3> QED BY <1>4, <3>1
       DEF SettingUp, BeginSetup, DialToSetUp, Dial, Connects, Detect, Version, Prepare, Placed,
           GetToken, SaveToken, AddToken, SendToken, TokenSent, LoadAliases, SaveAliases
  <2> QED BY <1>1, <1>4, <2>1, <2>2, <2>3 DEF Aside
<1>5. ASSUME Network
      PROVE  UNCHANGED <<calls, sockVars>>
  BY <1>5 DEF Network, Cut, Rekey
<1>6. CASE UNCHANGED <<calls, sockVars>>
  BY <1>1, <1>6 DEF Aside
<1> QED BY <1>2, <1>3, <1>4, <1>5, <1>6, StepKinds DEF vars

(* A token file changes only under a setup that is pairing the box. *)
LEMMA TokensAreWrittenBySetups ==
    ASSUME Typed, LocalSteps, [Next]_vars
    PROVE  TokensMove
<1> USE DEF calls, laptop, pins, net, box, unpushed, unset, local, Goto, End
<1>1. /\ job' = job /\ CallsTyped /\ TokensTyped
      /\ proc \in [Calls -> Procs]
      /\ \A d \in Calls : proc[d].prog = "token" => 
            job[d].verb = "setup" /\ pc[d] \in {"pairing", "loadaliases", "savealiases", "end"}
            /\ Box(d) \in Boxes
  BY JobsStay DEF Typed, ProcsTyped, LocalSteps, CallsTyped
<1>2. CASE UNCHANGED <<rtoken, proc, target>>
           /\ \A d \in Calls : pc[d] \in {"pairing", "loadaliases", "savealiases", "end"} =>
                 pc'[d] \in {"pairing", "loadaliases", "savealiases", "end"}
  BY <1>1, <1>2 DEF TokensMove
<1>3. ASSUME NEW c \in Calls, NEW prog, NEW units, prog # "token", Exec(c, prog, units),
              pc[c] \notin {"pairing", "loadaliases", "savealiases", "end"},
              UNCHANGED <<rtoken, target>>, \A d \in Calls \ {c} : pc'[d] = pc[d]
       PROVE  TokensMove
  <2>1. \A d \in Calls \ {c} : proc'[d] = proc[d]
    BY <1>1, <1>3 DEF Exec
  <2>2. proc'[c].prog # "token"
    BY <1>1, <1>3 DEF Exec, Idle
  <2>3. proc[c].prog # "token"
    BY <1>1, <1>3
  <2>4. \A d \in Calls : proc[d].prog = "token" <=> proc'[d].prog = "token"
    BY <2>1, <2>2, <2>3
  <2>5. \A d \in Calls : proc[d].prog = "token" => pc'[d] = pc[d]
    BY <1>3, <2>3
  <2> QED BY <1>1, <1>3, <2>4, <2>5 DEF TokensMove
<1>4. ASSUME NEW c \in Calls, Sending(c)
      PROVE  TokensMove
  <2>1. CASE Resolve(c)
    BY <1>1, <2>1 DEF Resolve, CallsTyped, TokensMove
  <2>2. CASE DialToSend(c)
    BY <1>1, <2>2 DEF DialToSend, Dial, Connects, CallsTyped, TokensMove
  <2>3. CASE ExecIngest(c)
    <3>1. UNCHANGED <<rtoken, target>> /\ pc[c] = "exec" /\ \A d \in Calls \ {c} : pc'[d] = pc[d]
      BY <1>1, <2>3 DEF ExecIngest, CallsTyped
    <3>2. UNCHANGED proc \/ Exec(c, "ingest", Units(c))
      BY <2>3 DEF ExecIngest
    <3> QED BY <1>2, <1>3, <3>1, <3>2
  <2>4. CASE WaitForIngest(c) \/ Post(c)
    BY <1>1, <2>4 DEF WaitForIngest, Relayed, Post, CallsTyped, TokensMove
  <2> QED BY <1>4, <2>1, <2>2, <2>3, <2>4 DEF Sending
<1>5. ASSUME NEW c \in Calls, Ingest(c)
      PROVE  UNCHANGED <<calls, rtoken>> /\ \A d \in Calls : proc'[d].prog = proc[d].prog
  <2>1. UNCHANGED <<calls, rtoken>>
    BY <1>5 DEF Ingest, Ingesting, IngestStarts, BadFrame, ReadMagic, ReadHead, SpillByte, Spilled,
              SaveFails, SaveSpilled, SaveByte, SaveLast, FinishIngest
  <2>2. CASE IngestStarts(c) \/ BadFrame(c) \/ ReadMagic(c) \/ ReadHead(c) \/ SpillByte(c)
    BY <1>1, <2>1, <2>2
       DEF IngestStarts, BadFrame, ReadMagic, ReadHead, SpillByte, Consume, Exit, Step, Procs
  <2>3. CASE Spilled(c)
    BY <1>1, <2>1, <2>3 DEF Spilled, Procs
  <2>4. CASE SaveFails(c) \/ SaveSpilled(c)
    <3>1. Exit(c, "remoteIO") \/ Exit(c, "toolarge") \/ proc' = [proc EXCEPT ![c].item = @ + 1]
      BY <2>4 DEF SaveFails, SaveSpilled
    <3> QED BY <1>1, <2>1, <3>1 DEF Exit, Procs
  <2>5. CASE SaveByte(c) \/ SaveLast(c) \/ FinishIngest(c)
    BY <1>1, <2>1, <2>5 DEF SaveByte, SaveLast, FinishIngest, Consume, Exit, Step, Procs
  <2> QED BY <1>5, <2>2, <2>3, <2>4, <2>5 DEF Ingest
<1>6. ASSUME NEW c \in Calls, SettingUp(c)
      PROVE  TokensMove
  <2>1. CASE BeginSetup(c)
    BY <1>1, <2>1 DEF BeginSetup, CallsTyped, TokensMove
  <2>2. CASE DialToSetUp(c)
    BY <1>1, <2>2 DEF DialToSetUp, Dial, Connects, CallsTyped, TokensMove
  <2>3. CASE Detect(c) \/ Version(c) \/ Placed(c)
    BY <1>1, <2>3 DEF Detect, Version, Placed, CallsTyped, TokensMove
  <2>4. CASE Prepare(c)
    <3>1. UNCHANGED <<rtoken, target>> /\ pc[c] = "prepare" /\ \A d \in Calls \ {c} : pc'[d] = pc[d]
      BY <1>1, <2>4 DEF Prepare, CallsTyped
    <3>2. UNCHANGED proc \/ \E prog \in {"release", "place"} : Exec(c, prog, BinUnits)
      BY <2>4 DEF Prepare
    <3> QED BY <1>2, <1>3, <3>1, <3>2
  <2>5. CASE GetToken(c) \/ SaveToken(c) \/ AddToken(c)
    BY <1>1, <2>5 DEF GetToken, SaveToken, AddToken, CallsTyped, TokensMove
  <2>6. CASE SendToken(c)
    <3>1. job[c].verb = "setup"
      BY <1>1, <2>6 DEF SendToken, CallsTyped, StepsOfVerb, SendSteps, ServeSteps, LastSteps, Typed,
                        JobsTyped, Jobs
    <3> QED BY <1>1, <2>6, <3>1 DEF SendToken, Exec, Idle, CallsTyped, TokensMove
  <2>7. CASE TokenSent(c) \/ LoadAliases(c) \/ SaveAliases(c)
    BY <1>1, <2>7 DEF TokenSent, LoadAliases, SaveAliases, CallsTyped, TokensMove
  <2> QED BY <1>6, <2>1, <2>2, <2>3, <2>4, <2>5, <2>6, <2>7 DEF SettingUp
<1>7. ASSUME NEW c \in Calls, BoxStep(c)
      PROVE  /\ UNCHANGED calls /\ \A d \in Calls : proc'[d].prog = proc[d].prog
             /\ \A b \in Boxes : rtoken'[b] = rtoken[b] \/ Paired(b)
  <2>1. UNCHANGED calls
    BY <1>7 DEF BoxStep, OnBox, OpenTemp, WriteTemp, ChmodTemp, MoveTemp, Fetch, OpenToken, WriteToken
  <2>2. \A d \in Calls : proc'[d].prog = proc[d].prog
    BY <1>1, <1>7 DEF BoxStep, OpenTemp, WriteTemp, ChmodTemp, MoveTemp, Fetch, OpenToken, WriteToken,
                      Exit, Step, Procs
  <2>3. CASE OpenTemp(c) \/ WriteTemp(c) \/ ChmodTemp(c) \/ MoveTemp(c) \/ Fetch(c)
    <3>1. UNCHANGED rtoken
      BY <2>3 DEF OpenTemp, WriteTemp, ChmodTemp, MoveTemp, Fetch
    <3> QED BY <2>1, <2>2, <3>1
  <2>4. CASE OpenToken(c) \/ WriteToken(c)
    <3>1. Paired(Box(c)) /\ \A b \in Boxes \ {Box(c)} : rtoken'[b] = rtoken[b]
      BY <1>1, <2>4 DEF OpenToken, WriteToken, At, Paired, TokensTyped
    <3> QED BY <2>1, <2>2, <3>1
  <2> QED BY <1>7, <2>3, <2>4 DEF BoxStep
<1>8. ASSUME NEW c \in Calls, Controlling(c)
      PROVE  /\ UNCHANGED <<rtoken, proc, target>>
             /\ \A d \in Calls : pc[d] \in {"pairing", "loadaliases", "savealiases", "end"} =>
                   pc'[d] \in {"pairing", "loadaliases", "savealiases", "end"}
  BY <1>1, <1>8 DEF Controlling, Serve, Lstat, Unlink, Bind, ChmodSocket, ListenTcp, Stop, Kill,
              StatSocket, Prefer, AskSocket, AskPort, CallsTyped
<1>9. ASSUME Network
      PROVE  UNCHANGED <<calls, rtoken, proc>>
  BY <1>9 DEF Network, Cut, Rekey
<1>10. ASSUME UNCHANGED calls, \A d \in Calls : proc'[d].prog = proc[d].prog,
             \A b \in Boxes : rtoken'[b] = rtoken[b] \/ Paired(b)
      PROVE  TokensMove
  BY <1>1, <1>10 DEF TokensMove
<1> QED BY <1>2, <1>4, <1>5, <1>6, <1>7, <1>8, <1>9, <1>10, StepKinds DEF vars

(* A box that was paired stays a box that was paired. *)
LEMMA PairedStays ==
    ASSUME job' = job, TokensMove, NEW b, Paired(b)
    PROVE  Paired(b)'
BY DEF Paired, TokensMove, Box

(* Nobody is serving, and nothing is bound. *)
LEMMA InitReachable == Init => Reachable
<1> SUFFICES ASSUME Init PROVE Reachable
  OBVIOUS
<1>1. /\ \A b \in Boxes : sock[b] = None /\ port[b] = None
      /\ \A c \in Calls : /\ steady[c] = {} /\ pc[c] \in {"start", "end"} /\ code[c] = "-"
                          /\ proc[c].prog = "none"
      /\ crowded = {}
  BY DEF Init, HostsInit, SocketInit, Idle
<1>2. \A c \in Calls : Local(c) => pc[c] = "start"
  BY DEF Init, HostsInit, Local
<1> QED BY <1>1, <1>2
        DEF Reachable, LocalSteps, Binders, Orderly, TokensRead, Answered, Answer, Live, Found,
            Listening, Socket, Tcp

(* Steps of others change nothing for daemons and clients, but for the tokens. *)
LEMMA AsideKeepsReachable ==
    ASSUME Typed, Typed', Reachable, Aside, TokensMove
    PROVE  Reachable'
<1>1. /\ UNCHANGED <<job, sock, port, steady, crowded, deserted>>
      /\ \A d \in Calls : Local(d) =>
            pc'[d] = pc[d] /\ code'[d] = code[d] /\ Box(d)' = Box(d) /\ held'[d] = held[d]
  BY DEF Aside, sockVars, Box
<1>2. \A d \in Calls : pc[d] \in {"asksocket", "askport"} \/ pc'[d] \in {"asksocket", "askport"} => Local(d)
  <2>1. \A d \in Calls : job[d].verb \in {"none", "send", "post", "setup", "serve", "last"}
    BY DEF Typed, JobsTyped, Jobs
  <2>2. StepsOfVerb /\ StepsOfVerb'
    BY DEF Typed, CallsTyped
  <2> QED BY <1>1, <2>1, <2>2 DEF StepsOfVerb, SendSteps, SetupSteps, ServeSteps, LastSteps, Local
<1>3. \A d \in Calls : Socket(d)' = Socket(d) /\ Tcp(d)' = Tcp(d)
  BY <1>1 DEF Socket, Tcp
<1>4. \A d \in Calls : Socket(d) \/ Tcp(d) => Local(d)
  BY DEF Socket, Tcp, Local
<1>5. /\ sock \in [Boxes -> Calls \cup {None}] /\ port \in [Boxes -> Calls \cup {None}]
      /\ steady \in [Calls -> SUBSET Calls]
  BY DEF Typed, SocketTyped, SocketTypeOK
<1>6. LocalSteps'
  <2>1. ASSUME NEW c \in Calls, NEW d \in steady[c]
        PROVE  job'[c].verb = "last" /\ d \in Serving(Box(c))'
    <3>1. d \in Calls /\ job[c].verb = "last" /\ d \in Serving(Box(c))
      BY <1>5, <2>1 DEF Reachable, LocalSteps
    <3>2. job[d].verb = "serve"
      BY <3>1 DEF Serving
    <3> QED BY <1>1, <3>1, <3>2 DEF Serving, Local
  <2>2. ASSUME NEW c \in Calls
        PROVE  /\ job'[c].verb = "serve" /\ pc'[c] \in {"lstat", "unlink", "bind", "chmodsock"} => Socket(c)'
               /\ job'[c].verb = "serve" /\ pc'[c] = "listen" => Tcp(c)'
               /\ Local(c)' /\ pc'[c] # "end" => code'[c] = "-"
               /\ Socket(c)' /\ code'[c] = "killed" => Box(c)' \in deserted'
    BY <1>1, <1>3, <1>4 DEF Reachable, LocalSteps, Local
  <2> QED BY <1>1, <2>1, <2>2 DEF TokensMove, LocalSteps
<1>7. Binders'
  BY <1>1, <1>3, <1>4, <1>5 DEF Reachable, Binders
<1>8. ASSUME NEW b \in Boxes \ crowded
      PROVE  Orderly(b)'
  <2>1. Orderly(b) /\ Binders
    BY <1>8 DEF Reachable
  <2>2. \A d \in Calls : Live(d)' = Live(d)
    BY <1>1, <1>3, <1>4 DEF Live
  <2>3. Found(b)' = Found(b)
    BY <1>1, <1>4, <1>5, <1>8, <2>1 DEF Found, Listening, Binders
  <2>4. \A d, e \in Calls : Live(d)' /\ Live(e)' /\ Box(d)' = b /\ Box(e)' = b => d = e
    BY <1>1, <1>4, <2>1, <2>2 DEF Orderly, Live
  <2>5. \A d \in Calls : Socket(d)' /\ Box(d)' = b /\ pc'[d] \in {"chmodsock", "serving"} => sock'[b] = d
    BY <1>1, <1>3, <1>4, <2>1 DEF Orderly
  <2>6. sock'[b] # None => Found(b)' \/ (pc'[sock[b]] = "end" /\ code'[sock[b]] = "killed")
    <3>1. sock[b] # None => sock[b] \in Calls /\ Local(sock[b])
      BY <1>4, <1>5, <1>8, <2>1 DEF Binders
    <3> QED BY <1>1, <2>1, <2>3, <3>1 DEF Orderly
  <2>7. \A c \in Calls : pc'[c] = "asksocket" /\ Box(c)' = b => b \in deserted' \/ Found(b)'
    BY <1>1, <1>2, <2>1, <2>3 DEF Orderly
  <2>8. \A c \in Calls : pc'[c] = "askport" /\ Box(c)' = b => \A d \in steady'[c] : Tcp(d)'
    BY <1>1, <1>2, <1>3, <1>5, <2>1 DEF Orderly
  <2> QED BY <1>1, <2>4, <2>5, <2>6, <2>7, <2>8 DEF Orderly
<1>9. TokensRead'
  <2> SUFFICES ASSUME NEW b \in Boxes, ~Paired(b)'
               PROVE  \A c \in Calls : Local(c)' /\ Box(c)' = b /\ pc'[c] # "start" => held'[c] = rtoken'[b]
    BY DEF TokensRead
  <2>1. ~Paired(b) /\ rtoken'[b] = rtoken[b]
    BY <1>1, PairedStays DEF TokensMove
  <2> QED BY <1>1, <2>1 DEF Reachable, TokensRead, Local
<1>10. ASSUME NEW c \in Calls, job[c].verb = "last"
       PROVE  Answer(c)'
  <2>1. code'[c] = code[c] /\ Box(c)' = Box(c)
    BY <1>1, <1>10 DEF Local
  <2>2. Answer(c)
    BY <1>10 DEF Reachable, Answered
  <2>3. code'[c] = "unauthorized" => Paired(Box(c))'
    BY <1>1, <2>1, <2>2 DEF Answer, Paired, TokensMove, Box
  <2> QED BY <1>1, <1>3, <1>5, <2>1, <2>2, <2>3 DEF Answer
<1> QED BY <1>1, <1>6, <1>7, <1>8, <1>9, <1>10 DEF Reachable, Answered

------------------------------------------------------------------------------
(* What every step of a daemon or a client leaves alone. *)
Frame(c) ==
    /\ UNCHANGED <<job, target, rtoken, proc>>
    /\ Local(c) /\ Box(c) \in Boxes
    /\ \A d \in Calls : Box(d)' = Box(d) /\ Socket(d)' = Socket(d) /\ Tcp(d)' = Tcp(d)
    /\ \A d \in Calls \ {c} : pc'[d] = pc[d] /\ code'[d] = code[d] /\ held'[d] = held[d]
    /\ \A b : Paired(b)' <=> Paired(b)
    /\ crowded \subseteq crowded' /\ deserted \subseteq deserted'
    /\ \A d \in Calls : Socket(d) => ~Tcp(d)

(* Daemons and clients leave calls of other verbs, and tokens, alone. *)
LEMMA ControlsFrame ==
    ASSUME Typed, NEW c \in Calls, Controlling(c)
    PROVE  Frame(c)
<1> USE DEF calls, laptop, pins, net, box, local, sockVars, Goto, End
<1>1. UNCHANGED <<job, target, rtoken, proc>> /\ crowded \subseteq crowded' /\ deserted \subseteq deserted'
  BY DEF Controlling, Serve, Lstat, Unlink, Bind, ChmodSocket, ListenTcp, Stop, Kill, StatSocket,
         AskSocket, AskPort
<1>2. \A d \in Calls \ {c} : pc'[d] = pc[d] /\ code'[d] = code[d]
  BY DEF Controlling, Serve, Lstat, Unlink, Bind, ChmodSocket, ListenTcp, Stop, Kill, StatSocket,
         AskSocket, AskPort, Typed, CallsTyped
<1>3. \A d \in Calls \ {c} : held'[d] = held[d]
  BY DEF Controlling, Serve, Lstat, Unlink, Bind, ChmodSocket, ListenTcp, Stop, Kill, StatSocket,
         AskSocket, AskPort, Typed, TokensTyped
<1>4. Local(c)
  <2>1. job[c].verb \in {"none", "send", "post", "setup", "serve", "last"} /\ StepsOfVerb
    BY DEF Typed, JobsTyped, Jobs, CallsTyped
  <2>2. \/ job[c].verb \in {"serve", "last"}
        \/ pc[c] \in {"lstat", "unlink", "bind", "chmodsock", "listen", "serving", "asksocket", "askport"}
    BY DEF Controlling, Serve, Lstat, Unlink, Bind, ChmodSocket, ListenTcp, Stop, Kill, StatSocket,
           AskSocket, AskPort
  <2> QED BY <2>1, <2>2 DEF StepsOfVerb, SendSteps, SetupSteps, Local
<1>5. Box(c) \in Boxes
  BY <1>4 DEF Typed, CallsTyped, Local
<1> QED BY <1>1, <1>2, <1>3, <1>4, <1>5 DEF Frame, Box, Socket, Tcp, Paired

(* A killed socket daemon leaves its box deserted; steady daemons still serve. *)
LEMMA LocalStepsKept ==
    ASSUME Typed, Reachable, NEW c \in Calls, Controlling(c)
    PROVE  LocalSteps'
<1> USE DEF Goto, End
<1>1. Frame(c) /\ LocalSteps
  BY ControlsFrame DEF Reachable
<1>2. /\ pc \in [Calls -> Steps] /\ code \in [Calls -> Exits] /\ StepsOfVerb
      /\ steady \in [Calls -> SUBSET Calls]
      /\ job[c].verb = "serve" => job[c].listen \in {"socket", "tcp"}
  BY DEF Typed, CallsTyped, SocketTyped, JobsTyped, Jobs
<1>3. /\ job[c].verb = "serve" /\ pc'[c] \in {"lstat", "unlink", "bind", "chmodsock"} => Socket(c)
      /\ job[c].verb = "serve" /\ pc'[c] = "listen" => Tcp(c)
      /\ pc'[c] # "end" => code'[c] = "-"
      /\ Socket(c) /\ code'[c] = "killed" => Box(c) \in deserted'
  <2>1. CASE Serve(c)
    BY <1>1, <1>2, <2>1 DEF Serve, Frame, LocalSteps, Socket, Tcp
  <2>2. CASE Lstat(c) \/ Unlink(c) \/ Bind(c)
    BY <1>1, <1>2, <2>2 DEF Lstat, Unlink, Bind, Frame, LocalSteps, Socket, Tcp
  <2>3. CASE ChmodSocket(c) \/ ListenTcp(c)
    BY <1>1, <1>2, <2>3 DEF ChmodSocket, ListenTcp, Frame, LocalSteps, Socket, Tcp
  <2>4. CASE Stop(c) \/ Kill(c)
    BY <1>1, <1>2, <2>4 DEF Stop, Kill, Frame, LocalSteps, Socket, Tcp
  <2>5. CASE StatSocket(c) \/ AskSocket(c) \/ AskPort(c)
    BY <1>1, <1>2, <2>5 DEF StatSocket, Prefer, AskSocket, AskPort, Frame, LocalSteps, Socket, Tcp
  <2> QED BY <2>1, <2>2, <2>3, <2>4, <2>5 DEF Controlling
<1>4. ASSUME NEW d \in Calls, NEW e \in steady'[d]
      PROVE  job[d].verb = "last" /\ e \in Serving(Box(d))'
  <2>1. CASE pc'[c] = "serving" \/ pc[c] # "serving"
    <3>1. \A x \in Calls : pc[x] = "serving" => pc'[x] = "serving"
      BY <1>1, <2>1 DEF Frame
    <3>2. e \in steady[d] \/ (e \in Serving(Box(d)) /\ job[d].verb = "last")
      <4>1. CASE Stop(c) \/ Kill(c)
        BY <1>2, <1>4, <4>1 DEF Stop, Kill, Gone
      <4>2. CASE StatSocket(c)
        BY <1>2, <1>4, <4>2 DEF StatSocket
      <4>3. CASE ~(Stop(c) \/ Kill(c) \/ StatSocket(c))
        BY <1>4, <4>3 DEF Controlling, Serve, Lstat, Unlink, Bind, ChmodSocket, ListenTcp, AskSocket,
                          AskPort, sockVars
      <4> QED BY <4>1, <4>2, <4>3
    <3>3. e \in Serving(Box(d)) /\ job[d].verb = "last"
      BY <1>1, <3>2 DEF LocalSteps
    <3> QED BY <1>1, <3>1, <3>3 DEF Serving, Frame
  <2>2. CASE pc[c] = "serving" /\ pc'[c] # "serving"
    <3>1. Stop(c) \/ Kill(c)
      BY <1>2, <2>2 DEF Controlling, Serve, Lstat, Unlink, Bind, ChmodSocket, ListenTcp, StatSocket,
                        AskSocket, AskPort
    <3>2. e \in steady[d] /\ e # c
      BY <1>4, <3>1 DEF Stop, Kill, Gone
    <3>3. e \in Serving(Box(d)) /\ job[d].verb = "last"
      BY <1>1, <3>2 DEF LocalSteps
    <3> QED BY <1>1, <3>2, <3>3 DEF Serving, Frame
  <2> QED BY <2>1, <2>2
<1>5. \A d \in Calls : proc[d].prog = "token" =>
         job[d].verb = "setup" /\ pc'[d] \in {"pairing", "loadaliases", "savealiases", "end"}
  BY <1>1 DEF LocalSteps, Frame, Local
<1> QED BY <1>1, <1>3, <1>4, <1>5 DEF LocalSteps, Frame, Local

(* Who is under the path bound it, and only a daemon that serves has the port. *)
LEMMA BindersKept ==
    ASSUME Typed, Reachable, NEW c \in Calls, Controlling(c)
    PROVE  Binders'
<1> USE DEF Goto, End
<1>1. Frame(c) /\ LocalSteps /\ Binders
  BY ControlsFrame DEF Reachable
<1>2. /\ pc \in [Calls -> Steps] /\ StepsOfVerb
      /\ sock \in [Boxes -> Calls \cup {None}] /\ port \in [Boxes -> Calls \cup {None}]
      /\ None \notin Calls
      /\ job[c].verb = "serve" => job[c].listen \in {"socket", "tcp"}
  BY HostsAssumption DEF Typed, CallsTyped, SocketTyped, SocketTypeOK, JobsTyped, Jobs
<1>3. job[c].verb \in {"serve", "last"}
  BY <1>1 DEF Frame, Local
<1>4. CASE Serve(c) \/ Lstat(c) \/ StatSocket(c) \/ AskSocket(c) \/ AskPort(c)
  BY <1>1, <1>2, <1>3, <1>4
     DEF Serve, Lstat, StatSocket, Prefer, AskSocket, AskPort, sockVars, Frame, Binders, StepsOfVerb,
         LastSteps
<1>5. CASE Unlink(c)
  BY <1>1, <1>2, <1>5 DEF Unlink, Sock, Frame, Binders
<1>6. CASE Bind(c)
  <2>1. Socket(c)
    BY <1>1, <1>2, <1>3, <1>6 DEF Bind, LocalSteps, StepsOfVerb, LastSteps
  <2> QED BY <1>1, <1>2, <1>6, <2>1 DEF Bind, Sock, Frame, Binders
<1>7. CASE ChmodSocket(c)
  <2>1. Socket(c)
    BY <1>1, <1>2, <1>3, <1>7 DEF ChmodSocket, LocalSteps, StepsOfVerb, LastSteps
  <2> QED BY <1>1, <1>2, <1>7, <2>1 DEF ChmodSocket, sockVars, Frame, Binders
<1>8. CASE ListenTcp(c)
  <2>1. Tcp(c)
    BY <1>1, <1>2, <1>3, <1>8 DEF ListenTcp, LocalSteps, StepsOfVerb, LastSteps
  <2>2. CASE port[Box(c)] = None
    <3>1. /\ UNCHANGED sock /\ pc[c] = "listen" /\ pc'[c] = "serving"
          /\ port' = [port EXCEPT ![Box(c)] = c]
      BY <1>2, <1>8, <2>2 DEF ListenTcp
    <3>2. \A b \in Boxes : sock[b] # c
      BY <1>1, <1>2, <2>1 DEF Frame, Binders
    <3>3. \A d \in Calls \ {c} : Tcp(d) /\ pc[d] = "serving" => Box(d) # Box(c)
      BY <1>1, <1>2, <2>2 DEF Binders
    <3> QED BY <1>1, <1>2, <2>1, <3>1, <3>2, <3>3 DEF Frame, Binders
  <2>3. CASE port[Box(c)] # None
    BY <1>1, <1>2, <1>8, <2>1, <2>3 DEF ListenTcp, Frame, Binders
  <2> QED BY <2>2, <2>3
<1>9. CASE Stop(c) \/ Kill(c)
  <2>1. \A b \in Boxes : sock'[b] \in {sock[b], None}
    BY <1>1, <1>2, <1>9 DEF Stop, Kill, Unlinked, Sock, Frame
  <2>2. /\ \A b \in Boxes \ {Box(c)} : port'[b] = port[b]
        /\ port'[Box(c)] = IF port[Box(c)] = c THEN None ELSE port[Box(c)]
    BY <1>1, <1>2, <1>9 DEF Stop, Kill, FreePort, Frame
  <2>3. pc'[c] = "end"
    BY <1>2, <1>9 DEF Stop, Kill
  <2>4. \A b \in Boxes : port[b] = c => b = Box(c)
    BY <1>1, <1>2 DEF Binders
  <2>5. \A b \in Boxes : port'[b] # None => port'[b] = port[b] /\ port[b] # c
    BY <2>2, <2>4
  <2>6. \A d \in Calls : Tcp(d) /\ pc'[d] = "serving" => d # c /\ pc[d] = "serving" /\ port[Box(d)] = d
    BY <1>1, <2>3 DEF Frame, Binders
  <2>7. \A d \in Calls : Tcp(d) => Box(d) \in Boxes
    BY DEF Tcp, Typed, CallsTyped
  <2>8. \A d \in Calls : Tcp(d) /\ pc'[d] = "serving" => port'[Box(d)] = d
    BY <2>2, <2>6, <2>7
  <2> QED BY <1>1, <1>2, <2>1, <2>3, <2>5, <2>8 DEF Frame, Binders
<1> QED BY <1>4, <1>5, <1>6, <1>7, <1>8, <1>9 DEF Controlling

(* The token is read by the first step. *)
LEMMA TokensReadKept ==
    ASSUME Typed, Reachable, NEW c \in Calls, Controlling(c)
    PROVE  TokensRead'
<1> USE DEF Goto, End
<1>1. Frame(c) /\ TokensRead
  BY ControlsFrame DEF Reachable
<1>2. pc'[c] # "start" => held'[c] = IF pc[c] = "start" THEN rtoken[Box(c)] ELSE held[c]
  BY DEF Controlling, Serve, Lstat, Unlink, Bind, ChmodSocket, ListenTcp, Stop, Kill, StatSocket,
         AskSocket, AskPort, Typed, CallsTyped, TokensTyped
<1> QED BY <1>1, <1>2 DEF Frame, TokensRead, Local

(* On a box where no two socket daemons have met, the path is the one daemon's. *)
LEMMA OrderlyKept ==
    ASSUME Typed, Reachable, NEW c \in Calls, Controlling(c), NEW b \in Boxes \ crowded'
    PROVE  Orderly(b)'
<1> USE DEF Goto, End
<1>1. /\ Frame(c) /\ LocalSteps /\ Binders
      /\ b \in Boxes /\ b \notin crowded /\ Orderly(b)
  BY ControlsFrame DEF Reachable, Frame
<1>2. /\ pc \in [Calls -> Steps] /\ code \in [Calls -> Exits] /\ StepsOfVerb
      /\ sock \in [Boxes -> Calls \cup {None}] /\ port \in [Boxes -> Calls \cup {None}]
      /\ steady \in [Calls -> SUBSET Calls]
      /\ None \notin Calls
      /\ job[c].verb = "serve" => job[c].listen \in {"socket", "tcp"}
  BY HostsAssumption DEF Typed, CallsTyped, SocketTyped, SocketTypeOK, JobsTyped, Jobs
<1>3. job[c].verb \in {"serve", "last"}
  BY <1>1 DEF Frame, Local
(* Only a socket daemon of the box that starts can be a second one. *)
<1>4. \A d, e \in Calls : Live(d)' /\ Live(e)' /\ Box(d)' = b /\ Box(e)' = b => d = e
  <2>1. CASE Serve(c) /\ Socket(c) /\ Box(c) = b
    <3>1. \A d \in Calls : ~(Live(d) /\ Box(d) = b)
      <4>1. crowded' = crowded
        BY <1>1, <2>1 DEF Serve, Tcp, Socket
      <4>2. {d \in Calls : Socket(d) /\ Box(d) = Box(c) /\ pc[d] \notin {"start", "end"}} = {}
        BY <2>1, <1>1, <4>1 DEF Serve, Tcp, Socket
      <4> QED BY <2>1, <4>2 DEF Live
    <3> QED BY <1>1, <2>1, <3>1 DEF Live, Frame
  <2>2. CASE ~(Serve(c) /\ Socket(c) /\ Box(c) = b)
    <3>1. \A d \in Calls : Live(d)' /\ Box(d)' = b => Live(d) /\ Box(d) = b
      <4>1. Live(c)' => pc[c] \notin {"start", "end"} \/ Serve(c)
        BY <1>1, <1>3 DEF Live, Frame, Socket, Controlling, Lstat, Unlink, Bind, ChmodSocket, ListenTcp,
                          Stop, Kill, StatSocket, AskSocket, AskPort
      <4> QED BY <1>1, <2>2, <4>1 DEF Live, Frame
    <3> QED BY <1>1, <3>1 DEF Orderly
  <2> QED BY <2>1, <2>2
(* Who takes the path away, or gives it up. *)
<1>5. CASE Box(c) # b
  <2>1. sock'[b] = sock[b]
    BY <1>1, <1>2, <1>5 DEF Controlling, Serve, Lstat, Unlink, Bind, ChmodSocket, ListenTcp, Stop, Kill,
              StatSocket, AskSocket, AskPort, Sock, Unlinked, sockVars, Frame
  <2>2. sock[b] # None => sock[b] \in Calls \ {c}
    BY <1>1, <1>2, <1>5 DEF Binders
  <2>3. Found(b)' = Found(b)
    BY <1>1, <2>1, <2>2 DEF Found, Listening, Frame
  <2>4. \A d \in Calls \ {c} : steady'[d] \subseteq steady[d]
    BY <1>1, <1>2 DEF Controlling, Serve, Lstat, Unlink, Bind, ChmodSocket, ListenTcp, Stop, Kill,
              StatSocket, AskSocket, AskPort, Gone, sockVars
  <2>5. \A d \in Calls : Box(d)' = b => d # c
    BY <1>1, <1>5 DEF Frame
  <2>6. \A d \in Calls : Socket(d)' /\ Box(d)' = b /\ pc'[d] \in {"chmodsock", "serving"} => sock'[b] = d
    BY <1>1, <2>1, <2>5 DEF Orderly, Frame
  <2>7. sock'[b] # None => Found(b)' \/ (pc'[sock'[b]] = "end" /\ code'[sock'[b]] = "killed")
    BY <1>1, <2>1, <2>2, <2>3 DEF Orderly, Frame
  <2>8. \A d \in Calls : pc'[d] = "asksocket" /\ Box(d)' = b => b \in deserted' \/ Found(b)'
    BY <1>1, <2>3, <2>5 DEF Orderly, Frame
  <2>9. \A d \in Calls : pc'[d] = "askport" /\ Box(d)' = b => \A e \in steady'[d] : Tcp(e)'
    BY <1>1, <1>2, <2>4, <2>5 DEF Orderly, Frame
  <2> QED BY <1>4, <2>6, <2>7, <2>8, <2>9 DEF Orderly
(* A step on the box that leaves the path and who listens alone. *)
<1>6. CASE /\ Box(c) = b /\ UNCHANGED <<sock, steady>>
           /\ pc[c] \notin {"chmodsock", "serving"}
           /\ pc'[c] \notin {"chmodsock", "serving", "asksocket", "askport"}
           /\ sock[b] # c
  <2>1. sock'[b] = sock[b] /\ (sock[b] # None => sock[b] \in Calls \ {c})
    BY <1>1, <1>2, <1>6
  <2>2. Found(b)' = Found(b)
    BY <1>1, <2>1 DEF Found, Listening, Frame
  <2>3. \A d \in Calls : Socket(d)' /\ Box(d)' = b /\ pc'[d] \in {"chmodsock", "serving"} => sock'[b] = d
    BY <1>1, <1>6, <2>1 DEF Orderly, Frame
  <2>4. sock'[b] # None => Found(b)' \/ (pc'[sock'[b]] = "end" /\ code'[sock'[b]] = "killed")
    BY <1>1, <2>1, <2>2 DEF Orderly, Frame
  <2>5. \A d \in Calls : pc'[d] = "asksocket" /\ Box(d)' = b => b \in deserted' \/ Found(b)'
    BY <1>1, <1>6, <2>2 DEF Orderly, Frame
  <2>6. \A d \in Calls : pc'[d] = "askport" /\ Box(d)' = b => \A e \in steady'[d] : Tcp(e)'
    BY <1>1, <1>2, <1>6 DEF Orderly, Frame
  <2> QED BY <1>4, <2>3, <2>4, <2>5, <2>6 DEF Orderly
<1>7. sock[b] = c => pc[c] \in {"chmodsock", "serving", "end"}
  BY <1>1, <1>2 DEF Binders
<1>8. CASE Box(c) = b /\ Serve(c)
  <2>1. /\ UNCHANGED <<sock, steady>> /\ pc[c] = "start" /\ pc'[c] \in {"end", "listen", "lstat"}
    BY <1>2, <1>8 DEF Serve
  <2> QED BY <1>6, <1>7, <1>8, <2>1
<1>9. CASE Box(c) = b /\ (Lstat(c) \/ AskSocket(c) \/ AskPort(c))
  <2>1. /\ UNCHANGED <<sock, steady>> /\ pc[c] \in {"lstat", "asksocket", "askport"}
        /\ pc'[c] \in {"bind", "unlink", "end"}
    BY <1>2, <1>9 DEF Lstat, AskSocket, AskPort, sockVars
  <2> QED BY <1>6, <1>7, <1>9, <2>1
(* A client that looks finds the path of a daemon that serves. *)
<1>10. CASE Box(c) = b /\ StatSocket(c)
  <2>1. /\ UNCHANGED <<sock, deserted>> /\ pc[c] = "start" /\ job[c].verb = "last"
        /\ pc'[c] = (IF sock[b] # None THEN "asksocket" ELSE "askport")
        /\ steady'[c] = Serving(b) /\ \A d \in Calls \ {c} : steady'[d] = steady[d]
    BY <1>2, <1>10 DEF StatSocket, Prefer
  <2>2. sock[b] # None => sock[b] \in Calls \ {c}
    BY <1>2, <1>7, <2>1
  <2>3. Found(b)' = Found(b) /\ ~Socket(c) /\ sock'[b] = sock[b]
    BY <1>1, <2>1, <2>2 DEF Found, Listening, Frame, Socket
  <2>4. sock[b] # None => b \in deserted \/ Found(b)
    <3>1. sock[b] # None => Socket(sock[b]) /\ Box(sock[b]) = b
      BY <1>1 DEF Binders
    <3> QED BY <1>1, <2>2, <3>1 DEF Orderly, LocalSteps
  <2>5. sock[b] = None => \A d \in Serving(b) : Tcp(d)
    <3>1. \A d \in Serving(b) : d \in Calls /\ (Socket(d) \/ Tcp(d)) /\ Box(d) = b /\ pc[d] = "serving"
      BY DEF Serving, Socket, Tcp, Typed, JobsTyped, Jobs
    <3> QED BY <1>1, <1>2, <3>1 DEF Orderly
  <2>6. \A d \in Calls : Socket(d)' /\ Box(d)' = b /\ pc'[d] \in {"chmodsock", "serving"} => sock'[b] = d
    BY <1>1, <2>1, <2>3 DEF Orderly, Frame
  <2>7. sock'[b] # None => Found(b)' \/ (pc'[sock'[b]] = "end" /\ code'[sock'[b]] = "killed")
    BY <1>1, <2>1, <2>2, <2>3 DEF Orderly, Frame
  <2>8. \A d \in Calls : pc'[d] = "asksocket" /\ Box(d)' = b => b \in deserted' \/ Found(b)'
    BY <1>1, <2>1, <2>3, <2>4 DEF Orderly, Frame
  <2>9. \A d \in Calls : pc'[d] = "askport" /\ Box(d)' = b => \A e \in steady'[d] : Tcp(e)'
    <3>1. \A d \in Calls \ {c} : pc'[d] = "askport" /\ Box(d)' = b => \A e \in steady'[d] : Tcp(e)'
      BY <1>1, <1>2, <2>1 DEF Orderly, Frame
    <3>2. pc'[c] = "askport" => \A e \in steady'[c] : Tcp(e)'
      BY <1>1, <2>1, <2>5 DEF Frame, Serving
    <3> QED BY <3>1, <3>2
  <2> QED BY <1>4, <2>6, <2>7, <2>8, <2>9 DEF Orderly
(* The one socket daemon of the box: no other listens. *)
<1>11. Box(c) = b /\ Live(c) => \A d \in Calls \ {c} : ~(Live(d) /\ Box(d) = b)
  BY <1>1 DEF Orderly
<1>12. CASE Box(c) = b /\ Unlink(c)
  <2>1. Live(c)
    BY <1>1, <1>2, <1>3, <1>12 DEF Unlink, LocalSteps, StepsOfVerb, LastSteps, Live
  <2>2. /\ sock'[b] = None /\ UNCHANGED <<steady, deserted>> /\ pc[c] = "unlink" /\ pc'[c] \in {"end", "bind"}
    BY <1>2, <1>12 DEF Unlink, Sock
  <2>3. ~Found(b)
    <3>1. sock[b] # None => Socket(sock[b]) /\ Box(sock[b]) = b
      BY <1>1 DEF Binders
    <3> QED BY <1>7, <1>11, <1>12, <2>1, <2>2, <3>1 DEF Found, Listening, Live
  <2>4. \A d \in Calls : Socket(d)' /\ Box(d)' = b => pc'[d] \notin {"chmodsock", "serving"}
    BY <1>1, <1>11, <1>12, <2>1, <2>2 DEF Frame, Live
  <2>5. \A d \in Calls : pc'[d] = "asksocket" /\ Box(d)' = b => b \in deserted'
    BY <1>1, <2>2, <2>3 DEF Orderly, Frame
  <2>6. \A d \in Calls : pc'[d] = "askport" /\ Box(d)' = b => \A e \in steady'[d] : Tcp(e)'
    BY <1>1, <1>2, <2>2 DEF Orderly, Frame
  <2> QED BY <1>4, <2>2, <2>4, <2>5, <2>6 DEF Orderly
<1>13. CASE Box(c) = b /\ Bind(c)
  <2>1. Live(c)
    BY <1>1, <1>2, <1>3, <1>13 DEF Bind, LocalSteps, StepsOfVerb, LastSteps, Live
  <2>2. CASE sock[b] # None
    <3>1. UNCHANGED <<sock, steady>> /\ pc[c] = "bind" /\ pc'[c] = "end"
      BY <1>2, <1>13, <2>2 DEF Bind
    <3> QED BY <1>6, <1>7, <1>13, <3>1
  <2>3. CASE sock[b] = None
    <3>1. /\ sock'[b] = c /\ UNCHANGED <<steady, deserted>> /\ pc[c] = "bind" /\ pc'[c] = "chmodsock"
      BY <1>2, <1>13, <2>3 DEF Bind, Sock
    <3>2. Found(b)'
      BY <1>2, <3>1 DEF Found, Listening
    <3>3. \A d \in Calls : Socket(d)' /\ Box(d)' = b /\ pc'[d] \in {"chmodsock", "serving"} => sock'[b] = d
      BY <1>1, <1>11, <1>13, <2>1, <3>1 DEF Frame, Live
    <3>4. \A d \in Calls : pc'[d] = "askport" /\ Box(d)' = b => \A e \in steady'[d] : Tcp(e)'
      BY <1>1, <1>2, <3>1 DEF Orderly, Frame
    <3> QED BY <1>4, <3>2, <3>3, <3>4 DEF Orderly
  <2> QED BY <2>2, <2>3
<1>14. CASE Box(c) = b /\ ChmodSocket(c)
  <2>1. Socket(c)
    BY <1>1, <1>2, <1>3, <1>14 DEF ChmodSocket, LocalSteps, StepsOfVerb, LastSteps
  <2>2. sock[b] = c
    BY <1>1, <1>14, <2>1 DEF ChmodSocket, Orderly
  <2>3. UNCHANGED <<sock, steady, deserted>> /\ pc[c] = "chmodsock" /\ pc'[c] = "serving"
    BY <1>2, <1>14, <2>2 DEF ChmodSocket, sockVars
  <2>4. Found(b)'
    BY <1>2, <2>2, <2>3 DEF Found, Listening
  <2>5. \A d \in Calls : Socket(d)' /\ Box(d)' = b /\ pc'[d] \in {"chmodsock", "serving"} => sock'[b] = d
    BY <1>1, <2>2, <2>3 DEF Frame, Orderly
  <2>6. \A d \in Calls : pc'[d] = "askport" /\ Box(d)' = b => \A e \in steady'[d] : Tcp(e)'
    BY <1>1, <1>2, <2>3 DEF Orderly, Frame
  <2> QED BY <1>4, <2>4, <2>5, <2>6 DEF Orderly
<1>15. CASE Box(c) = b /\ ~Socket(c) /\ (ListenTcp(c) \/ Stop(c) \/ Kill(c))
  <2>1. /\ UNCHANGED sock /\ deserted \subseteq deserted' /\ pc'[c] \in {"serving", "end"}
        /\ \A d \in Calls : steady'[d] \subseteq steady[d]
    BY <1>1, <1>2, <1>15 DEF ListenTcp, Stop, Kill, Gone, Frame
  <2>2. sock[b] # None => Socket(sock[b]) /\ sock[b] \in Calls \ {c}
    BY <1>1, <1>2, <1>15 DEF Binders
  <2>3. Found(b)' = Found(b)
    BY <1>1, <2>1, <2>2 DEF Found, Listening, Frame
  <2>4. \A d \in Calls : Socket(d)' /\ Box(d)' = b /\ pc'[d] \in {"chmodsock", "serving"} => sock'[b] = d
    BY <1>1, <1>15, <2>1 DEF Orderly, Frame
  <2>5. sock'[b] # None => Found(b)' \/ (pc'[sock'[b]] = "end" /\ code'[sock'[b]] = "killed")
    BY <1>1, <2>1, <2>2, <2>3 DEF Orderly, Frame
  <2>6. \A d \in Calls : pc'[d] = "asksocket" /\ Box(d)' = b => b \in deserted' \/ Found(b)'
    BY <1>1, <2>1, <2>3 DEF Orderly, Frame
  <2>7. \A d \in Calls : pc'[d] = "askport" /\ Box(d)' = b => \A e \in steady'[d] : Tcp(e)'
    BY <1>1, <1>2, <2>1 DEF Orderly, Frame
  <2> QED BY <1>4, <2>4, <2>5, <2>6, <2>7 DEF Orderly
<1>16. CASE Box(c) = b /\ Socket(c) /\ (Stop(c) \/ Kill(c))
  <2>1. /\ pc[c] \in {"chmodsock", "serving"} /\ pc'[c] = "end" /\ sock[b] = c /\ Live(c)
        /\ \A d \in Calls : steady'[d] \subseteq steady[d]
    BY <1>1, <1>2, <1>16 DEF Stop, Kill, Gone, Orderly, Live
  <2>2. \A d \in Calls : Socket(d)' /\ Box(d)' = b => pc'[d] \notin {"chmodsock", "serving"}
    BY <1>1, <1>11, <1>16, <2>1 DEF Frame, Live
  <2>3. sock'[b] # None => sock'[b] = c /\ code'[c] = "killed"
    BY <1>1, <1>2, <1>16, <2>1 DEF Stop, Kill, Unlinked, Sock
  <2>4. \A d \in Calls : pc'[d] = "asksocket" /\ Box(d)' = b => b \in deserted'
    BY <1>1, <1>16, <2>1 DEF Stop, Kill, Frame
  <2>5. \A d \in Calls : pc'[d] = "askport" /\ Box(d)' = b => \A e \in steady'[d] : Tcp(e)'
    BY <1>1, <1>2, <2>1 DEF Orderly, Frame
  <2> QED BY <1>4, <2>1, <2>2, <2>3, <2>4, <2>5 DEF Orderly
<1>17. ListenTcp(c) => ~Socket(c)
  BY <1>1, <1>2, <1>3 DEF ListenTcp, LocalSteps, StepsOfVerb, LastSteps, Frame
<1> QED BY <1>5, <1>8, <1>9, <1>10, <1>12, <1>13, <1>14, <1>15, <1>16, <1>17 DEF Controlling

(* How a request ends. *)
LEMMA AnsweredKept ==
    ASSUME Typed, Reachable, NEW c \in Calls, Controlling(c)
    PROVE  Answered'
<1> USE DEF Goto, End
<1>1. Frame(c) /\ LocalSteps /\ Binders /\ Answered /\ TokensRead /\ \A b \in Boxes \ crowded : Orderly(b)
  BY ControlsFrame DEF Reachable
<1>2. /\ pc \in [Calls -> Steps] /\ code \in [Calls -> Exits] /\ StepsOfVerb
      /\ sock \in [Boxes -> Calls \cup {None}] /\ port \in [Boxes -> Calls \cup {None}]
      /\ steady \in [Calls -> SUBSET Calls]
      /\ None \notin Calls
  BY HostsAssumption DEF Typed, CallsTyped, SocketTyped, SocketTypeOK
<1>3. CASE /\ \A d \in Calls : steady'[d] \subseteq steady[d]
           /\ job[c].verb = "last" => code'[c] \notin {"disk", "unauthorized"}
  <2> SUFFICES ASSUME NEW d \in Calls, job'[d].verb = "last" PROVE Answer(d)'
    BY DEF Answered
  <2>1. CASE d = c
    BY <1>1, <1>3, <2>1 DEF Answer, Frame
  <2>2. CASE d # c
    <3>1. code'[d] = code[d] /\ Box(d)' = Box(d) /\ Answer(d)
      BY <1>1, <2>2 DEF Frame, Answered
    <3>2. code'[d] = "unauthorized" => Paired(Box(d))'
      BY <1>1, <3>1 DEF Answer, Frame
    <3>3. code'[d] = "disk" /\ steady'[d] # {} =>
             Box(d)' \in crowded' \/ (Box(d)' \in deserted' /\ \A e \in steady'[d] : Tcp(e)')
      BY <1>1, <1>2, <1>3, <3>1 DEF Answer, Frame
    <3> QED BY <3>1, <3>2, <3>3 DEF Answer
  <2> QED BY <2>1, <2>2
<1>4. CASE \/ Serve(c) \/ Lstat(c) \/ Unlink(c) \/ Bind(c)
           \/ ChmodSocket(c) \/ ListenTcp(c) \/ Stop(c) \/ Kill(c)
  <2>1. \A d \in Calls : steady'[d] \subseteq steady[d]
    BY <1>2, <1>4 DEF Serve, Lstat, Unlink, Bind, ChmodSocket, ListenTcp, Stop, Kill, Gone, sockVars
  <2>2. job[c].verb # "last"
    BY <1>2, <1>4 DEF Serve, Lstat, Unlink, Bind, ChmodSocket, ListenTcp, Stop, Kill, StepsOfVerb, LastSteps
  <2> QED BY <1>3, <2>1, <2>2
<1>5. CASE StatSocket(c)
  <2> SUFFICES ASSUME NEW d \in Calls, job'[d].verb = "last" PROVE Answer(d)'
    BY DEF Answered
  <2>1. CASE d = c
    <3>1. code'[c] = "-"
      BY <1>1, <1>5 DEF StatSocket, LocalSteps, Local, Frame
    <3> QED BY <2>1, <3>1 DEF Answer
  <2>2. CASE d # c
    BY <1>1, <1>2, <1>5, <2>2 DEF StatSocket, Answer, Answered, Frame
  <2> QED BY <2>1, <2>2
<1>6. CASE AskSocket(c) \/ AskPort(c)
  <2>1. /\ UNCHANGED <<sock, port, steady, crowded, deserted>> /\ pc[c] \in {"asksocket", "askport"}
    BY <1>6 DEF AskSocket, AskPort, sockVars
  <2>2. job[c].verb = "last" /\ Box(c) \in Boxes
    BY <1>1, <1>2, <2>1 DEF Frame, Local, StepsOfVerb, ServeSteps
  <2>3. \A d \in steady[c] : d \in Calls /\ (Socket(d) \/ Tcp(d)) /\ Box(d) = Box(c) /\ pc[d] = "serving"
    BY <1>1, <1>2 DEF LocalSteps, Serving, Socket, Tcp, Typed, JobsTyped, Jobs
  <2>4. code'[c] = "disk" /\ steady[c] # {} =>
           Box(c) \in crowded \/ (Box(c) \in deserted /\ \A d \in steady[c] : Tcp(d))
    <3> SUFFICES ASSUME code'[c] = "disk", steady[c] # {}, Box(c) \notin crowded
                 PROVE  Box(c) \in deserted /\ \A d \in steady[c] : Tcp(d)
      OBVIOUS
    <3>1. Orderly(Box(c))
      BY <1>1, <2>2
    <3>2. CASE AskSocket(c)
      <4>1. ~Listening(sock[Box(c)]) /\ pc[c] = "asksocket"
        BY <1>2, <3>2 DEF AskSocket
      <4>2. \A d \in steady[c] : ~Socket(d)
        BY <1>2, <2>2, <2>3, <3>1, <4>1 DEF Orderly, Listening
      <4> QED BY <2>3, <3>1, <4>1, <4>2 DEF Orderly, Found
    <3>3. CASE AskPort(c)
      <4>1. port[Box(c)] = None /\ pc[c] = "askport"
        BY <1>2, <3>3 DEF AskPort
      <4>2. \A d \in steady[c] : ~Tcp(d)
        BY <1>1, <1>2, <2>3, <4>1 DEF Binders
      <4> QED BY <3>1, <4>1, <4>2 DEF Orderly
    <3> QED BY <1>6, <3>2, <3>3
  <2>5. code'[c] = "unauthorized" => Paired(Box(c))
    <3> SUFFICES ASSUME code'[c] = "unauthorized" PROVE Paired(Box(c))
      OBVIOUS
    <3>1. /\ AskPort(c) /\ port[Box(c)] # None /\ held[c] # held[port[Box(c)]]
      BY <1>2, <1>6 DEF AskSocket, AskPort
    <3>2. /\ port[Box(c)] \in Calls /\ Local(port[Box(c)]) /\ Box(port[Box(c)]) = Box(c)
          /\ pc[port[Box(c)]] = "serving"
      BY <1>1, <1>2, <2>2, <3>1 DEF Binders, Tcp, Local
    <3> QED BY <1>1, <2>1, <2>2, <3>1, <3>2 DEF TokensRead, Local
  <2>6. Answer(c)'
    BY <1>1, <2>1, <2>3, <2>4, <2>5 DEF Answer, Frame
  <2>7. ASSUME NEW d \in Calls \ {c}, job[d].verb = "last"
        PROVE  Answer(d)'
    BY <1>1, <1>2, <2>1, <2>7 DEF Answer, Answered, Frame
  <2> QED BY <1>1, <2>6, <2>7 DEF Answered, Frame
<1> QED BY <1>4, <1>5, <1>6 DEF Controlling

(* Daemons and their clients find each other after any step. *)
LEMMA ReachableKept ==
    ASSUME Typed, Typed', Reachable, [Next]_vars
    PROVE  Reachable'
<1>1. CASE \E c \in Calls : Controlling(c)
  BY <1>1, LocalStepsKept, BindersKept, OrderlyKept, TokensReadKept, AnsweredKept DEF Reachable
<1>2. CASE ~\E c \in Calls : Controlling(c)
  <2>1. Aside
    BY <1>2, OthersStandAside
  <2>2. TokensMove
    BY TokensAreWrittenBySetups DEF Reachable
  <2> QED BY <2>1, <2>2, AsideKeepsReachable
<1> QED BY <1>1, <1>2

------------------------------------------------------------------------------
(* A setup that has passed the choice of its installer. *)
Begun(c) == \E i \in 1..Len(begun) : begun[i] = c

(* Who has met whom.  What is active beside a setup that has met no other has begun after it. *)
Overlaps ==
    /\ \A c \in Calls : Installing(c) =>
          /\ pc[c] # "end" => code[c] = "-"
          /\ pc[c] \notin {"start", "end"} \/ proc[c].prog # "none" \/ code[c] = "ok" => Begun(c)
    /\ \A c, d \in Calls : Active(c) /\ Active(d) => c = d \/ c \in met
    /\ \A c, d \in Calls : c # d /\ c \notin met /\ Begun(c) /\ Active(d) =>
          \E j \in 1..Len(begun) : begun[j] = d /\ \A i \in 1..Len(begun) : begun[i] = c => i < j

(* The token a setup copies is the laptop's, and a copy that is reported has arrived. *)
Copier(c) ==
    /\ pc[c] \in {"savetoken", "addtoken"} => held[c] = c
    /\ pc[c] = "sendtoken" \/ proc[c].prog = "token" => replaced \/ (held[c] = token /\ token # None)
    /\ pc[c] = "pairing" => proc[c].prog = "token"
    /\ pc[c] \in {"loadaliases", "savealiases"} \/ code[c] = "ok" =>
          At(c, "token", "exited") /\ proc[c].left = 0
    /\ At(c, "token", "start") => proc[c].left # 0
    /\ proc[c].prog = "token" /\ proc[c].rc = "ok" => c \in cut \/ proc[c].left = 0

(* A setup that has truncated the token file of its box, or has failed to. *)
Opened(c) == Installing(c) /\ proc[c].prog = "token" /\ proc[c].at # "start"
Copied(b) ==
    \/ replaced \/ rtoken[b] = token
    \/ \E d \in Calls : Opened(d) /\ proc[d].left # 0 /\ Box(d) = b
Copying == \A c \in Calls : Installing(c) => Copier(c) /\ (Opened(c) => Copied(Box(c)))

(* A file stays on the box of the setup that created it. *)
Owned(f, b) == Installing(f) /\ Box(f) = b
Owners ==
    /\ \A b \in Boxes : tmp[b] # None => Owned(tmp[b], b)
    /\ \A b \in Boxes : bin[b] \in Calls => Owned(bin[b], b)
    /\ \A c \in Calls : Installing(c) =>
          /\ At(c, "place", "write") => Owned(proc[c].fd, Box(c))
          /\ proc[c].prog \in {"place", "release"} /\ proc[c].at # "exited" =>
                pc[c] \in {"installing", "end"}

(* The last setup of a box, if it has met no other: what it wrote is what is there. *)
Sole(c) ==
    /\ Installing(c) /\ c \notin met /\ Begun(c)
    /\ \A i \in 1..Len(begun) : Box(begun[i]) = Box(c) => \E j \in i..Len(begun) : begun[j] = c
Places(c) ==
    /\ pc[c] = "installing" =>
          /\ proc[c].prog = "place"
          /\ proc[c].at = "write" => tmp[Box(c)] = proc[c].fd /\ bytes[proc[c].fd] = 1..proc[c].got
          /\ proc[c].at \in {"chmod", "mv"} =>
                c \in cut \/ (tmp[Box(c)] \in Calls /\ bytes[tmp[Box(c)]] = 1..BinUnits)
          /\ proc[c].rc = "ok" => c \in cut \/ Installed(Box(c))
    /\ \/ pc[c] \in {"gettoken", "savetoken", "addtoken", "sendtoken", "pairing", "loadaliases",
                     "savealiases"}
       \/ code[c] = "ok"
       => Installed(Box(c))
Placing == \A c \in Calls : Sole(c) /\ job[c].route # "release" => Places(c)

(* The alias of a setup that has met no other is in the store, and in what others have
   loaded of it. *)
Recording ==
    /\ \A b \in Boxes : aliases.def = b <=> (b \in DOMAIN aliases.flag /\ aliases.flag[b])
    /\ \A c \in Calls : SetUp(c) /\ c \notin met =>
          /\ Box(c) \in DOMAIN aliases.flag
          /\ \A d \in Calls : Installing(d) /\ pc[d] = "savealiases" => Box(c) \in DOMAIN snap[d].flag

Achieved == Overlaps /\ Copying /\ Owners /\ Placing /\ Recording

(* No setup has begun. *)
LEMMA InitAchieved == Init => Achieved
<1> SUFFICES ASSUME Init PROVE Achieved
  OBVIOUS
<1>1. PICK w \in Worlds :
        /\ job = w.job /\ bin = w.bin /\ aliases = w.aliases
        /\ pc = [c \in Calls |-> IF job[c].verb = "none" THEN "end" ELSE "start"]
        /\ code = [c \in Calls |-> "-"] /\ proc = [c \in Calls |-> Idle]
        /\ tmp = [b \in Boxes |-> None]
  BY DEF Init, HostsInit
<1>2. /\ w.bin \in [Boxes -> {None, "older", "same"}]
      /\ \A b \in Boxes : w.aliases.def = b <=> (b \in DOMAIN w.aliases.flag /\ w.aliases.flag[b])
  BY WorldsAssumption
<1>3. begun = <<>> /\ 1..Len(begun) = {}
  BY DEF Init, SetupInit
<1>4. \A c \in Calls : /\ Installing(c) => pc[c] = "start"
                        /\ code[c] = "-" /\ proc[c].prog = "none" /\ proc[c].at = "none"
  BY <1>1 DEF Installing, Idle
<1>5. \A c \in Calls : ~Begun(c) /\ ~Active(c) /\ ~Opened(c)
  BY <1>3, <1>4 DEF Begun, Active, Opened
<1>6. Overlaps
  BY <1>4, <1>5 DEF Overlaps
<1>7. Copying
  BY <1>4, <1>5 DEF Copying, Copier, At
<1>8. Owners
  <2>1. \A b \in Boxes : bin[b] \notin Calls /\ tmp[b] = None
    BY <1>1, <1>2, HostsAssumption
  <2> QED BY <1>4, <2>1 DEF Owners, At
<1>9. Placing
  BY <1>5 DEF Placing, Sole
<1>10. Recording
  BY <1>1, <1>2, <1>4 DEF Recording, SetUp
<1> QED BY <1>6, <1>7, <1>8, <1>9, <1>10 DEF Achieved

------------------------------------------------------------------------------
(* What a setup's own step leaves alone: the box's files, and the other calls. *)
SetupFrame(c) ==
    /\ UNCHANGED <<job, target, cut, box>> /\ Installing(c)
    /\ \A d \in Calls \ {c} : /\ pc'[d] = pc[d] /\ code'[d] = code[d] /\ held'[d] = held[d]
                              /\ proc'[d] = proc[d] /\ snap'[d] = snap[d]
    /\ pc[c] = "start" => BeginSetup(c)

(* What a remote command of a setup leaves alone: the laptop, and the other boxes. *)
BoxFrame(c) ==
    /\ UNCHANGED <<job, calls, cut, token, aliases, setupVars>> /\ Installing(c) /\ Active(c)
    /\ proc[c].at \notin {"none", "exited"}
    /\ proc'[c].prog = proc[c].prog
    /\ \A d \in Calls \ {c} : proc'[d] = proc[d]
    /\ \A b \in Boxes \ {Box(c)} : bin'[b] = bin[b] /\ tmp'[b] = tmp[b] /\ rtoken'[b] = rtoken[b]

(* What the steps of other verbs and of the network leave alone. *)
OtherFrame ==
    /\ UNCHANGED <<job, token, aliases, setupVars, box>> /\ cut \subseteq cut'
    /\ \A d \in Calls : Installing(d) =>
          /\ pc'[d] = pc[d] /\ code'[d] = code[d] /\ target'[d] = target[d] /\ held'[d] = held[d]
          /\ proc'[d] = proc[d]

(* The steps of setups are those of their calls. *)
LEMMA SetupsFrame ==
    ASSUME Typed, NEW c \in Calls, SettingUp(c)
    PROVE  SetupFrame(c)
<1> USE DEF laptop, pins, net, box, unset, setupVars, history, Goto, End
<1>1. UNCHANGED <<job, target, cut, box>>
  BY DEF SettingUp, BeginSetup, DialToSetUp, Dial, Detect, Version, Prepare, Placed, GetToken,
         SaveToken, AddToken, SendToken, TokenSent, LoadAliases, SaveAliases
<1>2. /\ pc \in [Calls -> Steps] /\ code \in [Calls -> Exits] /\ proc \in [Calls -> Procs]
      /\ held \in [Calls -> Calls \cup {None, "first"}] /\ snap = [d \in Calls |-> snap[d]]
      /\ StepsOfVerb /\ job[c].verb \in {"none", "send", "post", "setup", "serve", "last"}
  BY DEF Typed, JobsTyped, Jobs, CallsTyped, TokensTyped, ProcsTyped, AliasesTyped
<1>3. \A d \in Calls \ {c} : pc'[d] = pc[d] /\ code'[d] = code[d]
  BY <1>2 DEF SettingUp, BeginSetup, DialToSetUp, Dial, Connects, Detect, Version, Prepare, Placed,
              GetToken, SaveToken, AddToken, SendToken, TokenSent, LoadAliases, SaveAliases
<1>4. \A d \in Calls \ {c} : held'[d] = held[d]
  BY <1>2 DEF SettingUp, BeginSetup, DialToSetUp, Dial, Detect, Version, Prepare, Placed,
              GetToken, SaveToken, AddToken, SendToken, TokenSent, LoadAliases, SaveAliases
<1>5. \A d \in Calls \ {c} : proc'[d] = proc[d]
  BY <1>2 DEF SettingUp, BeginSetup, DialToSetUp, Dial, Detect, Version, Prepare, Placed, Exec,
              GetToken, SaveToken, AddToken, SendToken, TokenSent, LoadAliases, SaveAliases
<1>6. \A d \in Calls \ {c} : snap'[d] = snap[d]
  BY <1>2 DEF SettingUp, BeginSetup, DialToSetUp, Dial, Detect, Version, Prepare, Placed,
              GetToken, SaveToken, AddToken, SendToken, TokenSent, LoadAliases, SaveAliases
<1>7. Installing(c)
  <2>1. Installing(c) \/ pc[c] \in SetupSteps \ {"start", "dial", "end"}
    BY DEF SettingUp, BeginSetup, DialToSetUp, Installing, Detect, Version, Prepare, Placed, GetToken,
           SaveToken, AddToken, SendToken, TokenSent, LoadAliases, SaveAliases, SetupSteps
  <2> QED BY <1>2, <2>1 DEF StepsOfVerb, SendSteps, SetupSteps, ServeSteps, LastSteps, Installing
<1>8. pc[c] = "start" => BeginSetup(c)
  BY DEF SettingUp, DialToSetUp, Dial, Detect, Version, Prepare, Placed, GetToken,
         SaveToken, AddToken, SendToken, TokenSent, LoadAliases, SaveAliases
<1> QED BY <1>1, <1>3, <1>4, <1>5, <1>6, <1>7, <1>8 DEF SetupFrame

(* A remote command runs for a setup that is active. *)
LEMMA BoxesFrame ==
    ASSUME Typed, NEW c \in Calls, Pushed(c), BoxStep(c)
    PROVE  BoxFrame(c)
<1>1. UNCHANGED <<job, calls, cut, token, aliases, setupVars>>
  BY DEF BoxStep, OnBox, OpenTemp, WriteTemp, ChmodTemp, MoveTemp, Fetch, OpenToken, WriteToken,
         net, laptop
<1>2. /\ proc[c].at \notin {"none", "exited"}
      /\ proc[c].prog \in {"place", "release", "token"}
  BY DEF BoxStep, OpenTemp, WriteTemp, ChmodTemp, MoveTemp, Fetch, OpenToken, WriteToken, At
<1>3. Installing(c)
  BY <1>2 DEF Pushed, Installing
<1>4. proc \in [Calls -> Procs] /\ pc[c] # "start"
  BY <1>2, HostsAssumption DEF Typed, ProcsTyped, NetTyped
<1>5. proc'[c].prog = proc[c].prog /\ \A d \in Calls \ {c} : proc'[d] = proc[d]
  BY <1>4 DEF BoxStep, OpenTemp, WriteTemp, ChmodTemp, MoveTemp, Fetch, OpenToken, WriteToken,
              Exit, Step, Procs
<1>6. \A b \in Boxes \ {Box(c)} : bin'[b] = bin[b] /\ tmp'[b] = tmp[b] /\ rtoken'[b] = rtoken[b]
  BY DEF BoxStep, OpenTemp, WriteTemp, ChmodTemp, MoveTemp, Fetch, OpenToken, WriteToken, box,
         Typed, FilesTyped, TokensTyped
<1> QED BY <1>1, <1>2, <1>3, <1>4, <1>5, <1>6 DEF BoxFrame, Active

(* Sends, posts, daemons, clients and the network change nothing that a setup works on. *)
LEMMA OthersFrame ==
    ASSUME Typed, \A c \in Calls : Pushed(c), [Next]_vars,
           ~\E c \in Calls : SettingUp(c) \/ BoxStep(c)
    PROVE  OtherFrame
<1> USE DEF laptop, pins, net, box, calls, unpushed, local, Goto, End
<1>1. /\ pc \in [Calls -> Steps] /\ code \in [Calls -> Exits] /\ proc \in [Calls -> Procs]
      /\ held \in [Calls -> Calls \cup {None, "first"}]
      /\ target \in [Calls -> [box : Boxes \cup {None}, known : BOOLEAN]]
      /\ StepsOfVerb /\ job' = job
  BY JobsStay DEF Typed, CallsTyped, TokensTyped, ProcsTyped
<1>2. ASSUME NEW c \in Calls, Sending(c), UNCHANGED <<setupVars, sockVars>>
      PROVE  OtherFrame
  <2>1. UNCHANGED <<token, aliases, box, cut>> /\ job[c].verb # "setup"
    BY <1>2 DEF Sending, Resolve, DialToSend, Dial, ExecIngest, WaitForIngest, Post
  <2>2. \A d \in Calls \ {c} : /\ pc'[d] = pc[d] /\ code'[d] = code[d] /\ target'[d] = target[d]
                               /\ held'[d] = held[d]
    BY <1>1, <1>2 DEF Sending, Resolve, DialToSend, Dial, Connects, ExecIngest, WaitForIngest, Relayed, Post
  <2>3. \A d \in Calls \ {c} : proc'[d] = proc[d]
    BY <1>1, <1>2 DEF Sending, Resolve, DialToSend, Dial, Exec, ExecIngest, WaitForIngest, Post
  <2> QED BY <1>1, <1>2, <2>1, <2>2, <2>3 DEF OtherFrame, Installing
<1>3. ASSUME NEW c \in Calls, Ingest(c), UNCHANGED <<setupVars, sockVars>>
      PROVE  OtherFrame
  <2>1. UNCHANGED <<token, aliases, box, cut, calls>>
    BY <1>3 DEF Ingest, Ingesting, IngestStarts, BadFrame, ReadMagic, ReadHead, SpillByte, Spilled,
              SaveFails, SaveSpilled, SaveByte, SaveLast, FinishIngest
  <2>2. proc[c].prog = "ingest"
    BY <1>3 DEF Ingest, Ingesting, IngestStarts, BadFrame, ReadMagic, ReadHead, SpillByte, Spilled,
              SaveFails, SaveSpilled, SaveByte, SaveLast, FinishIngest, At
  <2>3. ~Installing(c)
    BY <2>2 DEF Pushed, Installing
  <2>4. \A d \in Calls \ {c} : proc'[d] = proc[d]
    <3>1. CASE IngestStarts(c) \/ BadFrame(c) \/ ReadMagic(c) \/ ReadHead(c) \/ SpillByte(c)
      BY <1>1, <3>1 DEF IngestStarts, BadFrame, ReadMagic, ReadHead, SpillByte, Consume, Exit, Step
    <3>2. CASE Spilled(c) \/ SaveFails(c)
      BY <1>1, <3>2 DEF Spilled, SaveFails, Exit
    <3>3. CASE SaveSpilled(c)
      <4>1. Exit(c, "toolarge") \/ proc' = [proc EXCEPT ![c].item = @ + 1]
        BY <3>3 DEF SaveSpilled
      <4> QED BY <1>1, <4>1 DEF Exit
    <3>4. CASE SaveByte(c) \/ SaveLast(c) \/ FinishIngest(c)
      BY <1>1, <3>4 DEF SaveByte, SaveLast, FinishIngest, Consume, Exit, Step
    <3> QED BY <1>3, <3>1, <3>2, <3>3, <3>4 DEF Ingest
  <2> QED BY <1>1, <1>3, <2>1, <2>3, <2>4 DEF OtherFrame
<1>4. ASSUME NEW c \in Calls, Controlling(c), UNCHANGED <<pushVars, setupVars>>
      PROVE  OtherFrame
  <2>1. Frame(c)
    BY <1>4, ControlsFrame
  <2>2. UNCHANGED <<token, aliases, box, cut>>
    BY <1>4 DEF Controlling, Serve, Lstat, Unlink, Bind, ChmodSocket, ListenTcp, Stop, Kill, StatSocket,
                AskSocket, AskPort
  <2> QED BY <1>1, <1>4, <2>1, <2>2 DEF OtherFrame, Frame, Local, Installing
<1>5. ASSUME Network
      PROVE  OtherFrame
  BY <1>1, <1>5 DEF Network, Cut, Rekey, OtherFrame
<1>6. CASE UNCHANGED vars
  BY <1>1, <1>6 DEF vars, OtherFrame
<1> QED BY <1>2, <1>3, <1>4, <1>5, <1>6, StepKinds

(* What is not a step of a setup or of its remote commands keeps all of it. *)
LEMMA OthersKeepAchieved ==
    ASSUME Typed, Achieved, OtherFrame
    PROVE  Achieved'
<1>1. UNCHANGED <<job, token, aliases, snap, met, begun, replaced, bin, tmp, bytes, rtoken>>
      /\ cut \subseteq cut'
  BY DEF OtherFrame, setupVars, box
<1>2. \A d \in Calls : Installing(d) =>
          /\ pc'[d] = pc[d] /\ code'[d] = code[d] /\ Box(d)' = Box(d) /\ held'[d] = held[d]
          /\ proc'[d] = proc[d]
  BY DEF OtherFrame, Box
<1>3. \A d : /\ (Installing(d)' <=> Installing(d)) /\ (Begun(d)' <=> Begun(d))
             /\ (Whole(d)' <=> Whole(d))
  BY <1>1 DEF Installing, Begun, Whole
<1>4. \A d \in Calls : (Active(d)' <=> Active(d)) /\ (SetUp(d)' <=> SetUp(d)) /\ (Opened(d)' <=> Opened(d))
  BY <1>2, <1>3 DEF Active, SetUp, Opened
<1>5. Overlaps'
  BY <1>1, <1>2, <1>3, <1>4 DEF Achieved, Overlaps
<1>6. Copying'
  <2>1. \A b : Copied(b) => Copied(b)'
    <3> SUFFICES ASSUME NEW b, Copied(b) PROVE Copied(b)'
      OBVIOUS
    <3>1. CASE replaced \/ rtoken[b] = token
      BY <1>1, <3>1 DEF Copied
    <3>2. ASSUME NEW d \in Calls, Opened(d), proc[d].left # 0, Box(d) = b
          PROVE  Copied(b)'
      <4>1. Installing(d)
        BY <3>2 DEF Opened
      <4> QED BY <1>2, <1>4, <3>2, <4>1 DEF Copied
    <3> QED BY <3>1, <3>2 DEF Copied
  <2>2. ASSUME NEW c \in Calls, Installing(c)
        PROVE  Copier(c)'
    BY <1>1, <1>2, <2>2 DEF Achieved, Copying, Copier, At
  <2> QED BY <1>2, <1>3, <1>4, <2>1, <2>2 DEF Achieved, Copying
<1>7. Owners'
  <2>1. \A f \in Calls : \A b : Owned(f, b) => Owned(f, b)'
    BY <1>2, <1>3 DEF Owned
  <2>2. \A b \in Boxes : tmp[b] # None => tmp[b] \in Calls
    BY DEF Typed, FilesTyped
  <2>3. \A c \in Calls : At(c, "place", "write") => proc[c].fd \in Calls
    BY DEF Typed, ProcsTyped, At
  <2> QED BY <1>1, <1>2, <1>3, <2>1, <2>2, <2>3 DEF Achieved, Owners, At
<1>8. Placing'
  <2>1. \A i \in 1..Len(begun) : begun[i] \in Calls /\ Installing(begun[i])
    BY DEF Typed, SetupTyped
  <2>2. \A i \in 1..Len(begun) : Box(begun[i])' = Box(begun[i])
    BY <1>1, <1>2, <2>1 DEF Box
  <2>3. ASSUME NEW c \in Calls, Installing(c)
        PROVE  Sole(c)' => Sole(c)
    BY <1>1, <1>2, <1>3, <2>2, <2>3 DEF Sole
  <2>4. ASSUME NEW c \in Calls, Installing(c), Places(c)
        PROVE  Places(c)'
    <3>1. \A b : Installed(b)' <=> Installed(b)
      BY <1>1, <1>3 DEF Installed
    <3> QED BY <1>1, <1>2, <2>4, <3>1 DEF Places
  <2>5. \A c \in Calls : Sole(c)' => Installing(c)
    BY <1>3 DEF Sole
  <2>6. ASSUME NEW c \in Calls, Sole(c)', job[c].route # "release"
        PROVE  Places(c)'
    BY <2>3, <2>4, <2>5, <2>6 DEF Achieved, Placing
  <2> QED BY <1>1, <2>6 DEF Placing
<1>9. Recording'
  <2>1. \A b \in Boxes : aliases'.def = b <=> (b \in DOMAIN aliases'.flag /\ aliases'.flag[b])
    BY <1>1 DEF Achieved, Recording
  <2>2. ASSUME NEW c \in Calls, SetUp(c)', c \notin met'
        PROVE  /\ Box(c)' \in DOMAIN aliases'.flag
               /\ \A d \in Calls : Installing(d)' /\ pc'[d] = "savealiases" =>
                     Box(c)' \in DOMAIN snap'[d].flag
    <3>1. SetUp(c) /\ c \notin met /\ Box(c)' = Box(c)
      BY <1>1, <1>2, <1>4, <2>2 DEF SetUp
    <3>2. /\ Box(c) \in DOMAIN aliases.flag
          /\ \A d \in Calls : Installing(d) /\ pc[d] = "savealiases" => Box(c) \in DOMAIN snap[d].flag
      BY <3>1 DEF Achieved, Recording
    <3> QED BY <1>1, <1>2, <1>3, <3>1, <3>2
  <2> QED BY <2>1, <2>2 DEF Recording
<1> QED BY <1>5, <1>6, <1>7, <1>8, <1>9 DEF Achieved

(* A setup begins, or goes on as active as it was. *)
LEMMA SetupsActive ==
    ASSUME Typed, NEW c \in Calls, SettingUp(c), SetupFrame(c)
    PROVE  /\ pc[c] \notin {"start", "end"} => Active(c)
           /\ pc[c] # "end"
           /\ \/ /\ Active(c) /\ UNCHANGED <<met, begun>> /\ pc[c] # "start"
                 /\ \A d \in Calls : Active(d)' => Active(d)
              \/ /\ BeginSetup(c) /\ UNCHANGED <<met, begun, proc>> /\ pc'[c] = "end" /\ code'[c] = "config"
                 /\ \A d \in Calls : Active(d)' => Active(d)
              \/ /\ BeginSetup(c) /\ begun' = Append(begun, c) /\ ~Active(c) /\ UNCHANGED <<code, proc>>
                 /\ met' = IF \A d \in Calls : ~Active(d) THEN met
                           ELSE met \cup {d \in Calls : Active(d)} \cup {c}
                 /\ \A d \in Calls \ {c} : Active(d)' => Active(d)
<1> USE DEF Goto, End
<1>1. /\ pc \in [Calls -> Steps] /\ code \in [Calls -> Exits] /\ Installing(c) /\ job' = job
      /\ \A d \in Calls \ {c} : pc'[d] = pc[d] /\ proc'[d] = proc[d]
  BY DEF Typed, CallsTyped, SetupFrame
<1>2. pc[c] # "end"
  BY DEF SettingUp, BeginSetup, DialToSetUp, Dial, Detect, Version, Prepare, Placed, GetToken,
         SaveToken, AddToken, SendToken, TokenSent, LoadAliases, SaveAliases
<1>3. \A d \in Calls \ {c} : Active(d)' => Active(d)
  BY <1>1 DEF Active, Installing
<1>4. CASE pc[c] # "start"
  <2>1. Active(c)
    BY <1>1, <1>2, <1>4 DEF Active
  <2>2. UNCHANGED <<met, begun>>
    BY <1>4 DEF SettingUp, BeginSetup, DialToSetUp, Detect, Version, Prepare, Placed, GetToken,
                SaveToken, AddToken, SendToken, TokenSent, LoadAliases, SaveAliases, setupVars, history
  <2> QED BY <1>2, <1>3, <1>4, <2>1, <2>2
<1>5. CASE pc[c] = "start"
  <2>1. BeginSetup(c) /\ UNCHANGED proc
    BY <1>5 DEF SetupFrame, BeginSetup
  <2>2. ~Active(c) /\ proc[c].at = "none"
    BY <1>5, HostsAssumption DEF Active, Typed, ProcsTyped, NetTyped
  <2>3. CASE job[c].route = "unreleased"
    <3>1. /\ pc'[c] = "end" /\ code'[c] = "config" /\ UNCHANGED <<met, begun>>
      BY <1>1, <2>1, <2>3 DEF BeginSetup
    <3>2. ~Active(c)'
      BY <2>1, <2>2, <3>1 DEF Active
    <3> QED BY <1>2, <1>3, <1>5, <2>1, <3>1, <3>2
  <2>4. CASE job[c].route # "unreleased"
    <3>1. /\ begun' = Append(begun, c) /\ UNCHANGED code
          /\ met' = IF {d \in Calls : Active(d)} = {} THEN met
                    ELSE met \cup {d \in Calls : Active(d)} \cup {c}
      BY <2>1, <2>4 DEF BeginSetup
    <3> QED BY <1>2, <1>3, <1>5, <2>1, <2>2, <3>1
  <2> QED BY <2>3, <2>4
<1> QED BY <1>4, <1>5

(* Two setups that are active at the same time have met. *)
LEMMA OverlapsKept ==
    ASSUME Typed, Overlaps, NEW c \in Calls, SettingUp(c), SetupFrame(c)
    PROVE  Overlaps'
<1>1. begun \in Seq(Calls) /\ met \subseteq Calls
  BY DEF Typed, SetupTyped
<1>2. \A d : Installing(d)' <=> Installing(d)
  BY DEF SetupFrame, Installing
<1>3. met \subseteq met' /\ \A d : Begun(d) => Begun(d)'
  <2>1. CASE UNCHANGED <<met, begun>>
    BY <2>1 DEF Begun
  <2>2. CASE begun' = Append(begun, c)
    BY <1>1, <2>2, SetupsActive DEF Begun
  <2> QED BY <2>1, <2>2, SetupsActive
<1>4. \A d \in Calls : Installing(d) =>
          /\ pc'[d] # "end" => code'[d] = "-"
          /\ pc'[d] \notin {"start", "end"} \/ proc'[d].prog # "none" \/ code'[d] = "ok" => Begun(d)'
  <2>1. ASSUME NEW d \in Calls \ {c}, Installing(d)
        PROVE  /\ pc'[d] # "end" => code'[d] = "-"
               /\ pc'[d] \notin {"start", "end"} \/ proc'[d].prog # "none" \/ code'[d] = "ok" => Begun(d)'
    BY <1>3, <2>1 DEF Overlaps, SetupFrame
  <2>2. pc'[c] # "end" => code'[c] = "-"
    <3>1. code[c] = "-" /\ pc \in [Calls -> Steps]
      BY SetupsActive DEF Overlaps, SetupFrame, Typed, CallsTyped
    <3> QED BY <3>1 DEF SettingUp, BeginSetup, DialToSetUp, Dial, Connects, Detect, Version, Prepare,
              Placed, GetToken, SaveToken, AddToken, SendToken, TokenSent, LoadAliases, SaveAliases,
              Goto, End
  <2>3. CASE pc[c] # "start"
    BY <1>3, <2>2, <2>3, SetupsActive DEF Overlaps, SetupFrame
  <2>4. CASE UNCHANGED proc /\ pc[c] = "start" /\ pc'[c] = "end" /\ code'[c] = "config"
    BY <1>3, <2>2, <2>4 DEF Overlaps, SetupFrame
  <2>5. CASE begun' = Append(begun, c)
    <3>1. Len(begun) + 1 \in 1..Len(begun') /\ begun'[Len(begun) + 1] = c
      BY <1>1, <2>5
    <3>2. Begun(c)'
      BY <3>1 DEF Begun
    <3> QED BY <2>1, <2>2, <3>2
  <2>6. pc[c] = "start" => BeginSetup(c)
    BY DEF SetupFrame
  <2>7. BeginSetup(c) => pc[c] = "start"
    BY DEF BeginSetup
  <2> QED BY <2>1, <2>3, <2>4, <2>5, <2>6, <2>7, SetupsActive
<1>5. CASE begun' = begun /\ met' = met /\ \A d \in Calls : Active(d)' => Active(d)
  BY <1>2, <1>4, <1>5 DEF Overlaps, Begun
<1>6. CASE /\ begun' = Append(begun, c) /\ ~Active(c)
           /\ met' = IF \A d \in Calls : ~Active(d) THEN met
                     ELSE met \cup {d \in Calls : Active(d)} \cup {c}
           /\ \A d \in Calls \ {c} : Active(d)' => Active(d)
  <2>1. ASSUME NEW d \in Calls, NEW e \in Calls, Active(d)', Active(e)'
        PROVE  d = e \/ d \in met'
    BY <1>6, <2>1 DEF Overlaps
  <2>2. ASSUME NEW d \in Calls, NEW e \in Calls, d # e, d \notin met', Begun(d)', Active(e)'
        PROVE  \E j \in 1..Len(begun') : begun'[j] = e /\ \A i \in 1..Len(begun') : begun'[i] = d => i < j
    <3>1. /\ Len(begun') = Len(begun) + 1 /\ Len(begun) \in Nat /\ begun'[Len(begun) + 1] = c
          /\ \A i \in 1..Len(begun) : begun'[i] = begun[i]
      BY <1>1, <1>6
    <3>2. CASE e = c
      BY <2>2, <3>1, <3>2
    <3>3. CASE e # c
      <4>1. Active(e) /\ c \in met'
        BY <1>6, <2>2, <3>3
      <4>2. d # c /\ d \notin met
        BY <1>3, <2>2, <4>1
      <4>3. Begun(d)
        BY <2>2, <3>1, <4>2 DEF Begun
      <4>4. PICK j \in 1..Len(begun) : begun[j] = e /\ \A i \in 1..Len(begun) : begun[i] = d => i < j
        BY <2>2, <4>1, <4>2, <4>3 DEF Overlaps
      <4>5. j \in 1..Len(begun') /\ begun'[j] = e
        BY <3>1, <4>4
      <4>6. \A i \in 1..Len(begun') : begun'[i] = d => i \in 1..Len(begun) /\ begun[i] = d
        BY <3>1, <4>2
      <4> QED BY <4>4, <4>5, <4>6
    <3> QED BY <3>2, <3>3
  <2> QED BY <1>2, <1>4, <2>1, <2>2 DEF Overlaps
<1> QED BY <1>5, <1>6, SetupsActive

(* A setup copies the token that the laptop has, until one is saved over another. *)
LEMMA CopyingSetUp ==
    ASSUME Typed, Overlaps, Copying, LocalSteps, NEW c \in Calls, SettingUp(c), SetupFrame(c)
    PROVE  Copying'
<1> USE DEF Goto, End
<1>1. /\ pc \in [Calls -> Steps] /\ code \in [Calls -> Exits] /\ proc \in [Calls -> Procs]
      /\ held \in [Calls -> Calls \cup {None, "first"}] /\ None \notin Calls
      /\ UNCHANGED <<job, target, cut, rtoken>> /\ Installing(c)
      /\ \A d \in Calls : Box(d)' = Box(d) /\ (Installing(d)' <=> Installing(d))
      /\ \A d \in Calls \ {c} : /\ pc'[d] = pc[d] /\ code'[d] = code[d] /\ held'[d] = held[d]
                                /\ proc'[d] = proc[d]
  BY HostsAssumption DEF SetupFrame, Typed, CallsTyped, TokensTyped, ProcsTyped, Box, Installing, box
<1>2. /\ pc[c] # "end" /\ code[c] = "-"
      /\ proc[c].prog = "token" => pc[c] \in {"pairing", "loadaliases", "savealiases"}
  BY <1>1, SetupsActive DEF Overlaps, LocalSteps
<1>3. \/ UNCHANGED <<token, replaced>>
      \/ replaced'
      \/ UNCHANGED replaced /\ token = None /\ pc[c] \in {"savetoken", "addtoken"}
  BY DEF SettingUp, BeginSetup, DialToSetUp, Dial, Detect, Version, Prepare, Placed, GetToken,
         SaveToken, AddToken, SendToken, TokenSent, LoadAliases, SaveAliases, laptop, unset,
         setupVars, history, Typed, SetupTyped
<1>4. ASSUME NEW d \in Calls \ {c}, Installing(d)
      PROVE  Copier(d)'
  BY <1>1, <1>3, <1>4 DEF Copying, Copier, At
<1>5. UNCHANGED proc \/ \E prog, units : Exec(c, prog, units) /\ pc[c] \in {"prepare", "sendtoken"}
  BY DEF SettingUp, BeginSetup, DialToSetUp, Dial, Detect, Version, Prepare, Placed, GetToken,
         SaveToken, AddToken, SendToken, TokenSent, LoadAliases, SaveAliases
<1>6. \A d \in Calls : /\ Opened(d)' => Opened(d)
                       /\ Opened(d) => Opened(d)' /\ proc'[d].left = proc[d].left
  <2>1. CASE UNCHANGED proc
    BY <1>1, <2>1 DEF Opened
  <2>2. ASSUME NEW prog, NEW units, Exec(c, prog, units), pc[c] \in {"prepare", "sendtoken"}
        PROVE  ~Opened(c)' /\ ~Opened(c)
    BY <1>1, <1>2, <2>2 DEF Exec, Idle, Opened
  <2> QED BY <1>1, <1>5, <2>1, <2>2 DEF Opened
<1>7. ASSUME NEW d \in Calls, Opened(d)'
      PROVE  Copied(Box(d))'
  <2>1. Opened(d) /\ Copied(Box(d))
    BY <1>6, <1>7 DEF Copying, Opened
  <2>2. replaced \/ token # None
    BY <2>1 DEF Copying, Copier, Opened
  <2>3. replaced' \/ UNCHANGED <<token, replaced>>
    BY <1>3, <2>2
  <2> QED BY <1>1, <1>6, <2>1, <2>3 DEF Copied
<1>8. Copier(c)'
  <2>1. CASE BeginSetup(c) \/ DialToSetUp(c)
    BY <1>1, <1>2, <2>1 DEF BeginSetup, DialToSetUp, Dial, Connects, Copier, At
  <2>2. CASE Detect(c) \/ Version(c) \/ Placed(c)
    BY <1>1, <1>2, <2>2 DEF Detect, Version, Placed, Copier, At
  <2>3. CASE Prepare(c)
    <3>1. proc'[c].prog # "token"
      <4>1. /\ pc[c] = "prepare"
            /\ UNCHANGED proc \/ \E prog \in {"release", "place"} : Exec(c, prog, BinUnits)
        BY <2>3 DEF Prepare
      <4>2. ASSUME NEW prog \in {"release", "place"}, Exec(c, prog, BinUnits)
            PROVE  proc'[c].prog = prog
        BY <1>1, <4>2 DEF Exec, Idle
      <4> QED BY <1>2, <4>1, <4>2
    <3>2. pc'[c] \in {"installing", "end"} /\ code'[c] # "ok"
      BY <1>1, <1>2, <2>3 DEF Prepare
    <3> QED BY <3>1, <3>2 DEF Copier, At
  <2>4. CASE GetToken(c)
    BY <1>1, <1>2, <2>4 DEF GetToken, Copier, At, unset, laptop
  <2>5. CASE SaveToken(c) \/ AddToken(c)
    <3>1. held[c] = c /\ proc[c].prog # "token"
      BY <1>1, <1>2, <2>5 DEF SaveToken, AddToken, Copying, Copier
    <3> QED BY <1>1, <1>2, <2>5, <3>1 DEF SaveToken, AddToken, Copier, At
  <2>6. CASE SendToken(c)
    <3>1. /\ proc[c].prog # "token" /\ (replaced \/ (held[c] = token /\ token # None))
          /\ UNCHANGED <<token, replaced>> /\ held'[c] = held[c]
      BY <1>1, <1>2, <2>6 DEF SendToken, Copying, Copier, unset, laptop, setupVars
    <3>2. CASE Exec(c, "token", 1) /\ Goto(c, "pairing")
      <4>1. proc'[c].prog = "token" /\ proc'[c].left = 1 /\ proc'[c].rc = "-" /\ pc'[c] = "pairing"
        BY <1>1, <3>2 DEF Exec, Idle
      <4> QED BY <1>2, <3>1, <3>2, <4>1 DEF Copier, At
    <3>3. CASE End(c, "unreachable") /\ UNCHANGED proc
      <4>1. pc'[c] = "end" /\ code'[c] = "unreachable" /\ proc'[c].prog # "token"
        BY <1>1, <3>1, <3>3
      <4> QED BY <4>1 DEF Copier, At
    <3> QED BY <2>6, <3>2, <3>3 DEF SendToken
  <2>7. CASE TokenSent(c) \/ LoadAliases(c) \/ SaveAliases(c)
    <3>1. UNCHANGED <<held, proc, token, replaced>> /\ Copier(c)
      BY <1>1, <2>7 DEF TokenSent, LoadAliases, SaveAliases, unset, laptop, setupVars, history, Copying
    <3> QED BY <1>1, <1>2, <2>7, <3>1 DEF TokenSent, RunOk, LoadAliases, SaveAliases, Copier, At
  <2> QED BY <2>1, <2>2, <2>3, <2>4, <2>5, <2>6, <2>7 DEF SettingUp
<1> QED BY <1>1, <1>4, <1>7, <1>8 DEF Copying

(* The token file of a box is what the last to write it has copied, or somebody is still to. *)
LEMMA CopyingOnBox ==
    ASSUME Typed, Overlaps, Copying, NEW c \in Calls, BoxStep(c), BoxFrame(c)
    PROVE  Copying'
<1>1. /\ proc \in [Calls -> Procs] /\ UNCHANGED <<job, pc, code, held, cut, token, replaced, target>>
      /\ rtoken \in [Boxes -> Calls \cup {None, "first"}]
      /\ Installing(c) /\ Box(c) \in Boxes /\ proc[c].at \notin {"none", "exited"}
      /\ proc'[c].prog = proc[c].prog /\ proc[c].rc = "-"
      /\ \A d \in Calls \ {c} : proc'[d] = proc[d]
      /\ \A d \in Calls : Box(d)' = Box(d) /\ (Installing(d)' <=> Installing(d))
      /\ \A b \in Boxes \ {Box(c)} : rtoken'[b] = rtoken[b]
  BY DEF BoxFrame, Typed, CallsTyped, TokensTyped, ProcsTyped, Box, Installing, calls, setupVars
<1>2. \A d \in Calls \ {c} : Installing(d) => Copier(d)'
  BY <1>1 DEF Copying, Copier, At
<1>3. \A d \in Calls \ {c} : Opened(d)' <=> Opened(d)
  BY <1>1 DEF Opened
<1>4. \A d \in Calls : Installing(d) => Box(d) \in Boxes
  BY DEF Typed, CallsTyped, Installing
<1>5. CASE proc[c].prog # "token"
  <2>1. UNCHANGED rtoken
    BY <1>5 DEF BoxStep, OpenTemp, WriteTemp, ChmodTemp, MoveTemp, Fetch, OpenToken, WriteToken, At, box
  <2>2. Copier(c)'
    BY <1>1, <1>5 DEF Copying, Copier, At
  <2>3. \A d \in Calls : Opened(d)' => Opened(d)
    BY <1>1, <1>3, <1>5 DEF Opened
  <2>4. \A b : Copied(b) => Copied(b)'
    <3>1. \A d \in Calls : Opened(d) => d # c
      BY <1>5 DEF Opened
    <3> QED BY <1>1, <1>3, <2>1, <3>1 DEF Copied
  <2>5. \A d \in Calls : Opened(d) => Copied(Box(d))
    BY DEF Copying, Opened
  <2> QED BY <1>1, <1>2, <2>2, <2>3, <2>4, <2>5 DEF Copying
<1>6. CASE proc[c].prog = "token"
  <2>1. Copier(c) /\ pc[c] \notin {"loadaliases", "savealiases"} /\ code[c] # "ok"
        /\ (replaced \/ (held[c] = token /\ token # None))
    BY <1>1, <1>6 DEF Copying, Copier, At
  <2>2. /\ proc'[c].at # "start"
        /\ proc'[c].rc = "ok" => c \in cut \/ proc'[c].left = 0
        /\ \/ proc'[c].left = proc[c].left /\ rtoken'[Box(c)] \in {rtoken[Box(c)], None}
              /\ (rtoken'[Box(c)] # rtoken[Box(c)] => proc[c].at = "start")
           \/ rtoken'[Box(c)] = held[c]
    <3>1. CASE OpenToken(c)
      BY <1>1, <3>1 DEF OpenToken, At, Step, Exit, Procs
    <3>2. CASE WriteToken(c)
      BY <1>1, <3>2 DEF WriteToken, At, Arrives, Eof, Exit, Procs
    <3> QED BY <1>6, <3>1, <3>2 DEF BoxStep, OpenTemp, WriteTemp, ChmodTemp, MoveTemp, Fetch, At
  <2>3. Copier(c)'
    BY <1>1, <2>1, <2>2 DEF Copier, At
  <2>4. Opened(c)'
    BY <1>1, <1>6, <2>2 DEF Opened
  <2>5. Copied(Box(c))'
    <3>1. CASE rtoken'[Box(c)] = held[c]
      BY <1>1, <2>1, <3>1 DEF Copied
    <3>2. CASE proc'[c].left = proc[c].left /\ proc[c].left # 0
      BY <1>1, <2>4, <3>2 DEF Copied
    <3>3. CASE proc'[c].left = proc[c].left /\ proc[c].left = 0 /\ rtoken'[Box(c)] = rtoken[Box(c)]
      <4>1. Opened(c) /\ Copied(Box(c))
        BY <1>1, <1>6, <2>1, <3>3 DEF Copier, Copying, Opened, At
      <4>2. \A d \in Calls : Opened(d) /\ proc[d].left # 0 => Opened(d)' /\ proc'[d].left # 0
        BY <1>1, <1>3, <3>3
      <4> QED BY <1>1, <3>3, <4>1, <4>2 DEF Copied
    <3>4. proc[c].at = "start" => proc[c].left # 0
      BY <1>6, <2>1 DEF Copier, At
    <3> QED BY <2>2, <3>1, <3>2, <3>3, <3>4
  <2>6. ASSUME NEW b \in Boxes \ {Box(c)}, Copied(b)
        PROVE  Copied(b)'
    <3>1. \A d \in Calls : Box(d) = b => d # c
      BY <2>6
    <3> QED BY <1>1, <1>3, <2>6, <3>1 DEF Copied
  <2>7. ASSUME NEW d \in Calls \ {c}, Opened(d)'
        PROVE  Copied(Box(d))'
    <3>1. Opened(d) /\ Installing(d) /\ Copied(Box(d))
      BY <1>3, <2>7 DEF Copying, Opened
    <3>2. Box(d)' = Box(d) /\ Box(d) \in Boxes
      BY <1>1, <1>4, <3>1
    <3>3. CASE Box(d) = Box(c)
      BY <1>1, <2>5, <3>2, <3>3
    <3>4. CASE Box(d) # Box(c)
      BY <2>6, <3>1, <3>2, <3>4
    <3> QED BY <3>3, <3>4
  <2> QED BY <1>1, <1>2, <2>3, <2>5, <2>7 DEF Copying
<1> QED BY <1>5, <1>6

(* A setup opens the files of its own box only. *)
LEMMA OwnersSetUp ==
    ASSUME Typed, Owners, NEW c \in Calls, SettingUp(c), SetupFrame(c)
    PROVE  Owners'
<1> USE DEF Goto, End
<1>1. /\ UNCHANGED <<job, target, bin, tmp>> /\ proc \in [Calls -> Procs] /\ pc \in [Calls -> Steps]
      /\ \A d \in Calls \ {c} : pc'[d] = pc[d] /\ proc'[d] = proc[d]
      /\ \A d : Installing(d)' <=> Installing(d)
      /\ \A f, b : Owned(f, b)' <=> Owned(f, b)
  BY DEF SetupFrame, box, Typed, ProcsTyped, CallsTyped, Installing, Owned, Box
<1>2. /\ At(c, "place", "write")' => At(c, "place", "write") /\ proc'[c].fd = proc[c].fd
      /\ proc'[c].prog \in {"place", "release"} /\ proc'[c].at # "exited" =>
            pc'[c] \in {"installing", "end"}
  <2>1. CASE UNCHANGED proc
    <3>1. proc[c].prog \in {"place", "release"} /\ proc[c].at # "exited" =>
             pc[c] \in {"installing", "end"}
      BY DEF Owners, SetupFrame
    <3>2. pc[c] = "installing" /\ pc'[c] # "end" => proc[c].at = "exited"
      BY <1>1 DEF SettingUp, BeginSetup, DialToSetUp, Dial, Detect, Version, Prepare, Placed, RunOk,
                  GetToken, SaveToken, AddToken, SendToken, TokenSent, LoadAliases, SaveAliases
    <3>3. pc[c] # "end"
      BY SetupsActive
    <3> QED BY <2>1, <3>1, <3>2, <3>3 DEF At
  <2>2. CASE Prepare(c)
    <3>1. CASE UNCHANGED proc
      BY <2>1, <3>1
    <3>2. ASSUME NEW prog \in {"place", "release"}, Exec(c, prog, BinUnits), Goto(c, "installing")
          PROVE  proc'[c].at = "start" /\ pc'[c] = "installing"
      BY <1>1, <3>2 DEF Exec, Idle
    <3> QED BY <2>2, <3>1, <3>2 DEF Prepare, At
  <2>3. CASE SendToken(c)
    <3>1. CASE UNCHANGED proc
      BY <2>1, <3>1
    <3>2. CASE Exec(c, "token", 1)
      <4>1. proc'[c].prog = "token"
        BY <1>1, <3>2 DEF Exec, Idle
      <4> QED BY <4>1 DEF At
    <3> QED BY <2>3, <3>1, <3>2 DEF SendToken
  <2>4. UNCHANGED proc \/ Prepare(c) \/ SendToken(c)
    BY DEF SettingUp, BeginSetup, DialToSetUp, Dial, Detect, Version, Placed,
           GetToken, SaveToken, AddToken, TokenSent, LoadAliases, SaveAliases
  <2> QED BY <2>1, <2>2, <2>3, <2>4
<1>3. \A d \in Calls : Box(d)' = Box(d)
  BY <1>1 DEF Box
<1>4. \A d \in Calls \ {c} : At(d, "place", "write")' <=> At(d, "place", "write")
  BY <1>1 DEF At
<1> QED BY <1>1, <1>2, <1>3, <1>4 DEF Owners

(* cat opens the file that is there, or a new one of the setup's. *)
LEMMA OwnersOnBox ==
    ASSUME Typed, Owners, NEW c \in Calls, BoxStep(c), BoxFrame(c)
    PROVE  Owners'
<1>1. /\ UNCHANGED <<job, target, pc>> /\ proc \in [Calls -> Procs]
      /\ bin \in [Boxes -> Calls \cup {None, Older, Same}] /\ tmp \in [Boxes -> Calls \cup {None}]
      /\ Same \notin Calls /\ None \notin Calls /\ Installing(c) /\ Box(c) \in Boxes
      /\ proc[c].at # "exited" /\ proc'[c].prog = proc[c].prog
      /\ \A d \in Calls \ {c} : proc'[d] = proc[d]
      /\ \A d : Installing(d)' <=> Installing(d)
      /\ \A d \in Calls : Box(d)' = Box(d)
      /\ \A f, b : Owned(f, b)' <=> Owned(f, b)
      /\ \A b \in Boxes \ {Box(c)} : bin'[b] = bin[b] /\ tmp'[b] = tmp[b]
  BY HostsAssumption DEF BoxFrame, calls, Typed, ProcsTyped, CallsTyped, FilesTyped, Installing, Owned,
                         Box, Same
<1>2. Owned(c, Box(c))
  BY <1>1 DEF Owned
<1>3. /\ tmp'[Box(c)] # None => Owned(tmp'[Box(c)], Box(c))
      /\ bin'[Box(c)] \in Calls => Owned(bin'[Box(c)], Box(c))
      /\ At(c, "place", "write")' => Owned(proc'[c].fd, Box(c))
  <2>1. /\ tmp[Box(c)] # None => Owned(tmp[Box(c)], Box(c))
        /\ bin[Box(c)] \in Calls => Owned(bin[Box(c)], Box(c))
        /\ At(c, "place", "write") => Owned(proc[c].fd, Box(c))
    BY <1>1 DEF Owners
  <2>2. CASE OpenTemp(c)
    BY <1>1, <1>2, <2>1, <2>2 DEF OpenTemp, At, Exit, Procs
  <2>3. CASE WriteTemp(c)
    BY <1>1, <2>1, <2>3 DEF WriteTemp, At, Step, Exit, Procs
  <2>4. CASE ChmodTemp(c)
    BY <1>1, <2>1, <2>4 DEF ChmodTemp, box, At, Step, Exit, Procs
  <2>5. CASE MoveTemp(c)
    BY <1>1, <2>1, <2>5 DEF MoveTemp, At, Exit, Procs
  <2>6. CASE Fetch(c)
    BY <1>1, <2>1, <2>6 DEF Fetch, At, Exit, Procs
  <2>7. CASE OpenToken(c) \/ WriteToken(c)
    BY <1>1, <2>1, <2>7 DEF OpenToken, WriteToken, At
  <2> QED BY <2>2, <2>3, <2>4, <2>5, <2>6, <2>7 DEF BoxStep
<1>4. proc'[c].prog \in {"place", "release"} => pc'[c] \in {"installing", "end"}
  BY <1>1 DEF Owners
<1>5. \A d \in Calls \ {c} : At(d, "place", "write")' <=> At(d, "place", "write")
  BY <1>1 DEF At
<1> QED BY <1>1, <1>3, <1>4, <1>5 DEF Owners

(* Beside the sole setup of a box nobody writes there. *)
LEMMA SoleIsAlone ==
    ASSUME Overlaps, NEW c \in Calls, NEW d \in Calls, Sole(c), Active(d), c # d
    PROVE  Box(d) # Box(c)
<1>1. PICK j \in 1..Len(begun) : begun[j] = d /\ \A i \in 1..Len(begun) : begun[i] = c => i < j
  BY DEF Overlaps, Sole
<1> SUFFICES ASSUME Box(d) = Box(c) PROVE FALSE
  OBVIOUS
<1>2. PICK k \in j..Len(begun) : begun[k] = c
  BY <1>1 DEF Sole
<1>3. k \in 1..Len(begun) /\ ~(k < j)
  BY <1>1, <1>2
<1> QED BY <1>1, <1>2, <1>3

(* A setup goes on to the token only when the binary is there. *)
LEMMA PlacingSetUp ==
    ASSUME Typed, Overlaps, Owners, Placing, NEW c \in Calls, SettingUp(c), SetupFrame(c)
    PROVE  Placing'
<1> USE DEF Goto, End
<1>1. /\ UNCHANGED <<job, target, cut, bin, tmp, bytes>> /\ proc \in [Calls -> Procs]
      /\ pc \in [Calls -> Steps] /\ code \in [Calls -> Exits]
      /\ begun \in Seq(Calls) /\ met \subseteq Calls /\ Installing(c)
      /\ \A d \in Calls \ {c} : pc'[d] = pc[d] /\ code'[d] = code[d] /\ proc'[d] = proc[d]
      /\ \A d : Installing(d)' <=> Installing(d)
      /\ \A d : Box(d)' = Box(d)
      /\ \A b : Installed(b)' <=> Installed(b)
  BY DEF SetupFrame, box, Typed, ProcsTyped, CallsTyped, SetupTyped, Installing, Box, Installed, Whole
<1>2. pc[c] # "end" /\ code[c] = "-"
  BY <1>1, SetupsActive DEF Overlaps
<1>3. met \subseteq met'
  BY SetupsActive
<1>4. ASSUME NEW d \in Calls, Sole(d)', d # c \/ UNCHANGED begun
      PROVE  Sole(d)
  <2>1. CASE UNCHANGED begun
    BY <1>1, <1>3, <1>4, <2>1 DEF Sole, Begun
  <2>2. CASE begun' = Append(begun, c) /\ d # c
    <3>1. /\ Len(begun') = Len(begun) + 1 /\ Len(begun) \in Nat /\ begun'[Len(begun) + 1] = c
          /\ \A i \in 1..Len(begun) : begun'[i] = begun[i]
      BY <1>1, <2>2
    <3>2. Installing(d) /\ d \notin met
      BY <1>1, <1>3, <1>4 DEF Sole
    <3>3. Begun(d)
      <4>1. PICK i \in 1..Len(begun') : begun'[i] = d
        BY <1>4 DEF Sole, Begun
      <4>2. i \in 1..Len(begun) /\ begun[i] = d
        BY <2>2, <3>1, <4>1
      <4> QED BY <4>2 DEF Begun
    <3>4. ASSUME NEW i \in 1..Len(begun), Box(begun[i]) = Box(d)
          PROVE  \E j \in i..Len(begun) : begun[j] = d
      <4>1. i \in 1..Len(begun') /\ target'[begun'[i]].box = target'[d].box
        <5>1. i \in 1..Len(begun') /\ begun'[i] = begun[i] /\ target' = target
          BY <1>1, <3>1, <3>4
        <5> QED BY <3>4, <5>1 DEF Box
      <4>2. PICK j \in i..Len(begun') : begun'[j] = d
        BY <1>4, <4>1 DEF Sole, Box
      <4>3. j \in i..Len(begun) /\ begun[j] = d
        BY <2>2, <3>1, <4>2
      <4> QED BY <4>3
    <3> QED BY <3>2, <3>3, <3>4 DEF Sole
  <2> QED BY <1>4, <2>1, <2>2, SetupsActive
<1>5. ASSUME NEW d \in Calls \ {c}, Sole(d)', job[d].route # "release"
      PROVE  Places(d)'
  <2>1. Places(d)
    BY <1>4, <1>5 DEF Placing
  <2> QED BY <1>1, <2>1 DEF Places
<1>6. ASSUME Sole(c)', job[c].route # "release"
      PROVE  Places(c)'
  <2>1. CASE BeginSetup(c)
    BY <1>1, <1>2, <2>1 DEF BeginSetup, Places
  <2>2. CASE ~BeginSetup(c)
    <3>1. Places(c) /\ pc[c] # "start"
      <4>1. pc[c] # "start" /\ UNCHANGED begun
        BY <2>2, SetupsActive DEF SetupFrame
      <4> QED BY <1>4, <1>6, <4>1 DEF Placing
    <3>2. CASE DialToSetUp(c) \/ Detect(c)
      BY <1>1, <1>2, <3>2 DEF DialToSetUp, Dial, Connects, Detect, Places
    <3>3. CASE Version(c)
      BY <1>1, <1>2, <3>3 DEF Version, UpToDate, Places
    <3>4. CASE Prepare(c)
      <4>1. CASE Exec(c, "place", BinUnits) /\ Goto(c, "installing")
        <5>1. proc'[c].prog = "place" /\ proc'[c].at = "start" /\ proc'[c].rc = "-"
          BY <1>1, <4>1 DEF Exec, Idle
        <5> QED BY <1>1, <1>2, <4>1, <5>1 DEF Places
      <4>2. CASE pc'[c] = "end" /\ code'[c] # "ok"
        BY <4>2 DEF Places
      <4> QED BY <1>1, <1>6, <3>4, <4>1, <4>2 DEF Prepare
    <3>5. CASE Placed(c)
      BY <1>1, <1>2, <3>1, <3>5 DEF Placed, RunOk, Places
    <3>6. CASE GetToken(c) \/ SaveToken(c) \/ AddToken(c)
      BY <1>1, <1>2, <3>1, <3>6 DEF GetToken, SaveToken, AddToken, Places
    <3>7. CASE SendToken(c)
      <4>1. Installed(Box(c)) /\ pc'[c] # "installing"
        BY <1>1, <3>1, <3>7 DEF SendToken, Places
      <4> QED BY <1>1, <4>1 DEF Places
    <3>8. CASE TokenSent(c) \/ LoadAliases(c) \/ SaveAliases(c)
      BY <1>1, <1>2, <3>1, <3>8 DEF TokenSent, LoadAliases, SaveAliases, Places
    <3> QED BY <2>2, <3>2, <3>3, <3>4, <3>5, <3>6, <3>7, <3>8 DEF SettingUp
  <2> QED BY <2>1, <2>2
<1> QED BY <1>1, <1>5, <1>6 DEF Placing

(* What the sole setup of a box has received is in the file that it moves into place. *)
LEMMA PlacingOnBox ==
    ASSUME Typed, Overlaps, Copying, Owners, Placing, NEW c \in Calls, BoxStep(c), BoxFrame(c)
    PROVE  Placing'
<1>1. /\ UNCHANGED <<job, target, pc, code, cut, met, begun>> /\ proc \in [Calls -> Procs]
      /\ bin \in [Boxes -> Calls \cup {None, Older, Same}] /\ tmp \in [Boxes -> Calls \cup {None}]
      /\ bytes \in [Calls -> SUBSET (1..BinUnits)] /\ BinUnits \in Nat
      /\ Same \notin Calls /\ Older \notin Calls /\ None \notin Calls
      /\ Installing(c) /\ Box(c) \in Boxes /\ Active(c)
      /\ proc[c].at \notin {"none", "exited"} /\ proc'[c].prog = proc[c].prog /\ proc[c].rc = "-"
      /\ \A d \in Calls \ {c} : proc'[d] = proc[d]
      /\ \A d : Box(d)' = Box(d) /\ (Sole(d)' <=> Sole(d))
      /\ \A b \in Boxes \ {Box(c)} : bin'[b] = bin[b] /\ tmp'[b] = tmp[b]
  BY HostsAssumption DEF BoxFrame, calls, setupVars, Typed, ProcsTyped, CallsTyped, FilesTyped,
         Installing, Box, Sole, Begun, Same, Older
<1>2. \A f \in Calls : bytes'[f] # bytes[f]
                       => f = c \/ f = tmp[Box(c)] \/ (At(c, "place", "write") /\ f = proc[c].fd)
  BY <1>1 DEF BoxStep, OpenTemp, WriteTemp, ChmodTemp, MoveTemp, Fetch, OpenToken, WriteToken, box
<1>3. \A f \in Calls : bytes'[f] # bytes[f] => Box(f) = Box(c)
  BY <1>1, <1>2 DEF Owners, Owned
<1>4. ASSUME NEW d \in Calls \ {c}, Sole(d), job[d].route # "release"
      PROVE  Places(d)'
  <2>1. Places(d) /\ Box(d) # Box(c) /\ Installing(d)
    BY <1>1, <1>4, SoleIsAlone DEF Placing, Sole
  <2>2. Box(d) \in Boxes
    BY <2>1 DEF Typed, CallsTyped, Installing
  <2>3. bin'[Box(d)] = bin[Box(d)] /\ tmp'[Box(d)] = tmp[Box(d)]
    BY <1>1, <2>1, <2>2
  <2>4. \A f \in Calls : Box(f) = Box(d) => bytes'[f] = bytes[f]
    BY <1>3, <2>1
  <2>5. Installed(Box(d)) => Installed(Box(d))'
    <3>1. bin[Box(d)] \in Calls => Box(bin[Box(d)]) = Box(d)
      BY <2>2 DEF Owners, Owned
    <3> QED BY <1>1, <2>3, <2>4, <3>1 DEF Installed, Whole
  <2>6. At(d, "place", "write") => proc[d].fd \in Calls /\ bytes'[proc[d].fd] = bytes[proc[d].fd]
    BY <2>1, <2>4 DEF Owners, Owned, At, Typed, ProcsTyped
  <2>7. tmp[Box(d)] \in Calls => bytes'[tmp[Box(d)]] = bytes[tmp[Box(d)]]
    BY <1>1, <2>2, <2>4 DEF Owners, Owned
  <2> QED BY <1>1, <2>1, <2>3, <2>5, <2>6, <2>7 DEF Places, At
<1>5. ASSUME Sole(c), job[c].route # "release"
      PROVE  Places(c)'
  <2>1. Places(c)
    BY <1>5 DEF Placing
  <2>2. code[c] # "ok"
    BY <1>1 DEF Copying, Copier, At
  <2>3. CASE proc[c].prog = "token"
    <3>1. UNCHANGED <<bin, tmp, bytes>>
      BY <2>3 DEF BoxStep, OpenTemp, WriteTemp, ChmodTemp, MoveTemp, Fetch, OpenToken, WriteToken, At
    <3>2. Installed(Box(c))' <=> Installed(Box(c))
      BY <1>1, <3>1 DEF Installed, Whole
    <3>3. pc[c] # "installing"
      BY <2>1, <2>3 DEF Places
    <3> QED BY <1>1, <2>1, <2>2, <3>2, <3>3 DEF Places
  <2>4. CASE proc[c].prog # "token"
    <3>1. pc[c] \in {"installing", "end"}
      <4>1. proc[c].prog \in {"place", "release"}
        BY <2>4 DEF BoxStep, OpenTemp, WriteTemp, ChmodTemp, MoveTemp, Fetch, OpenToken, WriteToken, At
      <4> QED BY <1>1, <4>1 DEF Owners
    <3>2. CASE pc[c] = "end"
      BY <1>1, <2>2, <3>2 DEF Places
    <3>3. CASE pc[c] = "installing"
      <4>1. /\ proc[c].prog = "place"
            /\ proc[c].at = "write" => tmp[Box(c)] = proc[c].fd /\ bytes[proc[c].fd] = 1..proc[c].got
            /\ proc[c].at \in {"chmod", "mv"} =>
                  c \in cut \/ (tmp[Box(c)] \in Calls /\ bytes[tmp[Box(c)]] = 1..BinUnits)
        BY <2>1, <3>3 DEF Places
      <4> SUFFICES /\ proc'[c].at = "write" =>
                        tmp'[Box(c)] = proc'[c].fd /\ bytes'[proc'[c].fd] = 1..proc'[c].got
                   /\ proc'[c].at \in {"chmod", "mv"} =>
                        c \in cut \/ (tmp'[Box(c)] \in Calls /\ bytes'[tmp'[Box(c)]] = 1..BinUnits)
                   /\ proc'[c].rc = "ok" => c \in cut \/ Installed(Box(c))'
        BY <1>1, <2>2, <3>3, <4>1 DEF Places
      <4>2. CASE OpenTemp(c)
        <5>1. CASE Exit(c, "generic")
          BY <1>1, <5>1 DEF Exit, Procs
        <5>2. ASSUME NEW f, f = IF tmp[Box(c)] = None THEN c ELSE tmp[Box(c)],
                     tmp' = [tmp EXCEPT ![Box(c)] = f], bytes' = [bytes EXCEPT ![f] = {}],
                     proc' = [proc EXCEPT ![c].at = "write", ![c].fd = f]
              PROVE  /\ proc'[c].at = "write" /\ proc'[c].rc = "-"
                     /\ tmp'[Box(c)] = proc'[c].fd /\ bytes'[proc'[c].fd] = 1..proc'[c].got
          <6>1. f \in Calls /\ proc[c].got = 0 /\ 1..0 = {}
            BY <1>1, <4>1, <4>2, <5>2 DEF OpenTemp, At, Typed, ProcsTyped
          <6> QED BY <1>1, <5>2, <6>1 DEF Procs
        <5> QED BY <4>2, <5>1, <5>2 DEF OpenTemp
      <4>3. CASE WriteTemp(c)
        <5>1. /\ proc[c].at = "write" /\ proc[c].fd \in Calls /\ tmp[Box(c)] = proc[c].fd /\ tmp' = tmp
              /\ proc[c].got \in Nat /\ proc[c].left \in Nat /\ proc[c].got + proc[c].left = BinUnits
              /\ bytes[proc[c].fd] = 1..proc[c].got
          BY <1>1, <4>1, <4>3 DEF WriteTemp, At, Typed, ProcsTyped, Procs
        <5>2. CASE /\ bytes' = [bytes EXCEPT ![proc[c].fd] = @ \cup {proc[c].got + 1}]
                   /\ proc' = [proc EXCEPT ![c].got = @ + 1, ![c].left = @ - 1]
          <6>1. (1..proc[c].got) \cup {proc[c].got + 1} = 1..(proc[c].got + 1)
            BY <5>1
          <6>2. /\ proc'[c].at = "write" /\ proc'[c].rc = "-" /\ proc'[c].fd = proc[c].fd
                /\ proc'[c].got = proc[c].got + 1
            BY <1>1, <5>1, <5>2 DEF Procs
          <6>3. bytes'[proc[c].fd] = (1..proc[c].got) \cup {proc[c].got + 1}
            BY <1>1, <5>1, <5>2
          <6> QED BY <5>1, <6>1, <6>2, <6>3
        <5>3. CASE Eof(c) /\ Step(c, "chmod") /\ UNCHANGED bytes
          <6>1. proc'[c].at = "chmod" /\ proc'[c].rc = "-"
            BY <1>1, <5>3 DEF Step, Procs
          <6>2. c \in cut \/ proc[c].got = BinUnits
            BY <5>1, <5>3 DEF Eof
          <6> QED BY <5>1, <5>3, <6>1, <6>2
        <5>4. CASE Exit(c, "generic")
          BY <1>1, <5>4 DEF Exit, Procs
        <5> QED BY <4>3, <5>2, <5>3, <5>4 DEF WriteTemp
      <4>4. CASE ChmodTemp(c)
        <5>1. UNCHANGED <<tmp, bytes>> /\ proc[c].at = "chmod"
          BY <4>4 DEF ChmodTemp, box, At
        <5>2. proc'[c].rc # "ok" /\ proc'[c].at # "write"
          BY <1>1, <4>4 DEF ChmodTemp, Exit, Step, Procs
        <5> QED BY <4>1, <5>1, <5>2
      <4>5. CASE MoveTemp(c)
        <5>1. proc[c].at = "mv" /\ proc'[c].at = "exited"
          BY <1>1, <4>5 DEF MoveTemp, At, Exit, Procs
        <5>2. ASSUME c \notin cut, proc'[c].rc = "ok"
              PROVE  Installed(Box(c))'
          <6>1. tmp[Box(c)] \in Calls /\ bytes[tmp[Box(c)]] = 1..BinUnits
            BY <4>1, <5>1, <5>2
          <6>2. bin'[Box(c)] = tmp[Box(c)] /\ bytes' = bytes
            BY <1>1, <4>5, <6>1 DEF MoveTemp
          <6> QED BY <1>1, <6>1, <6>2 DEF Installed, Whole
        <5> QED BY <5>1, <5>2
      <4> QED BY <4>1, <4>2, <4>3, <4>4, <4>5
              DEF BoxStep, Fetch, OpenToken, WriteToken, At
    <3> QED BY <3>1, <3>2, <3>3
  <2> QED BY <2>3, <2>4
<1> QED BY <1>1, <1>4, <1>5 DEF Placing

(* A setup that nobody meets finds its alias in every store that is saved later. *)
LEMMA RecordingSetUp ==
    ASSUME Typed, Overlaps, Recording, NEW c \in Calls, SettingUp(c), SetupFrame(c)
    PROVE  Recording'
<1> USE DEF Goto, End
<1>1. /\ pc \in [Calls -> Steps] /\ code \in [Calls -> Exits] /\ Installing(c) /\ Box(c) \in Boxes
      /\ snap = [d \in Calls |-> snap[d]] /\ Store(snap[c]) /\ met \subseteq met'
      /\ \A d \in Calls \ {c} : pc'[d] = pc[d] /\ code'[d] = code[d] /\ snap'[d] = snap[d]
      /\ \A d : Box(d)' = Box(d) /\ (Installing(d)' <=> Installing(d))
  BY SetupsActive DEF SetupFrame, Typed, CallsTyped, AliasesTyped, Installing, Box
<1>2. pc[c] # "end" /\ code[c] = "-"
  BY <1>1, SetupsActive DEF Overlaps
<1>3. CASE LoadAliases(c)
  <2>1. UNCHANGED <<aliases, met, code>> /\ snap'[c] = aliases
    BY <1>1, <1>3 DEF LoadAliases, unset, laptop, history
  <2>2. \A d \in Calls : SetUp(d)' => SetUp(d)
    BY <1>1, <2>1 DEF SetUp
  <2>3. \A d \in Calls : d = c \/ (pc'[d] = pc[d] /\ snap'[d] = snap[d])
    BY <1>1
  <2> QED BY <1>1, <2>1, <2>2, <2>3 DEF Recording
<1>4. CASE SaveAliases(c) /\ aliases' = Recorded(snap[c], Box(c)) /\ End(c, "ok")
  <2>1. UNCHANGED snap /\ pc[c] = "savealiases"
    BY <1>4 DEF SaveAliases, setupVars
  <2>2. /\ aliases'.def = Box(c) /\ DOMAIN aliases'.flag = DOMAIN snap[c].flag \cup {Box(c)}
        /\ \A x \in DOMAIN aliases'.flag : aliases'.flag[x] = (x = Box(c))
    BY <1>4 DEF Recorded
  <2>3. \A b \in Boxes : aliases'.def = b <=> (b \in DOMAIN aliases'.flag /\ aliases'.flag[b])
    BY <1>1, <2>2
  <2>4. c \notin met => \A d \in Calls : Installing(d) /\ pc'[d] = "savealiases" => FALSE
    <3>1. \A d \in Calls : Installing(d) /\ pc[d] = "savealiases" => Active(d)
      BY DEF Active
    <3>2. \A d \in Calls : Installing(d) /\ pc'[d] = "savealiases" => d # c /\ pc[d] = "savealiases"
      BY <1>1, <1>4
    <3>3. Active(c)
      BY <1>1, <2>1, <3>1
    <3> QED BY <3>1, <3>2, <3>3 DEF Overlaps
  <2>5. ASSUME NEW d \in Calls \ {c}, SetUp(d)', d \notin met'
        PROVE  /\ Box(d) \in DOMAIN aliases'.flag
               /\ \A e \in Calls : Installing(e) /\ pc'[e] = "savealiases" => Box(d) \in DOMAIN snap'[e].flag
    <3>1. SetUp(d) /\ d \notin met
      BY <1>1, <2>5 DEF SetUp
    <3>2. \A e \in Calls : Installing(e) /\ pc[e] = "savealiases" => Box(d) \in DOMAIN snap[e].flag
      BY <3>1 DEF Recording
    <3>3. \A e \in Calls : pc'[e] = "savealiases" => pc[e] = "savealiases"
      BY <1>1, <1>4
    <3> QED BY <1>1, <2>1, <2>2, <3>2, <3>3
  <2> QED BY <1>1, <2>2, <2>3, <2>4, <2>5 DEF Recording
<1>5. CASE UNCHANGED <<aliases, snap>> /\ code'[c] # "ok" /\ (pc'[c] = "savealiases" => pc[c] = "savealiases")
  <2>1. \A d \in Calls : SetUp(d)' => SetUp(d)
    BY <1>1, <1>5 DEF SetUp
  <2>2. \A d \in Calls : pc'[d] = "savealiases" => pc[d] = "savealiases"
    BY <1>1, <1>5
  <2> QED BY <1>1, <1>5, <2>1, <2>2 DEF Recording
<1>6. CASE ~LoadAliases(c) /\ ~SaveAliases(c)
  <2>1. UNCHANGED <<aliases, snap>>
    BY <1>6 DEF SettingUp, BeginSetup, DialToSetUp, Dial, Detect, Version, Prepare, Placed,
                GetToken, SaveToken, AddToken, SendToken, TokenSent, unset, laptop, setupVars, history
  <2>2. code'[c] # "ok" /\ (pc'[c] = "savealiases" => pc[c] = "savealiases")
    BY <1>1, <1>2, <1>6
       DEF SettingUp, BeginSetup, DialToSetUp, Dial, Connects, Detect, Version, Prepare, Placed,
           GetToken, SaveToken, AddToken, SendToken, TokenSent
  <2> QED BY <1>5, <2>1, <2>2
<1>7. CASE SaveAliases(c) /\ UNCHANGED aliases /\ End(c, "config")
  <2>1. UNCHANGED snap /\ code'[c] # "ok" /\ pc'[c] = "end"
    BY <1>1, <1>7 DEF SaveAliases, setupVars
  <2> QED BY <1>5, <1>7, <2>1
<1> QED BY <1>3, <1>4, <1>6, <1>7 DEF SaveAliases

(* Whatever setups, and other calls, run beside each other keeps it. *)
LEMMA AchievedKept ==
    ASSUME Typed, \A c \in Calls : Pushed(c), Reachable, Achieved, [Next]_vars
    PROVE  Achieved'
<1> USE DEF Achieved
<1>1. ASSUME NEW c \in Calls, SettingUp(c)
      PROVE  Achieved'
  <2>1. SetupFrame(c) /\ LocalSteps
    BY <1>1, SetupsFrame DEF Reachable
  <2> QED BY <1>1, <2>1, OverlapsKept, CopyingSetUp, OwnersSetUp, PlacingSetUp, RecordingSetUp
<1>2. ASSUME NEW c \in Calls, BoxStep(c)
      PROVE  Achieved'
  <2>1. BoxFrame(c)
    BY <1>2, BoxesFrame
  <2>2. /\ UNCHANGED <<job, pc, code, target, aliases, snap, met, begun>>
        /\ \A d \in Calls : proc'[d].prog = proc[d].prog
        /\ \A d \in Calls : Active(d)' => Active(d)
    BY <2>1 DEF BoxFrame, calls, setupVars, Active, Installing
  <2>3. Overlaps'
    BY <2>2 DEF Overlaps, Begun, Installing
  <2>4. Recording'
    BY <2>2 DEF Recording, SetUp, Installing, Box
  <2> QED BY <1>2, <2>1, <2>3, <2>4, CopyingOnBox, OwnersOnBox, PlacingOnBox
<1>3. CASE ~\E c \in Calls : SettingUp(c) \/ BoxStep(c)
  BY <1>3, OthersFrame, OthersKeepAchieved
<1> QED BY <1>1, <1>2, <1>3

------------------------------------------------------------------------------
(* The inductive invariant: the types, where each push stands, who is trusted, how
   daemons and clients find each other, and what setups have achieved. *)
IInv == Typed /\ (\A c \in Calls : Pushed(c)) /\ Trusted /\ Reachable /\ Achieved

(* Nothing has been sent, and nobody is connected. *)
LEMMA InitInv == Init => IInv
<1> SUFFICES ASSUME Init PROVE IInv
  OBVIOUS
<1>1. Typed
  BY InitTyped
<1>2. ASSUME NEW c \in Calls
      PROVE  /\ proc[c] = Idle /\ code[c] = "-" /\ spills[c] = {} /\ peer[c] = None /\ db[c] = {}
             /\ pc[c] \in {"start", "end"} /\ taken = {} /\ accepted = {}
  BY DEF Init, HostsInit, PushInit
<1>3. ASSUME NEW c \in Calls
      PROVE  Pushed(c)
  <2>1. Idle.prog = "none"
    BY DEF Idle
  <2>2. 0 \in 0..Last(c) /\ WholeUpTo(c, 0) /\ NoneShort(c)
    <3>1. Last(c) \in Nat
      BY <1>1, SumsUp DEF Typed, Summed
    <3>2. 0 \in 0..Last(c) /\ \A i \in 1..Last(c) : ~(i <= 0)
      BY <3>1
    <3>3. taken = {}
      BY <1>2
    <3> QED BY <3>2, <3>3 DEF WholeUpTo, NoneShort
  <2> QED BY <1>2, <2>1, <2>2 DEF Pushed
<1>4. Trusted
  BY <1>2 DEF Trusted
<1> QED BY <1>1, <1>3, <1>4, InitReachable, InitAchieved DEF IInv

(* Every step keeps the inductive invariant. *)
LEMMA NextInv == IInv /\ [Next]_vars => IInv'
<1> SUFFICES ASSUME IInv, [Next]_vars PROVE IInv'
  OBVIOUS
<1>1. Typed /\ (\A c \in Calls : Pushed(c)) /\ Trusted /\ Reachable /\ Achieved
  BY DEF IInv
<1>2. JobsTyped'
  BY <1>1, JobsStay DEF Typed, JobsTyped
<1>3. Typed'
  BY <1>1, <1>2, CallsTypedKept, NetTypedKept, TokensTypedKept, ProcsTypedKept, FilesTypedKept,
     AliasesTypedKept, PushTypedKept, SetupTypedKept, SocketTypedKept DEF Typed
<1> QED BY <1>1, <1>3, PushKept, TrustKept, ReachableKept, AchievedKept DEF IInv

(* The inductive invariant holds in every state. *)
LEMMA Invariance == Spec => []IInv
BY InitInv, NextInv, PTL DEF Spec

(* The variables keep their types, for any calls, boxes, keys and frames. *)
THEOREM TypeCorrect == Spec => []TypeOK
<1>1. IInv => TypeOK
  BY TypedIsTypeOK DEF IInv
<1> QED BY <1>1, Invariance, PTL

(* Whatever calls dial at the same time, a call is connected only to a key that was
   pinned, and that it had found there unless it pinned the first for the box itself. *)
THEOREM TrustIsPinned == Spec => []OnlyTrustedHosts
<1>1. IInv => OnlyTrustedHosts
  <2> SUFFICES ASSUME IInv PROVE OnlyTrustedHosts
    OBVIOUS
  <2>1. Trusted
    BY DEF IInv
  <2>2. ASSUME NEW p \in knownHosts, NEW q \in knownHosts, NEW c \in Calls,
               p[1] = q[1], p # q, <<c, p>> \in accepted
        PROVE  \E d \in Calls \ {c} :
                  /\ <<d, q>> \in accepted
                  /\ \A e \in {c, d} : job[e].accept /\ ~\E r \in db[e] : r[1] = p[1]
    <3>1. q \notin db[c] /\ job[c].accept /\ ~\E r \in db[c] : r[1] = p[1]
      BY <2>1, <2>2 DEF Trusted
    <3>2. PICK d \in Calls : <<d, q>> \in accepted
      BY <2>1, <2>2, <3>1 DEF Trusted
    <3>3. d # c
      BY <2>1, <2>2, <3>2 DEF Trusted
    <3>4. job[d].accept /\ ~\E r \in db[d] : r[1] = p[1]
      BY <2>1, <2>2, <3>2 DEF Trusted
    <3> QED BY <3>1, <3>2, <3>3, <3>4
  <2> QED BY <2>1, <2>2 DEF OnlyTrustedHosts, Trusted
<1> QED BY <1>1, Invariance, PTL

(* A sender that is told ok has every item of its frame, whole, on the box. *)
THEOREM SuccessIsDelivery == Spec => []SuccessMeansDelivered
<1>1. IInv => SuccessMeansDelivered
  <2> SUFFICES ASSUME IInv, NEW c \in Calls, job[c].verb \in {"send", "post"}, code[c] = "ok"
               PROVE  All(c) \subseteq taken
    BY DEF SuccessMeansDelivered
  <2>1. Pushed(c) /\ Last(c) \in Nat
    BY SumsUp DEF IInv, Typed, Summed
  <2>2. WholeUpTo(c, Last(c))
    <3>1. CASE job[c].verb = "send"
      BY <2>1, <3>1 DEF Pushed, Position, AllSaved
    <3>2. CASE job[c].verb = "post"
      BY <2>1, <3>2 DEF Pushed
    <3> QED BY <3>1, <3>2
  <2>3. \A i \in 1..Last(c) : <<c, i, TRUE>> \in taken
    <3>1. \A i \in 1..Last(c) : i <= Last(c)
      BY <2>1
    <3> QED BY <2>2, <3>1 DEF WholeUpTo
  <2> QED BY <2>3 DEF All
<1> QED BY <1>1, Invariance, PTL

(* However a push is broken, what it has left on the box is a front of its frame, of
   which at most the last payload is short, and then the sender knows. *)
THEOREM CutsStayContained == Spec => []CutsAreContained
<1>1. IInv => CutsAreContained
  <2> SUFFICES ASSUME IInv, NEW c \in Calls
               PROVE
        /\ \A i \in 1..Last(c) : <<c, i, FALSE>> \in taken =>
              i = Last(c) /\ c \in cut /\ code[c] # "ok" /\ <<c, i, TRUE>> \notin taken
        /\ \A i \in 1..Last(c) : (\E w \in BOOLEAN : <<c, i, w>> \in taken) =>
              \A j \in 1..(i - 1) : <<c, j, TRUE>> \in taken
        /\ proc[c].at = "exited" /\ spills[c] # {} =>
              proc[c].rc \in {"remoteIO", "toolarge"} /\ \E i \in 1..Last(c) : <<c, i, TRUE>> \notin taken
    BY DEF CutsAreContained
  <2>1. Pushed(c) /\ Last(c) \in Nat
    BY SumsUp DEF IInv, Typed, Summed
  <2>2. \/ NoneShort(c) /\ \E n \in 0..Last(c) : WholeUpTo(c, n)
        \/ /\ c \in cut /\ proc[c].prog = "ingest" /\ WholeUpTo(c, Last(c) - 1)
           /\ \A i \in 1..Last(c) : <<c, i, FALSE>> \in taken <=> i = Last(c)
    <3>1. CASE proc[c].prog # "ingest"
      <4>1. 0 \in 0..Last(c)
        BY <2>1
      <4>2. CASE job[c].verb = "post"
        BY <2>1, <4>2 DEF Pushed
      <4>3. CASE job[c].verb # "post"
        BY <2>1, <3>1, <4>1, <4>3 DEF Pushed
      <4> QED BY <4>2, <4>3
    <3>2. CASE proc[c].prog = "ingest"
      <4>1. 0 \in 0..Last(c) /\ Last(c) \in 0..Last(c) /\ \A n \in 0..(Last(c) - 1) : n \in 0..Last(c)
        BY <2>1
      <4>2. Position(c)
        BY <2>1, <3>2 DEF Pushed
      <4>3. CASE proc[c].at = "save"
        <5>1. Here(c) - 1 \in 0..Last(c)
          BY <2>1, <4>2, <4>3 DEF Position
        <5> QED BY <4>2, <4>3, <5>1 DEF Position
      <4> QED BY <3>2, <4>1, <4>2, <4>3 DEF Position, AllSaved
    <3> QED BY <3>1, <3>2
  <2>3. proc[c].at = "exited" /\ spills[c] # {} =>
           /\ proc[c].rc \in {"remoteIO", "toolarge"}
           /\ \E n \in 0..(Last(c) - 1) : WholeUpTo(c, n)
    BY <2>1 DEF Pushed, Position
  <2>4. job[c].verb = "send" /\ code[c] = "ok" => c \notin cut
    BY <2>1 DEF Pushed
  <2>5. proc[c].prog = "ingest" => job[c].verb = "send"
    BY <2>1 DEF Pushed
  <2>6. \A i \in 1..Last(c) : <<c, i, FALSE>> \in taken =>
           i = Last(c) /\ c \in cut /\ code[c] # "ok" /\ <<c, i, TRUE>> \notin taken
    <3> SUFFICES ASSUME NEW i \in 1..Last(c), <<c, i, FALSE>> \in taken
                 PROVE  i = Last(c) /\ c \in cut /\ code[c] # "ok" /\ <<c, i, TRUE>> \notin taken
      OBVIOUS
    <3>1. i = Last(c) /\ c \in cut /\ proc[c].prog = "ingest" /\ WholeUpTo(c, Last(c) - 1)
      BY <2>2 DEF NoneShort
    <3>2. ~(i <= Last(c) - 1)
      BY <2>1, <3>1
    <3>3. <<c, i, TRUE>> \notin taken
      BY <3>1, <3>2 DEF WholeUpTo
    <3> QED BY <2>4, <2>5, <3>1, <3>3
  <2>7. ASSUME NEW i \in 1..Last(c), NEW w \in BOOLEAN, <<c, i, w>> \in taken, NEW j \in 1..(i - 1)
        PROVE  <<c, j, TRUE>> \in taken
    <3>1. <<c, i, TRUE>> \in taken \/ <<c, i, FALSE>> \in taken
      BY <2>7
    <3>2. j \in 1..Last(c) /\ j < i
      BY <2>1, <2>7
    <3>3. PICK n \in 0..Last(c) : WholeUpTo(c, n) /\ (<<c, i, FALSE>> \in taken => i = n + 1)
      <4>1. CASE NoneShort(c) /\ \E n \in 0..Last(c) : WholeUpTo(c, n)
        BY <4>1 DEF NoneShort
      <4>2. CASE /\ WholeUpTo(c, Last(c) - 1)
                 /\ \A k \in 1..Last(c) : <<c, k, FALSE>> \in taken <=> k = Last(c)
        <5>1. Last(c) - 1 \in 0..Last(c) /\ Last(c) = (Last(c) - 1) + 1
          BY <2>1
        <5> QED BY <4>2, <5>1
      <4> QED BY <2>2, <4>1, <4>2
    <3>4. i <= n + 1 /\ j <= n
      <4>1. <<c, i, TRUE>> \in taken => i <= n
        BY <3>3 DEF WholeUpTo
      <4> QED BY <2>1, <3>1, <3>2, <3>3, <4>1
    <3> QED BY <3>2, <3>3, <3>4 DEF WholeUpTo
  <2>8. \A n \in 0..(Last(c) - 1) : WholeUpTo(c, n) => \E i \in 1..Last(c) : <<c, i, TRUE>> \notin taken
    <3> SUFFICES ASSUME NEW n \in 0..(Last(c) - 1), WholeUpTo(c, n)
                 PROVE  <<c, n + 1, TRUE>> \notin taken /\ n + 1 \in 1..Last(c)
      OBVIOUS
    <3>1. n + 1 \in 1..Last(c) /\ ~(n + 1 <= n)
      BY <2>1
    <3> QED BY <3>1 DEF WholeUpTo
  <2> QED BY <2>3, <2>6, <2>7, <2>8
<1> QED BY <1>1, Invariance, PTL

(* A daemon is found by the clients of its box, however daemons start, stop and are
   killed; except where two socket daemons have met, or a socket was left behind. *)
THEOREM DaemonsAreReached == Spec => []DaemonIsReached
<1>1. IInv => DaemonIsReached
  <2> SUFFICES ASSUME IInv PROVE DaemonIsReached
    OBVIOUS
  <2>1. Reachable
    BY DEF IInv
  <2>2. ASSUME NEW b \in Boxes \ crowded
        PROVE  /\ \A d \in Serving(b) : Socket(d) => sock[b] = d
               /\ sock[b] # None => Listening(sock[b]) \/ code[sock[b]] = "killed"
    BY <2>1, <2>2 DEF Reachable, Orderly, Found, Serving
  <2>3. ASSUME NEW c \in Calls, job[c].verb = "last"
        PROVE  /\ code[c] = "disk" /\ steady[c] # {} =>
                     Box(c) \in crowded \/ (Box(c) \in deserted /\ \A d \in steady[c] : Tcp(d))
               /\ code[c] = "unauthorized" =>
                     \E s \in Calls : job[s].verb = "setup" /\ Box(s) = Box(c) /\ proc[s].prog = "token"
    BY <2>1, <2>3 DEF Reachable, Answered, Answer, Paired
  <2> QED BY <2>2, <2>3 DEF DaemonIsReached
<1> QED BY <1>1, Invariance, PTL

(* A setup that reports success has put the binary, the laptop's token and the alias in
   place, however setups run beside each other; except where the box has fetched the binary
   itself, where two setups have met, and where a token was replaced or a later setup failed. *)
THEOREM SetupsAchieve == Spec => []SetupMeansReady
<1>1. IInv => SetupMeansReady
  <2> SUFFICES ASSUME IInv PROVE BinaryReady /\ TokensShared /\ AliasesKept
    BY DEF SetupMeansReady
  <2>1. Typed /\ Overlaps /\ Copying /\ Placing /\ Recording /\ LocalSteps
    BY DEF IInv, Achieved, Reachable
  <2>2. BinaryReady
    <3> SUFFICES ASSUME NEW c \in Calls, SetUp(c), c \notin met, job[c].route # "release",
                        \A i \in 1..Len(begun) : Box(begun[i]) = Box(c) =>
                           \E j \in i..Len(begun) : begun[j] = c
                 PROVE  Installed(Box(c))
      BY DEF BinaryReady
    <3>1. Sole(c)
      BY <2>1 DEF Sole, SetUp, Overlaps
    <3> QED BY <2>1, <3>1 DEF Placing, Places, SetUp
  <2>3. TokensShared
    <3> SUFFICES ASSUME Quiet, ~replaced, NEW c \in Calls, SetUp(c), rtoken[Box(c)] # token
                 PROVE  \E d \in Calls : Installing(d) /\ Box(d) = Box(c) /\ code[d] \in Exits \ {"-", "ok"}
      BY DEF TokensShared
    <3>1. Opened(c) /\ Copied(Box(c))
      BY <2>1 DEF SetUp, Copying, Copier, Opened, At
    <3>2. PICK d \in Calls : Opened(d) /\ proc[d].left # 0 /\ Box(d) = Box(c)
      BY <3>1 DEF Copied
    <3>3. Installing(d) /\ pc[d] = "end"
      BY <2>1, <3>2 DEF Opened, Quiet, Active, LocalSteps
    <3>4. code[d] \in Exits /\ code[d] # "-" /\ code[d] # "ok"
      BY <2>1, <3>2, <3>3 DEF Typed, CallsTyped, Installing, Copying, Copier
    <3> QED BY <3>2, <3>3, <3>4
  <2>4. AliasesKept
    BY <2>1 DEF AliasesKept, Recording
  <2> QED BY <2>2, <2>3, <2>4
<1> QED BY <1>1, Invariance, PTL
=============================================================================
