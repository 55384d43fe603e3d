---------------------------- MODULE AgentDelivery ----------------------------
(***************************************************************************)
(* The two ways an agent item travels.  A push to the daemon goes into its *)
(* in-memory inbox and out by GET /recv; a push over ssh is saved by a     *)
(* `clipbeam ingest' process, which journals it on disk, daemon or not     *)
(* (cli/verbs_ingest.go:63).  `clipbeam recv' asks the daemon, and drains  *)
(* the journal only when the request fails (cli/verbs_read.go:155-201).    *)
(*                                                                         *)
(* The inbox is its abstract specification, Inbox.tla, with a call as one  *)
(* step: AgentInbox.tla shows that the store implements it.                *)
(***************************************************************************)
EXTENDS AgentJournal

CONSTANTS Pushed  \* the items pushed to the daemon

ASSUME DeliveryAssumption ==
    /\ Pushed \subseteq Items
    /\ \A p \in Ingests : \A i \in DOMAIN Frame[p] : Frame[p][i] \notin Pushed

VARIABLES up,    \* a daemon is running
          fifo   \* the daemon's inbox

vars == <<journalVars, up, fifo>>

RecvPCs == {"idle", "list", "relist", "claim", "read", "remove", "print", "polling", "answered"}

Init ==
    /\ JournalInit
    /\ up \in BOOLEAN
    /\ fifo = <<>>

(* POST /agent-send, or /clip on the agent channel. *)
Push(i) ==
    /\ up
    /\ i \notin accepted
    /\ fifo' = Append(fifo, i)
    /\ accepted' = accepted \cup {i}
    /\ UNCHANGED <<dir, ingests, callers, emitted, lost, claims, older, collided, up>>

(* recv dials the control socket: the daemon answers, or the dial fails and
   recv turns to the disk. *)
NoFallback == "idle"  \* mutant: recv reports the failure and exits
Fallback == "list"

Dial(c) ==
    /\ rpc[c] = "idle"
    /\ rpc' = [rpc EXCEPT ![c] = IF up THEN "polling" ELSE Fallback]
    /\ UNCHANGED <<dir, ingests, listing, mine, got, history, up, fifo>>

(* The daemon takes the oldest item for an open request ... *)
Serve(c) ==
    /\ rpc[c] = "polling"
    /\ fifo # <<>>
    /\ got' = [got EXCEPT ![c] = Head(fifo)]
    /\ fifo' = Tail(fifo)
    /\ rpc' = [rpc EXCEPT ![c] = "answered"]
    /\ UNCHANGED <<dir, ingests, listing, mine, history, up>>

(* ... and recv prints the body of the response. *)
Deliver(c) ==
    /\ rpc[c] = "answered"
    /\ emitted' = [emitted EXCEPT ![got[c]] = @ + 1]
    /\ got' = [got EXCEPT ![c] = NoItem]
    /\ rpc' = [rpc EXCEPT ![c] = "idle"]
    /\ UNCHANGED <<dir, ingests, listing, mine, accepted, lost, claims, older, collided,
                   up, fifo>>

(* 204: the poll window has closed on an empty inbox. *)
PollEnds(c) ==
    /\ rpc[c] = "polling"
    /\ fifo = <<>>
    /\ rpc' = [rpc EXCEPT ![c] = "idle"]
    /\ UNCHANGED <<dir, ingests, listing, mine, got, history, up, fifo>>

(* recv goes away before the response is written to it: handleRecv drops the
   item it has dequeued (httpd/routes.go:253-269). *)
HangUp(c) ==
    /\ rpc[c] = "answered"
    /\ lost' = lost \cup {got[c]}
    /\ got' = [got EXCEPT ![c] = NoItem]
    /\ rpc' = [rpc EXCEPT ![c] = "idle"]
    /\ UNCHANGED <<dir, ingests, listing, mine, accepted, emitted, claims, older, collided,
                   up, fifo>>

(* The daemon stops: the inbox and the responses under way are gone, and each
   open request fails in transport, which sends recv to the disk. *)
Stop ==
    LET open == {c \in Callers : rpc[c] \in {"polling", "answered"}}
    IN  /\ up
        /\ up' = FALSE
        /\ fifo' = <<>>
        /\ lost' = lost \cup Range(fifo) \cup ({got[c] : c \in open} \ {NoItem})
        /\ got' = [c \in Callers |-> IF c \in open THEN NoItem ELSE got[c]]
        /\ rpc' = [c \in Callers |-> IF c \in open THEN Fallback ELSE rpc[c]]
        /\ UNCHANGED <<dir, ingests, listing, mine, accepted, emitted, claims, older, collided>>

Start ==
    /\ ~up
    /\ up' = TRUE
    /\ UNCHANGED <<journalVars, fifo>>

Recv(c) ==
    \/ Dial(c) \/ Serve(c) \/ Deliver(c) \/ PollEnds(c)
    \/ Drain(c) /\ UNCHANGED <<up, fifo>>

Fault ==
    \/ \E p \in Ingests : Abort(p) /\ UNCHANGED <<up, fifo>>
    \/ \E c \in Callers : (Expire(c) \/ Unreadable(c) \/ Kill(c)) /\ UNCHANGED <<up, fifo>>
    \/ \E c \in Callers : HangUp(c)
    \/ Stop

Next ==
    \/ \E p \in Ingests : Ingest(p) /\ UNCHANGED <<up, fifo>>
    \/ \E i \in Pushed : Push(i)
    \/ \E c \in Callers : Recv(c)
    \/ Start
    \/ Fault

(* Processes run, and one recv is followed by another; nothing says that a
   daemon is ever started or stopped. *)
Fairness ==
    /\ \A p \in Ingests : WF_vars(Ingest(p) /\ UNCHANGED <<up, fifo>>)
    /\ \A c \in Callers : WF_vars(Recv(c))

Spec == Init /\ [][Next]_vars
FairSpec == Spec /\ Fairness
------------------------------------------------------------------------------
(* Properties. *)

(* The variables have their types; a caller that has claimed a record is the only
   one with that name, and finds its .taken- file, unless names have collided. *)
TypeOK ==
    /\ DOMAIN journal \cup DOMAIN taken \subseteq Nat \X Nat
    /\ Range(journal) \cup Range(taken) \subseteq Items
    /\ rpc \in [Callers -> RecvPCs]
    /\ got \in [Callers -> Items \cup {NoItem}]
    /\ \A c \in Callers : (got[c] # NoItem) <=> (rpc[c] \in {"remove", "print", "answered"})
    /\ up \in BOOLEAN /\ fifo \in Seq(Items) /\ (fifo # <<>> => up)
    /\ ~collided => \A c, d \in Callers : rpc[c] \in {"read", "remove"} =>
          mine[c] \in DOMAIN taken /\ (c # d => mine[c] # mine[d])

(* How many copies of an item there are, wherever it is. *)
Copies(i) ==
    Cardinality({n \in DOMAIN journal : journal[n] = i})
      + Cardinality({k \in DOMAIN fifo : fifo[k] = i})
      + Cardinality({c \in Callers : i \in Holds(c) \/ (rpc[c] = "answered" /\ got[c] = i)})
      + emitted[i]
      + (IF i \in lost THEN 1 ELSE 0)

(* Every saved item is in one place: in the journal or the inbox, in the hands of
   one caller, printed once, or lost with whoever had it.  No interleaving of
   drainers, daemon and client prints it twice or forgets it, unless two ingest
   processes drew the same name (agentjournal.go:79-81, concrete.go:99-105). *)
ExactlyOnce ==
    ~collided => \A i \in Items : Copies(i) = IF i \in accepted THEN 1 ELSE 0

(* Concurrent drainers claim in FIFO order: an item whose record was complete
   before the name of another was drawn is never claimed after it
   (agentjournal.go:23-27: "a lexicographic directory sort IS FIFO order"). *)
ClaimedInOrder ==
    \A j, k \in DOMAIN claims : j < k => <<claims[k], claims[j]>> \notin older

(***************************************************************************)
(* As long as no two records have one name, the journal directory is a     *)
(* queue of records to the processes that share it, daemon or not: a claim *)
(* takes the oldest, and takes it from everybody else                      *)
(* (agentjournal.go:23-27, 100-134).                                       *)
(***************************************************************************)
Naming == {p \in Ingests : drawn[p] # NoName}
Stored == accepted \ Pushed
Earlier == {o \in older : o[1] \notin Pushed}
Hands == [c \in Callers |-> Holds(c)]
Printed == {i \in Items \ Pushed : emitted[i] > 0}

Queue == INSTANCE RecordQueue WITH
    todo <- left, putting <- Naming, stored <- Stored, older <- Earlier,
    waiting <- Range(journal), hand <- Hands,
    printed <- Printed, lost <- lost \ Pushed, void <- collided

RefinesQueue == Queue!Spec

(* Every recv call ends, however many records it loses to others. *)
CallsEnd == \A c \in Callers : []<>(rpc[c] = "idle")

(* Once the daemon stays away, repeated recv calls bring out everything that is
   journaled, save what a killed caller took with it or colliding names erased. *)
JournalDrains ==
    <>[](~up /\ ~collided) => <>[](\A i \in accepted : emitted[i] > 0 \/ i \in lost)

(* An item that was journaled is printed by some recv, if recv is called again and
   again and none of these calls is killed. *)
JournaledIsReceived ==
    <>[](\A i \in accepted \ Pushed : emitted[i] > 0 \/ i \in lost)
=============================================================================
