------------------------------- MODULE HttpClip -------------------------------
(***************************************************************************)
(* POST /clip of the daemon (internal/httpd/clip.go): the gates in their   *)
(* order, the single slot, the payloads decoded into temp files while the  *)
(* body arrives, Ingest, the clean-up, the response; and what becomes of   *)
(* requests when the daemon is told to stop (httpd.go:106-119).            *)
(*                                                                         *)
(* A handler's steps that nobody else can observe in between are one step. *)
(* Requests are POSTs (the others get 405, before any gate).               *)
(* A temp file is named by its request, the item, and the number of the    *)
(* bytesB64 key: an object may repeat a key.                               *)
(***************************************************************************)
EXTENDS Naturals, Sequences, FiniteSets

CONSTANTS Requests,
          Pushes,    \* what a request may be: its source, token, length and items
          Listens,   \* how the daemon may listen
          MaxStops,  \* bound: how often the daemon is told to stop
          Free

ASSUME ClipAssumption ==
    /\ Listens \subseteq {"socket", "tcp", "tailscale"}
    /\ MaxStops \in Nat
    /\ Free \notin Requests
    /\ \A p \in Pushes :
          /\ p.source \in {"loopback", "peer", "foreign"}
          /\ p.token \in BOOLEAN
          /\ p.length \in {"absent", "fits", "over"}
          /\ p.items \in Seq([text : BOOLEAN, good : BOOLEAN, keys : Nat])

VARIABLES listen,   \* opts.Listen
          daemon,   \* "up", "stopping" (told to stop), or "down"
          stops,    \* how often it was told to stop
          push,     \* what each request is
          arrived,  \* the items of its body that the server can read
          gone,     \* requests whose client has broken the connection
          pc,       \* where its handler stands
          at,       \* the item the decoder is at
          slot,     \* s.single.slot: Free, or the request that holds it
          temps,    \* the temp files there are
          listed,   \* tmpFiles of each handler
          status    \* the status each was answered with, 0 before

vars == <<listen, daemon, stops, push, arrived, gone, pc, at, slot, temps, listed, status>>

PCs == {"new", "gates", "decode", "cleanup", "respond", "release", "done", "cut"}
Statuses == {0, 200, 400, 401, 403, 411, 413, 500, 503}

Items(r) == push[r].items
Running == daemon # "down"
InFlight(r) == pc[r] \in {"gates", "decode", "cleanup", "respond", "release"}

Init ==
    /\ listen \in Listens
    /\ daemon = "up" /\ stops = 0
    /\ push \in [Requests -> Pushes]
    /\ arrived = [r \in Requests |-> 0]
    /\ gone = {}
    /\ pc = [r \in Requests |-> "new"]
    /\ at = [r \in Requests |-> 1]
    /\ slot = Free
    /\ temps = {}
    /\ listed = [r \in Requests |-> {}]
    /\ status = [r \in Requests |-> 0]

------------------------------------------------------------------------------
(* The client sends its body item by item, or breaks the connection. *)
Send(r) ==
    /\ InFlight(r) /\ r \notin gone
    /\ arrived[r] < Len(Items(r))
    /\ arrived' = [arrived EXCEPT ![r] = @ + 1]
    /\ UNCHANGED <<listen, daemon, stops, push, gone, pc, at, slot, temps, listed, status>>

Break(r) ==
    /\ InFlight(r) /\ r \notin gone
    /\ gone' = gone \cup {r}
    /\ UNCHANGED <<listen, daemon, stops, push, arrived, pc, at, slot, temps, listed, status>>

Accept(r) ==
    /\ daemon = "up"
    /\ pc[r] = "new"
    /\ pc' = [pc EXCEPT ![r] = "gates"]
    /\ UNCHANGED <<listen, daemon, stops, push, arrived, gone, at, slot, temps, listed, status>>

(* What a body may have, for payloads of m bytes in all, and the base64 of n bytes.
   A length is "over" when it is above the ceiling. *)
HardCeiling(m) == (m * 4) \div 3 + 64 * 1024
Encoded(n) == 4 * ((n + 2) \div 3)

(* The gates before the slot: source class, token, length, ceiling. *)
ClassAllowed(r) ==
    \/ listen = "socket"
    \/ listen = "tcp" /\ push[r].source \in {"loopback", "peer"}
    \/ listen = "tailscale" /\ push[r].source = "peer"

Gate(r) ==
    IF ~ClassAllowed(r) THEN 403
    ELSE IF ~push[r].token THEN 401
    ELSE IF push[r].length = "absent" THEN 411
    ELSE IF push[r].length = "over" THEN 413
    ELSE 0

Answer(r, code) ==
    /\ status' = [status EXCEPT ![r] = code]
    /\ pc' = [pc EXCEPT ![r] = "done"]

Refuse(r) ==
    /\ Running
    /\ pc[r] = "gates"
    /\ Gate(r) # 0
    /\ Answer(r, Gate(r))
    /\ UNCHANGED <<listen, daemon, stops, push, arrived, gone, at, slot, temps, listed>>

(* tryAcquire, the last gate: another push is in flight, ... *)
AlwaysTaken == TRUE  \* mutant: the slot is reported taken
AlwaysFree == FALSE  \* mutant: the slot is never found taken
Taken == slot # Free

Busy(r) ==
    /\ Running
    /\ pc[r] = "gates"
    /\ Gate(r) = 0
    /\ Taken
    /\ Answer(r, 503)
    /\ UNCHANGED <<listen, daemon, stops, push, arrived, gone, at, slot, temps, listed>>

(* ... or the slot is this one's. *)
Acquire(r) ==
    /\ Running
    /\ pc[r] = "gates"
    /\ Gate(r) = 0
    /\ ~Taken
    /\ slot' = r
    /\ pc' = [pc EXCEPT ![r] = "decode"]
    /\ UNCHANGED <<listen, daemon, stops, push, arrived, gone, at, temps, listed, status>>

------------------------------------------------------------------------------
(***************************************************************************)
(* parseEnvelopeStreaming: one item after the other, as the body arrives.  *)
(* Each bytesB64 value goes into a temp file; parseOneItem returns the     *)
(* last one's path, and that is listed, on an error as well.               *)
(***************************************************************************)
Keys(r) == Items(r)[at[r]].keys
TempsOf(r, n) == {<<r, at[r], k>> : k \in 1 .. n}
LastTemp(r, n) == {<<r, at[r], k>> : k \in {n} \ {0}}

DecodeItem(r) ==
    /\ Running
    /\ pc[r] = "decode"
    /\ at[r] <= arrived[r]
    /\ Items(r)[at[r]].good
    /\ temps' = temps \cup TempsOf(r, Keys(r))
    /\ listed' = [listed EXCEPT ![r] = @ \cup LastTemp(r, Keys(r))]
    /\ at' = [at EXCEPT ![r] = @ + 1]
    /\ UNCHANGED <<listen, daemon, stops, push, arrived, gone, pc, slot, status>>

(* The handler has its status, and its deferred clean-up is next. *)
Unwind(r, codes) ==
    /\ \E code \in codes : status' = [status EXCEPT ![r] = code]
    /\ pc' = [pc EXCEPT ![r] = "cleanup"]

NotListed(r, n) == listed[r]  \* mutant: an item that fails is not in the list
ListedToo(r, n) == listed[r] \cup LastTemp(r, n)

(* An item does not decode, or the connection breaks within it, or the disk is
   full, which may happen to any item: 400, or 500 when the decoder reports a cut
   base64 group or the system an errno.  It ends after n of its temp files; when
   the next cannot be created, its empty path takes the last one's place. *)
DecodeFails(r) ==
    /\ Running
    /\ pc[r] = "decode"
    /\ at[r] <= Len(Items(r))
    /\ at[r] <= arrived[r] \/ r \in gone
    /\ \E n \in 0 .. Keys(r) :
          /\ temps' = temps \cup TempsOf(r, n)
          /\ \/ listed' = [listed EXCEPT ![r] = ListedToo(r, n)]
             \/ n < Keys(r) /\ UNCHANGED listed
    /\ Unwind(r, {400, 500})
    /\ UNCHANGED <<listen, daemon, stops, push, arrived, gone, at, slot>>

(* The connection breaks after the last item, before the end of the envelope. *)
TailFails(r) ==
    /\ Running
    /\ pc[r] = "decode"
    /\ at[r] > Len(Items(r)) /\ r \in gone
    /\ Unwind(r, {400, 500})
    /\ UNCHANGED <<listen, daemon, stops, push, arrived, gone, at, slot, temps, listed>>

(* An envelope without items, or with a file item whose temp file cannot be opened,
   as it has none. *)
Supported(r) ==
    /\ Items(r) # <<>>
    /\ \A i \in DOMAIN Items(r) : Items(r)[i].text \/ Items(r)[i].keys > 0

Unsupported(r) ==
    /\ Running
    /\ pc[r] = "decode"
    /\ at[r] > Len(Items(r))
    /\ ~Supported(r)
    /\ Unwind(r, {400})
    /\ UNCHANGED <<listen, daemon, stops, push, arrived, gone, at, slot, temps, listed>>

(* Ingest reads the temp files and has its verdict (see Ingest.tla). *)
Ingested(r) ==
    /\ Running
    /\ pc[r] = "decode"
    /\ at[r] > Len(Items(r))
    /\ Supported(r)
    /\ Unwind(r, {200, 400, 413, 500})
    /\ UNCHANGED <<listen, daemon, stops, push, arrived, gone, at, slot, temps, listed>>

(* decodeAndIngest's deferred removal of the temp files; then the response;
   then handleClip's deferred release of the slot. *)
Cleanup(r) ==
    /\ Running
    /\ pc[r] = "cleanup"
    /\ temps' = temps \ listed[r]
    /\ pc' = [pc EXCEPT ![r] = "respond"]
    /\ UNCHANGED <<listen, daemon, stops, push, arrived, gone, at, slot, listed, status>>

Respond(r) ==
    /\ Running
    /\ pc[r] = "respond"
    /\ pc' = [pc EXCEPT ![r] = "release"]
    /\ UNCHANGED <<listen, daemon, stops, push, arrived, gone, at, slot, temps, listed, status>>

ReleasedOnSuccess(r) == IF status[r] = 200 THEN Free ELSE slot  \* mutant: no defer
Released(r) == Free

Release(r) ==
    /\ Running
    /\ pc[r] = "release"
    /\ slot' = Released(r)
    /\ pc' = [pc EXCEPT ![r] = "done"]
    /\ UNCHANGED <<listen, daemon, stops, push, arrived, gone, at, temps, listed, status>>

------------------------------------------------------------------------------
(* SIGTERM: Serve's goroutine calls Shutdown, which closes the listener. *)
Signal ==
    /\ daemon = "up" /\ stops < MaxStops
    /\ daemon' = "stopping"
    /\ stops' = stops + 1
    /\ UNCHANGED <<listen, push, arrived, gone, pc, at, slot, temps, listed, status>>

(* http.Server.Serve returns as soon as Shutdown has begun, Serve returns with
   it, and so does main: the process ends, whatever Shutdown still waits for. *)
Exit ==
    /\ daemon = "stopping"
    /\ daemon' = "down"
    /\ pc' = [r \in Requests |-> IF InFlight(r) THEN "cut" ELSE pc[r]]
    /\ slot' = Free
    /\ UNCHANGED <<listen, stops, push, arrived, gone, at, temps, listed, status>>

Start ==
    /\ daemon = "down"
    /\ daemon' = "up"
    /\ UNCHANGED <<listen, stops, push, arrived, gone, pc, at, slot, temps, listed, status>>

Handle(r) ==
    \/ Refuse(r) \/ Busy(r) \/ Acquire(r)
    \/ DecodeItem(r) \/ DecodeFails(r) \/ TailFails(r) \/ Unsupported(r) \/ Ingested(r)
    \/ Cleanup(r) \/ Respond(r) \/ Release(r)

Finished ==
    /\ \A r \in Requests : pc[r] \in {"done", "cut"}
    /\ daemon = "up" /\ stops = MaxStops
    /\ UNCHANGED vars

Next ==
    \/ \E r \in Requests : Accept(r) \/ Handle(r) \/ Send(r) \/ Break(r)
    \/ Signal \/ Exit \/ Start
    \/ Finished

(* Handlers run; a process told to stop does; and a client goes on with its
   body or goes away.  The server has no read timeout: a client that does
   neither keeps the slot. *)
Fairness ==
    /\ \A r \in Requests : WF_vars(Handle(r)) /\ WF_vars(Send(r) \/ Break(r))
    /\ WF_vars(Exit)

Spec == Init /\ [][Next]_vars
FairSpec == Spec /\ Fairness
------------------------------------------------------------------------------
(* Properties. *)

Holding(r) == pc[r] \in {"decode", "cleanup", "respond", "release"}

(* The variables have their types; the slot is with the one request between its
   acquisition and its release, and with nobody else. *)
TypeOK ==
    /\ listen \in Listens /\ daemon \in {"up", "stopping", "down"} /\ stops \in 0 .. MaxStops
    /\ push \in [Requests -> Pushes]
    /\ \A r \in Requests :
          /\ arrived[r] \in 0 .. Len(Items(r)) /\ at[r] \in 1 .. Len(Items(r)) + 1
          /\ listed[r] \subseteq temps \/ pc[r] \notin {"decode", "cleanup"}
    /\ gone \subseteq Requests
    /\ pc \in [Requests -> PCs] /\ status \in [Requests -> Statuses]
    /\ \A r \in Requests : Holding(r) <=> slot = r

(* The temp files there are belong to the one push in flight, which has yet to
   clean up: an answered push has left none, however it failed.  What stays is
   what a killed daemon left, and all but the last payload of an item that
   repeats its bytesB64 key (clip.go:95-100, 388). *)
TempsAreOwned ==
    \A f \in temps :
        \/ pc[f[1]] \in {"decode", "cleanup"} /\ slot = f[1]
        \/ pc[f[1]] = "cut"
        \/ f[3] < Items(f[1])[f[2]].keys

(* 503 tells of another push that is in flight, and that had the right to be: a
   request that some gate refuses never keeps anybody from pushing (the slot is
   "taken LAST", clip.go:62-63). *)
BusyTellsOfAPush ==
    [][\A r \in Requests : status[r] = 0 /\ status'[r] = 503 =>
          \E o \in Requests \ {r} : Holding(o) /\ Gate(o) = 0]_vars

(* The slot never stays taken: whatever happens to a push, the next one gets its
   turn ("it can never wedge into a permanent 503", singleflight.go:3-7). *)
SlotComesFree == []<>(slot = Free)

(* verbs_serve.go:22, "serves until SIGINT/SIGTERM, then shuts down gracefully": a
   request the daemon has accepted is not cut by its stopping. *)
InFlightIsAnswered == \A r \in Requests : pc[r] # "cut"
=============================================================================
