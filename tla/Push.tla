-------------------------------- MODULE Push --------------------------------
(***************************************************************************)
(* A push over ssh (cmd/clipbeam/cli/verbs_send.go, verbs_sendrun.go,      *)
(* verbs_ingest.go, internal/sshx/cb01.go): the sender streams a CB01      *)
(* frame to the stdin of `clipbeam ingest' on the box, which decodes it    *)
(* and saves its items.  A frame arrives as one unit for its header, then  *)
(* for each item one unit of metadata and one for each byte of payload.    *)
(* Payloads before the last are spilled to temp files while the metadata   *)
(* behind them is read; the last is read off the wire as it is saved.  A   *)
(* push to a tailnet peer is one POST of the same items.                   *)
(***************************************************************************)
EXTENDS Hosts

CONSTANT MaxBytes   \* the box's config.maxBytes

ASSUME PushAssumption == MaxBytes \in Nat

VARIABLES taken,    \* history: <<call, item, whole>> that the store has accepted
          spills    \* the temp files in which each frame's payloads wait

pushVars == <<taken, spills>>
unpushed == <<job, net, laptop, box>>

Sizes(c) == job[c].sizes
Last(c) == Len(Sizes(c))
SumTo(c, n) ==
    LET sum[k \in 0..Last(c)] == IF k = 0 THEN 0 ELSE sum[k - 1] + Sizes(c)[k]
    IN  sum[n]
Units(c) == 1 + Last(c) + SumTo(c, Last(c))
All(c) == {<<c, i, TRUE>> : i \in 1..Last(c)}
Here(c) == proc[c].item

PushInit == taken = {} /\ spills = [c \in Calls |-> {}]

---------------------------------------------------------------------------
(* The sender. *)

(* resolveTarget: no spec means the default alias; a literal spec that     *)
(* matches a saved alias uses the path recorded there, another leaves the  *)
(* path to the box.                                                        *)
Resolve(c) ==
    /\ pc[c] = "start" /\ job[c].verb = "send"
    /\ LET b == IF job[c].box = None THEN aliases.def ELSE job[c].box
       IN  \/ /\ b # None
              /\ target' = [target EXCEPT ![c] = [box |-> b, known |-> b \in DOMAIN aliases.flag]]
              /\ NewClient(c)
              /\ Goto(c, "dial")
           \/ b = None /\ End(c, "config") /\ UNCHANGED <<target, db>>
    /\ UNCHANGED <<job, held, peer, cut, hostKey, laptop, proc, box, pushVars>>

DialToSend(c) == job[c].verb = "send" /\ Dial(c, "exec") /\ UNCHANGED pushVars

(* Dial's NewSession, the encoder over buffered payloads, and Start. *)
ExecIngest(c) ==
    /\ pc[c] = "exec" /\ job[c].verb = "send"
    /\ \/ c \notin cut /\ Exec(c, "ingest", Units(c)) /\ Goto(c, "wait")
       \/ c \in cut /\ End(c, "unreachable") /\ UNCHANGED proc
    /\ UNCHANGED <<unpushed, target, held, pushVars>>

RelayedUnlessRefused(c) ==  \* mutant: only a status of the remote is a failure
    \/ (RunOk(c) \/ (c \in cut /\ proc[c].rc = "-")) /\ End(c, "ok")
    \/ RunFails(c) /\ proc[c].rc # "-" /\ End(c, "remoteIO")
Relayed(c) ==
    \/ RunOk(c) /\ End(c, "ok")
    \/ RunFails(c) /\ End(c, "remoteIO")

WaitForIngest(c) ==
    /\ pc[c] = "wait" /\ job[c].verb = "send"
    /\ Relayed(c)
    /\ UNCHANGED <<unpushed, target, held, proc, pushVars>>

(* pushTailscale: the token, the size, and one POST.  The peer's answer    *)
(* may be lost after it has saved the items, and what it refuses may have  *)
(* begun with items that it saved.                                         *)
Post(c) ==
    /\ pc[c] = "start" /\ job[c].verb = "post"
    /\ LET Saves(n) == taken' = taken \cup {<<c, i, TRUE>> : i \in 1..n}
       IN  IF token = None THEN End(c, "config") /\ Saves(0)
           ELSE IF SumTo(c, Last(c)) > MaxBytes THEN End(c, "toolarge") /\ Saves(0)
           ELSE \/ Saves(Last(c)) /\ \E k \in {"ok", "unreachable"} : End(c, k)
                \/ \E n \in 0..(Last(c) - 1), k \in {"unreachable", "toolarge", "remoteIO"} :
                       Saves(n) /\ End(c, k)
                \/ Saves(0) /\ \E k \in {"unauthorized", "forbidden", "generic"} : End(c, k)
    /\ UNCHANGED <<unpushed, target, held, proc, spills>>

---------------------------------------------------------------------------
(* clipbeam ingest. *)

Ingesting(c, l) == At(c, "ingest", l) /\ UNCHANGED <<unpushed, calls>>
Take(c, whole) == taken' = taken \cup {<<c, Here(c), whole>>}
Consume(c, l, i, n) ==
    proc' = [proc EXCEPT ![c].at = l, ![c].item = i, ![c].got = n, ![c].left = @ - 1]

(* The shell finds the binary and can run it, then config and store.New.   *)
(* Without a recorded path the shell searches PATH, which may lack it.     *)
IngestStarts(c) ==
    /\ Ingesting(c, "start")
    /\ \/ Whole(bin[Box(c)]) /\ (Step(c, "magic") \/ Exit(c, "config"))
       \/ ~(Whole(bin[Box(c)]) /\ target[c].known) /\ Exit(c, "missing")
    /\ UNCHANGED pushVars

NotClosed(c) == UNCHANGED spills  \* mutant: an error of the decoder closes nothing
(* A frame that ends too early: the spills of the items read are closed.   *)
Closed(c) == spills' = [spills EXCEPT ![c] = {}]
BadFrame(c) ==
    /\ \E l \in {"magic", "head", "spill"} : Ingesting(c, l)
    /\ Eof(c)
    /\ ~(proc[c].at = "spill" /\ proc[c].got = Sizes(c)[Here(c)])
    /\ Closed(c) /\ Exit(c, "generic")
    /\ UNCHANGED taken

ReadMagic(c) ==
    /\ Ingesting(c, "magic") /\ Arrives(c)
    /\ Consume(c, "head", 1, 0)
    /\ UNCHANGED pushVars

(* decodeItem: with the metadata of the last item the decoder is done, and *)
(* Ingest begins with the first.                                           *)
ReadHead(c) ==
    /\ Ingesting(c, "head") /\ Arrives(c)
    /\ IF Here(c) = Last(c)
       THEN Consume(c, "save", 1, 0) /\ UNCHANGED spills
       ELSE \/ /\ Consume(c, "spill", Here(c), 0)
               /\ spills' = [spills EXCEPT ![c] = @ \cup {Here(c)}]
            \/ Closed(c) /\ Exit(c, "generic")   \* CreateTemp fails
    /\ UNCHANGED taken

SpillByte(c) ==
    /\ Ingesting(c, "spill") /\ proc[c].got < Sizes(c)[Here(c)]
    /\ \/ Arrives(c) /\ Consume(c, "spill", Here(c), proc[c].got + 1) /\ UNCHANGED spills
       \/ Closed(c) /\ Exit(c, "generic")        \* the disk is full
    /\ UNCHANGED taken
Spilled(c) ==
    /\ Ingesting(c, "spill") /\ proc[c].got = Sizes(c)[Here(c)]
    /\ proc' = [proc EXCEPT ![c].at = "head", ![c].item = @ + 1, ![c].got = 0]
    /\ UNCHANGED pushVars

(* The store fails: the process ends, and nobody closes this spill or the  *)
(* ones behind it.                                                         *)
SaveFails(c) == Ingesting(c, "save") /\ Exit(c, "remoteIO") /\ UNCHANGED pushVars

(* A spill is read to its end, which removes it; then the sum is checked.  *)
SaveSpilled(c) ==
    /\ Ingesting(c, "save") /\ Here(c) < Last(c)
    /\ spills' = [spills EXCEPT ![c] = @ \ {Here(c)}]
    /\ IF SumTo(c, Here(c)) > MaxBytes
       THEN Exit(c, "toolarge") /\ UNCHANGED taken
       ELSE Take(c, TRUE) /\ proc' = [proc EXCEPT ![c].item = @ + 1]

(* The last payload ends after its length, or at EOF like a complete one.  *)
SaveByte(c) ==
    /\ Ingesting(c, "save") /\ Here(c) = Last(c)
    /\ proc[c].got < Sizes(c)[Here(c)] /\ Arrives(c)
    /\ Consume(c, "save", Here(c), proc[c].got + 1)
    /\ UNCHANGED pushVars
AtEnd(c) == proc[c].got = Sizes(c)[Here(c)] \/ Eof(c)
SaveLast(c) ==
    /\ Ingesting(c, "save") /\ Here(c) = Last(c) /\ AtEnd(c)
    /\ IF SumTo(c, Last(c) - 1) + proc[c].got > MaxBytes
       THEN Exit(c, "toolarge") /\ UNCHANGED taken
       ELSE /\ Take(c, proc[c].got = Sizes(c)[Here(c)])
            /\ Step(c, "finish")
    /\ UNCHANGED spills

(* FinishClipboard, and the saved paths on stdout. *)
FinishIngest(c) ==
    /\ Ingesting(c, "finish")
    /\ Exit(c, "ok") \/ Exit(c, "remoteIO")
    /\ UNCHANGED pushVars

Sending(c) == Resolve(c) \/ DialToSend(c) \/ ExecIngest(c) \/ WaitForIngest(c) \/ Post(c)
Ingest(c) ==
    \/ IngestStarts(c) \/ BadFrame(c) \/ ReadMagic(c) \/ ReadHead(c)
    \/ SpillByte(c) \/ Spilled(c) \/ SaveFails(c) \/ SaveSpilled(c)
    \/ SaveByte(c) \/ SaveLast(c) \/ FinishIngest(c)

PushTypeOK ==
    /\ taken \subseteq Calls \X Nat \X BOOLEAN
    /\ \A c \in Calls : spills[c] \subseteq 1..Last(c)

(* A sender that reports success has every item of its frame, whole, on    *)
(* the box.  The converse does not hold: a sender may be told of a failure *)
(* after all was saved, and a retry then delivers twice.                   *)
SuccessMeansDelivered ==
    \A c \in Calls : job[c].verb \in {"send", "post"} /\ code[c] = "ok" => All(c) \subseteq taken

(* What a broken push leaves behind.  Only the last payload of a frame is  *)
(* ever saved short, only after a cut, and the sender knows of a failure;  *)
(* spills outlive the process only when an item could not be saved, never  *)
(* when the frame was broken.                                              *)
CutsAreContained ==
    \A c \in Calls :
        /\ \A i \in 1..Last(c) : <<c, i, FALSE>> \in taken =>
              i = Last(c) /\ c \in cut /\ code[c] # "ok" /\ <<c, i, TRUE>> \notin taken
        /\ \A i \in 1..Last(c) : (\E w \in BOOLEAN : <<c, i, w>> \in taken) =>
              \A j \in 1..(i - 1) : <<c, j, TRUE>> \in taken
        /\ proc[c].at = "exited" /\ spills[c] # {} =>
              proc[c].rc \in {"remoteIO", "toolarge"} /\ \E i \in 1..Last(c) : <<c, i, TRUE>> \notin taken
=============================================================================
