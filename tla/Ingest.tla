-------------------------------- MODULE Ingest --------------------------------
(***************************************************************************)
(* The save-and-dispatch loop that every push goes through                 *)
(* (internal/ingest/ingest.go): items are saved one after another, counted *)
(* against maxBytes after they are written, and handed to the channel.     *)
(* Requests run side by side over one store; the steps of the store that   *)
(* others can see are steps here.                                          *)
(*                                                                         *)
(* A path is the pair of the request and the index of the item: that two   *)
(* saves never share a path is SavePipeline.tla's concern.                 *)
(***************************************************************************)
EXTENDS Naturals, Sequences, SequencesExt

CONSTANTS Requests,
          Envelopes,         \* the pushes: a channel and a sequence of items
          MaxBytes,          \* config.maxBytes
          LongTextThreshold, \* longer clipboard texts become files
          NoPath

ASSUME IngestAssumption ==
    /\ MaxBytes \in Nat /\ LongTextThreshold \in Nat
    /\ \A e \in Envelopes :
          /\ e.channel \in {"clipboard", "agent"}
          /\ e.items \in Seq([kind : STRING, size : Nat])
    /\ NoPath \notin Requests \X Nat

VARIABLES envelope, \* what each request brings
          pc,       \* where it stands
          next,     \* the item it is at
          total,    \* bytes counted so far
          saved,    \* savedPaths
          result,   \* its response
          disk,     \* paths that have a file
          fifo,     \* agent items handed over, by path; texts too
          lastPath  \* what FinishClipboard committed last

vars == <<envelope, pc, next, total, saved, result, disk, fifo, lastPath>>

PCs == {"item", "enqueue", "check", "finish", "ended"}
Results == {"none", "ok", "malformed", "tooLarge", "failed"}
Paths == Requests \X Nat

Items(r) == envelope[r].items
Item(r) == Items(r)[next[r]]
Path(r) == <<r, next[r]>>
OnAgent(r) == envelope[r].channel = "agent"

Init ==
    /\ envelope \in [Requests -> Envelopes]
    /\ pc = [r \in Requests |-> "item"]
    /\ next = [r \in Requests |-> 1]
    /\ total = [r \in Requests |-> 0]
    /\ saved = [r \in Requests |-> <<>>]
    /\ result = [r \in Requests |-> "none"]
    /\ disk = {} /\ fifo = <<>> /\ lastPath = NoPath

------------------------------------------------------------------------------
AtItem(r) == pc[r] = "item" /\ next[r] <= Len(Items(r))

(* SaveClipboardText writes a file for a long text only (saveTextToDisk is off). *)
IsFile(r, it) ==
    it.kind \in {"image", "file"}
      \/ (it.kind = "text" /\ ~OnAgent(r) /\ it.size > LongTextThreshold)

EndSilently(r, res) ==  \* mutant: the request ends without a response
    /\ pc' = [pc EXCEPT ![r] = "ended"]
    /\ UNCHANGED result
End(r, res) ==
    /\ pc' = [pc EXCEPT ![r] = "ended"]
    /\ result' = [result EXCEPT ![r] = res]

(* No item, one of an unknown kind, or a text that cannot be read to its end. *)
Malformed(r) ==
    /\ \/ pc[r] = "item" /\ Items(r) = <<>>
       \/ AtItem(r) /\ Item(r).kind \notin {"image", "file"}
    /\ End(r, "malformed")
    /\ UNCHANGED <<envelope, next, total, saved, disk, fifo, lastPath>>

(* The store saves the payload, and counts what it has written.  last_path is
   left to FinishClipboard. *)
CommitEarly(r) == IF OnAgent(r) THEN lastPath ELSE Path(r)  \* mutant: per item
CommitLater(r) == lastPath

Save(r) ==
    /\ AtItem(r)
    /\ IsFile(r, Item(r))
    /\ disk' = disk \cup {Path(r)}
    /\ total' = [total EXCEPT ![r] = @ + Item(r).size]
    /\ lastPath' = CommitLater(r)
    /\ pc' = [pc EXCEPT ![r] = IF OnAgent(r) THEN "enqueue" ELSE "check"]
    /\ UNCHANGED <<envelope, next, saved, result, fifo>>

(* The save fails, and has cleaned up after itself. *)
SaveFails(r) ==
    /\ AtItem(r)
    /\ IsFile(r, Item(r))
    /\ End(r, "failed")
    /\ UNCHANGED <<envelope, next, total, saved, disk, fifo, lastPath>>

(* SaveAgentItem hands the path over before it returns ... *)
InFront(q, p) == <<p>> \o q  \* mutant: the newest item first
AtEnd(q, p) == Append(q, p)

EnqueueFile(r) ==
    /\ pc[r] = "enqueue"
    /\ fifo' = AtEnd(fifo, Path(r))
    /\ pc' = [pc EXCEPT ![r] = "check"]
    /\ UNCHANGED <<envelope, next, total, saved, result, disk, lastPath>>

(* write, add, then check: keep the item, or remove it and refuse the rest. *)
AtTheCap(n) == n >= MaxBytes  \* mutant: an off-by-one at the cap
OverTheCap(n) == n > MaxBytes

(* ... or, of a file or a text, the journal cannot be written: a file stays,
   the sender is told. *)
JournalFails(r) ==
    /\ \/ pc[r] = "enqueue"
       \/ /\ AtItem(r)
          /\ Item(r).kind = "text" /\ OnAgent(r)
          /\ ~OverTheCap(total[r] + Item(r).size)
    /\ End(r, "failed")
    /\ UNCHANGED <<envelope, next, total, saved, disk, fifo, lastPath>>

Keep(r) ==
    /\ pc[r] = "check"
    /\ ~OverTheCap(total[r])
    /\ saved' = [saved EXCEPT ![r] = Append(@, Path(r))]
    /\ next' = [next EXCEPT ![r] = @ + 1]
    /\ pc' = [pc EXCEPT ![r] = "item"]
    /\ UNCHANGED <<envelope, total, result, disk, fifo, lastPath>>

FileKept(r) == disk  \* mutant: the item that tripped the cap stays
FileRemoved(r) == disk \ {Path(r)}

TooLarge(r) ==
    /\ pc[r] = "check"
    /\ OverTheCap(total[r])
    /\ disk' = FileRemoved(r)
    /\ End(r, "tooLarge")
    /\ UNCHANGED <<envelope, next, total, saved, fifo, lastPath>>

(* A short clipboard text is neither written nor counted. *)
SkipText(r) ==
    /\ AtItem(r)
    /\ Item(r).kind = "text" /\ ~OnAgent(r) /\ ~IsFile(r, Item(r))
    /\ next' = [next EXCEPT ![r] = @ + 1]
    /\ UNCHANGED <<envelope, pc, total, saved, result, disk, fifo, lastPath>>

(* An agent text is counted, checked and only then enqueued. *)
AgentText(r) ==
    /\ AtItem(r)
    /\ Item(r).kind = "text" /\ OnAgent(r)
    /\ total' = [total EXCEPT ![r] = @ + Item(r).size]
    /\ IF OverTheCap(total'[r])
       THEN End(r, "tooLarge") /\ UNCHANGED <<next, fifo>>
       ELSE /\ fifo' = AtEnd(fifo, Path(r))
            /\ next' = [next EXCEPT ![r] = @ + 1]
            /\ UNCHANGED <<pc, result>>
    /\ UNCHANGED <<envelope, saved, disk, lastPath>>

(* All items are in: commit the last saved path (clipboard only), answer ok. *)
Finish(r) ==
    /\ pc[r] = "item"
    /\ Items(r) # <<>> /\ next[r] > Len(Items(r))
    /\ lastPath' = IF OnAgent(r) \/ saved[r] = <<>> THEN lastPath ELSE Last(saved[r])
    /\ End(r, "ok")
    /\ UNCHANGED <<envelope, next, total, saved, disk, fifo>>

Finished ==
    /\ \A r \in Requests : pc[r] = "ended"
    /\ UNCHANGED vars

Next ==
    \/ \E r \in Requests :
          \/ Malformed(r) \/ Save(r) \/ SaveFails(r) \/ EnqueueFile(r) \/ JournalFails(r)
          \/ Keep(r) \/ TooLarge(r) \/ SkipText(r) \/ AgentText(r) \/ Finish(r)
    \/ Finished

Spec == Init /\ [][Next]_vars
------------------------------------------------------------------------------
(* Properties. *)

(* The variables have their types, and a request has a response once it ended. *)
TypeOK ==
    /\ envelope \in [Requests -> Envelopes]
    /\ pc \in [Requests -> PCs]
    /\ \A r \in Requests : next[r] \in 1 .. Len(Items(r)) + 1
    /\ total \in [Requests -> Nat]
    /\ \A r \in Requests : saved[r] \in Seq(Paths)
    /\ result \in [Requests -> Results]
    /\ \A r \in Requests : pc[r] = "ended" <=> result[r] # "none"
    /\ disk \subseteq Paths
    /\ fifo \in Seq(Paths)
    /\ lastPath \in Paths \cup {NoPath}

(* The bytes of an item that count, and of the first n items. *)
Weight(r, it) == IF IsFile(r, it) \/ OnAgent(r) THEN it.size ELSE 0

Counted(r, n) ==
    LET sum[k \in 0 .. Len(Items(r))] ==
            IF k = 0 THEN 0 ELSE sum[k - 1] + Weight(r, Items(r)[k])
    IN  sum[n]

(* The files of the items before the n-th. *)
FilesBefore(r, n) == {<<r, i>> : i \in {j \in 1 .. n - 1 : IsFile(r, Items(r)[j])}}

(* The response tells what is on disk.  Answered ok, all items fit the cap and all
   their files are there, in the answer's order; refused at the cap, the items up
   to the n-th do not fit, those before it do, and just their files are there.
   Bytes are counted exactly: a full budget is not too large, a short clipboard
   text is free, an agent text is not (ingest.go:64-71, 112-118, 190-194). *)
ResponseTellsDisk ==
    \A r \in Requests :
        LET mine == {p \in disk : p[1] = r}
            n    == Len(Items(r))
        IN  /\ result[r] = "ok" =>
                  /\ Counted(r, n) <= MaxBytes
                  /\ mine = FilesBefore(r, n + 1)
                  /\ mine = {saved[r][i] : i \in DOMAIN saved[r]}
                  /\ \A i, j \in DOMAIN saved[r] : i < j => saved[r][i][2] < saved[r][j][2]
            /\ result[r] = "tooLarge" =>
                  /\ Counted(r, next[r]) > MaxBytes
                  /\ Counted(r, next[r] - 1) <= MaxBytes
                  /\ mine = FilesBefore(r, next[r])

(* The last path of the clipboard channel always names a file that is there: a
   file that the cap removes has never been committed (ingest.go:112-118, 146). *)
LastPathExists == lastPath # NoPath => lastPath \in disk

(* Concurrent requests mix in the inbox, the items of each keep their order, and
   none is handed over twice (ingest.go:166-202). *)
BatchOrder ==
    \A j, k \in DOMAIN fifo :
        j < k /\ fifo[j][1] = fifo[k][1] => fifo[j][2] < fifo[k][2]

(* ingest.go:173-177 says of the item that trips the cap on the agent channel:
   "items 1..N-1 in the inbox, N absent", "earlier items are already on the FIFO".
   Every file item of the inbox has its file. *)
InboxFilesExist ==
    \A k \in DOMAIN fifo :
        LET r == fifo[k][1]
        IN  IsFile(r, Items(r)[fifo[k][2]]) => fifo[k] \in disk
=============================================================================
