------------------------------ MODULE AgentInbox ------------------------------
(***************************************************************************)
(* The in-memory agent inbox of the receiver daemon (agentFIFO in          *)
(* internal/store/waiters.go): a mutex-guarded queue of items and a list   *)
(* of parked recv calls, each with its own channel of capacity 1.  One     *)
(* action is one critical section, one channel operation, or one return.   *)
(*                                                                         *)
(* A receiver is a GET /recv handler (internal/httpd/routes.go:233-270)    *)
(* with at most one recv call open; `ch[r]' is the channel of that call.   *)
(***************************************************************************)
EXTENDS Naturals, Sequences, SequencesExt

CONSTANTS Receivers,  \* handlers that call recv
          Pollers,    \* those of a client that polls for ever (watch)
          Items,      \* agent items; each is enqueued at most once
          Batches,    \* the argument lists enqueue is called with
          NoItem      \* an empty channel, and recv's nil

ASSUME InboxAssumption ==
    /\ Pollers \subseteq Receivers
    /\ NoItem \notin Items
    /\ Batches \subseteq Seq(Items) \ {<<>>}

VARIABLES queue,      \* f.queue
          waiters,    \* f.waiters, as the receivers that own the channels
          ch,         \* each open call's channel: NoItem or the item sent
          pc,         \* where each receiver's call stands
          result,     \* what recv is about to return
          sent,       \* history: every item enqueued, in order
          handed,     \* history: every item taken off the queue, in order
          returned    \* history: items that recv calls have returned

vars == <<queue, waiters, ch, pc, result, sent, handed, returned>>

PCs == {"idle",       \* no call open
        "parked",     \* in the select, channel listed or already sent to
        "cancelled",  \* ctx.Done chosen, removeWaiter not yet run
        "unlisted",   \* removeWaiter done, the final drain not yet run
        "returning"}  \* recv has its result

(* The variables have their types, and only an open call holds an item: its
   channel until the call has ended its wait, its result until it returns. *)
TypeOK ==
    /\ queue \in Seq(Items)
    /\ waiters \in Seq(Receivers)
    /\ ch \in [Receivers -> Items \cup {NoItem}]
    /\ pc \in [Receivers -> PCs]
    /\ result \in [Receivers -> Items \cup {NoItem}]
    /\ sent \in Seq(Items)
    /\ handed \in Seq(Items)
    /\ returned \subseteq Items
    /\ \A r \in Receivers :
          /\ ch[r] # NoItem => pc[r] \in {"parked", "cancelled", "unlisted"}
          /\ result[r] # NoItem => pc[r] = "returning"

Init ==
    /\ queue = <<>>
    /\ waiters = <<>>
    /\ ch = [r \in Receivers |-> NoItem]
    /\ pc = [r \in Receivers |-> "idle"]
    /\ result = [r \in Receivers |-> NoItem]
    /\ sent = <<>>
    /\ handed = <<>>
    /\ returned = {}

------------------------------------------------------------------------------
(***************************************************************************)
(* enqueue: append the items, then send the front of the queue to the      *)
(* first waiter for as long as there are both.  The loop runs under the    *)
(* lock, so its n rounds are one step: waiter i gets item i.               *)
(***************************************************************************)
RoundsOnce(w, q) == IF w = <<>> \/ q = <<>> THEN 0 ELSE 1  \* mutant: if, not for
Rounds(w, q) == IF Len(w) < Len(q) THEN Len(w) ELSE Len(q)

TurnReversed(w, n, r) == {i \in 1 .. n : w[n + 1 - i] = r}  \* mutant: last waiter first
Turn(w, n, r) == {i \in 1 .. n : w[i] = r}

Enqueue(batch) ==
    LET full == queue \o batch
        n    == Rounds(waiters, full)
    IN  /\ \A i \in DOMAIN batch : \A j \in DOMAIN sent : batch[i] # sent[j]
        /\ \A i, j \in DOMAIN batch : batch[i] = batch[j] => i = j
        /\ ch' = [r \in Receivers |->
                     IF Turn(waiters, n, r) = {} THEN ch[r]
                     ELSE full[CHOOSE i \in Turn(waiters, n, r) : TRUE]]
        /\ waiters' = SubSeq(waiters, n + 1, Len(waiters))
        /\ queue' = SubSeq(full, n + 1, Len(full))
        /\ sent' = sent \o batch
        /\ handed' = handed \o SubSeq(full, 1, n)
        /\ UNCHANGED <<pc, result, returned>>

(* recv, queue not empty: take the front item and return it. *)
RecvTake(r) ==
    /\ pc[r] = "idle"
    /\ queue # <<>>
    /\ result' = [result EXCEPT ![r] = Head(queue)]
    /\ queue' = Tail(queue)
    /\ handed' = Append(handed, Head(queue))
    /\ pc' = [pc EXCEPT ![r] = "returning"]
    /\ UNCHANGED <<waiters, ch, sent, returned>>

(* Mutant: the queue is not looked at under the lock that lists the waiter. *)
RecvParkUnchecked(r) ==
    /\ pc[r] = "idle"
    /\ waiters' = Append(waiters, r)
    /\ ch' = [ch EXCEPT ![r] = NoItem]
    /\ pc' = [pc EXCEPT ![r] = "parked"]
    /\ UNCHANGED <<queue, result, sent, handed, returned>>

(* recv, queue empty: list a fresh channel and enter the select. *)
RecvPark(r) ==
    /\ pc[r] = "idle"
    /\ queue = <<>>
    /\ waiters' = Append(waiters, r)
    /\ ch' = [ch EXCEPT ![r] = NoItem]
    /\ pc' = [pc EXCEPT ![r] = "parked"]
    /\ UNCHANGED <<queue, result, sent, handed, returned>>

(* select, first case: receive from the call's own channel. *)
Woken(r) ==
    /\ pc[r] = "parked"
    /\ ch[r] # NoItem
    /\ result' = [result EXCEPT ![r] = ch[r]]
    /\ ch' = [ch EXCEPT ![r] = NoItem]
    /\ pc' = [pc EXCEPT ![r] = "returning"]
    /\ UNCHANGED <<queue, waiters, sent, handed, returned>>

(***************************************************************************)
(* select, second case: the poll window closed or the client went away.    *)
(* Go picks either case when both are ready, so an item in the channel     *)
(* does not disable this step.                                             *)
(***************************************************************************)
CtxDone(r) ==
    /\ pc[r] = "parked"
    /\ pc' = [pc EXCEPT ![r] = "cancelled"]
    /\ UNCHANGED <<queue, waiters, ch, result, sent, handed, returned>>

(* removeWaiter: unlist the channel, if no enqueue has taken it first. *)
UnlistedNever(w, r) == w  \* mutant: the cancelled call stays listed
Unlisted(w, r) == RemoveFirst(w, r)

RemoveWaiter(r) ==
    /\ pc[r] = "cancelled"
    /\ waiters' = Unlisted(waiters, r)
    /\ pc' = [pc EXCEPT ![r] = "unlisted"]
    /\ UNCHANGED <<queue, ch, result, sent, handed, returned>>

(* Mutant: a cancelled call returns nil without the final receive. *)
DrainSkipped(r) ==
    /\ pc[r] = "unlisted"
    /\ ch' = [ch EXCEPT ![r] = NoItem]
    /\ pc' = [pc EXCEPT ![r] = "returning"]
    /\ UNCHANGED <<queue, waiters, result, sent, handed, returned>>

(* The lost-wakeup guard: whatever the channel holds by now is returned. *)
Drain(r) ==
    /\ pc[r] = "unlisted"
    /\ result' = [result EXCEPT ![r] = ch[r]]
    /\ ch' = [ch EXCEPT ![r] = NoItem]
    /\ pc' = [pc EXCEPT ![r] = "returning"]
    /\ UNCHANGED <<queue, waiters, sent, handed, returned>>

(* recv returns to handleRecv: the item, or nil for a 204. *)
Return(r) ==
    /\ pc[r] = "returning"
    /\ returned' = returned \cup ({result[r]} \ {NoItem})
    /\ result' = [result EXCEPT ![r] = NoItem]
    /\ pc' = [pc EXCEPT ![r] = "idle"]
    /\ UNCHANGED <<queue, waiters, ch, sent, handed>>

Recv(r) == RecvTake(r) \/ RecvPark(r)
Finish(r) == Woken(r) \/ RemoveWaiter(r) \/ Drain(r) \/ Return(r)

Next ==
    \/ \E batch \in Batches : Enqueue(batch)
    \/ \E r \in Receivers : Recv(r) \/ CtxDone(r) \/ Finish(r)

(***************************************************************************)
(* A runnable goroutine runs, and every poll window closes (handleRecv's   *)
(* context has a deadline).  Only a polling client is sure to call again.  *)
(***************************************************************************)
Fairness ==
    /\ \A r \in Receivers : WF_vars(Finish(r)) /\ WF_vars(CtxDone(r))
    /\ \A r \in Pollers : WF_vars(Recv(r))

Spec == Init /\ [][Next]_vars
FairSpec == Spec /\ Fairness

------------------------------------------------------------------------------
(* Properties. *)

Listed(r) == \E i \in DOMAIN waiters : waiters[i] = r

(* No call sleeps while there is work: while somebody is listed the queue is
   empty, and a call in the select is listed or already has its item
   (enqueue's loop and recv's check-then-list, waiters.go:26-49). *)
NoLostWakeup ==
    /\ waiters # <<>> => queue = <<>>
    /\ \A r \in Receivers : pc[r] = "parked" => Listed(r) \/ ch[r] # NoItem

(* enqueue's send under the lock never blocks ("cap-1 buffered: never blocks",
   waiters.go:32): no channel is listed twice, and a listed channel is empty
   and belongs to a call that will still look at it. *)
SendNeverBlocks ==
    /\ \A i, j \in DOMAIN waiters : waiters[i] = waiters[j] => i = j
    /\ \A i \in DOMAIN waiters :
          /\ ch[waiters[i]] = NoItem
          /\ pc[waiters[i]] \in {"parked", "cancelled"}

(* An item that left the queue is in the channel of one call, or the result of
   one call, or has been returned, and in one of these only: nothing is handed
   to two calls and nothing is dropped by a call that timed out
   (waiters.go:12-13, 56-57). *)
ExactlyOnce ==
    /\ \A i \in DOMAIN handed :
          \/ handed[i] \in returned
          \/ \E r \in Receivers : handed[i] \in {ch[r], result[r]}
    /\ \A r \in Receivers :
          /\ {ch[r], result[r]} \cap returned = {}
          /\ ch[r] # NoItem => ch[r] # result[r]
          /\ \A s \in Receivers \ {r} :
                {ch[r], result[r]} \cap {ch[s], result[s]} \subseteq {NoItem}

(* A step that sends to a waiter has sent an earlier item to every waiter
   listed before it ("one item each, in order", waiters.go:21-22). *)
ServedInParkOrder ==
    [][\A i, j \in DOMAIN waiters :
          i < j /\ ch[waiters[j]] # ch'[waiters[j]] /\ ch'[waiters[j]] # NoItem =>
             \E m, n \in DOMAIN sent' :
                m < n /\ sent'[m] = ch'[waiters[i]] /\ sent'[n] = ch'[waiters[j]]]_vars

(* What a receiver's call is to the abstract inbox.  A listed call waits; a call
   that is no longer listed has its answer, in its channel or already in its hand. *)
CallOf(r) == IF pc[r] = "idle" THEN "idle" ELSE IF Listed(r) THEN "waiting" ELSE "answered"
AnswerOf(r) == IF pc[r] = "returning" THEN result[r] ELSE ch[r]

(* The inbox keeps the abstract promise. *)
Abstract == INSTANCE Inbox WITH
    Callers <- Receivers,
    pending <- queue,
    call    <- [r \in Receivers |-> CallOf(r)],
    answer  <- [r \in Receivers |-> AnswerOf(r)]

RefinesInbox == Abstract!Spec

(* Every item enqueued is returned by some call, if one client polls for ever,
   whatever the other calls do (watch --channel agent, cli/verbs_watch.go:103). *)
EveryItemReturned ==
    \A i \in Items : (\E k \in DOMAIN sent : sent[k] = i) ~> (i \in returned)
=============================================================================
