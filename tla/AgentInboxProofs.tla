--------------------------- MODULE AgentInboxProofs ---------------------------
(***************************************************************************)
(* The safety of the agent inbox for every number of receivers and items.  *)
(* IInv adds to the invariants of AgentInbox what makes them inductive:    *)
(* no item is enqueued twice, what has been handed out followed by what is *)
(* queued is what was sent, and nobody holds an item that was not handed   *)
(* out.  There is one lemma per action.                                    *)
(***************************************************************************)
EXTENDS AgentInbox, SequenceLemmas, TLAPS

(* A sequence in which no item occurs twice. *)
NoRepeats(s) == \A i, j \in 1 .. Len(s) : s[i] = s[j] => i = j

(* Enqueue's precondition, kept: the items enqueued so far are distinct. *)
SentOnce == \A i, j \in DOMAIN sent : sent[i] = sent[j] => i = j

(* Items leave the queue in the order they were enqueued, none overtaken. *)
HandedInOrder == sent = handed \o queue

WasHanded(x) == \E i \in DOMAIN handed : handed[i] = x

(* Channels, results and returned items all came off the queue. *)
OnlyHanded ==
    /\ \A r \in Receivers : ch[r] # NoItem => WasHanded(ch[r])
    /\ \A r \in Receivers : result[r] # NoItem => WasHanded(result[r])
    /\ \A x \in returned : WasHanded(x)

(* The inductive invariant. *)
IInv ==
    /\ TypeOK
    /\ NoLostWakeup
    /\ SendNeverBlocks
    /\ SentOnce
    /\ HandedInOrder
    /\ OnlyHanded
    /\ ExactlyOnce

------------------------------------------------------------------------------
(* A new agentFIFO satisfies the invariant. *)
LEMMA InitInv == Init => IInv
BY DEF Init, IInv, TypeOK, PCs, NoLostWakeup, SendNeverBlocks, Listed, SentOnce,
       HandedInOrder, OnlyHanded, WasHanded, ExactlyOnce

(* What is still queued has never been handed out, nor queued twice. *)
LEMMA QueuedIsFresh ==
    ASSUME IInv, NEW i \in DOMAIN queue
    PROVE  /\ ~WasHanded(queue[i])
           /\ \A j \in DOMAIN queue : queue[i] = queue[j] => i = j
<1>1. /\ queue \in Seq(Items) /\ handed \in Seq(Items) /\ sent = handed \o queue
      /\ SentOnce
  BY DEF IInv, TypeOK, HandedInOrder
<1>2. /\ Len(sent) = Len(handed) + Len(queue)
      /\ \A k \in 1 .. Len(handed) : sent[k] = handed[k]
      /\ \A k \in 1 .. Len(queue) : sent[Len(handed) + k] = queue[k]
      /\ sent \in Seq(Items)
  BY <1>1
<1>3. /\ DOMAIN sent = 1 .. Len(sent) /\ DOMAIN handed = 1 .. Len(handed)
      /\ DOMAIN queue = 1 .. Len(queue) /\ Len(handed) \in Nat /\ Len(queue) \in Nat
  BY <1>1, <1>2
<1>4. Len(handed) + i \in DOMAIN sent /\ sent[Len(handed) + i] = queue[i]
  BY <1>2, <1>3
<1>5. ASSUME NEW k \in DOMAIN handed, handed[k] = queue[i]
      PROVE  FALSE
  <2>1. k \in DOMAIN sent /\ sent[k] = sent[Len(handed) + i] /\ k # Len(handed) + i
    BY <1>2, <1>3, <1>4, <1>5
  <2> QED BY <1>1, <1>4, <2>1 DEF SentOnce
<1>6. ASSUME NEW j \in DOMAIN queue, queue[i] = queue[j]
      PROVE  i = j
  <2>1. Len(handed) + j \in DOMAIN sent /\ sent[Len(handed) + i] = sent[Len(handed) + j]
    BY <1>2, <1>3, <1>4, <1>6
  <2>2. Len(handed) + i = Len(handed) + j
    BY <1>1, <1>4, <2>1 DEF SentOnce
  <2> QED BY <1>3, <2>2
<1> QED BY <1>5, <1>6 DEF WasHanded

(* recv with an item queued. *)
LEMMA RecvTakeStep ==
    ASSUME IInv, NEW r \in Receivers, RecvTake(r)
    PROVE  IInv'
<1> USE DEF RecvTake
<1>1. /\ queue \in Seq(Items) /\ Head(queue) \in Items /\ Head(queue) = queue[1]
      /\ 1 \in DOMAIN queue
      /\ Head(queue) # NoItem /\ ~WasHanded(Head(queue))
  BY QueuedIsFresh, InboxAssumption DEF IInv, TypeOK
<1>2. /\ handed' \in Seq(Items)
      /\ \A x : WasHanded(x)' <=> WasHanded(x) \/ x = Head(queue)
  <2>1. /\ handed \in Seq(Items) /\ handed' = Append(handed, Head(queue))
    BY DEF IInv, TypeOK
  <2>2. /\ handed' \in Seq(Items) /\ Len(handed') = Len(handed) + 1
        /\ DOMAIN handed = 1 .. Len(handed) /\ DOMAIN handed' = 1 .. (Len(handed) + 1)
        /\ \A i \in 1 .. Len(handed) : handed'[i] = handed[i]
        /\ handed'[Len(handed) + 1] = Head(queue)
        /\ Len(handed) \in Nat
    BY <1>1, <2>1
  <2> QED BY <2>2 DEF WasHanded
<1>3. TypeOK'
  BY <1>1, <1>2 DEF IInv, TypeOK, PCs
<1>4. NoLostWakeup' /\ SendNeverBlocks' /\ SentOnce'
  BY DEF IInv, TypeOK, NoLostWakeup, SendNeverBlocks, SentOnce, Listed
<1>5. HandedInOrder'
  BY <1>1 DEF IInv, TypeOK, HandedInOrder
<1>6. OnlyHanded'
  BY <1>2 DEF IInv, TypeOK, OnlyHanded
<1>7. ExactlyOnce'
  <2>1. /\ ch' = ch /\ returned' = returned
        /\ result' = [result EXCEPT ![r] = Head(queue)]
        /\ ch[r] = NoItem /\ result[r] = NoItem
    BY DEF IInv, TypeOK
  <2>2. \A x : WasHanded(x) => x \in returned \/ \E s \in Receivers : x \in {ch[s], result[s]}
    BY DEF IInv, ExactlyOnce, WasHanded
  <2>3. /\ Head(queue) \notin returned
        /\ \A s \in Receivers : Head(queue) \notin {ch[s], result[s]}
    BY <1>1 DEF IInv, OnlyHanded
  <2>4. \A x : WasHanded(x)' => x \in returned' \/ \E s \in Receivers : x \in {ch'[s], result'[s]}
    BY <1>1, <1>2, <2>1, <2>2 DEF IInv, TypeOK
  <2> QED BY <1>1, <2>1, <2>3, <2>4 DEF IInv, TypeOK, ExactlyOnce, WasHanded
<1> QED BY <1>3, <1>4, <1>5, <1>6, <1>7 DEF IInv

(* recv with nothing queued: only here does a receiver become listed. *)
LEMMA RecvParkStep ==
    ASSUME IInv, NEW r \in Receivers, RecvPark(r)
    PROVE  IInv'
<1> USE DEF RecvPark
<1>1. /\ waiters \in Seq(Receivers) /\ DOMAIN waiters = 1 .. Len(waiters)
      /\ waiters' \in Seq(Receivers) /\ DOMAIN waiters' = 1 .. (Len(waiters) + 1)
      /\ \A i \in 1 .. Len(waiters) : waiters'[i] = waiters[i]
      /\ waiters'[Len(waiters) + 1] = r /\ Len(waiters) \in Nat
  BY DEF IInv, TypeOK
<1>2. ch[r] = NoItem /\ ch' = ch
  BY DEF IInv, TypeOK
<1>3. TypeOK'
  BY <1>1, <1>2 DEF IInv, TypeOK, PCs
<1>4. NoLostWakeup'
  <2>1. \A s \in Receivers : Listed(s) \/ s = r => Listed(s)'
    BY <1>1 DEF Listed
  <2>2. \A s \in Receivers : pc'[s] = "parked" => Listed(s)' \/ ch'[s] # NoItem
    BY <1>2, <2>1 DEF IInv, TypeOK, NoLostWakeup
  <2> QED BY <2>2 DEF NoLostWakeup
<1>5. SendNeverBlocks'
  <2>1. \A i \in DOMAIN waiters : waiters[i] # r
    BY DEF IInv, SendNeverBlocks
  <2>2. \A i, j \in DOMAIN waiters' : waiters'[i] = waiters'[j] => i = j
    BY <1>1, <2>1 DEF IInv, SendNeverBlocks
  <2>3. \A i \in DOMAIN waiters' :
            ch'[waiters'[i]] = NoItem /\ pc'[waiters'[i]] \in {"parked", "cancelled"}
    BY <1>1, <1>2, <2>1 DEF IInv, TypeOK, SendNeverBlocks
  <2> QED BY <2>2, <2>3 DEF SendNeverBlocks
<1>6. SentOnce' /\ HandedInOrder'
  BY DEF IInv, SentOnce, HandedInOrder
<1>o. OnlyHanded'
  BY <1>2 DEF IInv, OnlyHanded, WasHanded
<1>7. ExactlyOnce'
  BY <1>2 DEF IInv, ExactlyOnce
<1> QED BY <1>3, <1>4, <1>5, <1>6, <1>7, <1>o DEF IInv

(* The item in a call's channel becomes the call's result: Woken and Drain. *)
LEMMA ChannelToResult ==
    ASSUME IInv, NEW r \in Receivers, pc[r] \in {"parked", "unlisted"},
           pc[r] = "parked" => ch[r] # NoItem,
           result' = [result EXCEPT ![r] = ch[r]],
           ch' = [ch EXCEPT ![r] = NoItem],
           pc' = [pc EXCEPT ![r] = "returning"],
           UNCHANGED <<queue, waiters, sent, handed, returned>>
    PROVE  IInv'
<1>1. result[r] = NoItem
  BY DEF IInv, TypeOK
<1>2. \A i \in DOMAIN waiters : waiters[i] # r
  BY DEF IInv, SendNeverBlocks
<1>3. TypeOK'
  BY DEF IInv, TypeOK, PCs
<1>4. NoLostWakeup'
  BY DEF IInv, TypeOK, NoLostWakeup, Listed
<1>5. SendNeverBlocks'
  BY <1>2 DEF IInv, TypeOK, SendNeverBlocks
<1>6. SentOnce' /\ HandedInOrder'
  BY DEF IInv, SentOnce, HandedInOrder
<1>7. OnlyHanded'
  BY DEF IInv, TypeOK, OnlyHanded, WasHanded
<1>8. ExactlyOnce'
  <2>1. \A s \in Receivers : {ch'[s], result'[s]} = {ch[s], result[s]}
    BY <1>1 DEF IInv, TypeOK
  <2>2. \A i \in DOMAIN handed :
          handed[i] \in returned \/ \E s \in Receivers : handed[i] \in {ch[s], result[s]}
    BY DEF IInv, ExactlyOnce
  <2>3. \A s \in Receivers : ch'[s] # NoItem => ch'[s] # result'[s]
    BY <1>1 DEF IInv, TypeOK, ExactlyOnce
  <2> QED BY <2>1, <2>2, <2>3 DEF IInv, ExactlyOnce
<1> QED BY <1>3, <1>4, <1>5, <1>6, <1>7, <1>8 DEF IInv

(* The select takes ctx.Done. *)
LEMMA CtxDoneStep ==
    ASSUME IInv, NEW r \in Receivers, CtxDone(r)
    PROVE  IInv'
<1> USE DEF CtxDone
<1>1. TypeOK'
  BY DEF IInv, TypeOK, PCs
<1>2. NoLostWakeup'
  BY DEF IInv, TypeOK, NoLostWakeup, Listed
<1>3. SendNeverBlocks'
  BY DEF IInv, TypeOK, SendNeverBlocks
<1>4. SentOnce' /\ HandedInOrder' /\ OnlyHanded' /\ ExactlyOnce'
  BY DEF IInv, SentOnce, HandedInOrder, OnlyHanded, WasHanded, ExactlyOnce
<1> QED BY <1>1, <1>2, <1>3, <1>4 DEF IInv

(* recv returns; the item, if any, moves from its result to `returned'. *)
LEMMA ReturnStep ==
    ASSUME IInv, NEW r \in Receivers, Return(r)
    PROVE  IInv'
<1> USE DEF Return
<1>1. TypeOK'
  BY DEF IInv, TypeOK, PCs
<1>2. NoLostWakeup'
  BY DEF IInv, TypeOK, NoLostWakeup, Listed
<1>3. SendNeverBlocks'
  BY DEF IInv, TypeOK, SendNeverBlocks
<1>4. SentOnce' /\ HandedInOrder'
  BY DEF IInv, SentOnce, HandedInOrder
<1>5. OnlyHanded'
  BY DEF IInv, TypeOK, OnlyHanded, WasHanded
<1>6. ExactlyOnce'
  <2>1. ch[r] = NoItem
    BY DEF IInv, TypeOK
  <2>2. \A i \in DOMAIN handed : handed[i] # NoItem
    BY InboxAssumption DEF IInv, TypeOK
  <2>3. \A i \in DOMAIN handed :
          handed[i] \in returned \/ \E s \in Receivers : handed[i] \in {ch[s], result[s]}
    BY DEF IInv, ExactlyOnce
  <2>4. \A i \in DOMAIN handed' :
          handed'[i] \in returned' \/ \E s \in Receivers : handed'[i] \in {ch'[s], result'[s]}
    BY <2>1, <2>2, <2>3 DEF IInv, TypeOK
  <2>5. ASSUME NEW s \in Receivers
        PROVE  {ch'[s], result'[s]} \cap returned' = {}
    <3>1. NoItem \notin returned'
      BY InboxAssumption DEF IInv, TypeOK
    <3>2. CASE s = r
      BY <2>1, <3>1, <3>2 DEF IInv, TypeOK
    <3>3. CASE s # r
      <4>1. ch'[s] = ch[s] /\ result'[s] = result[s]
        BY <3>3 DEF IInv, TypeOK
      <4>2. {ch[s], result[s]} \cap returned = {}
        BY DEF IInv, ExactlyOnce
      <4>3. {ch[s], result[s]} \cap {ch[r], result[r]} \subseteq {NoItem}
        BY <3>3 DEF IInv, ExactlyOnce
      <4> QED BY <3>1, <4>1, <4>2, <4>3
    <3> QED BY <3>2, <3>3
  <2>6. \A s \in Receivers :
            /\ ch'[s] = ch[s]
            /\ result'[s] = result[s] \/ result'[s] = NoItem
    BY DEF IInv, TypeOK
  <2>7. \A s \in Receivers : ch[s] # NoItem => ch[s] # result[s]
    BY DEF IInv, ExactlyOnce
  <2>8. \A s \in Receivers : \A t \in Receivers \ {s} :
            {ch[s], result[s]} \cap {ch[t], result[t]} \subseteq {NoItem}
    BY DEF IInv, ExactlyOnce
  <2>9. \A s \in Receivers : \A t \in Receivers \ {s} :
            {ch'[s], result'[s]} \cap {ch'[t], result'[t]} \subseteq {NoItem}
    BY <2>6, <2>8
  <2> QED BY <2>4, <2>5, <2>6, <2>7, <2>9 DEF ExactlyOnce
<1> QED BY <1>1, <1>2, <1>3, <1>4, <1>5, <1>6 DEF IInv

(* removeWaiter, whether or not an enqueue unlisted the call before it. *)
LEMMA RemoveWaiterStep ==
    ASSUME IInv, NEW r \in Receivers, RemoveWaiter(r)
    PROVE  IInv'
<1> USE DEF RemoveWaiter
<1>1. /\ waiters \in Seq(Receivers)
      /\ \A i, j \in DOMAIN waiters : waiters[i] = waiters[j] => i = j
  BY DEF IInv, TypeOK, SendNeverBlocks
<1>2. /\ waiters' \in Seq(Receivers)
      /\ \A i \in DOMAIN waiters' :
            waiters'[i] # r /\ \E k \in DOMAIN waiters : waiters[k] = waiters'[i]
      /\ \A i, j \in DOMAIN waiters' : waiters'[i] = waiters'[j] => i = j
      /\ \A k \in DOMAIN waiters :
            waiters[k] # r => \E i \in DOMAIN waiters' : waiters'[i] = waiters[k]
  BY <1>1, WithoutFirst DEF Unlisted
<1>3. TypeOK'
  BY <1>2 DEF IInv, TypeOK, PCs
<1>4. NoLostWakeup'
  <2>1. waiters' # <<>> => waiters # <<>>
    BY <1>1, <1>2
  <2>2. \A s \in Receivers : Listed(s) /\ s # r => Listed(s)'
    BY <1>2 DEF Listed
  <2> QED BY <2>1, <2>2 DEF IInv, TypeOK, NoLostWakeup
<1>5. SendNeverBlocks'
  BY <1>2 DEF IInv, TypeOK, SendNeverBlocks
<1>6. SentOnce' /\ HandedInOrder'
  BY DEF IInv, SentOnce, HandedInOrder
<1>7. OnlyHanded'
  BY DEF IInv, OnlyHanded, WasHanded
<1>8. ExactlyOnce'
  BY DEF IInv, ExactlyOnce
<1> QED BY <1>3, <1>4, <1>5, <1>6, <1>7, <1>8 DEF IInv

------------------------------------------------------------------------------
(* The items that enqueue hands over are new: nobody has had them. *)
LEMMA EnqueueFresh ==
    ASSUME IInv, NEW batch \in Batches, Enqueue(batch),
           NEW full, full = queue \o batch
    PROVE  /\ SentOnce'
           /\ NoRepeats(full)
           /\ \A i \in 1 .. Len(full) : ~WasHanded(full[i])
           /\ sent' = handed \o full
<1>1. /\ queue \in Seq(Items) /\ batch \in Seq(Items) /\ sent \in Seq(Items)
      /\ handed \in Seq(Items) /\ full \in Seq(Items)
  BY InboxAssumption DEF IInv, TypeOK
<1>2. sent' = sent \o batch /\ sent = handed \o queue
  BY DEF Enqueue, IInv, HandedInOrder
<1>3. sent' = handed \o full
  BY ONLY <1>1, <1>2, ConcatAssociative, full = queue \o batch
<1>4. /\ sent' \in Seq(Items) /\ Len(sent') = Len(sent) + Len(batch)
      /\ \A k \in 1 .. Len(sent) : sent'[k] = sent[k]
      /\ \A k \in 1 .. Len(batch) : sent'[Len(sent) + k] = batch[k]
  BY ONLY <1>1, <1>2
<1>5. /\ Len(sent') = Len(handed) + Len(full)
      /\ \A k \in 1 .. Len(handed) : sent'[k] = handed[k]
      /\ \A k \in 1 .. Len(full) : sent'[Len(handed) + k] = full[k]
  BY ONLY <1>1, <1>3
<1>6. /\ DOMAIN sent = 1 .. Len(sent) /\ Len(sent) \in Nat
      /\ DOMAIN batch = 1 .. Len(batch) /\ Len(batch) \in Nat
      /\ DOMAIN handed = 1 .. Len(handed) /\ Len(handed) \in Nat
      /\ Len(full) \in Nat
      /\ DOMAIN sent' = 1 .. Len(sent') /\ Len(sent') \in Nat
  BY ONLY <1>1, <1>4
<1>7. SentOnce'
  <2>1. /\ \A i \in DOMAIN batch : \A j \in DOMAIN sent : batch[i] # sent[j]
        /\ \A i, j \in DOMAIN batch : batch[i] = batch[j] => i = j
    BY DEF Enqueue
  <2>2. \A i, j \in DOMAIN sent : sent[i] = sent[j] => i = j
    BY DEF IInv, SentOnce
  <2>3. \A k \in DOMAIN sent' : \/ k \in DOMAIN sent
                                 \/ k - Len(sent) \in DOMAIN batch
    BY <1>4, <1>6
  <2>4. \A k \in DOMAIN batch : sent'[Len(sent) + k] = batch[k]
    BY <1>4, <1>6
  <2>5. ASSUME NEW i \in DOMAIN sent', NEW j \in DOMAIN sent', sent'[i] = sent'[j]
        PROVE  i = j
    <3>1. CASE i \in DOMAIN sent /\ j \in DOMAIN sent
      BY <1>4, <1>6, <2>2, <2>5, <3>1
    <3>2. CASE i \in DOMAIN sent /\ j - Len(sent) \in DOMAIN batch
      <4>1. sent'[j] = batch[j - Len(sent)] /\ sent'[i] = sent[i]
        BY <1>4, <1>6, <2>4, <3>2
      <4> QED BY <2>1, <2>5, <3>2, <4>1
    <3>3. CASE j \in DOMAIN sent /\ i - Len(sent) \in DOMAIN batch
      <4>1. sent'[i] = batch[i - Len(sent)] /\ sent'[j] = sent[j]
        BY <1>4, <1>6, <2>4, <3>3
      <4> QED BY <2>1, <2>5, <3>3, <4>1
    <3>4. CASE i - Len(sent) \in DOMAIN batch /\ j - Len(sent) \in DOMAIN batch
      <4>1. sent'[i] = batch[i - Len(sent)] /\ sent'[j] = batch[j - Len(sent)]
        BY <1>4, <1>6, <2>4, <3>4
      <4>2. i - Len(sent) = j - Len(sent)
        BY <2>1, <2>5, <3>4, <4>1
      <4> QED BY <1>6, <4>2
    <3> QED BY <2>3, <3>1, <3>2, <3>3, <3>4
  <2> QED BY <2>5 DEF SentOnce
<1>8. \A i, j \in DOMAIN sent' : sent'[i] = sent'[j] => i = j
  BY <1>7 DEF SentOnce
<1>9. ASSUME NEW i \in 1 .. Len(full), NEW j \in 1 .. Len(full), full[i] = full[j]
      PROVE  i = j
  <2>1. Len(handed) + i \in DOMAIN sent' /\ Len(handed) + j \in DOMAIN sent'
    BY <1>5, <1>6
  <2>2. Len(handed) + i = Len(handed) + j
    BY <1>5, <1>8, <1>9, <2>1
  <2> QED BY <1>6, <2>2
<1>10. ASSUME NEW i \in 1 .. Len(full), NEW k \in DOMAIN handed, handed[k] = full[i]
       PROVE  FALSE
  <2>1. /\ k \in DOMAIN sent' /\ Len(handed) + i \in DOMAIN sent'
        /\ k # Len(handed) + i /\ sent'[k] = sent'[Len(handed) + i]
    BY <1>5, <1>6, <1>10
  <2> QED BY <1>8, <2>1
<1> QED BY <1>3, <1>7, <1>9, <1>10 DEF WasHanded, NoRepeats

(***************************************************************************)
(* enqueue.  `full' is the queue with the batch appended and n the number  *)
(* of rounds of the loop: the first n waiters get the first n items.       *)
(***************************************************************************)
LEMMA EnqueuePreserves ==
    ASSUME IInv, NEW batch \in Batches, Enqueue(batch),
           NEW full, full = queue \o batch,
           NEW n, n = Rounds(waiters, full)
    PROVE  IInv'
<1> DEFINE ServedBy(r, i) == waiters[i] = r /\ ch'[r] = full[i]
           NotServed(r) == ch'[r] = ch[r] /\ \A i \in 1 .. n : waiters[i] # r
           front == SubSeq(full, 1, n)
<1>a. /\ queue \in Seq(Items) /\ batch \in Seq(Items) /\ waiters \in Seq(Receivers)
      /\ handed \in Seq(Items) /\ sent \in Seq(Items)
  BY InboxAssumption DEF IInv, TypeOK
<1>b. full \in Seq(Items)
  BY <1>a
<1>c. /\ DOMAIN full = 1 .. Len(full) /\ Len(full) \in Nat
      /\ \A i \in DOMAIN full : full[i] \in Items /\ full[i] # NoItem
  BY <1>b, InboxAssumption
<1>d. /\ DOMAIN waiters = 1 .. Len(waiters) /\ Len(waiters) \in Nat
      /\ \A i \in DOMAIN waiters : waiters[i] \in Receivers
  BY <1>a
<1>e. n \in Nat /\ n <= Len(waiters) /\ n <= Len(full) /\ (n = Len(waiters) \/ n = Len(full))
  BY ONLY <1>c, <1>d, n = Rounds(waiters, full) DEF Rounds
<1>f. /\ queue' = SubSeq(full, n + 1, Len(full))
      /\ waiters' = SubSeq(waiters, n + 1, Len(waiters))
      /\ handed' = handed \o front
      /\ sent' = sent \o batch
      /\ UNCHANGED <<pc, result, returned>>
  BY DEF Enqueue
<1>g. /\ queue' \in Seq(Items) /\ Len(queue') = Len(full) - n
      /\ front \in Seq(Items) /\ Len(front) = n /\ \A i \in 1 .. n : front[i] = full[i]
  BY ONLY <1>b, <1>e, <1>f, RemovedFront
<1>h. /\ waiters' \in Seq(Receivers) /\ Len(waiters') = Len(waiters) - n
      /\ \A i \in 1 .. (Len(waiters) - n) : waiters'[i] = waiters[n + i]
  BY ONLY <1>a, <1>e, <1>f, RemovedFront
<1>i. DOMAIN waiters' = 1 .. (Len(waiters) - n)
  BY ONLY <1>h
<1>j. /\ \A i, j \in DOMAIN waiters : waiters[i] = waiters[j] => i = j
      /\ \A i \in DOMAIN waiters : ch[waiters[i]] = NoItem
                                 /\ pc[waiters[i]] \in {"parked", "cancelled"}
  BY DEF IInv, SendNeverBlocks
<1> HIDE DEF front
<1>2. /\ SentOnce'
      /\ NoRepeats(full)
      /\ \A i \in 1 .. Len(full) : ~WasHanded(full[i])
      /\ sent' = handed \o full
  BY ONLY IInv, batch \in Batches, Enqueue(batch), full = queue \o batch, EnqueueFresh
<1>3. \A i, j \in 1 .. Len(full) : full[i] = full[j] => i = j
  BY <1>2 DEF NoRepeats
<1>4. ch' = [r \in Receivers |->
                   IF Turn(waiters, n, r) = {} THEN ch[r]
                   ELSE full[CHOOSE i \in Turn(waiters, n, r) : TRUE]]
  BY DEF Enqueue
<1>5. ASSUME NEW r \in Receivers
      PROVE  (\E i \in 1 .. n : ServedBy(r, i)) \/ NotServed(r)
  <2>1. CASE Turn(waiters, n, r) = {}
    BY <1>4, <2>1 DEF Turn
  <2>2. CASE Turn(waiters, n, r) # {}
    <3>1. PICK i : i \in Turn(waiters, n, r) /\ i = CHOOSE j \in Turn(waiters, n, r) : TRUE
      BY <2>2
    <3>2. ch'[r] = full[i]
      BY <1>4, <2>2, <3>1
    <3> QED BY <3>1, <3>2 DEF Turn
  <2> QED BY <2>1, <2>2
<1>6. \A i \in 1 .. n : i \in DOMAIN waiters /\ i \in DOMAIN full
  BY <1>c, <1>d, <1>e
<1>7. TypeOK'
  <2>1. ASSUME NEW r \in Receivers
        PROVE  /\ ch'[r] \in Items \cup {NoItem}
               /\ ch'[r] # NoItem => pc[r] \in {"parked", "cancelled", "unlisted"}
    <3>1. CASE NotServed(r)
      BY <3>1 DEF IInv, TypeOK
    <3>2. CASE \E i \in 1 .. n : ServedBy(r, i)
      BY <1>6, <1>c, <1>j, <3>2
    <3> QED BY <1>5, <3>1, <3>2
  <2>2. ch' \in [Receivers -> Items \cup {NoItem}]
    BY <1>4, <2>1
  <2>3. handed' \in Seq(Items) /\ sent' \in Seq(Items)
    BY ONLY <1>a, <1>f, <1>g
  <2> QED BY <1>f, <1>g, <1>h, <2>1, <2>2, <2>3 DEF IInv, TypeOK
<1>8. NoLostWakeup'
  <2>1. waiters' # <<>> => queue' = <<>>
    BY ONLY <1>a, <1>b, <1>e, <1>g, <1>h
  <2>2. ASSUME NEW r \in Receivers, pc[r] = "parked", ch'[r] = NoItem
        PROVE  Listed(r)'
    <3>1. NotServed(r)
      BY <1>5, <1>6, <1>c, <2>2
    <3>2. PICK k \in DOMAIN waiters : waiters[k] = r
      BY <2>2, <3>1 DEF IInv, NoLostWakeup, Listed
    <3>3. k \notin 1 .. n
      BY <3>1, <3>2
    <3>4. k - n \in 1 .. (Len(waiters) - n) /\ n + (k - n) = k
      BY <1>d, <1>e, <3>2, <3>3
    <3>5. k - n \in DOMAIN waiters' /\ waiters'[k - n] = r
      BY <1>h, <1>i, <3>2, <3>4
    <3> QED BY <3>5 DEF Listed
  <2> QED BY <1>f, <2>1, <2>2 DEF NoLostWakeup
<1>9. SendNeverBlocks'
  <2>1. ASSUME NEW i \in DOMAIN waiters'
        PROVE  n + i \in DOMAIN waiters /\ n + i \notin 1 .. n /\ waiters'[i] = waiters[n + i]
    <3>1. i \in 1 .. (Len(waiters) - n)
      BY <1>i
    <3>2. n + i \in DOMAIN waiters /\ n + i \notin 1 .. n
      BY <1>d, <1>e, <3>1
    <3> QED BY <1>h, <3>1, <3>2
  <2>2. ASSUME NEW i \in DOMAIN waiters', NEW j \in DOMAIN waiters', waiters'[i] = waiters'[j]
        PROVE  i = j
    <3>1. n + i = n + j
      BY <1>j, <2>1, <2>2
    <3>2. i \in Int /\ j \in Int
      BY <1>i
    <3> QED BY <1>e, <3>1, <3>2
  <2>3. ASSUME NEW i \in DOMAIN waiters'
        PROVE  ch'[waiters'[i]] = NoItem /\ pc'[waiters'[i]] \in {"parked", "cancelled"}
    <3>1. \A j \in 1 .. n : waiters[j] # waiters[n + i]
      BY <1>6, <1>j, <2>1
    <3>2. NotServed(waiters[n + i])
      BY <1>5, <1>d, <2>1, <3>1
    <3> QED BY <1>f, <1>j, <2>1, <3>2
  <2> QED BY <2>2, <2>3 DEF SendNeverBlocks
<1>10. HandedInOrder'
  <2>1. full = front \o queue'
    <3>1. SubSeq(full, 1, Len(full)) = full
      BY ONLY <1>b, SubSeqFull
    <3>2. 1 \in 1 .. Len(full) + 1 /\ n \in (1 - 1) .. Len(full) /\ Len(full) \in n .. Len(full)
      BY <1>c, <1>e
    <3>3. SubSeq(full, 1, n) \o SubSeq(full, n + 1, Len(full)) = SubSeq(full, 1, Len(full))
      BY ONLY <1>b, <3>2, ConcatAdjacentSubSeq
    <3> QED BY <1>f, <3>1, <3>3 DEF front
  <2>2. (handed \o front) \o queue' = handed \o (front \o queue')
    <3>1. handed \in Seq(Items) /\ front \in Seq(Items) /\ queue' \in Seq(Items)
      BY <1>a, <1>g
    <3> QED BY ONLY <3>1, ConcatAssociative
  <2> QED BY <1>2, <1>f, <2>1, <2>2 DEF HandedInOrder
<1>11. \A x : WasHanded(x)' <=> WasHanded(x) \/ \E i \in 1 .. n : x = full[i]
  <2>1. /\ Len(handed') = Len(handed) + n /\ Len(handed) \in Nat
        /\ DOMAIN handed' = 1 .. (Len(handed) + n) /\ DOMAIN handed = 1 .. Len(handed)
    BY ONLY <1>a, <1>f, <1>g, SMTT(30)
  <2>2. \A i \in 1 .. Len(handed) : handed'[i] = handed[i]
    BY ONLY <1>a, <1>f, <1>g
  <2>3. \A i \in 1 .. Len(front) : handed'[Len(handed) + i] = front[i]
    BY ONLY <1>a, <1>f, <1>g, SMTT(30)
  <2>4. \A i \in 1 .. n : /\ Len(handed) + i \in DOMAIN handed'
                         /\ handed'[Len(handed) + i] = full[i]
    BY <1>e, <1>g, <2>1, <2>3
  <2>5. \A k \in DOMAIN handed : k \in DOMAIN handed' /\ handed'[k] = handed[k]
    BY <1>e, <2>1, <2>2
  <2>6. ASSUME NEW k \in DOMAIN handed'
        PROVE  k \in DOMAIN handed \/ \E i \in 1 .. n : k = Len(handed) + i
    <3>1. CASE k <= Len(handed)
      BY <2>1, <3>1
    <3>2. CASE k > Len(handed)
      <4>1. k - Len(handed) \in 1 .. n /\ k = Len(handed) + (k - Len(handed))
        BY <1>e, <2>1, <3>2
      <4> QED BY <4>1
    <3> QED BY <2>1, <3>1, <3>2
  <2>7. ASSUME NEW x, NEW k \in DOMAIN handed', handed'[k] = x
        PROVE  WasHanded(x) \/ \E i \in 1 .. n : x = full[i]
    <3>1. CASE k \in DOMAIN handed
      BY <2>5, <2>7, <3>1 DEF WasHanded
    <3>2. CASE \E i \in 1 .. n : k = Len(handed) + i
      BY <2>4, <2>7, <3>2
    <3> QED BY <2>6, <3>1, <3>2
  <2>8. ASSUME NEW x, WasHanded(x)
        PROVE  WasHanded(x)'
    BY <2>5, <2>8 DEF WasHanded
  <2>9. ASSUME NEW x, NEW i \in 1 .. n, x = full[i]
        PROVE  WasHanded(x)'
    BY <2>4, <2>9 DEF WasHanded
  <2>10. ASSUME NEW x, WasHanded(x)'
         PROVE  WasHanded(x) \/ \E i \in 1 .. n : x = full[i]
    BY <2>7, <2>10 DEF WasHanded
  <2> QED BY <2>8, <2>9, <2>10
<1>12. OnlyHanded'
  <2>1. ASSUME NEW r \in Receivers, NEW x, x = ch'[r], x # NoItem
        PROVE  WasHanded(x)'
    <3>1. CASE NotServed(r)
      <4>1. WasHanded(x)
        BY <2>1, <3>1 DEF IInv, OnlyHanded
      <4> QED BY <1>11, <4>1
    <3>2. CASE \E i \in 1 .. n : ServedBy(r, i)
      BY <1>11, <2>1, <3>2
    <3> QED BY <1>5, <3>1, <3>2
  <2>2. ASSUME NEW x, WasHanded(x)
        PROVE  WasHanded(x)'
    BY <1>11, <2>2
  <2>3. ASSUME NEW r \in Receivers, NEW x, x = result[r], x # NoItem
        PROVE  WasHanded(x)'
    <3>1. WasHanded(x)
      BY <2>3 DEF IInv, OnlyHanded
    <3> QED BY <2>2, <3>1
  <2>4. ASSUME NEW x \in returned
        PROVE  WasHanded(x)'
    <3>1. WasHanded(x)
      BY <2>4 DEF IInv, OnlyHanded
    <3> QED BY <2>2, <3>1
  <2>5. result' = result /\ returned' = returned
    BY <1>f
  <2> QED BY <2>1, <2>3, <2>4, <2>5 DEF OnlyHanded, WasHanded
<1>13. ExactlyOnce'
  <2>1. ASSUME NEW i \in 1 .. n
        PROVE  ch'[waiters[i]] = full[i] /\ waiters[i] \in Receivers
    <3>1. i \in DOMAIN waiters /\ waiters[i] \in Receivers
      BY <1>6, <1>d
    <3>2. PICK j \in 1 .. n : ServedBy(waiters[i], j)
      BY <1>5, <3>1
    <3>3. i = j
      BY <1>6, <1>j, <3>1, <3>2
    <3> QED BY <3>1, <3>2, <3>3
  <2>2. ASSUME NEW r \in Receivers, ~NotServed(r)
        PROVE  \E i \in 1 .. n : /\ ServedBy(r, i) /\ ch[r] = NoItem
                                 /\ ch'[r] # NoItem /\ ~WasHanded(ch'[r])
    <3>1. PICK i \in 1 .. n : ServedBy(r, i)
      BY <1>5, <2>2
    <3>2. i \in DOMAIN waiters /\ i \in 1 .. Len(full) /\ full[i] # NoItem
      BY <1>6, <1>c
    <3> QED BY <1>2, <1>j, <3>1, <3>2
  <2>3. /\ \A x \in returned : WasHanded(x)
        /\ \A r \in Receivers : result[r] # NoItem => WasHanded(result[r])
        /\ \A r \in Receivers : ch[r] # NoItem => WasHanded(ch[r])
    BY DEF IInv, OnlyHanded
  <2>4. ~WasHanded(NoItem) /\ NoItem \notin returned
    BY InboxAssumption DEF WasHanded, IInv, TypeOK
  <2>5. ASSUME NEW x, WasHanded(x)'
        PROVE  x \in returned \/ \E r \in Receivers : x \in {ch'[r], result[r]}
    <3>1. CASE \E i \in 1 .. n : x = full[i]
      BY <2>1, <3>1
    <3>2. CASE WasHanded(x)
      <4>1. x \in returned \/ \E r \in Receivers : x \in {ch[r], result[r]}
        BY <3>2 DEF WasHanded, IInv, ExactlyOnce
      <4>2. ASSUME NEW r \in Receivers, x = ch[r]
            PROVE  x = ch'[r]
        BY <2>2, <2>4, <3>2, <4>2
      <4> QED BY <4>1, <4>2
    <3> QED BY <1>11, <2>5, <3>1, <3>2
  <2>6. ASSUME NEW r \in Receivers
        PROVE  /\ {ch'[r], result[r]} \cap returned = {}
               /\ ch'[r] # NoItem => ch'[r] # result[r]
    <3>1. CASE NotServed(r)
      BY <3>1 DEF IInv, ExactlyOnce
    <3>2. CASE ~NotServed(r)
      <4>1. ch'[r] # NoItem /\ ~WasHanded(ch'[r])
        BY <2>2, <3>2
      <4>2. {ch[r], result[r]} \cap returned = {}
        BY DEF IInv, ExactlyOnce
      <4> QED BY <2>3, <4>1, <4>2
    <3> QED BY <3>1, <3>2
  <2>7. ASSUME NEW r \in Receivers, NEW s \in Receivers \ {r}
        PROVE  {ch'[r], result[r]} \cap {ch'[s], result[s]} \subseteq {NoItem}
    <3>1. {ch[r], result[r]} \cap {ch[s], result[s]} \subseteq {NoItem}
      BY DEF IInv, ExactlyOnce
    <3>2. CASE NotServed(r) /\ NotServed(s)
      BY <3>1, <3>2
    <3>3. CASE ~NotServed(r) /\ NotServed(s)
      BY <2>2, <2>3, <3>1, <3>3
    <3>4. CASE NotServed(r) /\ ~NotServed(s)
      BY <2>2, <2>3, <3>1, <3>4
    <3>5. CASE ~NotServed(r) /\ ~NotServed(s)
      <4>1. PICK i \in 1 .. n : ServedBy(r, i) /\ ~WasHanded(ch'[r])
        BY <2>2, <3>5
      <4>2. PICK j \in 1 .. n : ServedBy(s, j) /\ ~WasHanded(ch'[s])
        BY <2>2, <3>5
      <4>3. ch'[r] # ch'[s]
        <5>1. CASE i = j
          BY <4>1, <4>2, <5>1
        <5>2. CASE i # j
          BY <1>3, <1>6, <1>c, <4>1, <4>2, <5>2
        <5> QED BY <5>1, <5>2
      <4> QED BY <2>3, <3>1, <4>1, <4>2, <4>3
    <3> QED BY <3>2, <3>3, <3>4, <3>5
  <2>8. \A i \in DOMAIN handed' :
            \/ handed'[i] \in returned
            \/ \E r \in Receivers : handed'[i] \in {ch'[r], result[r]}
    BY <2>5 DEF WasHanded
  <2> QED BY <1>f, <2>6, <2>7, <2>8 DEF ExactlyOnce
<1> QED BY <1>2, <1>7, <1>8, <1>9, <1>10, <1>12, <1>13 DEF IInv

(* enqueue, with its local variables named. *)
LEMMA EnqueueStep ==
    ASSUME IInv, NEW batch \in Batches, Enqueue(batch)
    PROVE  IInv'
BY EnqueuePreserves

(* Every step preserves the invariant. *)
LEMMA Inductive == IInv /\ [Next]_vars => IInv'
<1> SUFFICES ASSUME IInv, [Next]_vars
             PROVE  IInv'
  OBVIOUS
<1>1. ASSUME NEW batch \in Batches, Enqueue(batch)
      PROVE  IInv'
  BY <1>1, EnqueueStep
<1>2. ASSUME NEW r \in Receivers, Recv(r)
      PROVE  IInv'
  BY <1>2, RecvTakeStep, RecvParkStep DEF Recv
<1>3. ASSUME NEW r \in Receivers, CtxDone(r)
      PROVE  IInv'
  BY <1>3, CtxDoneStep
<1>4. ASSUME NEW r \in Receivers, Finish(r)
      PROVE  IInv'
  <2>1. CASE Woken(r)
    BY <2>1, ChannelToResult DEF Woken
  <2>2. CASE RemoveWaiter(r)
    BY <2>2, RemoveWaiterStep
  <2>3. CASE Drain(r)
    BY <2>3, ChannelToResult DEF Drain
  <2>4. CASE Return(r)
    BY <2>4, ReturnStep
  <2> QED BY <1>4, <2>1, <2>2, <2>3, <2>4 DEF Finish
<1>5. CASE UNCHANGED vars
  BY <1>5 DEF vars, IInv, TypeOK, PCs, NoLostWakeup, Listed, SendNeverBlocks, SentOnce,
              HandedInOrder, OnlyHanded, WasHanded, ExactlyOnce
<1> QED BY <1>1, <1>2, <1>3, <1>4, <1>5 DEF Next

(* The invariant holds in every reachable state. *)
LEMMA Invariance == Spec => []IInv
BY InitInv, Inductive, PTL DEF Spec

------------------------------------------------------------------------------
(* The variables keep their types, and only an open call holds an item: a
   finished recv leaves nothing in its channel (waiters.go:51-64). *)
THEOREM TypeCorrect == Spec => []TypeOK
BY Invariance, PTL DEF IInv

(* For any number of receivers and items: no recv sleeps while an item is
   queued, so an enqueue is never missed (waiters.go:26-49). *)
THEOREM NoLostWakeupHolds == Spec => []NoLostWakeup
BY Invariance, PTL DEF IInv

(* The send inside enqueue's critical section finds room in the channel, so
   the lock is always released (waiters.go:32). *)
THEOREM SendNeverBlocksHolds == Spec => []SendNeverBlocks
BY Invariance, PTL DEF IInv

(* Every item taken off the queue is with exactly one call or has been
   returned by exactly one, timeouts included (waiters.go:12-13, 56-63). *)
THEOREM ExactlyOnceHolds == Spec => []ExactlyOnce
BY Invariance, PTL DEF IInv

(* Items leave the queue in the order in which they were enqueued: what has
   been handed out, followed by what is queued, is what was sent. *)
THEOREM FIFO == Spec => []HandedInOrder
BY Invariance, PTL DEF IInv

------------------------------------------------------------------------------
(* What enqueue hands out: the i-th of the first n waiters gets the i-th item of
   the queue with the batch appended, and nobody else gets one. *)
HandsOut(batch, full, n) ==
    /\ full = queue \o batch /\ full \in Seq(Items)
    /\ n \in Nat /\ n <= Len(waiters) /\ n <= Len(full)
    /\ n = Len(waiters) \/ n = Len(full)
    /\ queue' = SubSeq(full, n + 1, Len(full))
    /\ \A i \in 1 .. n : ch'[waiters[i]] = full[i]
    /\ \A r \in Receivers : (\A i \in 1 .. n : waiters[i] # r) => ch'[r] = ch[r]
    /\ \A r \in Receivers : Listed(r)' <=> Listed(r) /\ \A i \in 1 .. n : waiters[i] # r

(* Enqueue serves from the front of the parked calls. *)
LEMMA EnqueueServes ==
    ASSUME IInv, NEW batch \in Batches, Enqueue(batch)
    PROVE  \E full, n : HandsOut(batch, full, n)
<1>f. PICK full : full = queue \o batch
  OBVIOUS
<1>n. PICK n : n = Rounds(waiters, full)
  OBVIOUS
<1>1. /\ queue \in Seq(Items) /\ batch \in Seq(Items) /\ waiters \in Seq(Receivers)
  BY InboxAssumption DEF IInv, TypeOK
<1>2. full \in Seq(Items)
  BY <1>1, <1>f
<1>3. n \in Nat /\ n <= Len(waiters) /\ n <= Len(full) /\ (n = Len(waiters) \/ n = Len(full))
  BY ONLY <1>1, <1>2, <1>n DEF Rounds
<1>4. waiters' = SubSeq(waiters, n + 1, Len(waiters)) /\ queue' = SubSeq(full, n + 1, Len(full))
  BY <1>f, <1>n DEF Enqueue
<1>5. /\ waiters' \in Seq(Receivers) /\ Len(waiters') = Len(waiters) - n
      /\ \A i \in 1 .. (Len(waiters) - n) : waiters'[i] = waiters[n + i]
  BY ONLY <1>1, <1>3, <1>4, RemovedFront
<1>6. /\ DOMAIN waiters = 1 .. Len(waiters) /\ Len(waiters) \in Nat
      /\ DOMAIN waiters' = 1 .. (Len(waiters) - n)
      /\ \A i \in 1 .. n : i \in DOMAIN waiters /\ waiters[i] \in Receivers
  BY ONLY <1>1, <1>3, <1>5
<1>7. \A i, j \in DOMAIN waiters : waiters[i] = waiters[j] => i = j
  BY DEF IInv, SendNeverBlocks
<1>8. ch' = [r \in Receivers |->
                   IF Turn(waiters, n, r) = {} THEN ch[r]
                   ELSE full[CHOOSE i \in Turn(waiters, n, r) : TRUE]]
  BY <1>f, <1>n DEF Enqueue
<1>9. ASSUME NEW i \in 1 .. n
      PROVE  ch'[waiters[i]] = full[i]
  <2>1. Turn(waiters, n, waiters[i]) = {i}
    BY <1>6, <1>7 DEF Turn
  <2> QED BY <1>6, <1>8, <2>1
<1>10. ASSUME NEW r \in Receivers, \A i \in 1 .. n : waiters[i] # r
       PROVE  ch'[r] = ch[r]
  <2>1. Turn(waiters, n, r) = {}
    BY <1>10 DEF Turn
  <2> QED BY <1>8, <2>1
<1>11. ASSUME NEW r \in Receivers, Listed(r)'
       PROVE  Listed(r) /\ \A i \in 1 .. n : waiters[i] # r
  <2>1. PICK i \in 1 .. (Len(waiters) - n) : waiters'[i] = r
    BY <1>6, <1>11 DEF Listed
  <2>2. n + i \in DOMAIN waiters /\ n + i \notin 1 .. n /\ waiters[n + i] = r
    BY <1>3, <1>5, <1>6, <2>1
  <2> QED BY <1>6, <1>7, <2>2 DEF Listed
<1>12. ASSUME NEW r \in Receivers, Listed(r), \A i \in 1 .. n : waiters[i] # r
       PROVE  Listed(r)'
  <2>1. PICK k \in DOMAIN waiters : waiters[k] = r
    BY <1>12 DEF Listed
  <2>2. k \notin 1 .. n
    BY <1>12, <2>1
  <2>3. k - n \in 1 .. (Len(waiters) - n) /\ n + (k - n) = k
    <3>1. n \in Nat /\ k \in 1 .. Len(waiters) /\ Len(waiters) \in Nat
      BY <1>3, <1>6, <2>1
    <3> QED BY ONLY <2>2, <3>1
  <2>4. k - n \in DOMAIN waiters' /\ waiters'[k - n] = r
    BY <1>5, <1>6, <2>1, <2>3
  <2> QED BY <2>4 DEF Listed
<1>13. HandsOut(batch, full, n)
  BY <1>f, <1>2, <1>3, <1>4, <1>9, <1>10, <1>11, <1>12 DEF HandsOut
<1> QED BY <1>13

(* Only enqueue puts an item into a channel. *)
LEMMA OnlyEnqueueSends ==
    ASSUME IInv, [Next]_vars, NEW r \in Receivers, ch'[r] # ch[r], ch'[r] # NoItem
    PROVE  \E batch \in Batches : Enqueue(batch)
<1>1. ASSUME NEW s \in Receivers, Recv(s) \/ CtxDone(s) \/ Finish(s)
      PROVE  FALSE
  BY <1>1 DEF IInv, TypeOK, Recv, RecvTake, RecvPark, CtxDone, Finish, Woken, RemoveWaiter,
              Drain, Return
<1> QED BY <1>1 DEF Next, vars

(* Waiters are served in the order in which they parked. *)
LEMMA ParkOrderStep ==
    ASSUME IInv, [Next]_vars, NEW i \in DOMAIN waiters, NEW j \in DOMAIN waiters, i < j,
           ch[waiters[j]] # ch'[waiters[j]], ch'[waiters[j]] # NoItem
    PROVE  \E m, n \in DOMAIN sent' :
              m < n /\ sent'[m] = ch'[waiters[i]] /\ sent'[n] = ch'[waiters[j]]
<1>1. waiters[j] \in Receivers /\ DOMAIN waiters = 1 .. Len(waiters) /\ Len(waiters) \in Nat
  BY DEF IInv, TypeOK
<1>2. PICK batch \in Batches : Enqueue(batch)
  BY <1>1, OnlyEnqueueSends
<1>3. PICK full, n : HandsOut(batch, full, n)
  BY <1>2, EnqueueServes
<1>4. /\ n \in Nat /\ n <= Len(full) /\ full \in Seq(Items)
      /\ \A k \in 1 .. n : ch'[waiters[k]] = full[k]
      /\ \A r \in Receivers : (\A k \in 1 .. n : waiters[k] # r) => ch'[r] = ch[r]
  BY <1>3 DEF HandsOut
<1>5. PICK k \in 1 .. n : waiters[k] = waiters[j]
  BY <1>1, <1>4
<1>6. /\ \A k1, k2 \in DOMAIN waiters : waiters[k1] = waiters[k2] => k1 = k2
      /\ n <= Len(waiters)
  BY <1>3 DEF HandsOut, IInv, SendNeverBlocks
<1>7. i \in 1 .. n /\ j \in 1 .. n
  BY <1>1, <1>4, <1>5, <1>6
<1>8. sent' = handed \o full /\ handed \in Seq(Items)
  BY <1>2, <1>3, EnqueueFresh DEF HandsOut, IInv, TypeOK
<1>9. /\ DOMAIN sent' = 1 .. Len(handed) + Len(full) /\ Len(handed) \in Nat /\ Len(full) \in Nat
       /\ \A l \in 1 .. Len(full) : sent'[Len(handed) + l] = full[l]
  BY <1>4, <1>8
<1>10. i \in 1 .. Len(full) /\ j \in 1 .. Len(full)
  BY <1>4, <1>7, <1>9
<1>11. /\ Len(handed) + i \in DOMAIN sent' /\ Len(handed) + j \in DOMAIN sent'
       /\ Len(handed) + i < Len(handed) + j
  BY <1>9, <1>10
<1>12. sent'[Len(handed) + i] = full[i] /\ sent'[Len(handed) + j] = full[j]
  BY <1>9, <1>10
<1> QED BY <1>4, <1>7, <1>11, <1>12

(* When one enqueue meets several parked calls, the oldest item goes to the call
   that parked first (waiters.go:21-22, 26-33). *)
THEOREM ServedInOrder == Spec => ServedInParkOrder
<1>1. IInv /\ [Next]_vars =>
         [\A i, j \in DOMAIN waiters :
             i < j /\ ch[waiters[j]] # ch'[waiters[j]] /\ ch'[waiters[j]] # NoItem =>
                \E m, n \in DOMAIN sent' :
                   m < n /\ sent'[m] = ch'[waiters[i]] /\ sent'[n] = ch'[waiters[j]]]_vars
  BY ParkOrderStep
<1> QED BY <1>1, Invariance, PTL DEF Spec, ServedInParkOrder

------------------------------------------------------------------------------
(* A listed call is open, so to the abstract inbox it waits. *)
LEMMA ListedWaits ==
    ASSUME IInv, NEW r \in Receivers
    PROVE  /\ CallOf(r) = "waiting" <=> Listed(r)
           /\ Listed(r) => pc[r] \in {"parked", "cancelled"} /\ ch[r] = NoItem
<1>1. Listed(r) => pc[r] \in {"parked", "cancelled"} /\ ch[r] = NoItem
  BY DEF IInv, SendNeverBlocks, Listed
<1> QED BY <1>1 DEF CallOf

(* An enqueue is the abstract Put, which serves the first waiters. *)
LEMMA EnqueuePuts ==
    ASSUME IInv, NEW batch \in Batches, Enqueue(batch)
    PROVE  Abstract!Put
<1> DEFINE call == [r \in Receivers |-> CallOf(r)]
           answer == [r \in Receivers |-> AnswerOf(r)]
<1>1. PICK full, n : HandsOut(batch, full, n)
  BY EnqueueServes
<1>2. /\ waiters \in Seq(Receivers) /\ DOMAIN waiters = 1 .. Len(waiters)
      /\ Len(waiters) \in Nat
      /\ \A i, j \in DOMAIN waiters : waiters[i] = waiters[j] => i = j
  BY DEF IInv, TypeOK, SendNeverBlocks
<1>3. /\ full = queue \o batch /\ full \in Seq(Items)
      /\ n \in Nat /\ n <= Len(waiters) /\ n <= Len(full)
      /\ n = Len(waiters) \/ n = Len(full)
      /\ queue' = SubSeq(full, n + 1, Len(full))
      /\ \A i \in 1 .. n : i \in DOMAIN waiters /\ waiters[i] \in Receivers
  BY <1>1, <1>2 DEF HandsOut
<1>4. /\ \A i \in 1 .. n : ch'[waiters[i]] = full[i]
      /\ \A r \in Receivers : (\A i \in 1 .. n : waiters[i] # r) => ch'[r] = ch[r]
      /\ \A r \in Receivers : Listed(r)' <=> Listed(r) /\ \A i \in 1 .. n : waiters[i] # r
      /\ UNCHANGED <<pc, result>>
  BY <1>1 DEF HandsOut, Enqueue
<1> DEFINE served == [i \in 1 .. n |-> waiters[i]]
           Turns(r) == {i \in DOMAIN served : served[i] = r}
<1>5. \A i \in 1 .. n : CallOf(waiters[i]) = "waiting"
  BY <1>3, ListedWaits DEF Listed
<1>6. served \in [1 .. n -> Abstract!Waiting] /\ n \in 0 .. Len(queue \o batch)
  BY <1>3, <1>5 DEF Abstract!Waiting
<1>7. \A r \in Abstract!Waiting : \A i, j \in Turns(r) : i = j
  BY <1>2, <1>3
<1>8. Len(served) = n /\ DOMAIN served = 1 .. n
  BY <1>3
<1>9. Len(served) = Len(full) \/ \A r \in Abstract!Waiting : Turns(r) # {}
  <2>1. CASE n = Len(full)
    BY <1>8, <2>1
  <2>2. CASE n = Len(waiters)
    <3>1. ASSUME NEW r \in Abstract!Waiting
          PROVE  Turns(r) # {}
      <4>1. r \in Receivers /\ Listed(r)
        BY ListedWaits DEF Abstract!Waiting
      <4>2. PICK i \in DOMAIN waiters : waiters[i] = r
        BY <4>1 DEF Listed
      <4> QED BY <1>2, <2>2, <4>2
    <3> QED BY <3>1
  <2> QED BY <1>3, <2>1, <2>2
<1>10. ASSUME NEW r \in Receivers, Turns(r) = {}
       PROVE  CallOf(r)' = CallOf(r) /\ AnswerOf(r)' = AnswerOf(r)
  <2>1. \A i \in 1 .. n : waiters[i] # r
    BY <1>10
  <2> QED BY <1>4, <2>1 DEF CallOf, AnswerOf
<1>11. ASSUME NEW r \in Receivers, Turns(r) # {}
       PROVE  CallOf(r)' = "answered" /\ AnswerOf(r)' = full[CHOOSE i \in Turns(r) : TRUE]
  <2>1. PICK i \in 1 .. n : waiters[i] = r
    BY <1>11
  <2>2. Turns(r) = {i}
    BY <1>2, <1>3, <2>1
  <2>3. pc[r] \in {"parked", "cancelled"} /\ pc' = pc /\ ~Listed(r)' /\ ch'[r] = full[i]
    BY <1>3, <1>4, <2>1, ListedWaits DEF Listed
  <2> QED BY <2>2, <2>3 DEF CallOf, AnswerOf
<1> HIDE DEF Turns
<1>12. /\ call' = [r \in Receivers |-> IF Turns(r) = {} THEN call[r] ELSE "answered"]
       /\ answer' = [r \in Receivers |-> IF Turns(r) = {} THEN answer[r]
                                         ELSE full[CHOOSE i \in Turns(r) : TRUE]]
  BY <1>10, <1>11
<1>13. Abstract!Serve(batch, served)
  BY <1>3, <1>7, <1>8, <1>9, <1>12 DEF Abstract!Serve, Turns
<1> QED BY <1>6, <1>13 DEF Abstract!Put

(* A step of one call is the abstract step of that call, or none that the
   abstract inbox sees. *)
LEMMA CallSteps ==
    ASSUME IInv, NEW r \in Receivers, Recv(r) \/ CtxDone(r) \/ Finish(r)
    PROVE  \/ Abstract!Take(r) \/ Abstract!Wait(r) \/ Abstract!GiveUp(r) \/ Abstract!Return(r)
           \/ UNCHANGED Abstract!vars
<1> DEFINE call == [s \in Receivers |-> CallOf(s)]
           answer == [s \in Receivers |-> AnswerOf(s)]
<1>1. /\ ch \in [Receivers -> Items \cup {NoItem}] /\ result \in [Receivers -> Items \cup {NoItem}]
      /\ pc \in [Receivers -> PCs]
      /\ ch[r] # NoItem => pc[r] \in {"parked", "cancelled", "unlisted"}
  BY DEF IInv, TypeOK
<1>2. /\ call[r] = CallOf(r) /\ answer[r] = AnswerOf(r)
      /\ Listed(r) => pc[r] \in {"parked", "cancelled"} /\ ch[r] = NoItem
  BY ListedWaits
<1>3. ASSUME \A s \in Receivers \ {r} :
                ch'[s] = ch[s] /\ result'[s] = result[s] /\ pc'[s] = pc[s]
                /\ (Listed(s)' <=> Listed(s))
      PROVE  /\ call' = [call EXCEPT ![r] = CallOf(r)']
             /\ answer' = [answer EXCEPT ![r] = AnswerOf(r)']
  <2>1. \A s \in Receivers \ {r} : CallOf(s)' = CallOf(s) /\ AnswerOf(s)' = AnswerOf(s)
    BY <1>3 DEF CallOf, AnswerOf
  <2> QED BY <2>1
<1>4. UNCHANGED waiters => \A s : Listed(s)' <=> Listed(s)
  BY DEF Listed
<1>5. CASE RecvTake(r)
  <2>1. /\ \A s \in Receivers \ {r} :
                ch'[s] = ch[s] /\ result'[s] = result[s] /\ pc'[s] = pc[s]
                /\ (Listed(s)' <=> Listed(s))
        /\ CallOf(r) = "idle" /\ CallOf(r)' = "answered" /\ AnswerOf(r)' = Head(queue)
        /\ queue # <<>> /\ queue' = Tail(queue)
    BY <1>1, <1>2, <1>4, <1>5 DEF RecvTake, CallOf, AnswerOf
  <2>2. /\ call' = [call EXCEPT ![r] = "answered"]
        /\ answer' = [answer EXCEPT ![r] = Head(queue)]
    BY <1>3, <2>1
  <2> QED BY <1>2, <2>1, <2>2 DEF Abstract!Take
<1>6. CASE RecvPark(r)
  <2>1. /\ \A s \in Receivers \ {r} :
                ch'[s] = ch[s] /\ result'[s] = result[s] /\ pc'[s] = pc[s]
        /\ queue = <<>> /\ queue' = queue /\ waiters' = Append(waiters, r)
        /\ pc[r] = "idle" /\ pc'[r] = "parked" /\ ch'[r] = NoItem /\ ch[r] = NoItem
    BY <1>1, <1>6 DEF RecvPark
  <2>2. \A s \in Receivers : Listed(s)' <=> Listed(s) \/ s = r
    <3>1. /\ waiters \in Seq(Receivers) /\ DOMAIN waiters = 1 .. Len(waiters)
          /\ DOMAIN waiters' = 1 .. (Len(waiters) + 1) /\ Len(waiters) \in Nat
          /\ \A i \in 1 .. Len(waiters) : waiters'[i] = waiters[i]
          /\ waiters'[Len(waiters) + 1] = r
      BY <2>1 DEF IInv, TypeOK
    <3> QED BY <3>1 DEF Listed
  <2>3. CallOf(r) = "idle" /\ CallOf(r)' = "waiting" /\ AnswerOf(r)' = AnswerOf(r)
    BY <2>1, <2>2 DEF CallOf, AnswerOf
  <2>4. call' = [call EXCEPT ![r] = "waiting"] /\ answer' = answer
    BY <1>2, <1>3, <2>1, <2>2, <2>3
  <2> QED BY <1>2, <2>1, <2>3, <2>4 DEF Abstract!Wait
<1>7. CASE CtxDone(r) \/ Woken(r) \/ Drain(r)
  <2>1. /\ \A s \in Receivers \ {r} :
                ch'[s] = ch[s] /\ result'[s] = result[s] /\ pc'[s] = pc[s]
                /\ (Listed(s)' <=> Listed(s))
        /\ CallOf(r)' = CallOf(r) /\ AnswerOf(r)' = AnswerOf(r) /\ queue' = queue
    BY <1>1, <1>2, <1>4, <1>7 DEF CtxDone, Woken, Drain, CallOf, AnswerOf
  <2>2. call' = call /\ answer' = answer
    BY <1>3, <2>1
  <2> QED BY <2>1, <2>2 DEF Abstract!vars
<1>8. CASE RemoveWaiter(r)
  <2>1. /\ UNCHANGED <<ch, result, queue>> /\ pc[r] = "cancelled"
        /\ pc' = [pc EXCEPT ![r] = "unlisted"]
        /\ waiters' = RemoveFirst(waiters, r)
    BY <1>8 DEF RemoveWaiter, Unlisted
  <2>2. \A s \in Receivers : Listed(s)' <=> Listed(s) /\ s # r
    <3>1. /\ waiters \in Seq(Receivers)
          /\ \A i, j \in DOMAIN waiters : waiters[i] = waiters[j] => i = j
      BY DEF IInv, TypeOK, SendNeverBlocks
    <3>2. /\ \A i \in DOMAIN waiters' :
                waiters'[i] # r /\ \E k \in DOMAIN waiters : waiters[k] = waiters'[i]
          /\ \A k \in DOMAIN waiters :
                waiters[k] # r => \E i \in DOMAIN waiters' : waiters'[i] = waiters[k]
      BY <2>1, <3>1, WithoutFirst
    <3> QED BY <3>2 DEF Listed
  <2>3. CallOf(r)' = "answered" /\ AnswerOf(r)' = AnswerOf(r) /\ CallOf(r) \in {"waiting", "answered"}
    BY <1>1, <2>1, <2>2 DEF CallOf, AnswerOf
  <2>4. call' = [call EXCEPT ![r] = "answered"] /\ answer' = answer
    BY <1>1, <1>2, <1>3, <2>1, <2>2, <2>3
  <2>5. CASE CallOf(r) = "waiting"
    BY <1>2, <2>1, <2>4, <2>5 DEF Abstract!GiveUp
  <2>6. CASE CallOf(r) = "answered"
    <3>1. call' = call
      BY <2>4, <2>6
    <3> QED BY <2>1, <2>4, <3>1 DEF Abstract!vars
  <2> QED BY <2>3, <2>5, <2>6
<1>9. CASE Return(r)
  <2>1. /\ \A s \in Receivers \ {r} :
                ch'[s] = ch[s] /\ result'[s] = result[s] /\ pc'[s] = pc[s]
                /\ (Listed(s)' <=> Listed(s))
        /\ CallOf(r) = "answered" /\ CallOf(r)' = "idle" /\ AnswerOf(r)' = NoItem
        /\ queue' = queue
    BY <1>1, <1>2, <1>4, <1>9 DEF Return, CallOf, AnswerOf
  <2>2. /\ call' = [call EXCEPT ![r] = "idle"]
        /\ answer' = [answer EXCEPT ![r] = NoItem]
    BY <1>3, <2>1
  <2> QED BY <1>2, <2>1, <2>2 DEF Abstract!Return
<1> QED BY <1>5, <1>6, <1>7, <1>8, <1>9 DEF Recv, Finish

(* Every step of the inbox is a step of the abstract inbox, or none. *)
LEMMA StepRefines ==
    ASSUME IInv, [Next]_vars
    PROVE  [Abstract!Next]_(Abstract!vars)
<1>1. ASSUME NEW batch \in Batches, Enqueue(batch)
      PROVE  Abstract!Next
  BY <1>1, EnqueuePuts DEF Abstract!Next
<1>2. ASSUME NEW r \in Receivers, Recv(r) \/ CtxDone(r) \/ Finish(r)
      PROVE  [Abstract!Next]_(Abstract!vars)
  BY <1>2, CallSteps DEF Abstract!Next
<1>3. CASE UNCHANGED vars
  BY <1>3 DEF vars, Abstract!vars, CallOf, AnswerOf, Listed
<1> QED BY <1>1, <1>2, <1>3 DEF Next

(* The inbox with its lock, channels and waiter list keeps the promise of
   Inbox.tla: items are taken in the order they were put, each by one call; a call
   that finds nothing waits, and is served or gives up (waiters.go:10-14). *)
THEOREM Refinement == Spec => RefinesInbox
<1>1. Init => Abstract!Init
  BY DEF Init, Abstract!Init, CallOf, AnswerOf
<1>2. IInv /\ [Next]_vars => [Abstract!Next]_(Abstract!vars)
  BY StepRefines
<1> QED BY <1>1, <1>2, Invariance, PTL DEF Spec, RefinesInbox, Abstract!Spec
=============================================================================
