----------------------------- MODULE IngestProofs -----------------------------
(***************************************************************************)
(* The safety of the save-and-dispatch loop, for any number of requests    *)
(* side by side, any envelopes and any caps.  The inductive invariant      *)
(* keeps, for each request, the books: what is counted, what is saved and  *)
(* what is on disk agree at the item it is at.                             *)
(***************************************************************************)
EXTENDS Ingest, SequenceLemmas, TLAPS

(* What TypeOK says pointwise, said of the functions. *)
Shapes ==
    /\ next \in [Requests -> Nat]
    /\ saved \in [Requests -> Seq(Paths)]

Mine(r) == {p \in disk : p[1] = r}

(* The answer so far: the files before the n-th item, in order. *)
SavedBefore(r, n) ==
    /\ {saved[r][i] : i \in DOMAIN saved[r]} = FilesBefore(r, n)
    /\ \A i, j \in DOMAIN saved[r] : i < j => saved[r][i][2] < saved[r][j][2]

(* The part of ResponseTellsDisk that is about r. *)
Told(r) ==
    /\ result[r] = "ok" =>
          /\ Counted(r, Len(Items(r))) <= MaxBytes
          /\ Mine(r) = FilesBefore(r, Len(Items(r)) + 1)
          /\ Mine(r) = {saved[r][i] : i \in DOMAIN saved[r]}
          /\ \A i, j \in DOMAIN saved[r] : i < j => saved[r][i][2] < saved[r][j][2]
    /\ result[r] = "tooLarge" =>
          /\ Counted(r, next[r]) > MaxBytes
          /\ Counted(r, next[r] - 1) <= MaxBytes
          /\ Mine(r) = FilesBefore(r, next[r])

(* The books of r: between two items all files up to there are on disk, all bytes
   are counted and they fit; once an item is written it is on disk and counted, and
   the items before it fit. *)
Books(r) ==
    /\ pc[r] = "item" =>
          /\ Mine(r) = FilesBefore(r, next[r])
          /\ total[r] = Counted(r, next[r] - 1) /\ total[r] <= MaxBytes
          /\ SavedBefore(r, next[r])
    /\ pc[r] \in {"enqueue", "check"} =>
          /\ next[r] <= Len(Items(r)) /\ IsFile(r, Item(r))
          /\ Mine(r) = FilesBefore(r, next[r] + 1)
          /\ total[r] = Counted(r, next[r]) /\ Counted(r, next[r] - 1) <= MaxBytes
          /\ SavedBefore(r, next[r])
    /\ Told(r)

(* A request hands over nothing beyond the item it is at, and that item once. *)
HandedOver ==
    \A k \in DOMAIN fifo : \A r \in Requests : fifo[k][1] = r =>
        /\ fifo[k][2] <= next[r]
        /\ pc[r] \in {"item", "enqueue"} => fifo[k][2] < next[r]

(* The path that is committed belongs to a request that has ended: no file of such
   a request is removed. *)
Committed ==
    lastPath # NoPath =>
        /\ lastPath \in disk
        /\ \E r \in Requests : lastPath[1] = r /\ pc[r] = "ended"

(* The inductive invariant. *)
IInv ==
    /\ TypeOK
    /\ Shapes
    /\ \A r \in Requests : Books(r)
    /\ HandedOver
    /\ BatchOrder
    /\ Committed
------------------------------------------------------------------------------
(* What the items of a request are. *)
LEMMA ItemsTyped ==
    ASSUME envelope \in [Requests -> Envelopes], NEW r \in Requests
    PROVE  /\ Items(r) \in Seq([kind : STRING, size : Nat])
           /\ Len(Items(r)) \in Nat
           /\ \A n \in 1 .. Len(Items(r)) : Items(r)[n].size \in Nat
           /\ \A n \in 1 .. Len(Items(r)) : Weight(r, Items(r)[n]) \in Nat
<1>1. Items(r) \in Seq([kind : STRING, size : Nat])
  BY IngestAssumption DEF Items
<1>2. Len(Items(r)) \in Nat /\ \A n \in 1 .. Len(Items(r)) : Items(r)[n].size \in Nat
  <2>1. Len(Items(r)) \in Nat
    BY <1>1
  <2>2. \A n \in 1 .. Len(Items(r)) : Items(r)[n] \in [kind : STRING, size : Nat]
    BY <1>1, ElementOfSeq
  <2> QED BY <2>1, <2>2
<1> QED BY <1>1, <1>2 DEF Weight

(* Counted adds up the weights. *)
LEMMA CountedSums ==
    ASSUME envelope \in [Requests -> Envelopes], NEW r \in Requests
    PROVE  /\ Counted(r, 0) = 0
           /\ \A n \in 0 .. Len(Items(r)) : Counted(r, n) \in Nat
           /\ \A n \in 1 .. Len(Items(r)) :
                 Counted(r, n) = Counted(r, n - 1) + Weight(r, Items(r)[n])
<1> DEFINE N == Len(Items(r))
           w == [k \in 1 .. N |-> Weight(r, Items(r)[k])]
           S == CHOOSE f :
                   f = [k \in 0 .. N |-> IF k = 0 THEN 0 ELSE f[k - 1] + Weight(r, Items(r)[k])]
<1>1. N \in Nat /\ w \in [1 .. N -> Nat]
  BY ItemsTyped
<1>2. PICK f \in [0 .. N -> Nat] :
         f = [k \in 0 .. N |-> IF k = 0 THEN 0 ELSE f[k - 1] + w[k]]
  <2> HIDE DEF N, w
  <2> QED BY <1>1, PrefixSums
<1>3. f = [k \in 0 .. N |-> IF k = 0 THEN 0 ELSE f[k - 1] + Weight(r, Items(r)[k])]
  <2>1. \A k \in 0 .. N : k # 0 => w[k] = Weight(r, Items(r)[k])
    BY <1>1
  <2> HIDE DEF N, w
  <2> QED BY <1>2, <2>1
<1>4. S = [k \in 0 .. N |-> IF k = 0 THEN 0 ELSE S[k - 1] + Weight(r, Items(r)[k])]
  BY <1>3
<1>5. \A n : Counted(r, n) = S[n]
  BY DEF Counted
<1> HIDE DEF S
<1>6. S[0] = 0 /\ \A n \in 1 .. N : S[n] = S[n - 1] + Weight(r, Items(r)[n])
  BY <1>1, <1>4
<1>7. \A n \in 0 .. N : S[n] \in Nat
  <2>1. \A n \in 1 .. N : S[n] = S[n - 1] + w[n]
    BY <1>6
  <2> HIDE DEF N, w
  <2> QED BY <1>1, <1>6, <2>1, SumsAreNatural
<1> QED BY <1>5, <1>6, <1>7

(* The files before the next item are those before this one and, if it is a file,
   this one. *)
LEMMA FilesGrow ==
    ASSUME NEW r, NEW n \in Nat \ {0}
    PROVE  /\ IsFile(r, Items(r)[n]) => FilesBefore(r, n + 1) = FilesBefore(r, n) \cup {<<r, n>>}
           /\ ~IsFile(r, Items(r)[n]) => FilesBefore(r, n + 1) = FilesBefore(r, n)
           /\ <<r, n>> \notin FilesBefore(r, n)
           /\ \A p \in FilesBefore(r, n) : p[2] < n
<1>1. 1 .. (n + 1) - 1 = (1 .. n - 1) \cup {n} /\ n \notin 1 .. n - 1
  OBVIOUS
<1>2. \A p \in FilesBefore(r, n) : \E i \in 1 .. n - 1 : p = <<r, i>>
  BY DEF FilesBefore
<1>3. \A p \in FilesBefore(r, n) : p[2] < n
  BY <1>2
<1>4. IsFile(r, Items(r)[n]) => FilesBefore(r, n + 1) = FilesBefore(r, n) \cup {<<r, n>>}
  BY <1>1 DEF FilesBefore
<1>5. ~IsFile(r, Items(r)[n]) => FilesBefore(r, n + 1) = FilesBefore(r, n)
  BY <1>1 DEF FilesBefore
<1> QED BY <1>1, <1>2, <1>3, <1>4, <1>5

(* No step changes an envelope, nor what follows from it. *)
LEMMA EnvelopesStay ==
    ASSUME UNCHANGED envelope
    PROVE  \A r, n : /\ Items(r)' = Items(r)
                     /\ Counted(r, n)' = Counted(r, n)
                     /\ FilesBefore(r, n)' = FilesBefore(r, n)
<1> SUFFICES ASSUME NEW r, NEW n
             PROVE  /\ Items(r)' = Items(r)
                    /\ Counted(r, n)' = Counted(r, n)
                    /\ FilesBefore(r, n)' = FilesBefore(r, n)
  OBVIOUS
<1>1. Items(r)' = Items(r)
  BY DEF Items
<1>2. Counted(r, n)' = Counted(r, n)
  BY DEF Counted, Weight, IsFile, OnAgent, Items
<1>3. FilesBefore(r, n)' = FilesBefore(r, n)
  BY DEF FilesBefore, IsFile, OnAgent, Items
<1> QED BY <1>1, <1>2, <1>3

(* Nothing has been saved. *)
LEMMA InitEstablishes == Init => IInv
<1> SUFFICES ASSUME Init PROVE IInv
  OBVIOUS
<1> USE DEF Init
<1>1. TypeOK
  <2>1. \A r \in Requests : Len(Items(r)) \in Nat
    BY ItemsTyped
  <2>2. \A r \in Requests : next[r] \in 1 .. Len(Items(r)) + 1
    BY <2>1
  <2> QED BY <2>2 DEF TypeOK, PCs, Results
<1>2. Shapes
  BY DEF Shapes
<1>3. ASSUME NEW r \in Requests PROVE Books(r)
  <2>1. FilesBefore(r, 1) = {}
    BY DEF FilesBefore
  <2>2. Counted(r, 0) = 0
    BY CountedSums
  <2> QED BY <2>1, <2>2, IngestAssumption DEF Books, Told, Mine, SavedBefore
<1>4. HandedOver /\ BatchOrder /\ Committed
  BY DEF HandedOver, BatchOrder, Committed
<1> QED BY <1>1, <1>2, <1>3, <1>4 DEF IInv

------------------------------------------------------------------------------
(* A step of r leaves the books of the others alone. *)
LEMMA OthersKeepBooks ==
    ASSUME IInv, NEW r \in Requests, NEW q \in Requests \ {r}, UNCHANGED envelope,
           pc'[q] = pc[q], next'[q] = next[q], total'[q] = total[q], saved'[q] = saved[q],
           result'[q] = result[q],
           disk' \in {disk, disk \cup {Path(r)}, disk \ {Path(r)}}
    PROVE  Books(q)'
<1>1. /\ Items(q)' = Items(q)
      /\ \A n : Counted(q, n)' = Counted(q, n) /\ FilesBefore(q, n)' = FilesBefore(q, n)
  BY EnvelopesStay
<1>2. Mine(q)' = Mine(q)
  BY DEF Mine, Path
<1>3. \A n : SavedBefore(q, n) => SavedBefore(q, n)'
  BY <1>1 DEF SavedBefore
<1>4. IsFile(q, Item(q)) => IsFile(q, Item(q))'
  BY <1>1 DEF IsFile, Item, OnAgent
<1>5. Told(q)'
  <2>1. Told(q)
    BY DEF IInv, Books
  <2> QED BY <1>1, <1>2, <2>1 DEF Told
<1>6. Books(q)
  BY DEF IInv
<1> QED BY <1>1, <1>2, <1>3, <1>4, <1>5, <1>6 DEF Books, SavedBefore

(* Every step keeps the types. *)
LEMMA TypesKept ==
    ASSUME IInv, [Next]_vars
    PROVE  TypeOK' /\ Shapes'
<1> USE DEF IInv, TypeOK, Shapes, PCs, Results
<1>1. CASE UNCHANGED vars
  BY <1>1 DEF vars, Items
<1>2. ASSUME NEW r \in Requests,
             \/ Malformed(r) \/ Save(r) \/ SaveFails(r) \/ EnqueueFile(r) \/ JournalFails(r)
             \/ Keep(r) \/ TooLarge(r) \/ SkipText(r) \/ AgentText(r) \/ Finish(r)
      PROVE  TypeOK' /\ Shapes'
  <2>0. UNCHANGED envelope
    BY <1>2 DEF Malformed, Save, SaveFails, EnqueueFile, JournalFails, Keep, TooLarge,
                SkipText, AgentText, Finish
  <2>1. /\ \A q \in Requests : Items(q)' = Items(q)
        /\ Len(Items(r)) \in Nat /\ \A n \in 1 .. Len(Items(r)) : Items(r)[n].size \in Nat
        /\ next[r] \in 1 .. Len(Items(r)) + 1
        /\ Path(r) \in Paths
    BY <2>0, EnvelopesStay, ItemsTyped DEF Path, Paths
  <2>2. CASE Malformed(r) \/ SaveFails(r) \/ JournalFails(r)
    BY <2>1, <2>2 DEF Malformed, SaveFails, JournalFails, End, AtItem
  <2>3. CASE Save(r)
    <3>1. Item(r).size \in Nat
      BY <2>1, <2>3 DEF Save, AtItem, Item
    <3> QED BY <2>1, <2>3, <3>1 DEF Save, AtItem, CommitLater
  <2>4. CASE EnqueueFile(r)
    BY <2>1, <2>4 DEF EnqueueFile, AtEnd
  <2>5. CASE Keep(r)
    <3>1. next[r] <= Len(Items(r))
      BY <2>5 DEF Keep, Books
    <3> QED BY <2>1, <2>5, <3>1 DEF Keep
  <2>6. CASE TooLarge(r)
    BY <2>1, <2>6 DEF TooLarge, FileRemoved, End
  <2>7. CASE SkipText(r)
    BY <2>1, <2>7 DEF SkipText, AtItem
  <2>8. CASE AgentText(r)
    <3>1. Item(r).size \in Nat
      BY <2>1, <2>8 DEF AgentText, AtItem, Item
    <3>2. total' \in [Requests -> Nat] /\ UNCHANGED <<saved, disk, lastPath>>
      BY <2>8, <3>1 DEF AgentText
    <3>3. CASE OverTheCap(total'[r])
      BY <2>1, <2>8, <3>2, <3>3 DEF AgentText, AtItem, End
    <3>4. CASE ~OverTheCap(total'[r])
      <4>0. fifo' = Append(fifo, Path(r))
        BY <2>8, <3>4 DEF AgentText, AtEnd
      <4>1. fifo' \in Seq(Paths)
        BY <2>1, <4>0, AppendProperties
      <4>2. /\ next' = [next EXCEPT ![r] = @ + 1] /\ next[r] <= Len(Items(r))
            /\ UNCHANGED <<envelope, pc, result>>
        BY <2>8, <3>4 DEF AgentText, AtItem
      <4> QED BY <2>1, <3>2, <4>1, <4>2
    <3> QED BY <3>3, <3>4
  <2>9. CASE Finish(r)
    <3>1. lastPath' \in Paths \cup {NoPath}
      <4>1. CASE saved[r] = <<>>
        BY <2>9, <4>1 DEF Finish
      <4>2. CASE saved[r] # <<>>
        <5>1. saved[r] \in Seq(Paths) /\ Len(saved[r]) \in 1 .. Len(saved[r])
          BY <4>2
        <5>2. Last(saved[r]) \in Paths
          BY <5>1, ElementOfSeq DEF Last
        <5> QED BY <2>9, <5>2 DEF Finish
      <4> QED BY <4>1, <4>2
    <3> QED BY <2>1, <2>9, <3>1 DEF Finish, End
  <2> QED BY <1>2, <2>2, <2>3, <2>4, <2>5, <2>6, <2>7, <2>8, <2>9
<1> QED BY <1>1, <1>2 DEF Next, Finished

(* Every step keeps the books. *)
LEMMA BooksKept ==
    ASSUME IInv, [Next]_vars, NEW q \in Requests
    PROVE  Books(q)'
<1> USE DEF IInv, TypeOK, Shapes
<1>1. CASE UNCHANGED vars
  <2>1. /\ Items(q)' = Items(q)
        /\ \A n : Counted(q, n)' = Counted(q, n) /\ FilesBefore(q, n)' = FilesBefore(q, n)
    BY <1>1, EnvelopesStay DEF vars
  <2>2. Mine(q)' = Mine(q)
    BY <1>1 DEF Mine, vars
  <2>3. IsFile(q, Item(q)) => IsFile(q, Item(q))'
    BY <1>1, <2>1 DEF IsFile, Item, OnAgent, vars
  <2>4. Told(q)'
    <3>1. Told(q)
      BY DEF Books
    <3> QED BY <1>1, <2>1, <2>2, <3>1 DEF Told, vars
  <2>5. Books(q)
    OBVIOUS
  <2> QED BY <1>1, <2>1, <2>2, <2>3, <2>4, <2>5 DEF Books, SavedBefore, vars
<1>2. ASSUME NEW r \in Requests, r # q,
             \/ Malformed(r) \/ Save(r) \/ SaveFails(r) \/ EnqueueFile(r) \/ JournalFails(r)
             \/ Keep(r) \/ TooLarge(r) \/ SkipText(r) \/ AgentText(r) \/ Finish(r)
      PROVE  Books(q)'
  <2>1. /\ UNCHANGED envelope
        /\ pc'[q] = pc[q] /\ next'[q] = next[q] /\ total'[q] = total[q] /\ saved'[q] = saved[q]
        /\ result'[q] = result[q]
        /\ disk' \in {disk, disk \cup {Path(r)}, disk \ {Path(r)}}
    BY <1>2 DEF Malformed, Save, SaveFails, EnqueueFile, JournalFails, Keep, TooLarge,
                SkipText, AgentText, Finish, End, FileRemoved
  <2> QED BY <1>2, <2>1, OthersKeepBooks
<1>n. PICK n : n = next[q]
  OBVIOUS
<1>N. PICK N : N = Len(Items(q))
  OBVIOUS
<1> USE <1>n, <1>N
<1>3. /\ N \in Nat /\ n \in 1 .. N + 1 /\ n \in Nat \ {0}
      /\ \A k \in 0 .. N : Counted(q, k) \in Nat
      /\ \A k \in 1 .. N : Counted(q, k) = Counted(q, k - 1) + Weight(q, Items(q)[k])
  <2>1. envelope \in [Requests -> Envelopes] /\ next[q] \in 1 .. Len(Items(q)) + 1
    OBVIOUS
  <2>2. N \in Nat
    BY <2>1, ItemsTyped
  <2> HIDE DEF IInv, TypeOK, Shapes
  <2>3. n \in 1 .. N + 1 /\ n \in Nat \ {0}
    BY <2>1, <2>2
  <2> QED BY <2>1, <2>2, <2>3, CountedSums
<1>4. /\ IsFile(q, Items(q)[n]) => FilesBefore(q, n + 1) = FilesBefore(q, n) \cup {<<q, n>>}
      /\ ~IsFile(q, Items(q)[n]) => FilesBefore(q, n + 1) = FilesBefore(q, n)
      /\ <<q, n>> \notin FilesBefore(q, n) /\ \A p \in FilesBefore(q, n) : p[2] < n
  BY <1>3, FilesGrow
<1>5. UNCHANGED envelope =>
         /\ Items(q)' = Items(q)
         /\ \A k : Counted(q, k)' = Counted(q, k) /\ FilesBefore(q, k)' = FilesBefore(q, k)
         /\ \A it : IsFile(q, it)' = IsFile(q, it)
  BY EnvelopesStay DEF IsFile, OnAgent
<1>6. pc[q] # "ended" => result[q] = "none"
  OBVIOUS
<1>0. ASSUME UNCHANGED envelope, next'[q] = n + 1, pc'[q] = "item",
             SavedBefore(q, n + 1)', Mine(q)' = FilesBefore(q, n + 1),
             total'[q] = Counted(q, n), total'[q] <= MaxBytes, result'[q] = "none"
      PROVE  Books(q)'
  <2>1. FilesBefore(q, n + 1)' = FilesBefore(q, n + 1) /\ Counted(q, n)' = Counted(q, n)
    BY <1>0, EnvelopesStay
  <2>2. next'[q] - 1 = n
    BY <1>0, <1>3
  <2> HIDE <1>n, <1>N
  <2> HIDE DEF IInv, TypeOK, Shapes
  <2>3. SavedBefore(q, next[q])'
    BY <1>0 DEF SavedBefore
  <2>4. (Mine(q) = FilesBefore(q, next[q]))'
    BY <1>0, <2>1
  <2>5. (total[q] = Counted(q, next[q] - 1))'
    BY <1>0, <2>1, <2>2
  <2>6. Told(q)'
    BY <1>0 DEF Told
  <2> QED BY <1>0, <2>3, <2>4, <2>5, <2>6 DEF Books
<1>7. Path(q) = <<q, n>> /\ Item(q) = Items(q)[n]
  BY DEF Path, Item
<1>8. Books(q)
  OBVIOUS
<1> HIDE DEF IInv, TypeOK
<1>9. CASE Malformed(q) \/ SaveFails(q) \/ JournalFails(q)
  <2>1. pc'[q] = "ended" /\ result'[q] \in {"malformed", "failed"}
    BY <1>9 DEF IInv, TypeOK, Malformed, SaveFails, JournalFails, End
  <2> QED BY <2>1 DEF Books, Told
<1>10. CASE Save(q)
  <2>1. /\ UNCHANGED <<envelope, next, saved, result>> /\ n <= N
        /\ pc[q] = "item" /\ pc'[q] \in {"enqueue", "check"} /\ pc'[q] # "item"
        /\ IsFile(q, Item(q)) /\ disk' = disk \cup {<<q, n>>}
        /\ total'[q] = total[q] + Item(q).size /\ next'[q] = n
    BY <1>7, <1>10 DEF IInv, TypeOK, Save, AtItem
  <2>2. Mine(q) = FilesBefore(q, n) /\ total[q] = Counted(q, n - 1) /\ total[q] <= MaxBytes
        /\ SavedBefore(q, n)
    BY <1>8, <2>1 DEF Books
  <2>3. Mine(q)' = Mine(q) \cup {<<q, n>>}
    BY <2>1 DEF Mine
  <2>4. Mine(q)' = FilesBefore(q, n + 1)
    BY <1>4, <1>7, <2>1, <2>2, <2>3
  <2>5. Weight(q, Item(q)) = Item(q).size
    BY <2>1 DEF Weight
  <2>6. total'[q] = Counted(q, n)
    BY <1>3, <1>7, <2>1, <2>2, <2>5
  <2>7. SavedBefore(q, n)'
    BY <1>5, <2>1, <2>2 DEF SavedBefore
  <2>8. IsFile(q, Item(q))'
    BY <1>5, <2>1 DEF Item
  <2> QED BY <1>5, <1>6, <2>1, <2>2, <2>4, <2>6, <2>7, <2>8 DEF Books, Told, SavedBefore
<1>11. CASE EnqueueFile(q)
  <2>1. /\ UNCHANGED <<envelope, next, total, saved, result, disk>>
        /\ pc[q] = "enqueue" /\ pc'[q] = "check"
    BY <1>11 DEF IInv, TypeOK, EnqueueFile
  <2>2. IsFile(q, Item(q)) => IsFile(q, Item(q))'
    BY <1>5, <2>1 DEF Item
  <2> QED BY <1>5, <1>6, <1>8, <2>1, <2>2 DEF Books, Told, SavedBefore, Mine
<1>12. CASE Keep(q)
  <2>1. /\ UNCHANGED <<envelope, total, result, disk>>
        /\ pc[q] = "check" /\ pc'[q] = "item" /\ next'[q] = n + 1
        /\ total[q] <= MaxBytes /\ saved'[q] = Append(saved[q], <<q, n>>)
        /\ saved[q] \in Seq(Paths) /\ <<q, n>> \in Paths
        /\ total[q] \in Nat
    BY <1>3, <1>7, <1>12, IngestAssumption DEF IInv, TypeOK, Shapes, Keep, OverTheCap, Paths
  <2>2. /\ n <= N /\ IsFile(q, Items(q)[n])
        /\ Mine(q) = FilesBefore(q, n + 1) /\ total[q] = Counted(q, n)
        /\ SavedBefore(q, n)
    BY <1>7, <1>8, <2>1 DEF Books
  <2>3. /\ DOMAIN saved'[q] = DOMAIN saved[q] \cup {Len(saved[q]) + 1}
        /\ Len(saved[q]) \in Nat /\ DOMAIN saved[q] = 1 .. Len(saved[q])
        /\ saved'[q][Len(saved[q]) + 1] = <<q, n>>
        /\ \A i \in DOMAIN saved[q] : saved'[q][i] = saved[q][i]
    BY <2>1, AppendProperties
  <2>4. {saved'[q][i] : i \in DOMAIN saved'[q]} = FilesBefore(q, n + 1)
    <3>1. {saved'[q][i] : i \in DOMAIN saved'[q]}
             = {saved[q][i] : i \in DOMAIN saved[q]} \cup {<<q, n>>}
      BY <2>3, SMTT(30)
    <3> QED BY <1>4, <2>2, <3>1 DEF SavedBefore
  <2>5. ASSUME NEW i \in DOMAIN saved'[q], NEW j \in DOMAIN saved'[q], i < j
        PROVE  saved'[q][i][2] < saved'[q][j][2]
    <3>1. i \in DOMAIN saved[q]
      BY <2>3, <2>5
    <3>2. CASE j \in DOMAIN saved[q]
      BY <2>2, <2>3, <2>5, <3>1, <3>2 DEF SavedBefore
    <3>3. CASE j = Len(saved[q]) + 1
      <4>1. saved[q][i] \in FilesBefore(q, n)
        BY <2>2, <3>1 DEF SavedBefore
      <4> QED BY <1>4, <2>3, <3>1, <3>3, <4>1
    <3> QED BY <2>3, <3>2, <3>3
  <2>6. SavedBefore(q, n + 1)'
    <3>1. FilesBefore(q, n + 1)' = FilesBefore(q, n + 1)
      BY <2>1, EnvelopesStay
    <3> QED BY <2>4, <2>5, <3>1 DEF SavedBefore
  <2>7. Mine(q)' = Mine(q) /\ n + 1 - 1 = n
    BY <1>3, <2>1 DEF Mine
  <2> QED BY <1>0, <1>6, <2>1, <2>2, <2>6, <2>7
<1>13. CASE TooLarge(q)
  <2>1. /\ UNCHANGED <<envelope, total, next, saved>> /\ disk' = disk \ {<<q, n>>}
        /\ pc[q] = "check" /\ pc'[q] = "ended" /\ result'[q] = "tooLarge"
        /\ total[q] > MaxBytes /\ next'[q] = n
    BY <1>7, <1>13, IngestAssumption DEF IInv, TypeOK, TooLarge, FileRemoved, OverTheCap, End
  <2>2. /\ n <= N /\ IsFile(q, Items(q)[n])
        /\ Mine(q) = FilesBefore(q, n + 1) /\ total[q] = Counted(q, n)
        /\ Counted(q, n - 1) <= MaxBytes
    BY <1>7, <1>8, <2>1 DEF Books
  <2>3. Mine(q)' = Mine(q) \ {<<q, n>>}
    BY <2>1 DEF Mine
  <2>4. Mine(q)' = FilesBefore(q, n)
    BY <1>4, <2>2, <2>3
  <2> QED BY <1>5, <2>1, <2>2, <2>4 DEF Books, Told
<1>14. CASE SkipText(q)
  <2>1. /\ UNCHANGED <<envelope, total, saved, disk, result>> /\ next'[q] = n + 1
        /\ pc[q] = "item" /\ pc'[q] = "item" /\ n <= N
        /\ ~IsFile(q, Items(q)[n]) /\ ~OnAgent(q)
    BY <1>7, <1>14 DEF IInv, Shapes, SkipText, AtItem
  <2>2. Mine(q) = FilesBefore(q, n) /\ total[q] = Counted(q, n - 1) /\ total[q] <= MaxBytes
        /\ SavedBefore(q, n)
    BY <1>8, <2>1 DEF Books
  <2>3. Counted(q, n) = Counted(q, n - 1)
    <3>1. Weight(q, Items(q)[n]) = 0
      BY <2>1 DEF Weight
    <3> QED BY <1>3, <2>1, <3>1
  <2>4. Mine(q)' = FilesBefore(q, n + 1) /\ n + 1 - 1 = n
    BY <1>3, <1>4, <2>1, <2>2 DEF Mine
  <2>5. SavedBefore(q, n + 1)'
    <3>1. FilesBefore(q, n + 1)' = FilesBefore(q, n + 1)
      BY <2>1, EnvelopesStay
    <3> QED BY <1>4, <2>1, <2>2, <3>1 DEF SavedBefore
  <2> QED BY <1>0, <1>6, <2>1, <2>2, <2>3, <2>4, <2>5
<1>15. CASE AgentText(q)
  <2>1. /\ UNCHANGED <<envelope, saved, disk>>
        /\ pc[q] = "item" /\ n <= N /\ OnAgent(q) /\ Item(q).kind = "text"
        /\ total' = [total EXCEPT ![q] = @ + Item(q).size]
    BY <1>15 DEF AgentText, AtItem
  <2>2. Mine(q) = FilesBefore(q, n) /\ total[q] = Counted(q, n - 1) /\ total[q] <= MaxBytes
        /\ SavedBefore(q, n)
    BY <1>8, <2>1 DEF Books
  <2>3. total'[q] = Counted(q, n) /\ total'[q] \in Nat
    <3>1. Weight(q, Items(q)[n]) = Item(q).size
      BY <1>7, <2>1 DEF Weight
    <3>2. total'[q] = total[q] + Item(q).size
      BY <2>1 DEF IInv, TypeOK
    <3> QED BY <1>3, <2>1, <2>2, <3>1, <3>2
  <2>4. ~IsFile(q, Items(q)[n])
    BY <1>7, <2>1 DEF IsFile
  <2>5. Mine(q)' = FilesBefore(q, n) /\ FilesBefore(q, n + 1) = FilesBefore(q, n)
    BY <1>4, <2>1, <2>2, <2>4 DEF Mine
  <2>6. CASE OverTheCap(total'[q])
    <3>1. pc'[q] = "ended" /\ result'[q] = "tooLarge" /\ next'[q] = n
      BY <1>15, <2>6 DEF IInv, TypeOK, AgentText, End
    <3>2. total'[q] > MaxBytes
      BY <2>6 DEF OverTheCap
    <3> QED BY <1>5, <2>1, <2>2, <2>3, <2>5, <3>1, <3>2 DEF Books, Told
  <2>7. CASE ~OverTheCap(total'[q])
    <3>1. UNCHANGED <<pc, result>> /\ next'[q] = n + 1 /\ n + 1 - 1 = n
      BY <1>3, <1>15, <2>7 DEF IInv, Shapes, AgentText
    <3>2. total'[q] <= MaxBytes
      BY <2>3, <2>7, IngestAssumption DEF OverTheCap
    <3>3. SavedBefore(q, n + 1)'
      <4>1. FilesBefore(q, n + 1)' = FilesBefore(q, n + 1)
        BY <2>1, EnvelopesStay
      <4> QED BY <2>1, <2>2, <2>5, <4>1 DEF SavedBefore
    <3> QED BY <1>0, <1>6, <2>1, <2>3, <2>5, <3>1, <3>2, <3>3
  <2> QED BY <2>6, <2>7
<1>16. CASE Finish(q)
  <2>1. /\ UNCHANGED <<envelope, next, total, saved, disk>>
        /\ pc[q] = "item" /\ n = N + 1 /\ n - 1 = N
        /\ pc'[q] = "ended" /\ result'[q] = "ok"
    BY <1>3, <1>16 DEF IInv, TypeOK, Finish, End
  <2>2. Mine(q) = FilesBefore(q, N + 1) /\ Counted(q, N) <= MaxBytes /\ SavedBefore(q, N + 1)
    BY <1>8, <2>1 DEF Books
  <2>3. Mine(q)' = Mine(q)
    BY <2>1 DEF Mine
  <2> QED BY <1>5, <2>1, <2>2, <2>3 DEF Books, Told, SavedBefore
<1> QED BY <1>1, <1>2, <1>9, <1>10, <1>11, <1>12, <1>13, <1>14, <1>15, <1>16 DEF Next, Finished

(* Every step keeps the order of the inbox. *)
LEMMA OrderKept ==
    ASSUME IInv, [Next]_vars
    PROVE  HandedOver' /\ BatchOrder'
<1> USE DEF IInv, TypeOK, Shapes
<1>1. CASE UNCHANGED vars
  BY <1>1 DEF vars, HandedOver, BatchOrder
<1>2. ASSUME NEW r \in Requests,
             \/ Malformed(r) \/ Save(r) \/ SaveFails(r) \/ JournalFails(r)
             \/ Keep(r) \/ TooLarge(r) \/ SkipText(r) \/ Finish(r)
             \/ AgentText(r) /\ OverTheCap(total'[r])
      PROVE  HandedOver' /\ BatchOrder'
  <2>1. /\ fifo' = fifo
        /\ \A q \in Requests : q # r => pc'[q] = pc[q] /\ next'[q] = next[q]
    BY <1>2 DEF Malformed, Save, SaveFails, JournalFails, Keep, TooLarge, SkipText, Finish,
                AgentText, End
  <2>2. \/ next'[r] = next[r] /\ (pc[r] \in {"item", "enqueue"} \/ pc'[r] = "ended")
        \/ next'[r] = next[r] + 1
    BY <1>2 DEF Malformed, Save, SaveFails, JournalFails, Keep, TooLarge, SkipText, Finish,
                AgentText, End, AtItem
  <2>3. \A k \in DOMAIN fifo : fifo[k] \in Paths /\ fifo[k][2] \in Nat
    BY DEF Paths
  <2>4. ASSUME NEW k \in DOMAIN fifo, NEW q \in Requests, fifo[k][1] = q
        PROVE  fifo[k][2] <= next'[q] /\ (pc'[q] \in {"item", "enqueue"} => fifo[k][2] < next'[q])
    <3>1. fifo[k][2] <= next[q] /\ (pc[q] \in {"item", "enqueue"} => fifo[k][2] < next[q])
      BY <2>4 DEF HandedOver
    <3>2. next[q] \in Nat /\ fifo[k][2] \in Nat
      BY <2>3
    <3> QED BY <2>1, <2>2, <3>1, <3>2
  <2>5. HandedOver'
    BY <2>1, <2>4 DEF HandedOver
  <2> QED BY <2>1, <2>5 DEF BatchOrder
<1>3. ASSUME NEW r \in Requests, EnqueueFile(r) \/ (AgentText(r) /\ ~OverTheCap(total'[r]))
      PROVE  HandedOver' /\ BatchOrder'
  <2>1. /\ fifo' = Append(fifo, <<r, next[r]>>) /\ pc[r] \in {"item", "enqueue"}
        /\ \A q \in Requests : q # r => pc'[q] = pc[q] /\ next'[q] = next[q]
        /\ \/ pc'[r] = "check" /\ next'[r] = next[r]
           \/ next'[r] = next[r] + 1
        /\ <<r, next[r]>> \in Paths
    BY <1>3 DEF EnqueueFile, AgentText, AtEnd, AtItem, Path, Paths
  <2>2. /\ DOMAIN fifo' = DOMAIN fifo \cup {Len(fifo) + 1}
        /\ Len(fifo) \in Nat /\ DOMAIN fifo = 1 .. Len(fifo)
        /\ fifo'[Len(fifo) + 1] = <<r, next[r]>>
        /\ \A k \in DOMAIN fifo : fifo'[k] = fifo[k]
    BY <2>1, AppendProperties
  <2>3. \A k \in DOMAIN fifo : fifo[k] \in Paths /\ fifo[k][2] \in Nat
    BY DEF Paths
  <2>4. \A k \in DOMAIN fifo : fifo[k][1] = r => fifo[k][2] < next[r]
    BY <2>1 DEF HandedOver
  <2>5. ASSUME NEW k \in DOMAIN fifo', NEW q \in Requests, fifo'[k][1] = q
        PROVE  fifo'[k][2] <= next'[q] /\ (pc'[q] \in {"item", "enqueue"} => fifo'[k][2] < next'[q])
    <3>1. CASE k \in DOMAIN fifo /\ q # r
      BY <2>1, <2>2, <2>5, <3>1 DEF HandedOver
    <3>2. CASE k \in DOMAIN fifo /\ q = r
      <4>1. fifo'[k][2] < next[r] /\ fifo'[k][2] \in Nat /\ next[r] \in Nat
        BY <2>2, <2>3, <2>4, <2>5, <3>2
      <4> QED BY <2>1, <3>2, <4>1
    <3>3. CASE k = Len(fifo) + 1
      <4>1. q = r /\ fifo'[k][2] = next[r] /\ next[r] \in Nat
        BY <2>2, <2>5, <3>3
      <4> QED BY <2>1, <4>1
    <3> QED BY <2>2, <3>1, <3>2, <3>3
  <2>6. ASSUME NEW j \in DOMAIN fifo', NEW k \in DOMAIN fifo', j < k, fifo'[j][1] = fifo'[k][1]
        PROVE  fifo'[j][2] < fifo'[k][2]
    <3>1. j \in DOMAIN fifo
      BY <2>2, <2>6
    <3>2. CASE k \in DOMAIN fifo
      BY <2>2, <2>6, <3>1, <3>2 DEF BatchOrder
    <3>3. CASE k = Len(fifo) + 1
      BY <2>2, <2>4, <2>6, <3>1, <3>3
    <3> QED BY <2>2, <3>2, <3>3
  <2> QED BY <2>5, <2>6 DEF HandedOver, BatchOrder
<1> QED BY <1>1, <1>2, <1>3 DEF Next, Finished

(* Every step keeps the committed path on disk. *)
LEMMA CommittedKept ==
    ASSUME IInv, [Next]_vars
    PROVE  Committed'
<1> USE DEF IInv, TypeOK, Shapes
<1>1. CASE UNCHANGED vars
  BY <1>1 DEF vars, Committed
<1>2. ASSUME NEW r \in Requests, lastPath' = lastPath,
             \/ Malformed(r) \/ Save(r) \/ SaveFails(r) \/ EnqueueFile(r) \/ JournalFails(r)
             \/ Keep(r) \/ TooLarge(r) \/ SkipText(r) \/ AgentText(r) \/ Finish(r)
      PROVE  Committed'
  <2>1. /\ pc[r] # "ended" /\ \A q \in Requests : q # r => pc'[q] = pc[q]
        /\ disk' \in {disk, disk \cup {Path(r)}, disk \ {Path(r)}}
    BY <1>2 DEF Malformed, Save, SaveFails, EnqueueFile, JournalFails, Keep, TooLarge,
                SkipText, AgentText, Finish, End, FileRemoved, AtItem
  <2>2. ASSUME lastPath # NoPath
        PROVE  lastPath \in disk' /\ \E q \in Requests : lastPath[1] = q /\ pc'[q] = "ended"
    <3>1. PICK q \in Requests : lastPath[1] = q /\ pc[q] = "ended" /\ lastPath \in disk
      BY <2>2 DEF Committed
    <3>2. q # r /\ lastPath # Path(r)
      BY <2>1, <3>1 DEF Path
    <3> QED BY <2>1, <3>1, <3>2
  <2> QED BY <1>2, <2>2 DEF Committed
<1>3. ASSUME NEW r \in Requests, Finish(r), saved[r] # <<>>, lastPath' = Last(saved[r])
      PROVE  Committed'
  <2>1. /\ pc[r] = "item" /\ pc'[r] = "ended" /\ disk' = disk
    BY <1>3 DEF Finish, End
  <2>2. Mine(r) = {saved[r][i] : i \in DOMAIN saved[r]}
    BY <2>1 DEF Books, SavedBefore
  <2>3. Len(saved[r]) \in DOMAIN saved[r]
    BY <1>3
  <2>4. Last(saved[r]) \in Mine(r)
    BY <2>2, <2>3 DEF Last
  <2> QED BY <1>3, <2>1, <2>4 DEF Committed, Mine
<1>4. ASSUME NEW r \in Requests,
             \/ Malformed(r) \/ Save(r) \/ SaveFails(r) \/ EnqueueFile(r) \/ JournalFails(r)
             \/ Keep(r) \/ TooLarge(r) \/ SkipText(r) \/ AgentText(r)
      PROVE  lastPath' = lastPath
  BY <1>4 DEF Malformed, Save, SaveFails, EnqueueFile, JournalFails, Keep, TooLarge,
              SkipText, AgentText, CommitLater
<1>5. ASSUME NEW r \in Requests, Finish(r)
      PROVE  lastPath' = lastPath \/ (saved[r] # <<>> /\ lastPath' = Last(saved[r]))
  BY <1>5 DEF Finish
<1> QED BY <1>1, <1>2, <1>3, <1>4, <1>5 DEF Next, Finished
------------------------------------------------------------------------------
(* IInv is an invariant of the specification. *)
LEMMA Invariance == Spec => []IInv
<1>1. IInv /\ [Next]_vars => IInv'
  BY TypesKept, BooksKept, OrderKept, CommittedKept DEF IInv
<1> QED BY InitEstablishes, <1>1, PTL DEF Spec

(* The variables have their types, and a request has a response once it ended
   (ingest.go:81-202). *)
THEOREM TypeCorrect == Spec => []TypeOK
<1>1. IInv => TypeOK
  BY DEF IInv
<1> QED BY Invariance, <1>1, PTL

(* The response tells what is on disk: answered ok, the items fit the cap and all
   their files are there, in order; refused at the cap, those before the item that
   tripped it (ingest.go:64-71, 112-118, 190-194). *)
THEOREM ResponsesAreTrue == Spec => []ResponseTellsDisk
<1>1. IInv => ResponseTellsDisk
  <2>1. ASSUME NEW r \in Requests, Told(r)
        PROVE  LET mine == {p \in disk : p[1] = r}
                   n    == Len(Items(r))
               IN  /\ result[r] = "ok" =>
                         /\ Counted(r, n) <= MaxBytes
                         /\ mine = FilesBefore(r, n + 1)
                         /\ mine = {saved[r][i] : i \in DOMAIN saved[r]}
                         /\ \A i, j \in DOMAIN saved[r] : i < j => saved[r][i][2] < saved[r][j][2]
                   /\ result[r] = "tooLarge" =>
                         /\ Counted(r, next[r]) > MaxBytes
                         /\ Counted(r, next[r] - 1) <= MaxBytes
                         /\ mine = FilesBefore(r, next[r])
    BY <2>1 DEF Told, Mine
  <2> QED BY <2>1 DEF IInv, Books, ResponseTellsDisk
<1> QED BY Invariance, <1>1, PTL

(* The last path of the clipboard channel names a file that is there: no file that
   the cap removes has been committed (ingest.go:112-118, 146). *)
THEOREM CommittedFilesExist == Spec => []LastPathExists
<1>1. IInv => LastPathExists
  BY DEF IInv, Committed, LastPathExists
<1> QED BY Invariance, <1>1, PTL

(* The items of a request keep their order in the inbox, and none is handed over
   twice, however the requests mix (ingest.go:166-202). *)
THEOREM BatchesKeepOrder == Spec => []BatchOrder
<1>1. IInv => BatchOrder
  BY DEF IInv
<1> QED BY Invariance, <1>1, PTL
=============================================================================
