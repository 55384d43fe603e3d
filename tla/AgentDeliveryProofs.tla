------------------------- MODULE AgentDeliveryProofs -------------------------
(***************************************************************************)
(* The safety of the two ways of an agent item, for any number of ingest   *)
(* processes, recv callers and items.  The inductive invariant has four    *)
(* parts beside the types: Names, about the names of records and who has   *)
(* them; Unsaved, about the items still to journal; Placed, about where    *)
(* each saved item is; and Ordered, about what a drainer still has to try. *)
(***************************************************************************)
EXTENDS AgentDelivery, SequenceLemmas, FiniteSetTheorems, TLAPS

(* The types, part by part. *)
FilesOK ==
    /\ IsFiniteSet(DOMAIN journal) /\ clock \in Nat
    /\ \A n \in DOMAIN journal : n \in Nat \X Nat /\ journal[n] \in Items
    /\ \A n \in DOMAIN taken : n \in Nat \X Nat /\ taken[n] \in Items

IngestsOK ==
    /\ left \in [Ingests -> Seq(Items)]
    /\ seqno \in [Ingests -> Nat]
    /\ drawn \in [Ingests -> (Nat \X Nat) \cup {NoName}]
    /\ \A p \in Ingests : drawn[p] # NoName => left[p] # <<>>

CallsOK ==
    /\ rpc \in [Callers -> RecvPCs]
    /\ got \in [Callers -> Items \cup {NoItem}]
    /\ \A c \in Callers : (got[c] # NoItem) <=> (rpc[c] \in {"remove", "print", "answered"})
    /\ listing \in [Callers -> Seq(Nat \X Nat)]
    /\ \A c \in Callers : rpc[c] \in {"claim", "read"} => listing[c] # <<>>
    /\ mine \in [Callers -> (Nat \X Nat) \cup {NoName}]
    /\ \A c \in Callers : rpc[c] \notin {"read", "remove"} => mine[c] = NoName

DaemonOK == up \in BOOLEAN /\ fifo \in Seq(Items) /\ (fifo # <<>> => up)

HistoryOK ==
    /\ accepted \subseteq Items /\ lost \subseteq Items
    /\ emitted \in [Items -> Nat]
    /\ claims \in Seq(Items) /\ older \subseteq Items \X Items

(* A name is drawn at the time on the clock, which moves on with each record
   written: only names that are still to be written can carry that time.  A
   record is under its name once, either journaled or claimed. *)
Names ==
    /\ \A n \in DOMAIN journal \cup DOMAIN taken : n[1] < clock
    /\ \A c \in Callers : \A k \in DOMAIN listing[c] : listing[c][k][1] < clock
    /\ \A p \in Ingests : drawn[p] # NoName => drawn[p][1] <= clock
    /\ ~collided =>
          /\ DOMAIN journal \cap DOMAIN taken = {}
          /\ \A p \in Ingests : drawn[p] \notin DOMAIN journal \cup DOMAIN taken
          /\ \A p, q \in Ingests : drawn[p] # NoName /\ drawn[p] = drawn[q] => p = q
          /\ \A c, d \in Callers : rpc[c] \in {"read", "remove"} =>
                mine[c] \in DOMAIN taken /\ (c # d => mine[c] # mine[d])

(* The items still to journal are new to the program, and each is there once. *)
Unsaved ==
    /\ \A p \in Ingests : \A k \in DOMAIN left[p] :
          left[p][k] \notin accepted /\ left[p][k] \notin Pushed
    /\ \A p, q \in Ingests : \A j \in DOMAIN left[p], k \in DOMAIN left[q] :
          left[p][j] = left[q][k] => p = q /\ j = k

(* The places an item can be in beside the history. *)
Journaled(i) == \E n \in DOMAIN journal : journal[n] = i
Queued(i) == \E k \in DOMAIN fifo : fifo[k] = i
Has(c, i) ==
    \/ rpc[c] = "read" /\ mine[c] \in DOMAIN taken /\ taken[mine[c]] = i
    \/ rpc[c] \in {"remove", "print", "answered"} /\ got[c] = i
Carried(i) == \E c \in Callers : Has(c, i)

(* Each place has an item once, no two places have the same, and what is saved is
   what is in one of them. *)
InOnePlace(i) ==
    /\ emitted[i] \in {0, 1}
    /\ Journaled(i) => ~Queued(i) /\ ~Carried(i) /\ emitted[i] = 0 /\ i \notin lost
    /\ Queued(i) => ~Carried(i) /\ emitted[i] = 0 /\ i \notin lost
    /\ Carried(i) => emitted[i] = 0 /\ i \notin lost
    /\ i \in lost => emitted[i] = 0
    /\ i \in accepted <=>
          Journaled(i) \/ Queued(i) \/ Carried(i) \/ emitted[i] = 1 \/ i \in lost

Placed ==
    /\ \A m, n \in DOMAIN journal : journal[m] = journal[n] => m = n
    /\ \A j, k \in DOMAIN fifo : fifo[j] = fifo[k] => j = k
    /\ \A i \in Items : \A c, d \in Callers : Has(c, i) /\ Has(d, i) => c = d
    /\ \A i \in Items : InOnePlace(i)

(* The names a drainer still has to try: those it listed, but for the one it has
   claimed and is about to read. *)
ToTry(c, n) ==
    \E k \in DOMAIN listing[c] : (rpc[c] = "read" => k # 1) /\ listing[c][k] = n

(* The name of an item: of its record, or drawn for it. *)
NameOf(n, i) ==
    \/ n \in DOMAIN journal /\ journal[n] = i
    \/ \E p \in Ingests : drawn[p] # NoName /\ drawn[p] = n /\ Head(left[p]) = i

(* Of two journaled items, one saved before the other was named, the first has the
   smaller name; a drainer that has the other still to try has the first one to try
   too, and before it.  So no claim overtakes an older record. *)
Ordered ==
    /\ \A n \in DOMAIN journal : journal[n] \in accepted
    /\ \A k \in DOMAIN claims : claims[k] \in accepted
    /\ \A a, b \in Items : <<a, b>> \in older => a \in accepted
    /\ \A c \in Callers : \A j, k \in DOMAIN listing[c] :
          j < k => SmallerName(listing[c][j], listing[c][k])
    /\ \A n \in DOMAIN journal : \A m \in Nat \X Nat, b \in Items :
          NameOf(m, b) /\ <<journal[n], b>> \in older =>
             n[1] < m[1] /\ \A c \in Callers : ToTry(c, m) => ToTry(c, n)
    /\ \A n \in DOMAIN journal : \A k \in DOMAIN claims : <<journal[n], claims[k]>> \notin older
    /\ ClaimedInOrder

(* The inductive invariant. *)
IInv ==
    /\ FilesOK /\ IngestsOK /\ CallsOK /\ DaemonOK /\ HistoryOK
    /\ Names
    /\ Unsaved
    /\ ~collided => Placed
    /\ Ordered
------------------------------------------------------------------------------
(* A set of names has a smallest one. *)
LEMMA LeastName ==
    ASSUME NEW S \in SUBSET (Nat \X Nat), S # {}
    PROVE  \E m \in S : \A n \in S : n = m \/ SmallerName(m, n)
<1>1. PICK t \in {n[1] : n \in S} : \A k \in {n[1] : n \in S} : t <= k
  BY LeastNatural, {n[1] : n \in S} \in SUBSET Nat, {n[1] : n \in S} # {}
<1> DEFINE T == {n \in S : n[1] = t}
<1>2. PICK q \in {n[2] : n \in T} : \A k \in {n[2] : n \in T} : q <= k
  <2>1. {n[2] : n \in T} \in SUBSET Nat /\ {n[2] : n \in T} # {}
    BY <1>1
  <2> QED BY <2>1, LeastNatural
<1>3. PICK m \in S : m[1] = t /\ m[2] = q
  BY <1>2
<1>4. ASSUME NEW n \in S PROVE n = m \/ SmallerName(m, n)
  <2>1. t <= n[1] /\ (n[1] = t => q <= n[2])
    BY <1>1, <1>2
  <2>2. n = <<n[1], n[2]>> /\ m = <<m[1], m[2]>> /\ n[1] \in Nat /\ n[2] \in Nat /\ t \in Nat /\ q \in Nat
    BY <1>3
  <2> QED BY <2>1, <2>2, <1>3 DEF SmallerName
<1> QED BY <1>4

(* s lists the names of S in order. *)
Sorts(s, S) ==
    /\ s \in [1 .. Cardinality(S) -> S]
    /\ \A i, j \in DOMAIN s : i < j => SmallerName(s[i], s[j])

(* There is a sorting of a finite set of names, ... *)
LEMMA SortingExists ==
    ASSUME NEW S \in SUBSET (Nat \X Nat), IsFiniteSet(S)
    PROVE  \E s : Sorts(s, S)
<1> DEFINE Bad == {n \in Nat : \E T \in SUBSET (Nat \X Nat) :
                        IsFiniteSet(T) /\ Cardinality(T) = n /\ ~ \E s : Sorts(s, T)}
<1> SUFFICES ASSUME Bad # {} PROVE FALSE
  BY FS_CardinalityType
<1>1. PICK n \in Bad : \A k \in Bad : n <= k
  <2>1. Bad \in SUBSET Nat
    OBVIOUS
  <2> HIDE DEF Bad
  <2> QED BY <2>1, LeastNatural
<1>2. PICK T \in SUBSET (Nat \X Nat) :
         IsFiniteSet(T) /\ Cardinality(T) = n /\ ~ \E s : Sorts(s, T)
  BY <1>1
<1>3. T # {}
  <2> SUFFICES ASSUME T = {} PROVE FALSE
    OBVIOUS
  <2>1. 1 .. Cardinality(T) = {}
    BY FS_EmptySet
  <2>2. Sorts([i \in {} |-> i], T)
    BY <2>1 DEF Sorts
  <2> QED BY <1>2, <2>2
<1>4. PICK m \in T : \A k \in T : k = m \/ SmallerName(m, k)
  BY <1>3, LeastName
<1> DEFINE U == T \ {m}
<1>5. IsFiniteSet(U) /\ Cardinality(U) = n - 1 /\ n \in Nat /\ n - 1 \in Nat
  <2>1. n \in Nat /\ n # 0
    BY <1>2, <1>3, FS_EmptySet
  <2>2. IsFiniteSet(U) /\ Cardinality(U) = n - 1
    BY <1>2, <1>4, FS_RemoveElement
  <2> QED BY <2>1, <2>2
<1>6. PICK t : Sorts(t, U)
  <2>1. n - 1 \notin Bad
    <3>1. ~ (n <= n - 1)
      BY <1>5
    <3> HIDE DEF Bad
    <3> QED BY <1>1, <3>1
  <2>2. U \in SUBSET (Nat \X Nat)
    OBVIOUS
  <2> HIDE DEF U
  <2> QED BY <2>1, <2>2, <1>5
<1> DEFINE s == [i \in 1 .. n |-> IF i = 1 THEN m ELSE t[i - 1]]
<1>7. \A i \in 1 .. n : i # 1 => i - 1 \in DOMAIN t /\ t[i - 1] \in U
  <2>1. t \in [1 .. (n - 1) -> U]
    BY <1>5, <1>6 DEF Sorts
  <2>2. \A i \in 1 .. n : i # 1 => i - 1 \in 1 .. (n - 1)
    BY <1>5
  <2> HIDE DEF U
  <2> QED BY <2>1, <2>2
<1>8. s \in [1 .. Cardinality(T) -> T]
  BY <1>2, <1>7
<1>9. ASSUME NEW i \in 1 .. n, NEW j \in 1 .. n, i < j
      PROVE  SmallerName(s[i], s[j])
  <2>1. j # 1 /\ s[j] = t[j - 1] /\ t[j - 1] \in U
    BY <1>7, <1>9
  <2>2. CASE i = 1
    BY <2>1, <2>2, <1>4
  <2>3. CASE i # 1
    <3>1. i - 1 \in DOMAIN t /\ j - 1 \in DOMAIN t /\ i - 1 < j - 1
      BY <1>7, <1>9, <2>1, <2>3
    <3>2. SmallerName(t[i - 1], t[j - 1])
      BY <1>6, <3>1 DEF Sorts
    <3> QED BY <2>1, <2>3, <3>2
  <2> QED BY <2>2, <2>3
<1>10. Sorts(s, T)
  BY <1>8, <1>9 DEF Sorts
<1> QED BY <1>2, <1>10

(* ... and it lists every name. *)
LEMMA SortingCovers ==
    ASSUME NEW S \in SUBSET (Nat \X Nat), IsFiniteSet(S), NEW s, Sorts(s, S)
    PROVE  s \in Seq(S) /\ \A n \in S : \E i \in DOMAIN s : s[i] = n
<1> DEFINE I == 1 .. Cardinality(S)
<1>1. Cardinality(S) \in Nat /\ s \in [I -> S] /\ DOMAIN s = I
  BY FS_CardinalityType DEF Sorts
<1>2. IsFiniteSet(I) /\ Cardinality(I) = Cardinality(S)
  BY <1>1, FS_Interval
<1>3. ASSUME NEW i \in I, NEW j \in I, s[i] = s[j] PROVE i = j
  <2>1. ~ SmallerName(s[i], s[i]) /\ ~ SmallerName(s[j], s[j])
    BY <1>1 DEF SmallerName
  <2>2. ~ (i < j) /\ ~ (j < i)
    BY <1>1, <1>3, <2>1 DEF Sorts
  <2> QED BY <1>1, <2>2
<1>4. s \in Injection(I, S)
  BY <1>1, <1>3 DEF Injection, IsInjective
<1>5. s \in Surjection(I, S)
  BY <1>2, <1>4, FS_Injection
<1>6. \A n \in S : \E i \in I : s[i] = n
  BY <1>5 DEF Surjection
<1>7. s \in Seq(S)
  BY <1>1
<1> QED BY <1>1, <1>6, <1>7

------------------------------------------------------------------------------
(* What a drainer lists: the names of the records, in order. *)
LEMMA ListedNames ==
    ASSUME DOMAIN journal \in SUBSET (Nat \X Nat), IsFiniteSet(DOMAIN journal)
    PROVE  /\ SortedNames \in Seq(DOMAIN journal)
           /\ \A n \in DOMAIN journal : \E k \in DOMAIN SortedNames : SortedNames[k] = n
           /\ \A j, k \in DOMAIN SortedNames :
                 j < k => SmallerName(SortedNames[j], SortedNames[k])
<1>1. \E s : Sorts(s, DOMAIN journal)
  BY SortingExists
<1>2. Sorts(SortedNames, DOMAIN journal)
  BY <1>1 DEF Sorts, SortedNames
<1>3. SortedNames \in Seq(DOMAIN journal)
      /\ \A n \in DOMAIN journal : \E k \in DOMAIN SortedNames : SortedNames[k] = n
  BY <1>2, SortingCovers
<1> QED BY <1>2, <1>3 DEF Sorts

(* What is left of a sequence behind its head. *)
LEMMA BehindHead ==
    ASSUME NEW S, NEW s \in Seq(S), s # <<>>
    PROVE  /\ Head(s) = s[1] /\ 1 \in DOMAIN s /\ Head(s) \in S
           /\ Tail(s) \in Seq(S)
           /\ \A k \in DOMAIN Tail(s) : k + 1 \in DOMAIN s /\ Tail(s)[k] = s[k + 1]
           /\ \A k \in DOMAIN s : k # 1 => k - 1 \in DOMAIN Tail(s) /\ Tail(s)[k - 1] = s[k]
<1>1. Len(s) \in Nat /\ Len(s) # 0 /\ DOMAIN s = 1 .. Len(s)
  BY EmptySeq
<1>2. /\ Head(s) \in S /\ Tail(s) \in Seq(S) /\ Len(Tail(s)) = Len(s) - 1
      /\ \A i \in 1 .. Len(Tail(s)) : Tail(s)[i] = s[i + 1]
  BY HeadTailProperties
<1>3. DOMAIN Tail(s) = 1 .. (Len(s) - 1)
  BY <1>1, <1>2
<1>4. Head(s) = s[1]
  OBVIOUS
<1> QED BY <1>1, <1>2, <1>3, <1>4

(* Nothing has been sent, and nobody has called. *)
LEMMA InitEstablishes == Init => IInv
<1> SUFFICES ASSUME Init PROVE IInv
  OBVIOUS
<1> USE DEF Init, JournalInit
<1>0. DOMAIN journal = {} /\ DOMAIN taken = {} /\ DOMAIN fifo = {} /\ DOMAIN claims = {}
      /\ \A c \in Callers : DOMAIN listing[c] = {}
  OBVIOUS
<1>1. FilesOK /\ IngestsOK /\ CallsOK
  BY <1>0, JournalAssumption, FS_EmptySet DEF FilesOK, IngestsOK, CallsOK, RecvPCs
<1>2. DaemonOK /\ HistoryOK
  BY DEF DaemonOK, HistoryOK
<1>3. Names
  BY <1>0 DEF Names
<1>4. Unsaved
  BY JournalAssumption, DeliveryAssumption DEF Unsaved
<1>5. Placed
  BY <1>0 DEF Placed, InOnePlace, Journaled, Queued, Carried, Has
<1>6. Ordered
  BY <1>0 DEF Ordered, ClaimedInOrder
<1> QED BY <1>1, <1>2, <1>3, <1>4, <1>5, <1>6 DEF IInv
------------------------------------------------------------------------------
(* Every step keeps the types. *)
LEMMA FilesKept ==
    ASSUME IInv, [Next]_vars
    PROVE  FilesOK'
<1> USE DEF IInv, FilesOK, IngestsOK, CallsOK
<1>1. CASE UNCHANGED dir
  BY <1>1 DEF dir
<1>2. ASSUME NEW p \in Ingests, Write(p)
      PROVE  FilesOK'
  <2>1. /\ Head(left[p]) \in Items /\ drawn[p] \in Nat \X Nat
        /\ taken' = taken /\ clock' = clock + 1
        /\ journal' = With(journal, drawn[p], Head(left[p]))
    BY <1>2, BehindHead DEF Write
  <2>2. /\ DOMAIN journal' = DOMAIN journal \cup {drawn[p]}
        /\ journal'[drawn[p]] = Head(left[p])
        /\ \A m \in DOMAIN journal : m # drawn[p] => journal'[m] = journal[m]
    BY <2>1 DEF With
  <2>4. IsFiniteSet(DOMAIN journal')
    <3>1. IsFiniteSet(DOMAIN journal \cup {drawn[p]})
      BY FS_AddElement
    <3> QED BY <2>2, <3>1
  <2>3. ASSUME NEW m \in DOMAIN journal'
        PROVE  m \in Nat \X Nat /\ journal'[m] \in Items
    BY <2>1, <2>2, m = drawn[p] \/ (m \in DOMAIN journal /\ m # drawn[p])
  <2> QED BY <2>1, <2>2, <2>3, <2>4
<1>3. ASSUME NEW c \in Callers, Claim(c)
      PROVE  FilesOK'
  <2>1. PICK n \in DOMAIN journal :
           clock' = clock /\ journal' = Without(journal, n) /\ taken' = With(taken, n, journal[n])
    BY <1>3 DEF Claim, Unlisted
  <2>2. /\ DOMAIN journal' = DOMAIN journal \ {n}
        /\ \A m \in DOMAIN journal : m # n => journal'[m] = journal[m]
    BY <2>1 DEF Without, Restrict
  <2>5. IsFiniteSet(DOMAIN journal')
    BY <2>2, FS_RemoveElement
  <2>3. /\ DOMAIN taken' = DOMAIN taken \cup {n}
        /\ taken'[n] = journal[n]
        /\ \A m \in DOMAIN taken : m # n => taken'[m] = taken[m]
    BY <2>1 DEF With
  <2>4. ASSUME NEW m \in DOMAIN taken'
        PROVE  m \in Nat \X Nat /\ taken'[m] \in Items
    BY <2>1, <2>3, m = n \/ (m \in DOMAIN taken /\ m # n)
  <2> QED BY <2>1, <2>2, <2>4, <2>5
<1>4. ASSUME NEW c \in Callers, Drop(c) \/ RemoveClaimed(c)
      PROVE  FilesOK'
  <2>1. clock' = clock /\ journal' = journal /\ taken' = Without(taken, mine[c])
    BY <1>4 DEF Drop, RemoveClaimed
  <2>2. /\ DOMAIN taken' = DOMAIN taken \ {mine[c]}
        /\ \A m \in DOMAIN taken : m # mine[c] => taken'[m] = taken[m]
    BY <2>1 DEF Without, Restrict
  <2> QED BY <2>1, <2>2
<1> QED BY <1>1, <1>2, <1>3, <1>4
     DEF Next, Ingest, Recv, Drain, Fault, Vanished, Unreadable, vars, journalVars, dir,
         Draw, Push, Dial, Serve, Deliver, PollEnds, List, LoseClaim, Read, Emit, Abort,
         Expire, Kill, HangUp, Stop, Start

(* The sends of a laptop keep their shape. *)
LEMMA IngestsKept ==
    ASSUME IInv, [Next]_vars
    PROVE  IngestsOK'
<1> USE DEF IInv, FilesOK, IngestsOK
<1>1. CASE UNCHANGED ingests
  BY <1>1 DEF ingests
<1>2. ASSUME NEW p \in Ingests, Draw(p)
      PROVE  IngestsOK'
  BY <1>2 DEF Draw
<1>3. ASSUME NEW p \in Ingests, Write(p)
      PROVE  IngestsOK'
  BY <1>3, BehindHead DEF Write
<1>4. ASSUME NEW p \in Ingests, Abort(p)
      PROVE  IngestsOK'
  BY <1>4 DEF Abort
<1> QED BY <1>1, <1>2, <1>3, <1>4
     DEF Next, Ingest, Recv, Drain, Fault, Vanished, Unreadable, vars, journalVars, ingests,
         Push, Dial, Serve, Deliver, PollEnds, List, Claim, LoseClaim, Read, Drop,
         RemoveClaimed, Emit, Expire, Kill, HangUp, Stop, Start

(* The recv calls keep their shape. *)
LEMMA CallsKept ==
    ASSUME IInv, [Next]_vars
    PROVE  CallsOK'
<1> USE DEF IInv, FilesOK, CallsOK, RecvPCs
<1>1. CASE UNCHANGED callers
  BY <1>1 DEF callers
<1>2. ASSUME NEW c \in Callers, Dial(c) \/ PollEnds(c) \/ Expire(c)
      PROVE  CallsOK'
  BY <1>2 DEF Dial, PollEnds, Expire, Fallback
<1>3. ASSUME NEW c \in Callers, Serve(c)
      PROVE  CallsOK'
  <2>1. Head(fifo) \in Items
    BY <1>3, BehindHead DEF Serve, DaemonOK
  <2> QED BY <1>3, <2>1, JournalAssumption DEF Serve
<1>4. ASSUME NEW c \in Callers, Deliver(c) \/ HangUp(c) \/ Emit(c)
      PROVE  CallsOK'
  BY <1>4 DEF Deliver, HangUp, Emit
<1>5. ASSUME NEW c \in Callers, List(c)
      PROVE  CallsOK'
  <2>1. SortedNames \in Seq(Nat \X Nat)
    <3>1. SortedNames \in Seq(DOMAIN journal)
      BY ListedNames
    <3> QED BY <3>1, SeqMonotonic, DOMAIN journal \subseteq Nat \X Nat
  <2> QED BY <1>5, <2>1 DEF List
<1>6. ASSUME NEW c \in Callers, Claim(c)
      PROVE  CallsOK'
  BY <1>6 DEF Claim
<1>7. ASSUME NEW c \in Callers, LoseClaim(c) \/ Drop(c)
      PROVE  CallsOK'
  <2>1. listing[c] \in Seq(Nat \X Nat) /\ listing[c] # <<>>
    BY <1>7 DEF LoseClaim, Drop
  <2>2. Tail(listing[c]) \in Seq(Nat \X Nat)
    BY <2>1, BehindHead
  <2>3. CASE LoseClaim(c)
    BY <2>2, <2>3 DEF LoseClaim, Following, Onward
  <2>4. CASE Drop(c)
    BY <2>2, <2>4 DEF Drop, Following, Onward
  <2> QED BY <1>7, <2>3, <2>4
<1>8. ASSUME NEW c \in Callers, Read(c)
      PROVE  CallsOK'
  <2>1. taken[mine[c]] \in Items /\ taken[mine[c]] # NoItem
    BY <1>8, JournalAssumption DEF Read
  <2> QED BY <1>8, <2>1 DEF Read
<1>9. ASSUME NEW c \in Callers, RemoveClaimed(c)
      PROVE  CallsOK'
  BY <1>9 DEF RemoveClaimed
<1>10. ASSUME NEW c \in Callers, Kill(c)
      PROVE  CallsOK'
  BY <1>10 DEF Kill
<1>11. CASE Stop
  BY <1>11 DEF Stop, Fallback
<1> QED BY <1>1, <1>2, <1>3, <1>4, <1>5, <1>6, <1>7, <1>8, <1>9, <1>10, <1>11
     DEF Next, Ingest, Recv, Drain, Fault, Vanished, Unreadable, vars, journalVars, callers,
         Draw, Write, Push, Abort, Start

(* The daemon has a queue while it is up. *)
LEMMA DaemonKept ==
    ASSUME IInv, [Next]_vars
    PROVE  DaemonOK'
<1> USE DEF IInv, DaemonOK
<1>1. CASE UNCHANGED <<up, fifo>>
  BY <1>1
<1>2. ASSUME NEW i \in Pushed, Push(i)
      PROVE  DaemonOK'
  <2>1. i \in Items
    BY DeliveryAssumption
  <2> QED BY <1>2, <2>1 DEF Push
<1>3. ASSUME NEW c \in Callers, Serve(c)
      PROVE  DaemonOK'
  BY <1>3, BehindHead DEF Serve
<1>4. CASE Stop
  <2>1. up' = FALSE /\ fifo' = <<>>
    BY <1>4 DEF Stop
  <2>2. fifo' \in Seq(Items)
    BY <2>1
  <2>3. up' \in BOOLEAN
    BY <2>1
  <2> QED BY <2>1, <2>2, <2>3
<1>5. CASE Start
  BY <1>5 DEF Start
<1> QED BY <1>1, <1>2, <1>3, <1>4, <1>5
     DEF Next, Recv, Fault, vars, Dial, Deliver, PollEnds, HangUp

(* What was accepted and handed over stays a set of items. *)
LEMMA HistoryKept ==
    ASSUME IInv, [Next]_vars
    PROVE  HistoryOK'
<1> USE DEF IInv, FilesOK, IngestsOK, CallsOK, DaemonOK, HistoryOK
<1>1. CASE UNCHANGED history
  BY <1>1 DEF history
<1>2. ASSUME NEW p \in Ingests, Draw(p) \/ Write(p)
      PROVE  HistoryOK'
  <2>1. Head(left[p]) \in Items
    BY <1>2, BehindHead DEF Draw, Write
  <2>2. CASE Draw(p)
    BY <2>1, <2>2 DEF Draw
  <2>3. CASE Write(p)
    BY <2>1, <2>3 DEF Write
  <2> QED BY <1>2, <2>2, <2>3
<1>3. ASSUME NEW i \in Pushed, Push(i)
      PROVE  HistoryOK'
  <2>1. i \in Items
    BY DeliveryAssumption
  <2> QED BY <1>3, <2>1 DEF Push
<1>4. ASSUME NEW c \in Callers, Deliver(c) \/ Emit(c)
      PROVE  HistoryOK'
  <2>1. got[c] \in Items
    BY <1>4 DEF Deliver, Emit
  <2>2. emitted' = [emitted EXCEPT ![got[c]] = @ + 1]
    BY <1>4 DEF Deliver, Emit
  <2>3. UNCHANGED <<accepted, lost, claims, older>>
    BY <1>4 DEF Deliver, Emit
  <2> QED BY <2>1, <2>2, <2>3
<1>5. ASSUME NEW c \in Callers, Claim(c)
      PROVE  HistoryOK'
  <2>1. journal[Head(listing[c])] \in Items
    BY <1>5 DEF Claim
  <2> QED BY <1>5, <2>1, SMTT(30) DEF Claim
<1>6. ASSUME NEW c \in Callers, Drop(c) \/ Kill(c) \/ HangUp(c)
      PROVE  HistoryOK'
  <2>1. (rpc[c] \in {"remove", "print", "answered"} => got[c] \in Items)
        /\ \A n \in {mine[c]} \cap DOMAIN taken : taken[n] \in Items
    BY DEF IInv
  <2>2. CASE Drop(c)
    BY <2>1, <2>2 DEF Drop
  <2>3. CASE Kill(c)
    <3>1. Holds(c) \subseteq Items
      BY <2>1 DEF Holds
    <3> QED BY <2>3, <3>1 DEF Kill
  <2>4. CASE HangUp(c)
    BY <2>1, <2>4 DEF HangUp
  <2> QED BY <1>6, <2>2, <2>3, <2>4
<1>7. CASE Stop
  <2>1. Range(fifo) \subseteq Items
    BY DEF Range
  <2>2. {got[c] : c \in Callers} \ {NoItem} \subseteq Items
    OBVIOUS
  <2> QED BY <1>7, <2>1, <2>2 DEF Stop
<1> QED BY <1>1, <1>2, <1>3, <1>4, <1>5, <1>6, <1>7
     DEF Next, Ingest, Recv, Drain, Fault, Vanished, Unreadable, vars, journalVars, history,
         Dial, Serve, PollEnds, List, LoseClaim, Read, RemoveClaimed, Abort, Expire, Start

------------------------------------------------------------------------------
(* Every step keeps what Names says. *)
LEMMA NamesKept ==
    ASSUME IInv, [Next]_vars
    PROVE  Names'
<1> USE DEF IInv, Names, IngestsOK, FilesOK, CallsOK, RecvPCs
<1>1. ASSUME UNCHANGED <<dir, listing, mine, drawn, collided>>,
             \A c \in Callers : rpc'[c] \in {"read", "remove"} => rpc[c] \in {"read", "remove"}
      PROVE  Names'
  BY <1>1 DEF dir
<1>2. ASSUME NEW p \in Ingests, Draw(p)
      PROVE  Names'
  <2> DEFINE name == <<clock, seqno[p] + 1>>
  <2>1. /\ UNCHANGED <<dir, callers>>
        /\ name \in Nat \X Nat /\ name # NoName /\ name[1] = clock
        /\ drawn' = [drawn EXCEPT ![p] = name] /\ drawn[p] = NoName
        /\ collided' = (collided \/ \E q \in Ingests : drawn[q] = name)
    BY <1>2, JournalAssumption DEF Draw
  <2> HIDE DEF name
  <2>2. name \notin DOMAIN journal \cup DOMAIN taken
    <3>1. ASSUME NEW n \in DOMAIN journal \cup DOMAIN taken PROVE n # name
      <4>1. n[1] \in Nat /\ n[1] < clock
        OBVIOUS
      <4> QED BY <2>1, <4>1
    <3> QED BY <3>1
  <2>3. \A q \in Ingests : drawn'[q] # NoName => drawn'[q][1] <= clock
    BY <2>1
  <2>4. ~collided' => ~collided /\ \A q \in Ingests : drawn[q] # name
    BY <2>1
  <2>5. ASSUME ~collided'
        PROVE  /\ \A q \in Ingests : drawn'[q] \notin DOMAIN journal \cup DOMAIN taken
               /\ \A q, r \in Ingests : drawn'[q] # NoName /\ drawn'[q] = drawn'[r] => q = r
    BY <2>1, <2>2, <2>4, <2>5
  <2> QED BY <2>1, <2>3, <2>4, <2>5 DEF dir, callers
<1>3. ASSUME NEW p \in Ingests, Write(p)
      PROVE  Names'
  <2>1. /\ drawn[p] # NoName /\ drawn[p] \in Nat \X Nat
        /\ journal' = With(journal, drawn[p], Head(left[p])) /\ taken' = taken
        /\ clock' = clock + 1 /\ drawn' = [drawn EXCEPT ![p] = NoName]
        /\ UNCHANGED <<callers, collided>>
    BY <1>3 DEF Write
  <2>2. DOMAIN journal' = DOMAIN journal \cup {drawn[p]}
    BY <2>1 DEF With
  <2>3. \A n \in DOMAIN journal' \cup DOMAIN taken' : n[1] < clock'
    <3>1. drawn[p][1] <= clock /\ drawn[p][1] \in Nat
      BY <2>1
    <3>2. \A n \in DOMAIN journal \cup DOMAIN taken : n[1] \in Nat /\ n[1] < clock
      OBVIOUS
    <3> QED BY <2>1, <2>2, <3>1, <3>2
  <2>4. \A c \in Callers : \A k \in DOMAIN listing'[c] : listing'[c][k][1] < clock'
    BY <2>1 DEF callers
  <2>5. \A q \in Ingests : drawn'[q] # NoName => drawn'[q][1] <= clock'
    BY <2>1
  <2>6. NoName \notin DOMAIN journal' \cup DOMAIN taken'
    BY <2>1, <2>2, JournalAssumption
  <2>7. ASSUME ~collided'
        PROVE  /\ DOMAIN journal' \cap DOMAIN taken' = {}
               /\ \A q \in Ingests : drawn'[q] \notin DOMAIN journal' \cup DOMAIN taken'
               /\ \A q, r \in Ingests : drawn'[q] # NoName /\ drawn'[q] = drawn'[r] => q = r
               /\ \A c, d \in Callers : rpc'[c] \in {"read", "remove"} =>
                     mine'[c] \in DOMAIN taken' /\ (c # d => mine'[c] # mine'[d])
    BY <2>1, <2>2, <2>6, <2>7 DEF callers
  <2> QED BY <2>3, <2>4, <2>5, <2>7
<1>4. ASSUME NEW p \in Ingests, Abort(p)
      PROVE  Names'
  <2>1. NoName \notin DOMAIN journal \cup DOMAIN taken
    BY JournalAssumption
  <2> QED BY <1>4, <2>1 DEF Abort, dir, callers, history
<1>5. ASSUME NEW c \in Callers, List(c)
      PROVE  Names'
  <2>1. SortedNames \in Seq(DOMAIN journal)
    BY ListedNames
  <2>2. UNCHANGED <<dir, ingests, mine, history>> /\ listing' = [listing EXCEPT ![c] = SortedNames]
        /\ \A d \in Callers : rpc'[d] \in {"read", "remove"} => rpc[d] \in {"read", "remove"}
    BY <1>5 DEF List
  <2>3. \A d \in Callers : \A k \in DOMAIN listing'[d] : listing'[d][k][1] < clock
    <3>1. \A k \in DOMAIN SortedNames : SortedNames[k] \in DOMAIN journal
      BY <2>1
    <3> QED BY <2>2, <3>1
  <2> QED BY <2>2, <2>3 DEF dir, ingests, history
<1>6. ASSUME NEW c \in Callers, Claim(c)
      PROVE  Names'
  <2>1. PICK n \in DOMAIN journal :
           /\ journal' = Without(journal, n) /\ taken' = With(taken, n, journal[n])
           /\ mine' = [mine EXCEPT ![c] = n] /\ rpc' = [rpc EXCEPT ![c] = "read"]
           /\ UNCHANGED <<clock, ingests, listing, collided>>
    BY <1>6 DEF Claim, Unlisted
  <2>2. DOMAIN journal' = DOMAIN journal \ {n} /\ DOMAIN taken' = DOMAIN taken \cup {n}
    BY <2>1 DEF Without, With, Restrict
  <2>3. ASSUME ~collided
        PROVE  \A d, e \in Callers : rpc'[d] \in {"read", "remove"} =>
                  mine'[d] \in DOMAIN taken' /\ (d # e => mine'[d] # mine'[e])
    <3>1. n \notin DOMAIN taken /\ n # NoName
      BY <2>1, <2>3, JournalAssumption
    <3>2. \A d \in Callers : mine[d] # n
      BY <2>3, <3>1
    <3> QED BY <2>1, <2>2, <2>3, <3>2
  <2> QED BY <2>1, <2>2, <2>3 DEF ingests
<1>7. ASSUME NEW c \in Callers, LoseClaim(c) \/ Read(c)
      PROVE  Names'
  <2>1. /\ UNCHANGED <<dir, ingests, mine, history>>
        /\ \A d \in Callers : rpc'[d] \in {"read", "remove"} => rpc[d] \in {"read", "remove"}
        /\ rpc[c] \in {"claim", "read"}
    BY <1>7 DEF LoseClaim, Read, Onward
  <2>2. \A d \in Callers : \A k \in DOMAIN listing'[d] : listing'[d][k][1] < clock
    <3>1. \A k \in DOMAIN Tail(listing[c]) : Tail(listing[c])[k][1] < clock
      BY <2>1, BehindHead
    <3>2. CASE LoseClaim(c)
      BY <3>1, <3>2 DEF LoseClaim, Following
    <3>3. CASE Read(c)
      BY <3>3 DEF Read
    <3> QED BY <1>7, <3>2, <3>3
  <2> QED BY <2>1, <2>2 DEF dir, ingests, history
<1>8. ASSUME NEW c \in Callers, Drop(c)
      PROVE  Names'
  <2>1. /\ UNCHANGED <<journal, clock, ingests, collided>> /\ taken' = Without(taken, mine[c])
        /\ mine' = [mine EXCEPT ![c] = NoName] /\ rpc[c] = "read"
        /\ listing' = [listing EXCEPT ![c] = Tail(@)]
        /\ \A d \in Callers : rpc'[d] \in {"read", "remove"} => d # c /\ rpc[d] \in {"read", "remove"}
    BY <1>8 DEF Drop, Onward, Following
  <2>2. DOMAIN taken' = DOMAIN taken \ {mine[c]}
    BY <2>1 DEF Without, Restrict
  <2>3. \A d \in Callers : \A k \in DOMAIN listing'[d] : listing'[d][k][1] < clock
    <3>1. \A k \in DOMAIN Tail(listing[c]) : Tail(listing[c])[k][1] < clock
      BY <2>1, BehindHead
    <3> QED BY <2>1, <3>1
  <2>4. ASSUME ~collided
        PROVE  \A d, e \in Callers : rpc'[d] \in {"read", "remove"} =>
                  mine'[d] \in DOMAIN taken' /\ (d # e => mine'[d] # mine'[e])
    BY <2>1, <2>2, <2>4, JournalAssumption
  <2> QED BY <2>1, <2>2, <2>3, <2>4 DEF ingests
<1>9. ASSUME NEW c \in Callers, RemoveClaimed(c)
      PROVE  Names'
  <2>1. /\ UNCHANGED <<journal, clock, ingests, listing, collided>>
        /\ taken' = Without(taken, mine[c])
        /\ mine' = [mine EXCEPT ![c] = NoName] /\ rpc[c] = "remove"
        /\ \A d \in Callers : rpc'[d] \in {"read", "remove"} => d # c /\ rpc[d] \in {"read", "remove"}
    BY <1>9 DEF RemoveClaimed, history
  <2>2. DOMAIN taken' = DOMAIN taken \ {mine[c]}
    BY <2>1 DEF Without, Restrict
  <2>4. ASSUME ~collided
        PROVE  \A d, e \in Callers : rpc'[d] \in {"read", "remove"} =>
                  mine'[d] \in DOMAIN taken' /\ (d # e => mine'[d] # mine'[e])
    BY <2>1, <2>2, <2>4, JournalAssumption
  <2> QED BY <2>1, <2>2, <2>4 DEF ingests
<1>10. ASSUME NEW c \in Callers, Kill(c)
      PROVE  Names'
  BY <1>10, JournalAssumption DEF Kill, dir, ingests
<1>11. CASE UNCHANGED vars
  BY <1>1, <1>11 DEF vars, journalVars, dir, ingests, callers, history
<1>12. CASE Start \/ Stop \/ \E i \in Pushed : Push(i)
  BY <1>1, <1>12 DEF Start, Stop, Push, Fallback, journalVars, dir, ingests, callers, history
<1>13. ASSUME NEW c \in Callers,
              \/ Dial(c) \/ Serve(c) \/ Deliver(c) \/ PollEnds(c) \/ Emit(c) \/ HangUp(c)
              \/ Expire(c)
       PROVE  Names'
  BY <1>1, <1>13 DEF Dial, Fallback, Serve, Deliver, PollEnds, Emit, HangUp, Expire,
                     dir, ingests, callers, history
<1> QED BY <1>2, <1>3, <1>4, <1>5, <1>6, <1>7, <1>8, <1>9, <1>10, <1>11, <1>12, <1>13
     DEF Next, Ingest, Recv, Drain, Fault, Vanished, Unreadable

(* Every step keeps what Unsaved says. *)
LEMMA UnsavedKept ==
    ASSUME IInv, [Next]_vars
    PROVE  Unsaved'
<1> USE DEF IInv, Unsaved, IngestsOK
<1>1. CASE UNCHANGED <<left, accepted>>
  BY <1>1
<1>2. ASSUME NEW p \in Ingests, Write(p)
      PROVE  Unsaved'
  <2>1. /\ left[p] \in Seq(Items) /\ left[p] # <<>>
        /\ left' = [left EXCEPT ![p] = Tail(@)]
        /\ accepted' = accepted \cup {Head(left[p])}
    BY <1>2 DEF Write
  <2>2. /\ Head(left[p]) = left[p][1] /\ 1 \in DOMAIN left[p] /\ Tail(left[p]) \in Seq(Items)
        /\ \A k \in DOMAIN Tail(left[p]) :
              k + 1 \in DOMAIN left[p] /\ Tail(left[p])[k] = left[p][k + 1]
    BY <2>1, BehindHead
  <2>3. \A k \in DOMAIN Tail(left[p]) : k \in Nat /\ k + 1 # 1 /\ k \in Int
    BY <2>2
  <2>4. ASSUME NEW q \in Ingests, NEW k \in DOMAIN left'[q]
        PROVE  \E m \in DOMAIN left[q] : left'[q][k] = left[q][m] /\ (q = p => m = k + 1 /\ m # 1)
                  /\ (q # p => m = k)
    BY <2>1, <2>2, <2>3
  <2>5. ASSUME NEW q \in Ingests, NEW k \in DOMAIN left'[q]
        PROVE  left'[q][k] \notin accepted' /\ left'[q][k] \notin Pushed
    BY <2>1, <2>2, <2>4
  <2>6. ASSUME NEW q \in Ingests, NEW r \in Ingests, NEW j \in DOMAIN left'[q],
               NEW k \in DOMAIN left'[r], left'[q][j] = left'[r][k]
        PROVE  q = r /\ j = k
    <3>1. PICK m \in DOMAIN left[q] : left'[q][j] = left[q][m] /\ (q = p => m = j + 1)
                                       /\ (q # p => m = j)
      BY <2>4
    <3>2. PICK n \in DOMAIN left[r] : left'[r][k] = left[r][n] /\ (r = p => n = k + 1)
                                       /\ (r # p => n = k)
      BY <2>4
    <3>3. q = r /\ m = n
      <4>1. left[q][m] = left[r][n]
        BY <2>6, <3>1, <3>2
      <4> QED BY <4>1
    <3>4. CASE q = p
      <4>1. j \in Nat /\ k \in Nat
        BY <2>1, <2>3, <3>3, <3>4
      <4> QED BY <3>1, <3>2, <3>3, <3>4, <4>1
    <3> QED BY <3>1, <3>2, <3>3, <3>4
  <2> QED BY <2>5, <2>6
<1>3. ASSUME NEW i \in Pushed, Push(i)
      PROVE  Unsaved'
  BY <1>3 DEF Push, ingests
<1>4. ASSUME NEW p \in Ingests, Abort(p)
      PROVE  Unsaved'
  BY <1>4 DEF Abort, history
<1> QED BY <1>1, <1>2, <1>3, <1>4
     DEF Next, Ingest, Recv, Drain, Fault, Vanished, Unreadable, vars, journalVars, ingests,
         history, Draw, Dial, Serve, Deliver, PollEnds, List, Claim, LoseClaim, Read, Drop,
         RemoveClaimed, Emit, Expire, Kill, HangUp, Stop, Start

------------------------------------------------------------------------------
(* What a step that claims nothing may do to the names c has still to try: they
   are all the records, or none, or those from before that still have a record. *)
Retries(c) ==
    \/ \A n \in DOMAIN journal : ToTry(c, n)'
    \/ \A n \in Nat \X Nat : ~ToTry(c, n)'
    \/ /\ \A n \in Nat \X Nat : ToTry(c, n)' => ToTry(c, n)
       /\ \A n \in DOMAIN journal : ToTry(c, n) => ToTry(c, n)'

(* A step that leaves the journal alone, gives nothing a new name, and drops names from
   a listing at most, puts nothing out of order. *)
LEMMA OrderedStays ==
    ASSUME IInv, UNCHANGED <<journal, older, claims>>, accepted \subseteq accepted',
           \A m \in Nat \X Nat, b \in Items : NameOf(m, b)' => NameOf(m, b),
           \A c \in Callers :
              /\ Retries(c)
              /\ \A j, k \in DOMAIN listing'[c] :
                    j < k => SmallerName(listing'[c][j], listing'[c][k])
    PROVE  Ordered'
<1>1. /\ \A n \in DOMAIN journal' : journal'[n] \in accepted'
      /\ \A k \in DOMAIN claims' : claims'[k] \in accepted'
      /\ \A a, b \in Items : <<a, b>> \in older' => a \in accepted'
      /\ \A n \in DOMAIN journal' : \A k \in DOMAIN claims' :
            <<journal'[n], claims'[k]>> \notin older'
      /\ ClaimedInOrder'
  BY DEF IInv, Ordered, ClaimedInOrder
<1>2. ASSUME NEW n \in DOMAIN journal, NEW m \in Nat \X Nat, NEW b \in Items,
             NameOf(m, b)', <<journal[n], b>> \in older
      PROVE  n[1] < m[1] /\ \A c \in Callers : ToTry(c, m)' => ToTry(c, n)'
  <2>1. NameOf(m, b)
    BY <1>2
  <2>2. n[1] < m[1] /\ \A c \in Callers : ToTry(c, m) => ToTry(c, n)
    BY <1>2, <2>1 DEF IInv, Ordered
  <2>3. ASSUME NEW c \in Callers, ToTry(c, m)'
        PROVE  ToTry(c, n)'
    BY <2>2, <2>3 DEF Retries
  <2> QED BY <2>2, <2>3
<1>3. \A n \in DOMAIN journal' : \A m \in Nat \X Nat, b \in Items :
         NameOf(m, b)' /\ <<journal'[n], b>> \in older' =>
            n[1] < m[1] /\ \A c \in Callers : ToTry(c, m)' => ToTry(c, n)'
  BY <1>2
<1>4. \A c \in Callers : \A j, k \in DOMAIN listing'[c] :
         j < k => SmallerName(listing'[c][j], listing'[c][k])
  OBVIOUS
<1> QED BY <1>1, <1>3, <1>4 DEF Ordered

(* The item at the head of an ingest process is not saved, and no other process
   has it. *)
LEMMA HeadIsNew ==
    ASSUME IInv, NEW p \in Ingests, left[p] # <<>>
    PROVE  /\ Head(left[p]) \in Items /\ Head(left[p]) \notin accepted
           /\ \A q \in Ingests : left[q] # <<>> /\ Head(left[q]) = Head(left[p]) => q = p
<1>1. \A q \in Ingests : left[q] # <<>> =>
         Head(left[q]) \in Items /\ 1 \in DOMAIN left[q] /\ Head(left[q]) = left[q][1]
  BY BehindHead DEF IInv, IngestsOK
<1> QED BY <1>1 DEF IInv, Unsaved

(* Every step keeps what Ordered says. *)
LEMMA OrderedKept ==
    ASSUME IInv, [Next]_vars
    PROVE  Ordered'
<1> USE DEF IInv, Ordered, FilesOK, IngestsOK, CallsOK, HistoryOK
<1>1. ASSUME UNCHANGED <<journal, older, claims, left, drawn, listing>>,
             accepted \subseteq accepted',
             \A c \in Callers : rpc'[c] = "read" <=> rpc[c] = "read"
      PROVE  Ordered'
  <2>1. \A c \in Callers : Retries(c)
    BY <1>1 DEF Retries, ToTry
  <2>2. \A m \in Nat \X Nat, b \in Items : NameOf(m, b)' => NameOf(m, b)
    BY <1>1 DEF NameOf
  <2> QED BY <1>1, <2>1, <2>2, OrderedStays
<1>2. ASSUME NEW p \in Ingests, Draw(p)
      PROVE  Ordered'
  <2> DEFINE name == <<clock, seqno[p] + 1>>
             h == Head(left[p])
  <2>1. /\ UNCHANGED <<dir, left, callers, accepted, claims>>
        /\ name \in Nat \X Nat /\ name # NoName /\ name[1] = clock
        /\ drawn' = [drawn EXCEPT ![p] = name] /\ drawn[p] = NoName /\ left[p] # <<>>
        /\ older' = older \cup (accepted \X {h})
    BY <1>2, JournalAssumption DEF Draw
  <2>2. /\ h \in Items /\ h \notin accepted
        /\ \A q \in Ingests : left[q] # <<>> /\ Head(left[q]) = h => q = p
    BY <2>1, HeadIsNew
  <2> HIDE DEF name, h
  <2>3. ASSUME NEW n \in DOMAIN journal, NEW m \in Nat \X Nat, NEW b \in Items,
               NameOf(m, b)', <<journal[n], b>> \in older'
        PROVE  n[1] < m[1] /\ \A c \in Callers : ToTry(c, m)' => ToTry(c, n)'
    <3>1. CASE m = name
      <4>1. n[1] < m[1]
        BY <2>1, <3>1 DEF Names
      <4>2. \A c \in Callers : ~ToTry(c, m)'
        <5>1. ASSUME NEW c \in Callers, NEW k \in DOMAIN listing[c] PROVE listing[c][k] # m
          <6>1. listing[c][k][1] < clock /\ listing[c][k][1] \in Nat /\ clock \in Nat
            BY DEF Names
          <6> QED BY <2>1, <3>1, <6>1
        <5> QED BY <2>1, <5>1 DEF ToTry, callers
      <4> QED BY <4>1, <4>2
    <3>2. CASE m # name
      <4>1. NameOf(m, b)
        BY <2>1, <2>3, <3>2 DEF NameOf, dir
      <4>2. b # h
        BY <2>1, <2>2, <4>1 DEF NameOf
      <4>3. <<journal[n], b>> \in older
        BY <2>1, <2>3, <4>2
      <4>4. n[1] < m[1] /\ \A c \in Callers : ToTry(c, m) => ToTry(c, n)
        BY <4>1, <4>3
      <4> QED BY <2>1, <4>4 DEF ToTry, callers
    <3> QED BY <3>1, <3>2
  <2>4. \A k \in DOMAIN claims : claims[k] # h
    BY <2>2
  <2>5. \A n \in DOMAIN journal : \A k \in DOMAIN claims : <<journal[n], claims[k]>> \notin older'
    BY <2>1, <2>4
  <2>6. ClaimedInOrder'
    BY <2>1, <2>4 DEF ClaimedInOrder
  <2>7. \A a, b \in Items : <<a, b>> \in older' => a \in accepted
    BY <2>1
  <2> QED BY <2>1, <2>3, <2>5, <2>6, <2>7 DEF dir, callers
<1>3. ASSUME NEW p \in Ingests, Write(p)
      PROVE  Ordered'
  <2> DEFINE h == Head(left[p])
  <2>1. /\ drawn[p] # NoName /\ drawn[p] \in Nat \X Nat /\ left[p] # <<>>
        /\ journal' = With(journal, drawn[p], h)
        /\ drawn' = [drawn EXCEPT ![p] = NoName] /\ left' = [left EXCEPT ![p] = Tail(@)]
        /\ accepted' = accepted \cup {h}
        /\ UNCHANGED <<callers, claims, older>>
    BY <1>3 DEF Write
  <2>2. h \in Items /\ h \notin accepted
    BY <2>1, HeadIsNew
  <2>3. NameOf(drawn[p], h)
    BY <2>1 DEF NameOf
  <2> HIDE DEF h
  <2>4. /\ DOMAIN journal' = DOMAIN journal \cup {drawn[p]} /\ journal'[drawn[p]] = h
        /\ \A m \in DOMAIN journal : m # drawn[p] => journal'[m] = journal[m]
    BY <2>1 DEF With
  <2>5. \A b \in Items : <<h, b>> \notin older
    BY <2>2
  <2>6. ASSUME NEW m \in Nat \X Nat, NEW b \in Items, NameOf(m, b)'
        PROVE  NameOf(m, b)
    <3>1. CASE m \in DOMAIN journal' /\ journal'[m] = b
      BY <2>3, <2>4, <3>1 DEF NameOf
    <3>2. CASE \E q \in Ingests : drawn'[q] # NoName /\ drawn'[q] = m /\ Head(left'[q]) = b
      BY <2>1, <3>2 DEF NameOf
    <3> QED BY <2>6, <3>1, <3>2 DEF NameOf
  <2>7. ASSUME NEW n \in DOMAIN journal', NEW b \in Items, <<journal'[n], b>> \in older
        PROVE  n \in DOMAIN journal /\ journal'[n] = journal[n]
    BY <2>4, <2>5, <2>7
  <2>8. ASSUME NEW n \in DOMAIN journal', NEW m \in Nat \X Nat, NEW b \in Items,
               NameOf(m, b)', <<journal'[n], b>> \in older
        PROVE  n[1] < m[1] /\ \A c \in Callers : ToTry(c, m)' => ToTry(c, n)'
    <3>1. n \in DOMAIN journal /\ <<journal[n], b>> \in older /\ NameOf(m, b)
      BY <2>6, <2>7, <2>8
    <3>2. n[1] < m[1] /\ \A c \in Callers : ToTry(c, m) => ToTry(c, n)
      BY <3>1
    <3> QED BY <2>1, <3>2 DEF ToTry, callers
  <2>9. \A n \in DOMAIN journal' : \A k \in DOMAIN claims : <<journal'[n], claims[k]>> \notin older
    <3>1. \A k \in DOMAIN claims : claims[k] \in Items
      OBVIOUS
    <3> QED BY <2>7, <3>1
  <2>10. \A n \in DOMAIN journal' : journal'[n] \in accepted'
    BY <2>1, <2>4
  <2>11. ClaimedInOrder'
    BY <2>1 DEF ClaimedInOrder
  <2> QED BY <2>1, <2>8, <2>9, <2>10, <2>11 DEF callers
<1>4. ASSUME NEW p \in Ingests, Abort(p)
      PROVE  Ordered'
  <2>1. \A c \in Callers : Retries(c)
    BY <1>4 DEF Abort, Retries, ToTry, callers
  <2>2. \A m \in Nat \X Nat, b \in Items : NameOf(m, b)' => NameOf(m, b)
    BY <1>4 DEF Abort, NameOf, dir
  <2> QED BY <1>4, <2>1, <2>2, OrderedStays DEF Abort, dir, callers, history
<1>5. ASSUME NEW c \in Callers, List(c)
      PROVE  Ordered'
  <2>1. /\ SortedNames \in Seq(DOMAIN journal)
        /\ \A n \in DOMAIN journal : \E k \in DOMAIN SortedNames : SortedNames[k] = n
        /\ \A j, k \in DOMAIN SortedNames :
              j < k => SmallerName(SortedNames[j], SortedNames[k])
    BY ListedNames
  <2>2. /\ UNCHANGED <<dir, ingests, mine, history>>
        /\ listing' = [listing EXCEPT ![c] = SortedNames]
        /\ rpc[c] # "read" /\ rpc'[c] # "read"
        /\ \A d \in Callers : d # c => rpc'[d] = rpc[d]
    BY <1>5 DEF List
  <2>3. ASSUME NEW d \in Callers
        PROVE  Retries(d)
    <3>1. CASE d = c
      <4>1. \A n \in DOMAIN journal : ToTry(c, n)'
        BY <2>1, <2>2 DEF ToTry
      <4> QED BY <3>1, <4>1 DEF Retries
    <3>2. CASE d # c
      BY <2>2, <3>2 DEF Retries, ToTry
    <3> QED BY <3>1, <3>2
  <2>4. \A m \in Nat \X Nat, b \in Items : NameOf(m, b)' => NameOf(m, b)
    BY <2>2 DEF NameOf, dir, ingests
  <2>5. \A d \in Callers : \A j, k \in DOMAIN listing'[d] :
           j < k => SmallerName(listing'[d][j], listing'[d][k])
    BY <2>1, <2>2
  <2> QED BY <2>2, <2>3, <2>4, <2>5, OrderedStays DEF dir, history
<1>6. ASSUME NEW c \in Callers, Claim(c)
      PROVE  Ordered'
  <2>1. PICK n : /\ n = Head(listing[c]) /\ n \in DOMAIN journal
                 /\ journal' = Without(journal, n) /\ claims' = Append(claims, journal[n])
                 /\ rpc[c] = "claim" /\ rpc' = [rpc EXCEPT ![c] = "read"]
                 /\ UNCHANGED <<ingests, listing, older, accepted>>
    BY <1>6 DEF Claim, Unlisted
  <2>2. /\ DOMAIN journal' = DOMAIN journal \ {n}
        /\ \A m \in DOMAIN journal : m # n => journal'[m] = journal[m]
    BY <2>1 DEF Without, Restrict
  <2>3. /\ listing[c] \in Seq(Nat \X Nat) /\ listing[c] # <<>>
        /\ 1 \in DOMAIN listing[c] /\ listing[c][1] = n
    BY <2>1, BehindHead
  <2>4. n \in Nat \X Nat /\ journal[n] \in Items /\ journal[n] \in accepted
        /\ NameOf(n, journal[n]) /\ ToTry(c, n)
    BY <2>1, <2>3 DEF NameOf, ToTry
  <2>5. ASSUME NEW m \in DOMAIN journal, m # n
        PROVE  <<journal[m], journal[n]>> \notin older
    <3> SUFFICES ASSUME <<journal[m], journal[n]>> \in older PROVE FALSE
      OBVIOUS
    <3>1. m[1] < n[1] /\ ToTry(c, m)
      BY <2>4
    <3>2. PICK k \in DOMAIN listing[c] : listing[c][k] = m
      BY <3>1 DEF ToTry
    <3>3. 1 < k
      BY <2>3, <2>5, <3>2
    <3>4. SmallerName(n, m)
      BY <2>3, <3>2, <3>3
    <3>5. n[1] \in Nat /\ m[1] \in Nat
      BY <2>4
    <3> QED BY <3>1, <3>4, <3>5 DEF SmallerName
  <2>6. /\ DOMAIN claims' = DOMAIN claims \cup {Len(claims) + 1}
        /\ Len(claims) \in Nat /\ DOMAIN claims = 1 .. Len(claims)
        /\ claims'[Len(claims) + 1] = journal[n]
        /\ \A k \in DOMAIN claims : claims'[k] = claims[k]
    BY <2>1, <2>4, AppendProperties, SMTT(30)
  <2>7. \A m \in DOMAIN journal' : \A k \in DOMAIN claims' :
           <<journal'[m], claims'[k]>> \notin older'
    BY <2>1, <2>2, <2>5, <2>6
  <2>8. ClaimedInOrder'
    <3>1. ASSUME NEW j \in DOMAIN claims', NEW k \in DOMAIN claims', j < k
          PROVE  <<claims'[k], claims'[j]>> \notin older
      <4>1. j \in DOMAIN claims
        BY <2>6, <3>1
      <4>2. CASE k \in DOMAIN claims
        BY <2>6, <3>1, <4>1, <4>2 DEF ClaimedInOrder
      <4>3. CASE k = Len(claims) + 1
        BY <2>1, <2>6, <4>1, <4>3
      <4> QED BY <2>6, <4>2, <4>3
    <3> QED BY <2>1, <3>1 DEF ClaimedInOrder
  <2>9. ASSUME NEW l \in DOMAIN journal', NEW m \in Nat \X Nat, NEW b \in Items,
               NameOf(m, b)', <<journal'[l], b>> \in older
        PROVE  l[1] < m[1] /\ \A d \in Callers : ToTry(d, m)' => ToTry(d, l)'
    <3>1. NameOf(m, b)
      BY <2>1, <2>2, <2>9 DEF NameOf, ingests
    <3>2. l \in DOMAIN journal /\ l # n /\ <<journal[l], b>> \in older
      BY <2>2, <2>9
    <3>3. l[1] < m[1] /\ \A d \in Callers : ToTry(d, m) => ToTry(d, l)
      BY <3>1, <3>2
    <3>4. \A d \in Callers : ToTry(d, m)' => ToTry(d, m)
      BY <2>1 DEF ToTry
    <3>5. \A d \in Callers : ToTry(d, l) => ToTry(d, l)'
      BY <2>1, <2>3, <3>2 DEF ToTry
    <3> QED BY <3>3, <3>4, <3>5
  <2>10. \A m \in DOMAIN journal' : journal'[m] \in accepted'
    BY <2>1, <2>2
  <2>11. \A k \in DOMAIN claims' : claims'[k] \in accepted'
    BY <2>1, <2>4, <2>6
  <2> QED BY <2>1, <2>7, <2>8, <2>9, <2>10, <2>11
<1>7. ASSUME NEW c \in Callers, LoseClaim(c) \/ Drop(c)
      PROVE  Ordered'
  <2>1. /\ UNCHANGED <<journal, ingests, accepted, claims, older>>
        /\ listing' = [listing EXCEPT ![c] = Tail(@)]
        /\ rpc[c] = "read" \/ (rpc[c] = "claim" /\ Head(listing[c]) \notin DOMAIN journal)
        /\ rpc'[c] # "read" /\ \A d \in Callers : d # c => rpc'[d] = rpc[d]
    BY <1>7 DEF LoseClaim, Drop, Onward, Following, dir, history
  <2>2. /\ listing[c] \in Seq(Nat \X Nat) /\ listing[c] # <<>>
        /\ Head(listing[c]) = listing[c][1] /\ Tail(listing[c]) \in Seq(Nat \X Nat)
        /\ \A k \in DOMAIN Tail(listing[c]) :
              k + 1 \in DOMAIN listing[c] /\ Tail(listing[c])[k] = listing[c][k + 1]
        /\ \A k \in DOMAIN listing[c] :
              k # 1 => k - 1 \in DOMAIN Tail(listing[c]) /\ Tail(listing[c])[k - 1] = listing[c][k]
    BY <2>1, BehindHead
  <2>3. \A k \in DOMAIN Tail(listing[c]) : k \in Nat /\ k + 1 # 1
    BY <2>2, SMTT(30)
  <2>4. \A j, k \in DOMAIN Tail(listing[c]) :
           j < k => SmallerName(Tail(listing[c])[j], Tail(listing[c])[k])
    BY <2>2, <2>3
  <2>5. ASSUME NEW n \in Nat \X Nat, ToTry(c, n)'
        PROVE  ToTry(c, n)
    BY <2>1, <2>2, <2>3, <2>5 DEF ToTry
  <2>6. ASSUME NEW n \in DOMAIN journal, ToTry(c, n)
        PROVE  ToTry(c, n)'
    <3>1. PICK k \in DOMAIN listing[c] : (rpc[c] = "read" => k # 1) /\ listing[c][k] = n
      BY <2>6 DEF ToTry
    <3>2. k # 1
      BY <2>1, <2>2, <3>1
    <3> QED BY <2>1, <2>2, <3>1, <3>2 DEF ToTry
  <2>7. \A d \in Callers : d # c => Retries(d)
    BY <2>1, SMTT(30) DEF Retries, ToTry
  <2>8. Retries(c)
    BY <2>5, <2>6 DEF Retries
  <2>9. \A m \in Nat \X Nat, b \in Items : NameOf(m, b)' => NameOf(m, b)
    BY <2>1 DEF NameOf, ingests
  <2>10. \A d \in Callers : \A j, k \in DOMAIN listing'[d] :
            j < k => SmallerName(listing'[d][j], listing'[d][k])
    BY <2>1, <2>4
  <2> QED BY <2>1, <2>7, <2>8, <2>9, <2>10, OrderedStays
<1>8. ASSUME NEW c \in Callers, Read(c) \/ Kill(c)
      PROVE  Ordered'
  <2>1. /\ UNCHANGED <<journal, ingests, accepted, claims, older>>
        /\ listing' = [listing EXCEPT ![c] = <<>>]
        /\ \A d \in Callers : d # c => rpc'[d] = rpc[d]
    BY <1>8 DEF Read, Kill, dir, history
  <2>2. \A d \in Callers : d # c => Retries(d)
    BY <2>1 DEF Retries, ToTry
  <2>3. Retries(c)
    BY <2>1 DEF Retries, ToTry
  <2>4. \A m \in Nat \X Nat, b \in Items : NameOf(m, b)' => NameOf(m, b)
    BY <2>1 DEF NameOf, ingests
  <2>5. \A d \in Callers : \A j, k \in DOMAIN listing'[d] :
           j < k => SmallerName(listing'[d][j], listing'[d][k])
    BY <2>1
  <2> QED BY <2>1, <2>2, <2>3, <2>4, <2>5, OrderedStays
<1>9. CASE UNCHANGED vars
  BY <1>1, <1>9 DEF vars, journalVars, dir, ingests, callers, history
<1>10. CASE Start \/ Stop \/ \E i \in Pushed : Push(i)
  BY <1>1, <1>10 DEF Start, Stop, Push, Fallback, journalVars, dir, ingests, callers, history
<1>11. ASSUME NEW c \in Callers,
              \/ Dial(c) \/ Serve(c) \/ Deliver(c) \/ PollEnds(c) \/ Emit(c) \/ HangUp(c)
              \/ Expire(c) \/ RemoveClaimed(c)
       PROVE  Ordered'
  BY <1>1, <1>11 DEF Dial, Fallback, Serve, Deliver, PollEnds, Emit, HangUp, Expire,
                     RemoveClaimed, dir, ingests, callers, history
<1> QED BY <1>2, <1>3, <1>4, <1>5, <1>6, <1>7, <1>8, <1>9, <1>10, <1>11
     DEF Next, Ingest, Recv, Drain, Fault, Vanished, Unreadable
------------------------------------------------------------------------------
(* A collision is never forgotten. *)
LEMMA CollisionsStay ==
    ASSUME [Next]_vars
    PROVE  collided => collided'
BY DEF Next, Ingest, Recv, Drain, Fault, Vanished, Unreadable, vars, journalVars, history,
       Draw, Write, Push, Dial, Serve, Deliver, PollEnds, List, Claim, LoseClaim, Read, Drop,
       RemoveClaimed, Emit, Abort, Expire, Kill, HangUp, Stop, Start

(* A step that moves no item. *)
LEMMA PlacedStays ==
    ASSUME Placed, UNCHANGED <<journal, fifo, emitted, lost, accepted>>,
           \A c \in Callers, i \in Items : Has(c, i)' <=> Has(c, i)
    PROVE  Placed'
<1>1. \A i \in Items : Journaled(i)' <=> Journaled(i)
  BY DEF Journaled
<1>2. \A i \in Items : Queued(i)' <=> Queued(i)
  BY DEF Queued
<1>3. \A i \in Items : Carried(i)' <=> Carried(i)
  BY DEF Carried
<1>4. \A i \in Items : InOnePlace(i)'
  BY <1>1, <1>2, <1>3 DEF Placed, InOnePlace
<1> QED BY <1>4 DEF Placed

(* A step in which a caller prints what it has, or loses it. *)
LEMMA PlacedWhenLetGo ==
    ASSUME Placed, emitted \in [Items -> Nat], NEW c \in Callers, NEW x \in Items, Has(c, x),
           UNCHANGED <<journal, fifo, accepted>>,
           \A d \in Callers, i \in Items : Has(d, i)' <=> d # c /\ Has(d, i),
           \/ emitted' = [emitted EXCEPT ![x] = @ + 1] /\ lost' = lost
           \/ emitted' = emitted /\ lost' = lost \cup {x}
    PROVE  Placed'
<1>1. \A i \in Items : Has(c, i) => i = x
  BY DEF Has
<1>2. \A i \in Items : Journaled(i)' <=> Journaled(i)
  BY DEF Journaled
<1>3. \A i \in Items : Queued(i)' <=> Queued(i)
  BY DEF Queued
<1>4. \A i \in Items : Carried(i)' <=> Carried(i) /\ i # x
  BY <1>1 DEF Carried, Placed
<1>5. Carried(x) /\ InOnePlace(x)
  BY DEF Carried, Placed
<1>6. InOnePlace(x)'
  BY <1>2, <1>3, <1>4, <1>5 DEF InOnePlace
<1>7. \A i \in Items : i # x => InOnePlace(i)'
  BY <1>2, <1>3, <1>4 DEF Placed, InOnePlace
<1> QED BY <1>6, <1>7 DEF Placed

(* Every step keeps what Placed says, until names have collided. *)
LEMMA PlacedKept ==
    ASSUME IInv, [Next]_vars, ~collided'
    PROVE  Placed'
<1>0. ~collided /\ Placed
  BY CollisionsStay DEF IInv
<1> USE DEF IInv, FilesOK, IngestsOK, CallsOK, DaemonOK, HistoryOK, RecvPCs
<1>1. ASSUME NEW p \in Ingests, UNCHANGED <<up, fifo>>, Draw(p) \/ Abort(p)
      PROVE  Placed'
  <2>1. UNCHANGED <<journal, fifo, emitted, lost, accepted>>
        /\ \A c \in Callers, i \in Items : Has(c, i)' <=> Has(c, i)
    BY <1>1 DEF Draw, Abort, dir, callers, history, Has
  <2> QED BY <1>0, <2>1, PlacedStays
<1>2. ASSUME NEW c \in Callers,
             \/ Dial(c) \/ PollEnds(c)
             \/ UNCHANGED <<up, fifo>> /\ (List(c) \/ LoseClaim(c) \/ Expire(c))
      PROVE  Placed'
  <2>1. /\ UNCHANGED <<dir, ingests, mine, got, history, fifo>>
        /\ \A d \in Callers : d # c => rpc'[d] = rpc[d]
        /\ rpc[c] \notin {"read", "remove", "print", "answered"}
        /\ rpc'[c] \notin {"read", "remove", "print", "answered"}
    BY <1>2 DEF Dial, PollEnds, List, LoseClaim, Expire, Onward, Fallback
  <2>2. \A d \in Callers, i \in Items : Has(d, i)' <=> Has(d, i)
    BY <2>1 DEF Has, dir
  <2> QED BY <1>0, <2>1, <2>2, PlacedStays DEF dir, history
<1>3. ASSUME NEW c \in Callers, UNCHANGED <<up, fifo>>, Read(c)
      PROVE  Placed'
  <2>1. UNCHANGED <<journal, fifo, emitted, lost, accepted>>
        /\ \A d \in Callers, i \in Items : Has(d, i)' <=> Has(d, i)
    BY <1>3 DEF Read, dir, history, Has
  <2> QED BY <1>0, <2>1, PlacedStays
<1>4. ASSUME NEW c \in Callers, UNCHANGED <<up, fifo>>, RemoveClaimed(c)
      PROVE  Placed'
  <2>1. /\ DOMAIN taken' = DOMAIN taken \ {mine[c]}
        /\ \A n \in DOMAIN taken : n # mine[c] => taken'[n] = taken[n]
    BY <1>4 DEF RemoveClaimed, Without, Restrict
  <2>2. \A d \in Callers : rpc[d] = "read" => mine[d] \in DOMAIN taken /\ mine[d] # mine[c]
    BY <1>0, <1>4 DEF RemoveClaimed, Names
  <2>3. UNCHANGED <<journal, fifo, emitted, lost, accepted>>
        /\ \A d \in Callers, i \in Items : Has(d, i)' <=> Has(d, i)
    BY <1>4, <2>1, <2>2 DEF RemoveClaimed, history, Has
  <2> QED BY <1>0, <2>3, PlacedStays
<1>5. ASSUME NEW c \in Callers, Deliver(c) \/ HangUp(c) \/ (UNCHANGED <<up, fifo>> /\ Emit(c))
      PROVE  Placed'
  <2>1. /\ UNCHANGED <<dir, fifo, accepted, mine>>
        /\ rpc[c] \in {"print", "answered"} /\ rpc' = [rpc EXCEPT ![c] = "idle"]
        /\ got' = [got EXCEPT ![c] = NoItem]
        /\ \/ emitted' = [emitted EXCEPT ![got[c]] = @ + 1] /\ lost' = lost
           \/ emitted' = emitted /\ lost' = lost \cup {got[c]}
    BY <1>5 DEF Deliver, HangUp, Emit
  <2>2. got[c] \in Items /\ Has(c, got[c])
    BY <2>1 DEF Has
  <2>3. \A d \in Callers, i \in Items : Has(d, i)' <=> d # c /\ Has(d, i)
    BY <2>1 DEF Has, dir
  <2> QED BY <1>0, <2>1, <2>2, <2>3, PlacedWhenLetGo DEF dir
<1>6. ASSUME NEW c \in Callers, UNCHANGED <<up, fifo>>, Drop(c)
      PROVE  Placed'
  <2>1. mine[c] \in DOMAIN taken
        /\ \A d \in Callers : rpc[d] = "read" /\ d # c => mine[d] # mine[c]
    BY <1>0, <1>6 DEF Drop, Names
  <2> DEFINE x == taken[mine[c]]
  <2>2. x \in Items /\ Has(c, x)
    BY <1>6, <2>1 DEF Drop, Has
  <2>3. {taken[n] : n \in {mine[c]} \cap DOMAIN taken} = {x}
    BY <2>1
  <2>4. /\ DOMAIN taken' = DOMAIN taken \ {mine[c]}
        /\ \A n \in DOMAIN taken : n # mine[c] => taken'[n] = taken[n]
    BY <1>6 DEF Drop, Without, Restrict
  <2>5. UNCHANGED <<journal, fifo, accepted, emitted>> /\ lost' = lost \cup {x}
    BY <1>6, <2>3 DEF Drop
  <2>6. \A d \in Callers, i \in Items : Has(d, i)' <=> d # c /\ Has(d, i)
    BY <1>6, <2>1, <2>4 DEF Drop, Onward, Has
  <2> HIDE DEF x
  <2> QED BY <1>0, <2>2, <2>5, <2>6, PlacedWhenLetGo
<1>7. ASSUME NEW c \in Callers, UNCHANGED <<up, fifo>>, Kill(c)
      PROVE  Placed'
  <2>1. PICK x \in Items : Has(c, x) /\ Holds(c) = {x}
    <3>1. CASE rpc[c] = "read"
      <4>1. mine[c] \in DOMAIN taken
        BY <1>0, <3>1 DEF Names
      <4>2. Holds(c) = {taken[mine[c]]}
        BY <3>1, <4>1 DEF Holds
      <4> QED BY <3>1, <4>1, <4>2 DEF Has
    <3>2. CASE rpc[c] \in {"remove", "print"}
      <4>1. Holds(c) = {got[c]} /\ got[c] \in Items
        BY <3>2 DEF Holds
      <4> QED BY <3>2, <4>1 DEF Has
    <3> QED BY <1>7, <3>1, <3>2 DEF Kill
  <2>2. /\ UNCHANGED <<journal, fifo, accepted, emitted>> /\ lost' = lost \cup {x}
        /\ UNCHANGED taken
    BY <1>7, <2>1 DEF Kill, dir
  <2>3. \A d \in Callers, i \in Items : Has(d, i)' <=> d # c /\ Has(d, i)
    BY <1>7, <2>2 DEF Kill, Has
  <2> QED BY <1>0, <2>1, <2>2, <2>3, PlacedWhenLetGo
<1>8. ASSUME NEW p \in Ingests, UNCHANGED <<up, fifo>>, Write(p)
      PROVE  Placed'
  <2> DEFINE h == Head(left[p])
  <2>1. /\ drawn[p] \notin DOMAIN journal
        /\ journal' = With(journal, drawn[p], h) /\ left[p] # <<>>
        /\ accepted' = accepted \cup {h} /\ lost' = lost
        /\ UNCHANGED <<taken, callers, emitted>>
    BY <1>0, <1>8 DEF Write, Names
  <2>2. h \in Items /\ h \notin accepted
    BY <2>1, HeadIsNew
  <2> HIDE DEF h
  <2>3. /\ DOMAIN journal' = DOMAIN journal \cup {drawn[p]} /\ journal'[drawn[p]] = h
        /\ \A m \in DOMAIN journal : m # drawn[p] /\ journal'[m] = journal[m]
    BY <2>1 DEF With
  <2>4. InOnePlace(h) /\ ~Journaled(h) /\ ~Queued(h) /\ ~Carried(h) /\ emitted[h] = 0 /\ h \notin lost
    BY <1>0, <2>2 DEF Placed, InOnePlace
  <2>5. \A i \in Items : Journaled(i)' <=> Journaled(i) \/ i = h
    BY <2>3 DEF Journaled
  <2>6. \A i \in Items : Queued(i)' <=> Queued(i)
    BY <1>8 DEF Queued
  <2>7. \A d \in Callers, i \in Items : Has(d, i)' <=> Has(d, i)
    BY <2>1 DEF Has, callers
  <2>8. \A i \in Items : Carried(i)' <=> Carried(i)
    BY <2>7 DEF Carried
  <2>9. \A m, n \in DOMAIN journal' : journal'[m] = journal'[n] => m = n
    BY <1>0, <2>3, <2>4 DEF Journaled, Placed
  <2>10. \A i \in Items : InOnePlace(i)'
    BY <1>0, <2>1, <2>4, <2>5, <2>6, <2>8 DEF Placed, InOnePlace
  <2> QED BY <1>0, <1>8, <2>7, <2>9, <2>10 DEF Placed
<1>9. ASSUME NEW x \in Pushed, Push(x)
      PROVE  Placed'
  <2>1. /\ x \in Items /\ x \notin accepted /\ fifo' = Append(fifo, x)
        /\ accepted' = accepted \cup {x} /\ lost' = lost
        /\ UNCHANGED <<dir, callers, emitted>>
    BY <1>9, DeliveryAssumption DEF Push
  <2>2. /\ DOMAIN fifo' = DOMAIN fifo \cup {Len(fifo) + 1} /\ fifo'[Len(fifo) + 1] = x
        /\ \A k \in DOMAIN fifo : fifo'[k] = fifo[k]
    BY <2>1, AppendProperties
  <2>3. InOnePlace(x) /\ ~Journaled(x) /\ ~Queued(x) /\ ~Carried(x) /\ emitted[x] = 0 /\ x \notin lost
    BY <1>0, <2>1 DEF Placed, InOnePlace
  <2>4. \A i \in Items : Queued(i)' <=> Queued(i) \/ i = x
    BY <2>2 DEF Queued
  <2>5. \A i \in Items : Journaled(i)' <=> Journaled(i)
    BY <2>1 DEF Journaled, dir
  <2>6. \A d \in Callers, i \in Items : Has(d, i)' <=> Has(d, i)
    BY <2>1 DEF Has, callers, dir
  <2>7. \A i \in Items : Carried(i)' <=> Carried(i)
    BY <2>6 DEF Carried
  <2>8. \A j, k \in DOMAIN fifo' : fifo'[j] = fifo'[k] => j = k
    BY <1>0, <2>2, <2>3 DEF Queued, Placed
  <2>9. \A i \in Items : InOnePlace(i)'
    BY <1>0, <2>1, <2>3, <2>4, <2>5, <2>7 DEF Placed, InOnePlace
  <2> QED BY <1>0, <2>1, <2>6, <2>8, <2>9 DEF Placed, dir
<1>10. ASSUME NEW c \in Callers, Serve(c)
       PROVE  Placed'
  <2> DEFINE x == Head(fifo)
  <2>1. /\ fifo # <<>> /\ fifo' = Tail(fifo) /\ rpc[c] = "polling"
        /\ got' = [got EXCEPT ![c] = x] /\ rpc' = [rpc EXCEPT ![c] = "answered"]
        /\ UNCHANGED <<dir, mine, accepted, emitted, lost>>
    BY <1>10 DEF Serve, history
  <2>2. /\ x \in Items /\ x = fifo[1] /\ 1 \in DOMAIN fifo
        /\ \A k \in DOMAIN fifo' : k + 1 \in DOMAIN fifo /\ fifo'[k] = fifo[k + 1]
        /\ \A k \in DOMAIN fifo : k # 1 => k - 1 \in DOMAIN fifo' /\ fifo'[k - 1] = fifo[k]
        /\ fifo' \in Seq(Items)
    BY <2>1, BehindHead
  <2> HIDE DEF x
  <2>3. \A k \in DOMAIN fifo' : k \in Nat /\ k + 1 # 1
    BY <2>2
  <2>4. Queued(x) /\ InOnePlace(x) /\ ~Journaled(x) /\ ~Carried(x) /\ emitted[x] = 0 /\ x \notin lost
    BY <1>0, <2>2 DEF Placed, InOnePlace, Queued
  <2>5. ASSUME NEW i \in Items
        PROVE  Queued(i)' <=> Queued(i) /\ i # x
    <3>1. Queued(i)' => Queued(i) /\ i # x
      BY <1>0, <2>2, <2>3 DEF Queued, Placed
    <3>2. ASSUME Queued(i), i # x
          PROVE  Queued(i)'
      <4>1. PICK k \in DOMAIN fifo : fifo[k] = i
        BY <3>2 DEF Queued
      <4>2. k # 1
        BY <2>2, <3>2, <4>1
      <4> QED BY <2>2, <4>1, <4>2 DEF Queued
    <3> QED BY <3>1, <3>2
  <2>6. \A i \in Items : Journaled(i)' <=> Journaled(i)
    BY <2>1 DEF Journaled, dir
  <2>7. \A d \in Callers, i \in Items : Has(d, i)' <=> Has(d, i) \/ (d = c /\ i = x)
    BY <2>1 DEF Has, dir
  <2>8. \A i \in Items : Carried(i)' <=> Carried(i) \/ i = x
    BY <2>7 DEF Carried
  <2>9. \A j, k \in DOMAIN fifo' : fifo'[j] = fifo'[k] => j = k
    BY <1>0, <2>2, <2>3 DEF Placed
  <2>10. \A i \in Items : \A d, e \in Callers : Has(d, i)' /\ Has(e, i)' => d = e
    BY <1>0, <2>4, <2>7, ZenonT(30) DEF Placed, Carried
  <2>11. \A i \in Items : InOnePlace(i)'
    BY <1>0, <2>1, <2>4, <2>5, <2>6, <2>8 DEF Placed, InOnePlace
  <2> QED BY <1>0, <2>1, <2>9, <2>10, <2>11 DEF Placed, dir
<1>11. ASSUME NEW c \in Callers, UNCHANGED <<up, fifo>>, Claim(c)
       PROVE  Placed'
  <2>1. PICK n \in DOMAIN journal :
           /\ journal' = Without(journal, n) /\ taken' = With(taken, n, journal[n])
           /\ mine' = [mine EXCEPT ![c] = n]
           /\ rpc[c] = "claim" /\ rpc' = [rpc EXCEPT ![c] = "read"]
           /\ UNCHANGED <<got, accepted, emitted, lost>>
    BY <1>11 DEF Claim, Unlisted
  <2>2. n \notin DOMAIN taken
    BY <1>0, <2>1 DEF Names
  <2>3. PICK x \in Items : x = journal[n]
    BY <2>1
  <2>4. /\ DOMAIN journal' = DOMAIN journal \ {n}
        /\ \A m \in DOMAIN journal : m # n => journal'[m] = journal[m]
    BY <2>1 DEF Without, Restrict
  <2>5. /\ DOMAIN taken' = DOMAIN taken \cup {n} /\ taken'[n] = x
        /\ \A m \in DOMAIN taken : m # n /\ taken'[m] = taken[m]
    BY <2>1, <2>2, <2>3 DEF With
  <2>6. Journaled(x) /\ InOnePlace(x) /\ ~Queued(x) /\ ~Carried(x) /\ emitted[x] = 0 /\ x \notin lost
    BY <1>0, <2>3 DEF Placed, InOnePlace, Journaled
  <2>7. \A i \in Items : Journaled(i)' <=> Journaled(i) /\ i # x
    BY <1>0, <2>3, <2>4 DEF Journaled, Placed
  <2>8. \A i \in Items : Queued(i)' <=> Queued(i)
    BY <1>11 DEF Queued
  <2>9. ASSUME NEW d \in Callers, NEW i \in Items
        PROVE  Has(d, i)' <=> Has(d, i) \/ (d = c /\ i = x)
    <3>1. CASE d = c
      BY <2>1, <2>5, <3>1 DEF Has
    <3>2. CASE d # c
      <4>1. rpc[d] = "read" => mine[d] \in DOMAIN taken
        BY <1>0 DEF Names
      <4> QED BY <2>1, <2>5, <3>2, <4>1 DEF Has
    <3> QED BY <3>1, <3>2
  <2>10. \A i \in Items : Carried(i)' <=> Carried(i) \/ i = x
    BY <2>9 DEF Carried
  <2>11. \A l, m \in DOMAIN journal' : journal'[l] = journal'[m] => l = m
    BY <1>0, <2>4 DEF Placed
  <2>12. ASSUME NEW i \in Items, NEW d \in Callers, NEW e \in Callers,
                Has(d, i)', Has(e, i)'
         PROVE  d = e
    <3>1. CASE i = x
      <4>1. \A b \in Callers : ~Has(b, x)
        BY <2>6 DEF Carried
      <4> QED BY <2>9, <2>12, <3>1, <4>1
    <3>2. CASE i # x
      BY <1>0, <2>9, <2>12, <3>2 DEF Placed
    <3> QED BY <3>1, <3>2
  <2>13. \A i \in Items : InOnePlace(i)'
    BY <1>0, <2>1, <2>6, <2>7, <2>8, <2>10 DEF Placed, InOnePlace
  <2> QED BY <1>0, <1>11, <2>11, <2>12, <2>13 DEF Placed
<1>12. CASE Stop
  <2> DEFINE open == {c \in Callers : rpc[c] \in {"polling", "answered"}}
             gone == Range(fifo) \cup ({got[c] : c \in open} \ {NoItem})
  <2>1. /\ fifo' = <<>> /\ lost' = lost \cup gone
        /\ got' = [c \in Callers |-> IF c \in open THEN NoItem ELSE got[c]]
        /\ rpc' = [c \in Callers |-> IF c \in open THEN "list" ELSE rpc[c]]
        /\ UNCHANGED <<dir, mine, accepted, emitted>>
    BY <1>12 DEF Stop, Fallback
  <2>2. \A i \in Items : Queued(i) <=> i \in Range(fifo)
    BY DEF Queued, Range
  <2>3. \A i \in Items : i \in gone <=>
           Queued(i) \/ \E c \in Callers : rpc[c] = "answered" /\ got[c] = i
    <3>1. \A i \in Items : i # NoItem
      BY JournalAssumption
    <3>2. \A c \in Callers : rpc[c] = "polling" => got[c] = NoItem
      OBVIOUS
    <3>3. \A i \in Items : i \in {got[c] : c \in open} <=>
             \E c \in Callers : rpc[c] = "answered" /\ got[c] = i
      BY <3>1, <3>2
    <3> QED BY <2>2, <3>1, <3>3
  <2> HIDE DEF gone
  <2>4. \A d \in Callers, i \in Items : Has(d, i)' <=> Has(d, i) /\ rpc[d] # "answered"
    BY <2>1 DEF Has, dir
  <2> HIDE DEF open
  <2>5. ASSUME NEW i \in Items
        PROVE  /\ Carried(i)' => Carried(i) /\ i \notin gone
               /\ Carried(i) => Carried(i)' \/ i \in gone
               /\ i \in gone => Queued(i) \/ Carried(i)
    <3>1. \A c \in Callers : rpc[c] = "answered" => (Has(c, i) <=> got[c] = i)
      BY DEF Has
    <3>2. Carried(i) => ~Queued(i) /\ \A c, d \in Callers : Has(c, i) /\ Has(d, i) => c = d
      BY <1>0 DEF Placed, InOnePlace
    <3> QED BY <2>3, <2>4, <3>1, <3>2 DEF Carried
  <2>6. \A i \in Items : ~Queued(i)'
    BY <2>1 DEF Queued
  <2>7. \A i \in Items : Journaled(i)' <=> Journaled(i)
    BY <2>1 DEF Journaled, dir
  <2>8. ASSUME NEW i \in Items
        PROVE  InOnePlace(i)'
    <3>1. InOnePlace(i)
      BY <1>0 DEF Placed
    <3>2. Queued(i) => i \in gone
      BY <2>3
    <3> QED BY <2>1, <2>5, <2>6, <2>7, <3>1, <3>2 DEF InOnePlace
  <2>9. \A j, k \in DOMAIN fifo' : fifo'[j] = fifo'[k] => j = k
    BY <2>1
  <2> QED BY <1>0, <2>1, <2>4, <2>8, <2>9 DEF Placed, dir
<1>13. CASE Start \/ UNCHANGED vars
  <2>1. UNCHANGED <<journal, fifo, emitted, lost, accepted>>
        /\ \A d \in Callers, i \in Items : Has(d, i)' <=> Has(d, i)
    BY <1>13 DEF Start, vars, journalVars, dir, callers, history, Has
  <2> QED BY <1>0, <2>1, PlacedStays
<1> QED BY <1>1, <1>2, <1>3, <1>4, <1>5, <1>6, <1>7, <1>8, <1>9, <1>10, <1>11, <1>12, <1>13
     DEF Next, Ingest, Recv, Drain, Fault, Vanished, Unreadable

------------------------------------------------------------------------------
(* IInv is an invariant of the specification. *)
LEMMA Invariance == Spec => []IInv
<1>1. IInv /\ [Next]_vars => IInv'
  BY FilesKept, IngestsKept, CallsKept, DaemonKept, HistoryKept, NamesKept, UnsavedKept,
     PlacedKept, OrderedKept DEF IInv
<1> QED BY InitEstablishes, <1>1, PTL DEF Spec

(* The variables have their types, and of the callers that have claimed a record each
   one has the only claim to its file (agentjournal.go:120-176). *)
THEOREM TypeCorrect == Spec => []TypeOK
<1>1. IInv => TypeOK
  BY DEF IInv, TypeOK, FilesOK, CallsOK, DaemonOK, Names, Range
<1> QED BY Invariance, <1>1, PTL

(* Concurrent drainers claim in FIFO order: an item whose record was complete before
   the name of another was drawn is never claimed after it (agentjournal.go:23-27),
   colliding names or not. *)
THEOREM ClaimsKeepOrder == Spec => []ClaimedInOrder
<1>1. IInv => ClaimedInOrder
  BY DEF IInv, Ordered
<1> QED BY Invariance, <1>1, PTL

(* A set with nothing in it, and one with a single member, as Copies counts them. *)
LEMMA CountOfOne ==
    ASSUME NEW S, \A a, b \in S : a = b
    PROVE  Cardinality(S) = IF \E a : a \in S THEN 1 ELSE 0
<1>1. CASE S = {}
  BY <1>1, FS_EmptySet
<1>2. ASSUME NEW a \in S
      PROVE  Cardinality(S) = 1
  <2>1. S = {a}
    OBVIOUS
  <2> QED BY <2>1, FS_Singleton
<1> QED BY <1>1, <1>2

(* Every saved item is in one place, and no interleaving of drainers, daemon and
   client prints it twice or forgets it, unless two ingest processes drew the same
   name (agentjournal.go:79-81, concrete.go:99-105). *)
THEOREM ItemsAreInOnePlace == Spec => []ExactlyOnce
<1>1. ASSUME IInv, ~collided, NEW i \in Items
      PROVE  Copies(i) = IF i \in accepted THEN 1 ELSE 0
  <2> DEFINE J == {n \in DOMAIN journal : journal[n] = i}
             Q == {k \in DOMAIN fifo : fifo[k] = i}
             C == {c \in Callers : i \in Holds(c) \/ (rpc[c] = "answered" /\ got[c] = i)}
  <2>1. \A c \in Callers : c \in C <=> Has(c, i)
    <3>1. ASSUME NEW c \in Callers
          PROVE  i \in Holds(c) <=> Has(c, i) /\ rpc[c] # "answered"
      BY DEF Has, Holds
    <3>2. \A c \in Callers : rpc[c] = "answered" => (Has(c, i) <=> got[c] = i)
      BY DEF Has
    <3> QED BY <3>1, <3>2
  <2>2. /\ \A m, n \in J : m = n
        /\ \A m, n \in Q : m = n
        /\ \A m, n \in C : m = n
    BY <1>1, <2>1 DEF IInv, Placed
  <2>3. /\ (\E a : a \in J) <=> Journaled(i)
        /\ (\E a : a \in Q) <=> Queued(i)
        /\ (\E a : a \in C) <=> Carried(i)
    BY <2>1 DEF Journaled, Queued, Carried
  <2>4. Copies(i) = Cardinality(J) + Cardinality(Q) + Cardinality(C) + emitted[i]
                       + (IF i \in lost THEN 1 ELSE 0)
    BY DEF Copies
  <2> HIDE DEF J, Q, C
  <2>5. /\ Cardinality(J) = IF Journaled(i) THEN 1 ELSE 0
        /\ Cardinality(Q) = IF Queued(i) THEN 1 ELSE 0
        /\ Cardinality(C) = IF Carried(i) THEN 1 ELSE 0
    BY <2>2, <2>3, CountOfOne
  <2>6. InOnePlace(i)
    BY <1>1 DEF IInv, Placed
  <2> QED BY <2>4, <2>5, <2>6 DEF InOnePlace
<1>2. IInv => ExactlyOnce
  BY <1>1 DEF ExactlyOnce
<1> QED BY Invariance, <1>2, PTL
------------------------------------------------------------------------------
(* The refinement of RecordQueue. *)

(* What comes by the daemon is what was pushed to it, and nothing of the journal is:
   the two ways of an item never cross. *)
Routed ==
    /\ \A n \in DOMAIN journal : journal[n] \notin Pushed
    /\ \A n \in DOMAIN taken : taken[n] \notin Pushed
    /\ \A k \in DOMAIN fifo : fifo[k] \in Pushed
    /\ \A c \in Callers : rpc[c] = "answered" => got[c] \in Pushed
    /\ \A c \in Callers : rpc[c] \in {"remove", "print"} => got[c] \notin Pushed

(* No step of a drainer, a client or the daemon brings an item to the other way. *)
LEMMA RoutedKept ==
    ASSUME IInv, Routed, [Next]_vars
    PROVE  Routed'
<1> USE DEF IInv, FilesOK, IngestsOK, CallsOK, DaemonOK
<1>1. ASSUME NEW p \in Ingests, UNCHANGED <<up, fifo>>, Draw(p) \/ Abort(p)
      PROVE  Routed'
  BY <1>1 DEF Draw, Abort, Routed, dir, callers
<1>2. ASSUME NEW p \in Ingests, UNCHANGED <<up, fifo>>, Write(p)
      PROVE  Routed'
  <2>1. /\ left[p] # <<>> /\ journal' = With(journal, drawn[p], Head(left[p]))
        /\ UNCHANGED <<taken, fifo, rpc, got>>
    BY <1>2 DEF Write, callers
  <2>2. Head(left[p]) \notin Pushed
    <3>1. 1 \in DOMAIN left[p] /\ Head(left[p]) = left[p][1]
      BY <2>1
    <3> QED BY <3>1 DEF Unsaved
  <2> QED BY <2>1, <2>2 DEF Routed, With
<1>3. ASSUME NEW x \in Pushed, Push(x)
      PROVE  Routed'
  <2>1. /\ fifo' = Append(fifo, x) /\ UNCHANGED <<journal, taken, rpc, got>>
    BY <1>3 DEF Push, dir, callers
  <2>2. \A k \in DOMAIN fifo' : fifo'[k] \in Pushed
    BY <2>1, AppendProperties, DeliveryAssumption DEF Routed
  <2> QED BY <2>1, <2>2 DEF Routed
<1>4. ASSUME NEW c \in Callers, Serve(c)
      PROVE  Routed'
  <2>1. /\ fifo # <<>> /\ fifo' = Tail(fifo) /\ got' = [got EXCEPT ![c] = Head(fifo)]
        /\ rpc' = [rpc EXCEPT ![c] = "answered"] /\ UNCHANGED <<journal, taken>>
    BY <1>4 DEF Serve, dir
  <2>2. /\ Head(fifo) = fifo[1] /\ 1 \in DOMAIN fifo
        /\ \A k \in DOMAIN fifo' : k + 1 \in DOMAIN fifo /\ fifo'[k] = fifo[k + 1]
    BY <2>1, BehindHead
  <2>3. Head(fifo) \in Pushed /\ \A k \in DOMAIN fifo' : fifo'[k] \in Pushed
    BY <2>2 DEF Routed
  <2> QED BY <2>1, <2>3 DEF Routed
<1>5. ASSUME NEW c \in Callers, UNCHANGED <<up, fifo>>, Claim(c)
      PROVE  Routed'
  <2>1. PICK n \in DOMAIN journal :
           /\ journal' = Without(journal, n) /\ taken' = With(taken, n, journal[n])
           /\ rpc' = [rpc EXCEPT ![c] = "read"] /\ got' = got
    BY <1>5 DEF Claim, Unlisted
  <2> QED BY <1>5, <2>1 DEF Routed, Without, Restrict, With
<1>6. ASSUME NEW c \in Callers, UNCHANGED <<up, fifo>>, Read(c)
      PROVE  Routed'
  BY <1>6 DEF Read, Routed, dir
<1>7. ASSUME NEW c \in Callers, UNCHANGED <<up, fifo>>, Drop(c) \/ RemoveClaimed(c)
      PROVE  Routed'
  <2>1. /\ taken' = Without(taken, mine[c]) /\ UNCHANGED <<journal, got>>
        /\ \/ rpc' = [rpc EXCEPT ![c] = "print"] /\ rpc[c] = "remove"
           \/ rpc' = [rpc EXCEPT ![c] = "relist"] \/ rpc' = [rpc EXCEPT ![c] = "claim"]
    BY <1>7 DEF Drop, RemoveClaimed, Onward
  <2> QED BY <1>7, <2>1 DEF Routed, Without, Restrict
<1>8. ASSUME NEW c \in Callers, UNCHANGED <<up, fifo>>, Emit(c) \/ Kill(c)
      PROVE  Routed'
  BY <1>8 DEF Emit, Kill, Routed, dir
<1>9. ASSUME NEW c \in Callers, Deliver(c) \/ HangUp(c)
      PROVE  Routed'
  BY <1>9 DEF Deliver, HangUp, Routed, dir
<1>10. ASSUME NEW c \in Callers,
              \/ Dial(c) \/ PollEnds(c)
              \/ UNCHANGED <<up, fifo>> /\ (List(c) \/ LoseClaim(c) \/ Expire(c))
       PROVE  Routed'
  <2>1. UNCHANGED <<journal, taken, got, fifo>>
    BY <1>10 DEF Dial, PollEnds, List, LoseClaim, Expire, dir
  <2>2. \A d \in Callers : rpc'[d] \in {"answered", "remove", "print"} => rpc'[d] = rpc[d]
    BY <1>10 DEF Dial, PollEnds, List, LoseClaim, Expire, Onward, Fallback
  <2> QED BY <2>1, <2>2 DEF Routed
<1>11. CASE Stop
  BY <1>11 DEF Stop, Routed, dir, Fallback
<1>12. CASE Start \/ UNCHANGED vars
  BY <1>12 DEF Start, vars, journalVars, dir, callers, Routed
<1> QED BY <1>1, <1>2, <1>3, <1>4, <1>5, <1>6, <1>7, <1>8, <1>9, <1>10, <1>11, <1>12
     DEF Next, Ingest, Recv, Drain, Fault, Vanished, Unreadable

(* The two ways stay apart from the start. *)
LEMMA AlwaysRouted == Spec => []Routed
<1>1. Init => Routed
  BY DEF Init, JournalInit, Routed
<1>2. IInv /\ Routed /\ [Next]_vars => Routed'
  BY RoutedKept
<1> QED BY Invariance, <1>1, <1>2, PTL DEF Spec

(* Names have collided or have not. *)
Known == collided \in BOOLEAN

(* Only a record's name that is drawn twice changes the flag. *)
LEMMA KnownKept ==
    ASSUME Known, [Next]_vars
    PROVE  Known'
<1>1. ASSUME NEW p \in Ingests, Draw(p)
      PROVE  Known'
  BY <1>1 DEF Draw, Known
<1>2. CASE UNCHANGED collided
  BY <1>2 DEF Known
<1> QED
  BY <1>1, <1>2 DEF Next, Ingest, Recv, Drain, Fault, Vanished, Unreadable, vars, journalVars, history,
     Dial, Serve, PollEnds, Deliver, HangUp, List, Claim, LoseClaim, Read, Drop, RemoveClaimed, Emit, Kill,
     Write, Abort, Expire, Push, Start, Stop

(* The flag is typed in every state. *)
LEMMA AlwaysKnown == Spec => []Known
<1>1. Init => Known
  BY DEF Init, JournalInit, Known
<1> QED BY <1>1, KnownKept, PTL DEF Spec

(* What a caller has in hand, while names have not collided. *)
LEMMA InHand ==
    ASSUME IInv, ~collided, NEW c \in Callers
    PROVE  /\ rpc[c] = "read" => mine[c] \in DOMAIN taken /\ Holds(c) = {taken[mine[c]]}
           /\ rpc[c] \in {"remove", "print"} => Holds(c) = {got[c]} /\ got[c] \in Items
           /\ rpc[c] \notin {"read", "remove", "print"} => Holds(c) = {}
<1>1. rpc[c] = "read" => mine[c] \in DOMAIN taken
  BY DEF IInv, Names
<1>2. rpc[c] \in {"remove", "print"} => got[c] \in Items
  BY DEF IInv, CallsOK
<1> QED BY <1>1, <1>2 DEF Holds

(* A file taken away that is another caller's changes nothing in hand. *)
LEMMA OthersKeepTheirs ==
    ASSUME IInv, ~collided, NEW c \in Callers, rpc[c] \in {"read", "remove"},
           taken' = Without(taken, mine[c]),
           \A d \in Callers \ {c} : UNCHANGED <<rpc[d], mine[d], got[d]>>
    PROVE  \A d \in Callers \ {c} : Holds(d)' = Holds(d)
<1> SUFFICES ASSUME NEW d \in Callers \ {c} PROVE Holds(d)' = Holds(d)
  OBVIOUS
<1>1. /\ DOMAIN taken' = DOMAIN taken \ {mine[c]}
      /\ \A n \in DOMAIN taken : n # mine[c] => taken'[n] = taken[n]
  BY DEF Without, Restrict
<1>2. CASE rpc[d] = "read"
  <2>1. mine[d] \in DOMAIN taken /\ mine[d] # mine[c]
    BY <1>2 DEF IInv, Names
  <2>2. {mine[d]} \cap DOMAIN taken' = {mine[d]} /\ {mine[d]} \cap DOMAIN taken = {mine[d]}
    BY <1>1, <2>1
  <2>3. {taken'[n] : n \in {mine[d]}} = {taken[n] : n \in {mine[d]}}
    BY <1>1, <2>1
  <2> QED BY <1>2, <2>2, <2>3 DEF Holds
<1>3. CASE rpc[d] # "read"
  BY <1>3 DEF Holds
<1> QED BY <1>2, <1>3

(* Steps that no reader of the queue sees. *)
LEMMA StutterWhen ==
    ASSUME UNCHANGED <<left, drawn, journal, collided>>, Stored' = Stored, Earlier' = Earlier,
           Printed' = Printed, (lost \ Pushed)' = lost \ Pushed,
           \A c \in Callers : Holds(c)' = Holds(c)
    PROVE  UNCHANGED Queue!vars
<1>1. Hands' = Hands
  BY DEF Hands
<1>2. Naming' = Naming /\ Range(journal)' = Range(journal)
  BY DEF Naming
<1> QED BY <1>1, <1>2 DEF Queue!vars

(* A call that does not move holds what it held. *)
LEMMA HandAsBefore ==
    ASSUME NEW d \in Callers, taken' = taken,
           rpc'[d] = rpc[d], mine'[d] = mine[d], got'[d] = got[d]
    PROVE  Holds(d)' = Holds(d)
<1>1. {taken'[n] : n \in {mine'[d]} \cap DOMAIN taken'} = {taken[n] : n \in {mine[d]} \cap DOMAIN taken}
  OBVIOUS
<1> QED BY <1>1 DEF Holds

(* Looking for a record, reading the one that was claimed, and removing its file. *)
LEMMA DrainStutters ==
    ASSUME IInv, ~collided, NEW c \in Callers,
           List(c) \/ LoseClaim(c) \/ Expire(c) \/ Read(c) \/ RemoveClaimed(c)
    PROVE  UNCHANGED Queue!vars
<1> USE DEF IInv, CallsOK
<1>1. /\ UNCHANGED <<left, drawn, journal, collided, accepted, older, emitted, lost>>
      /\ \A d \in Callers \ {c} : UNCHANGED <<rpc[d], mine[d], got[d]>>
  BY DEF List, LoseClaim, Expire, Read, RemoveClaimed, dir, ingests, history
<1>2. CASE List(c) \/ LoseClaim(c) \/ Expire(c)
  <2>1. /\ taken' = taken
        /\ rpc[c] \notin {"read", "remove", "print"} /\ rpc'[c] \notin {"read", "remove", "print"}
    BY <1>2 DEF List, LoseClaim, Expire, Onward, dir
  <2>2. Holds(c)' = Holds(c)
    BY <2>1 DEF Holds
  <2>3. \A d \in Callers : Holds(d)' = Holds(d)
    BY <1>1, <2>1, <2>2, HandAsBefore
  <2> QED BY <1>1, <2>3, StutterWhen DEF Stored, Earlier, Printed
<1>3. CASE Read(c)
  <2>1. /\ taken' = taken /\ rpc[c] = "read" /\ rpc'[c] = "remove" /\ got'[c] = taken[mine[c]]
    BY <1>3 DEF Read, dir
  <2>2. Holds(c)' = Holds(c)
    BY <2>1, InHand DEF Holds
  <2>3. \A d \in Callers : Holds(d)' = Holds(d)
    BY <1>1, <2>1, <2>2, HandAsBefore
  <2> QED BY <1>1, <2>3, StutterWhen DEF Stored, Earlier, Printed
<1>4. CASE RemoveClaimed(c)
  <2>1. /\ taken' = Without(taken, mine[c]) /\ rpc[c] = "remove" /\ rpc'[c] = "print" /\ got' = got
    BY <1>4 DEF RemoveClaimed
  <2>2. Holds(c)' = Holds(c)
    BY <2>1 DEF Holds
  <2>3. \A d \in Callers \ {c} : Holds(d)' = Holds(d)
    BY <1>1, <2>1, OthersKeepTheirs
  <2> QED BY <1>1, <2>2, <2>3, StutterWhen DEF Stored, Earlier, Printed
<1> QED BY <1>2, <1>3, <1>4

(* The daemon, and who is served by it, are beside the queue. *)
LEMMA DaemonStutters ==
    ASSUME IInv, Routed,
           \/ \E i \in Pushed : Push(i)
           \/ \E c \in Callers : Dial(c) \/ Serve(c) \/ Deliver(c) \/ PollEnds(c) \/ HangUp(c)
           \/ Stop \/ Start
    PROVE  UNCHANGED Queue!vars
<1> USE DEF IInv, CallsOK, HistoryOK
<1>1. /\ UNCHANGED <<left, drawn, journal, taken, mine, collided, older>>
  BY DEF Push, Dial, Serve, Deliver, PollEnds, HangUp, Stop, Start, dir, ingests, callers, history,
         journalVars
<1>2. ASSUME NEW d \in Callers
      PROVE  Holds(d)' = Holds(d)
  <2>1. \/ rpc'[d] = rpc[d] /\ got'[d] = got[d]
        \/ /\ rpc[d] \notin {"read", "remove", "print"}
           /\ rpc'[d] \notin {"read", "remove", "print"}
    <3>1. CASE \E i \in Pushed : Push(i)
      BY <3>1 DEF Push, callers
    <3>2. CASE \E c \in Callers : Dial(c) \/ Serve(c) \/ Deliver(c) \/ PollEnds(c) \/ HangUp(c)
      BY <3>2 DEF Dial, Serve, Deliver, PollEnds, HangUp, Fallback
    <3>3. CASE Stop
      BY <3>3 DEF Stop, Fallback
    <3>4. CASE Start
      BY <3>4 DEF Start, journalVars, callers
    <3> QED BY <3>1, <3>2, <3>3, <3>4
  <2> QED BY <1>1, <2>1 DEF Holds
<1>3. Stored' = Stored
  <2>1. accepted' \ Pushed = accepted \ Pushed
    BY DEF Push, Dial, Serve, Deliver, PollEnds, HangUp, Stop, Start, history, journalVars
  <2> QED BY <2>1 DEF Stored
<1>4. Printed' = Printed
  <2>1. \A i \in Items \ Pushed : emitted'[i] = emitted[i]
    <3>1. ASSUME NEW c \in Callers, Deliver(c)
          PROVE  \A i \in Items \ Pushed : emitted'[i] = emitted[i]
      BY <3>1 DEF Deliver, Routed
    <3> QED BY <3>1 DEF Push, Dial, Serve, PollEnds, HangUp, Stop, Start, history, journalVars
  <2> QED BY <2>1 DEF Printed
<1>5. (lost \ Pushed)' = lost \ Pushed
  <2>1. ASSUME NEW c \in Callers, HangUp(c)
        PROVE  lost' \ Pushed = lost \ Pushed
    BY <2>1 DEF HangUp, Routed
  <2>2. CASE Stop
    <3> DEFINE open == {c \in Callers : rpc[c] \in {"polling", "answered"}}
    <3>1. lost' = lost \cup Range(fifo) \cup ({got[c] : c \in open} \ {NoItem})
      BY <2>2 DEF Stop
    <3>2. Range(fifo) \subseteq Pushed
      BY DEF Routed, Range
    <3>3. \A c \in open : got[c] = NoItem \/ got[c] \in Pushed
      BY DEF Routed
    <3> HIDE DEF open
    <3>4. {got[c] : c \in open} \ {NoItem} \subseteq Pushed
      BY <3>3
    <3> QED BY <3>1, <3>2, <3>4
  <2> QED BY <2>1, <2>2 DEF Push, Dial, Serve, Deliver, PollEnds, Start, history, journalVars
<1>6. Earlier' = Earlier
  BY <1>1 DEF Earlier
<1> QED BY <1>1, <1>2, <1>3, <1>4, <1>5, <1>6, StutterWhen

(* A process names, writes and gives up records as the queue says. *)
LEMMA IngestPuts ==
    ASSUME IInv, Routed, Known, Known', ~collided, ~collided', NEW p \in Ingests,
           Draw(p) \/ Write(p) \/ Abort(p)
    PROVE  Queue!Next
<1> USE DEF IInv, IngestsOK
<1>1. \A c \in Callers : Holds(c)' = Holds(c)
  <2>1. UNCHANGED <<taken, rpc, mine, got>>
    BY DEF Draw, Write, Abort, dir, callers
  <2> QED BY <2>1, HandAsBefore
<1>2. Hands' = Hands
  BY <1>1 DEF Hands
<1>3. Printed' = Printed /\ collided' = collided
  <2>1. emitted' = emitted
    BY DEF Draw, Write, Abort, history
  <2>2. collided \in BOOLEAN /\ collided' \in BOOLEAN
    BY DEF Known
  <2> QED BY <2>1, <2>2 DEF Printed
<1> DEFINE h == Head(left[p])
<1>4. CASE Draw(p)
  <2>1. /\ left[p] # <<>> /\ drawn[p] = NoName
        /\ drawn' = [drawn EXCEPT ![p] = <<clock, seqno[p] + 1>>]
        /\ older' = older \cup (accepted \X {h})
        /\ UNCHANGED <<left, journal, accepted, lost>>
    BY <1>4 DEF Draw, dir
  <2>2. p \notin Naming /\ Naming' = Naming \cup {p}
    BY <2>1, JournalAssumption DEF Naming, FilesOK
  <2>3. Earlier' = Earlier \cup (Stored \X {h})
    BY <2>1 DEF Earlier, Stored
  <2>4. Queue!Begin(p)
    BY <1>2, <1>3, <2>1, <2>2, <2>3 DEF Queue!Begin, Stored
  <2> QED BY <2>4 DEF Queue!Next
<1>5. CASE Write(p)
  <2>1. /\ drawn[p] # NoName /\ drawn[p] \notin DOMAIN journal
        /\ journal' = With(journal, drawn[p], h)
        /\ accepted' = accepted \cup {h} /\ lost' = lost
        /\ left' = [left EXCEPT ![p] = Tail(@)] /\ drawn' = [drawn EXCEPT ![p] = NoName]
        /\ older' = older
    BY <1>5 DEF Write, Names
  <2>2. h \notin Pushed
    <3>1. 1 \in DOMAIN left[p] /\ h = left[p][1]
      BY <2>1
    <3> QED BY <3>1 DEF Unsaved
  <2>3. Range(journal') = Range(journal) \cup {h}
    BY <2>1 DEF With, Range
  <2>4. p \in Naming /\ Naming' = Naming \ {p}
    BY <2>1 DEF Naming
  <2>5. Stored' = Stored \cup {h} /\ Earlier' = Earlier
    BY <2>1, <2>2 DEF Stored, Earlier
  <2>6. Queue!Put(p)
    BY <1>2, <1>3, <2>1, <2>3, <2>4, <2>5 DEF Queue!Put
  <2> QED BY <2>6 DEF Queue!Next
<1>6. CASE Abort(p)
  <2>1. /\ drawn[p] # NoName /\ drawn' = [drawn EXCEPT ![p] = NoName]
        /\ left' = [left EXCEPT ![p] = <<>>]
        /\ UNCHANGED <<journal, accepted, lost, older>>
    BY <1>6 DEF Abort, dir, history
  <2>2. p \in Naming /\ Naming' = Naming \ {p}
    BY <2>1 DEF Naming
  <2>3. Queue!GiveUp(p)
    BY <1>2, <1>3, <2>1, <2>2 DEF Queue!GiveUp, Stored, Earlier
  <2> QED BY <2>3 DEF Queue!Next
<1> QED BY <1>4, <1>5, <1>6

(* A claim takes a record that is no younger than any other, for itself alone. *)
LEMMA ClaimTakes ==
    ASSUME IInv, ~collided, NEW c \in Callers, Claim(c)
    PROVE  Queue!Next
<1> USE DEF IInv, FilesOK, CallsOK
<1>1. PICK n \in DOMAIN journal :
         /\ n = Head(listing[c]) /\ rpc[c] = "claim" /\ rpc' = [rpc EXCEPT ![c] = "read"]
         /\ journal' = Without(journal, n) /\ taken' = With(taken, n, journal[n])
         /\ mine' = [mine EXCEPT ![c] = n]
         /\ UNCHANGED <<got, left, drawn, accepted, older, emitted, lost, collided>>
  BY DEF Claim, Unlisted, ingests
<1>2. PICK i \in Items : i = journal[n] /\ i \in Range(journal)
  BY DEF Range
<1>3. n \notin DOMAIN taken
  BY DEF Names
<1>4. Range(journal') = Range(journal) \ {i}
  <2>1. \A m \in DOMAIN journal : journal[m] = i => m = n
    BY <1>2 DEF Placed
  <2>2. /\ DOMAIN journal' = DOMAIN journal \ {n}
        /\ \A m \in DOMAIN journal : m # n => journal'[m] = journal[m]
    BY <1>1 DEF Without, Restrict
  <2> QED BY <1>2, <2>1, <2>2 DEF Range
<1>5. Hands[c] = {} /\ Hands' = [Hands EXCEPT ![c] = {i}]
  <2>1. /\ DOMAIN taken' = DOMAIN taken \cup {n} /\ taken'[n] = i
        /\ \A m \in DOMAIN taken : m # n /\ taken'[m] = taken[m]
    BY <1>1, <1>2, <1>3 DEF With
  <2>2. Holds(c)' = {i}
    <3>1. rpc'[c] = "read" /\ mine'[c] = n
      BY <1>1
    <3>2. {n} \cap DOMAIN taken' = {n}
      BY <2>1
    <3> QED BY <2>1, <3>1, <3>2 DEF Holds
  <2>3. ASSUME NEW d \in Callers \ {c}
        PROVE  Holds(d)' = Holds(d)
    <3>1. UNCHANGED <<rpc[d], mine[d], got[d]>>
      BY <1>1
    <3>2. CASE rpc[d] = "read"
      <4>1. mine[d] \in DOMAIN taken
        BY <3>2 DEF Names
      <4>2. {mine[d]} \cap DOMAIN taken' = {mine[d]} /\ {mine[d]} \cap DOMAIN taken = {mine[d]}
        BY <2>1, <4>1
      <4>3. {taken'[m] : m \in {mine[d]}} = {taken[m] : m \in {mine[d]}}
        BY <2>1, <4>1
      <4> QED BY <3>1, <3>2, <4>2, <4>3 DEF Holds
    <3>3. CASE rpc[d] # "read"
      BY <3>1, <3>3 DEF Holds
    <3> QED BY <3>2, <3>3
  <2>4. Holds(c) = {}
    BY <1>1 DEF Holds
  <2> QED BY <2>2, <2>3, <2>4 DEF Hands
<1>6. ASSUME NEW j \in Range(journal), <<j, i>> \in Earlier
      PROVE  FALSE
  <2>1. PICK m \in DOMAIN journal : j = journal[m]
    BY DEF Range
  <2>2. <<journal[m], i>> \in older /\ NameOf(n, i) /\ n \in Nat \X Nat
    BY <1>2, <1>6, <2>1 DEF Earlier, NameOf
  <2>3. m[1] < n[1] /\ (ToTry(c, n) => ToTry(c, m))
    BY <1>2, <2>2 DEF Ordered
  <2>4. /\ listing[c] \in Seq(Nat \X Nat) /\ listing[c] # <<>> /\ listing[c][1] = n
        /\ 1 \in DOMAIN listing[c]
    BY <1>1
  <2>5. ToTry(c, n)
    BY <1>1, <2>4 DEF ToTry
  <2>6. PICK k \in DOMAIN listing[c] : listing[c][k] = m
    BY <2>3, <2>5 DEF ToTry
  <2>7. k = 1 \/ SmallerName(n, m)
    <3>1. k \in Nat /\ (k = 1 \/ 1 < k)
      BY <2>4
    <3> QED BY <2>4, <2>6, <3>1 DEF Ordered
  <2>8. m \in Nat \X Nat /\ n[1] \in Nat /\ m[1] \in Nat
    BY <2>2
  <2> QED BY <2>3, <2>4, <2>6, <2>7, <2>8 DEF SmallerName
<1>7. UNCHANGED <<left, Naming, Stored, Earlier, Printed, lost, collided>>
  BY <1>1 DEF Naming, Stored, Earlier, Printed
<1>8. Queue!Take(c)
  BY <1>2, <1>4, <1>5, <1>6, <1>7 DEF Queue!Take
<1> QED BY <1>8 DEF Queue!Next

(* What a caller has in hand it prints or loses, and nobody has before. *)
LEMMA LetGoEnds ==
    ASSUME IInv, Routed, ~collided, NEW c \in Callers, Emit(c) \/ Drop(c) \/ Kill(c)
    PROVE  Queue!Next
<1> USE DEF IInv, FilesOK, CallsOK, HistoryOK
<1>1. PICK x \in Items : Holds(c) = {x} /\ Has(c, x) /\ x \notin Pushed
  <2>1. CASE rpc[c] = "read"
    <3>1. mine[c] \in DOMAIN taken /\ Holds(c) = {taken[mine[c]]}
      BY <2>1, InHand
    <3> QED BY <2>1, <3>1 DEF Has, Routed
  <2>2. CASE rpc[c] \in {"remove", "print"}
    <3>1. Holds(c) = {got[c]} /\ got[c] \in Items
      BY <2>2, InHand
    <3> QED BY <2>2, <3>1 DEF Has, Routed
  <2> QED BY <2>1, <2>2 DEF Emit, Drop, Kill
<1>2. emitted[x] = 0 /\ x \notin lost
  <2>1. Carried(x) /\ InOnePlace(x)
    BY <1>1 DEF Carried, Placed
  <2> QED BY <2>1 DEF InOnePlace
<1>3. Hands[c] = {x} /\ Hands[c] \cap (Printed \cup (lost \ Pushed)) = {}
  BY <1>1, <1>2 DEF Hands, Printed
<1>4. Hands' = [Hands EXCEPT ![c] = {}]
  <2>1. \A d \in Callers \ {c} : UNCHANGED <<rpc[d], mine[d], got[d]>>
    BY DEF Emit, Drop, Kill
  <2>2. \A d \in Callers \ {c} : Holds(d)' = Holds(d)
    <3>1. CASE Drop(c)
      BY <2>1, <3>1, OthersKeepTheirs DEF Drop
    <3>2. CASE Emit(c) \/ Kill(c)
      BY <2>1, <3>2, HandAsBefore DEF Emit, Kill, dir
    <3> QED BY <3>1, <3>2
  <2>3. Holds(c)' = {}
    <3>1. rpc'[c] \in {"idle", "relist", "claim"}
      BY DEF Emit, Drop, Kill, Onward
    <3> QED BY <3>1 DEF Holds
  <2> QED BY <2>2, <2>3 DEF Hands
<1>5. UNCHANGED <<left, Naming, Stored, Earlier, Range(journal), collided>>
  <2>1. UNCHANGED <<left, drawn, accepted, older, journal, collided>>
    BY DEF Emit, Drop, Kill, dir, ingests
  <2> QED BY <2>1 DEF Naming, Stored, Earlier
<1>6. CASE Emit(c)
  <2>1. got[c] = x
    BY <1>1, <1>6 DEF Emit, Has
  <2>2. emitted' = [emitted EXCEPT ![x] = @ + 1] /\ lost' = lost
    BY <1>6, <2>1 DEF Emit
  <2>3. Printed' = Printed \cup {x}
    <3>1. \A i \in Items : emitted'[i] > 0 <=> emitted[i] > 0 \/ i = x
      BY <1>2, <2>2
    <3> QED BY <1>1, <3>1 DEF Printed
  <2>4. Queue!PrintOut(c)
    BY <1>3, <1>4, <1>5, <2>2, <2>3 DEF Queue!PrintOut
  <2> QED BY <2>4 DEF Queue!Next
<1>7. CASE Drop(c) \/ Kill(c)
  <2>1. lost' = lost \cup {x} /\ emitted' = emitted
    <3>1. CASE Kill(c)
      BY <1>1, <3>1 DEF Kill
    <3>2. CASE Drop(c)
      BY <1>1, <3>2 DEF Drop, Holds
    <3> QED BY <1>7, <3>1, <3>2
  <2>2. (lost \ Pushed)' = (lost \ Pushed) \cup {x} /\ Printed' = Printed
    BY <1>1, <2>1 DEF Printed
  <2>3. Queue!Lose(c)
    BY <1>3, <1>4, <1>5, <2>2 DEF Queue!Lose
  <2> QED BY <2>3 DEF Queue!Next
<1> QED BY <1>6, <1>7

(* agentjournal.go:23-27, 100-134: for any number of writers, drainers and items, and
   whatever fails, the journal directory is a queue to the processes that share it,
   as long as no two records were given one name. *)
THEOREM JournalIsAQueue == Spec => RefinesQueue
<1>1. Init => Queue!Init
  <2> SUFFICES ASSUME Init PROVE Queue!Init
    OBVIOUS
  <2>1. Range(journal) = {}
    BY DEF Init, JournalInit, Range
  <2>2. Hands = [c \in Callers |-> {}] /\ Printed = {}
    BY DEF Init, JournalInit, Hands, Holds, Printed
  <2> QED BY <2>1, <2>2 DEF Init, JournalInit, Queue!Init, Naming, Stored, Earlier
<1>2. IInv /\ Routed /\ Known /\ [Next]_vars => [Queue!Next]_(Queue!vars)
  <2> SUFFICES ASSUME IInv, Routed, Known, [Next]_vars PROVE [Queue!Next]_(Queue!vars)
    OBVIOUS
  <2>1. CASE collided'
    BY <2>1 DEF Queue!Next, Queue!NothingPromised
  <2>2. CASE ~collided'
    <3>1. ~collided
      BY <2>2, CollisionsStay
    <3>2. CASE UNCHANGED vars
      <4>1. UNCHANGED <<left, drawn, journal, collided, accepted, older, emitted, lost, taken, rpc, mine, got>>
        BY <3>2 DEF vars, journalVars, dir, ingests, callers, history
      <4>2. \A c \in Callers : Holds(c)' = Holds(c)
        BY <4>1 DEF Holds
      <4> QED BY <4>1, <4>2, StutterWhen DEF Stored, Earlier, Printed
    <3> QED BY <2>2, <3>1, <3>2, KnownKept, DrainStutters, DaemonStutters, IngestPuts, ClaimTakes, LetGoEnds
            DEF Next, Ingest, Recv, Drain, Fault, Vanished, Unreadable
  <2> QED BY <2>1, <2>2
<1> QED BY <1>1, <1>2, Invariance, AlwaysRouted, AlwaysKnown, PTL DEF Spec, RefinesQueue, Queue!Spec
=============================================================================
