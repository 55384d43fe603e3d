---------------------------- MODULE HttpClipProofs ----------------------------
(***************************************************************************)
(* The safety of POST /clip for every set of requests and every push they  *)
(* may bring.  IInv adds to TypeOK that the slot is with a request that    *)
(* passed every gate, that nothing is listed before the decoder starts,    *)
(* and that a temp file of a push in flight is either on the list that its *)
(* clean-up removes or one of those no list ever names.                    *)
(***************************************************************************)
EXTENDS HttpClip, TLAPS, SequenceTheorems

TempFiles == Requests \X Nat \X Nat

(* What TypeOK says of each request's value, said of the functions. *)
Shapes ==
    /\ arrived \in [Requests -> Nat] /\ at \in [Requests -> Nat]
    /\ temps \subseteq TempFiles
    /\ listed \in [Requests -> SUBSET TempFiles]

(* Whoever holds the slot got past the gates, which do not change their mind. *)
HolderPassed ==
    /\ slot \in Requests \cup {Free}
    /\ \A r \in Requests : Holding(r) => Gate(r) = 0

(* tmpFiles is empty until the decoder starts. *)
NothingListedYet == \A r \in Requests : pc[r] \in {"new", "gates"} => listed[r] = {}

(* A payload whose path was overwritten by a later bytesB64 key. *)
Forgotten(f) == f[3] < Items(f[1])[f[2]].keys

(* What a push in flight has on disk is what its clean-up is going to remove. *)
TempsAreListed ==
    \A f \in temps :
        \/ pc[f[1]] \in {"decode", "cleanup"} /\ f \in listed[f[1]]
        \/ pc[f[1]] = "cut"
        \/ Forgotten(f)

(* The inductive invariant. *)
IInv ==
    /\ TypeOK
    /\ Shapes
    /\ HolderPassed
    /\ NothingListedYet
    /\ TempsAreListed

------------------------------------------------------------------------------
(* What the assumption on Pushes gives a request. *)
LEMMA ItemsAreSequences ==
    ASSUME push \in [Requests -> Pushes], NEW r \in Requests
    PROVE  /\ Items(r) \in Seq([text : BOOLEAN, good : BOOLEAN, keys : Nat])
           /\ Len(Items(r)) \in Nat
           /\ \A i \in 1 .. Len(Items(r)) : Items(r)[i].keys \in Nat
<1>1. Items(r) \in Seq([text : BOOLEAN, good : BOOLEAN, keys : Nat])
  BY ClipAssumption DEF Items
<1>2. \A i \in 1 .. Len(Items(r)) : Items(r)[i] \in [text : BOOLEAN, good : BOOLEAN, keys : Nat]
  BY <1>1, ElementOfSeq
<1> QED BY <1>1, <1>2, LenProperties

(* A freshly started daemon satisfies the invariant. *)
LEMMA InitInv == Init => IInv
<1> SUFFICES ASSUME Init PROVE IInv
  OBVIOUS
<1>1. \A r \in Requests : Len(Items(r)) \in Nat
  BY ItemsAreSequences DEF Init
<1>2. TypeOK
  BY <1>1, ClipAssumption DEF Init, TypeOK, PCs, Statuses, Holding
<1> QED
  BY <1>2 DEF Init, IInv, Shapes, HolderPassed, NothingListedYet, TempsAreListed, Holding

(* The gates of a request are a matter of the daemon's listener and of what the
   request is: whatever leaves both alone leaves the gates alone. *)
LEMMA GatesStay ==
    ASSUME UNCHANGED <<listen, push>>, NEW r \in Requests
    PROVE  /\ Gate(r)' = Gate(r)
           /\ Items(r)' = Items(r)
BY DEF Gate, ClassAllowed, Items

(* A client that sends, or goes. *)
LEMMA ClientStep ==
    ASSUME IInv, NEW r \in Requests, Send(r) \/ Break(r)
    PROVE  IInv'
<1>1. \A o \in Requests : Gate(o)' = Gate(o) /\ Items(o)' = Items(o) /\ Len(Items(o)) \in Nat
  BY GatesStay, ItemsAreSequences DEF Send, Break, IInv, TypeOK
<1>a. \A o \in Requests : arrived'[o] \in 0 .. Len(Items(o))
  <2>1. arrived \in [Requests -> Nat] /\ \A o \in Requests : arrived[o] \in 0 .. Len(Items(o))
    BY DEF IInv, TypeOK, Shapes
  <2>2. CASE Send(r)
    <3>1. arrived' = [arrived EXCEPT ![r] = @ + 1] /\ arrived[r] < Len(Items(r))
      BY <2>2 DEF Send
    <3> QED BY <1>1, <2>1, <3>1
  <2>3. CASE Break(r)
    BY <2>1, <2>3 DEF Break
  <2> QED BY <2>2, <2>3
<1>2. TypeOK'
  BY <1>a, <1>1 DEF IInv, TypeOK, Send, Break, Holding
<1>3. Shapes'
  BY DEF IInv, Shapes, Send, Break
<1>4. HolderPassed' /\ NothingListedYet'
  BY <1>1 DEF IInv, HolderPassed, NothingListedYet, Holding, Send, Break
<1>5. TempsAreListed'
  BY DEF IInv, TempsAreListed, Forgotten, Items, Send, Break
<1> QED BY <1>2, <1>3, <1>4, <1>5 DEF IInv

(* A request comes in, or is refused before it gets the slot. *)
LEMMA GateStep ==
    ASSUME IInv, NEW r \in Requests, Accept(r) \/ Refuse(r) \/ Busy(r)
    PROVE  IInv'
<1>1. \A o \in Requests : Gate(o)' = Gate(o) /\ Items(o)' = Items(o)
  BY GatesStay DEF Accept, Refuse, Busy, Answer, IInv, TypeOK
<1>2. /\ pc \in [Requests -> PCs] /\ status \in [Requests -> Statuses]
      /\ pc[r] \in {"new", "gates"}
      /\ \/ pc' = [pc EXCEPT ![r] = "gates"] /\ pc[r] = "new"
         \/ pc' = [pc EXCEPT ![r] = "done"]
      /\ UNCHANGED <<listen, daemon, stops, push, arrived, gone, at, slot, temps, listed>>
  BY DEF Accept, Refuse, Busy, Answer, IInv, TypeOK
<1>3. pc' \in [Requests -> PCs] /\ status' \in [Requests -> Statuses]
  BY <1>2 DEF Accept, Refuse, Busy, Answer, Gate, PCs, Statuses
<1>4. \A o \in Requests :
         /\ Holding(o)' = Holding(o)
         /\ pc'[o] \in {"decode", "cleanup", "cut"} <=> pc[o] \in {"decode", "cleanup", "cut"}
         /\ pc'[o] \in {"decode", "cleanup", "cut"} => pc'[o] = pc[o]
         /\ pc'[o] \in {"new", "gates"} => pc[o] \in {"new", "gates"}
  BY <1>2 DEF Holding
<1>5. TypeOK'
  BY <1>1, <1>2, <1>3, <1>4 DEF IInv, TypeOK
<1>6. Shapes' /\ HolderPassed' /\ NothingListedYet'
  BY <1>1, <1>2, <1>4 DEF IInv, Shapes, HolderPassed, NothingListedYet
<1>7. TempsAreListed'
  <2>1. \A f \in temps : f[1] \in Requests
    BY DEF IInv, Shapes, TempFiles
  <2> QED BY <1>1, <1>2, <1>4, <2>1 DEF IInv, TempsAreListed, Forgotten
<1> QED BY <1>5, <1>6, <1>7 DEF IInv

(* A request takes the slot: it holds it alone, and has listed nothing. *)
LEMMA AcquireStep ==
    ASSUME IInv, NEW r \in Requests, Acquire(r)
    PROVE  IInv'
<1>1. \A o \in Requests : Gate(o)' = Gate(o) /\ Items(o)' = Items(o)
  BY GatesStay DEF Acquire
<1>2. /\ pc \in [Requests -> PCs] /\ pc[r] = "gates" /\ Gate(r) = 0
      /\ pc' = [pc EXCEPT ![r] = "decode"]
      /\ slot = Free /\ slot' = r
      /\ UNCHANGED <<listen, daemon, stops, push, arrived, gone, at, temps, listed, status>>
  BY DEF Acquire, Taken, IInv, TypeOK
<1>3. \A o \in Requests : ~Holding(o) /\ (Holding(o)' <=> o = r) /\ (o # r => pc'[o] = pc[o])
  BY <1>2, ClipAssumption DEF IInv, TypeOK, Holding
<1>4. TypeOK'
  BY <1>1, <1>2, <1>3 DEF IInv, TypeOK, NothingListedYet, PCs
<1>5. Shapes' /\ HolderPassed' /\ NothingListedYet'
  BY <1>1, <1>2, <1>3 DEF IInv, Shapes, HolderPassed, NothingListedYet
<1>6. TempsAreListed'
  <2>1. \A f \in temps : f[1] \in Requests
    BY DEF IInv, Shapes, TempFiles
  <2> QED BY <1>1, <1>2, <1>3, <2>1 DEF IInv, TempsAreListed, Forgotten
<1> QED BY <1>4, <1>5, <1>6 DEF IInv

(* The decoder has gone through an item: all of its temp files but the last are
   forgotten, the last is listed. *)
LEMMA DecodeItemStep ==
    ASSUME IInv, NEW r \in Requests, DecodeItem(r)
    PROVE  IInv'
<1>1. \A o \in Requests : /\ Gate(o)' = Gate(o) /\ Items(o)' = Items(o)
                          /\ Len(Items(o)) \in Nat
  BY GatesStay, ItemsAreSequences DEF DecodeItem, IInv, TypeOK
<1>2. /\ pc[r] = "decode" /\ at[r] <= arrived[r] /\ at[r] \in Nat
      /\ arrived[r] \in 0 .. Len(Items(r))
      /\ at[r] \in 1 .. Len(Items(r)) + 1
      /\ at \in [Requests -> Nat]
      /\ listed \in [Requests -> SUBSET TempFiles] /\ temps \subseteq TempFiles
      /\ at' = [at EXCEPT ![r] = @ + 1]
      /\ temps' = temps \cup TempsOf(r, Keys(r))
      /\ listed' = [listed EXCEPT ![r] = @ \cup LastTemp(r, Keys(r))]
      /\ UNCHANGED <<listen, daemon, stops, push, arrived, gone, pc, slot, status>>
  BY DEF DecodeItem, IInv, TypeOK, Shapes
<1>3. Keys(r) \in Nat /\ Keys(r) = Items(r)[at[r]].keys
  BY <1>2, ItemsAreSequences DEF Keys, IInv, TypeOK
<1>4. /\ TempsOf(r, Keys(r)) \subseteq TempFiles
      /\ LastTemp(r, Keys(r)) \subseteq TempsOf(r, Keys(r))
  BY <1>2, <1>3 DEF TempsOf, LastTemp, TempFiles
<1>5. ASSUME NEW f \in TempsOf(r, Keys(r))
      PROVE  f[1] = r /\ (f \in LastTemp(r, Keys(r)) \/ Forgotten(f))
  BY <1>3 DEF TempsOf, LastTemp, Forgotten
<1>6. Shapes'
  BY <1>2, <1>4 DEF IInv, Shapes
<1>7. TypeOK'
  <2>1. \A o \in Requests : at'[o] \in 1 .. Len(Items(o)) + 1
    BY <1>1, <1>2 DEF IInv, TypeOK
  <2>2. \A o \in Requests : listed'[o] \subseteq temps' \/ pc[o] \notin {"decode", "cleanup"}
    BY <1>2, <1>4 DEF IInv, TypeOK
  <2> QED BY <1>1, <1>2, <2>1, <2>2 DEF IInv, TypeOK, Holding
<1>8. HolderPassed' /\ NothingListedYet'
  BY <1>1, <1>2 DEF IInv, HolderPassed, NothingListedYet, Holding
<1>9. TempsAreListed'
  <2>1. \A f \in temps : f[1] \in Requests
    BY <1>2 DEF TempFiles
  <2> QED BY <1>1, <1>2, <1>5, <2>1 DEF IInv, TempsAreListed, Forgotten
<1> QED BY <1>6, <1>7, <1>8, <1>9 DEF IInv

(* An item fails: its last temp file, and nothing else of it, is to be removed. *)
LEMMA DecodeFailsStep ==
    ASSUME IInv, NEW r \in Requests, DecodeFails(r)
    PROVE  IInv'
<1>1. \A o \in Requests : Gate(o)' = Gate(o) /\ Items(o)' = Items(o)
  BY GatesStay DEF DecodeFails
<1>2. /\ pc[r] = "decode" /\ at[r] \in Nat /\ at[r] \in 1 .. Len(Items(r))
      /\ pc \in [Requests -> PCs] /\ status \in [Requests -> Statuses]
      /\ listed \in [Requests -> SUBSET TempFiles] /\ temps \subseteq TempFiles
      /\ pc' = [pc EXCEPT ![r] = "cleanup"]
      /\ UNCHANGED <<listen, daemon, stops, push, arrived, gone, at, slot>>
  <2>1. Len(Items(r)) \in Nat
    BY ItemsAreSequences DEF IInv, TypeOK
  <2> QED BY <2>1 DEF DecodeFails, Unwind, IInv, TypeOK, Shapes
<1>3. Keys(r) \in Nat /\ Keys(r) = Items(r)[at[r]].keys
  BY <1>2, ItemsAreSequences DEF Keys, IInv, TypeOK
<1>4. PICK n \in 0 .. Keys(r) :
         /\ temps' = temps \cup TempsOf(r, n)
         /\ \/ listed' = [listed EXCEPT ![r] = listed[r] \cup LastTemp(r, n)]
            \/ n < Keys(r) /\ listed' = listed
  BY DEF DecodeFails, ListedToo
<1>5. /\ TempsOf(r, n) \subseteq TempFiles
      /\ LastTemp(r, n) \subseteq TempsOf(r, n)
  BY <1>2, <1>3 DEF TempsOf, LastTemp, TempFiles
<1>6. /\ listed' \in [Requests -> SUBSET TempFiles]
      /\ \A o \in Requests : listed[o] \subseteq listed'[o] /\ (o # r => listed'[o] = listed[o])
      /\ listed'[r] \subseteq listed[r] \cup TempsOf(r, n)
  BY <1>2, <1>4, <1>5
<1>7. ASSUME NEW f \in TempsOf(r, n)
      PROVE  f[1] = r /\ (f \in listed'[r] \/ Forgotten(f))
  <2>1. PICK k \in 1 .. n : f = <<r, at[r], k>>
    BY DEF TempsOf
  <2>2. f[1] = r /\ f[2] = at[r] /\ f[3] = k
    BY <2>1
  <2>3. CASE k < Keys(r)
    BY <1>3, <2>2, <2>3 DEF Forgotten
  <2>4. CASE ~(k < Keys(r))
    <3>1. n = Keys(r) /\ k = n
      BY <1>3, <2>4
    <3>2. f \in LastTemp(r, n)
      BY <2>1, <3>1 DEF LastTemp
    <3>3. listed' = [listed EXCEPT ![r] = listed[r] \cup LastTemp(r, n)]
      BY <1>3, <1>4, <3>1
    <3> QED BY <1>2, <2>2, <3>2, <3>3
  <2> QED BY <2>3, <2>4
<1>8. Shapes'
  BY <1>2, <1>4, <1>5, <1>6 DEF IInv, Shapes
<1>9. \A o \in Requests :
         /\ Holding(o)' = Holding(o)
         /\ pc'[o] \in {"decode", "cleanup"} <=> pc[o] \in {"decode", "cleanup"}
         /\ pc'[o] = "cut" <=> pc[o] = "cut"
         /\ pc'[o] \in {"new", "gates"} => pc[o] \in {"new", "gates"} /\ o # r
  BY <1>2 DEF Holding
<1>10. TypeOK'
  <2>1. pc' \in [Requests -> PCs] /\ status' \in [Requests -> Statuses]
    BY <1>2 DEF DecodeFails, Unwind, PCs, Statuses
  <2>2. \A o \in Requests : listed'[o] \subseteq temps' \/ pc'[o] \notin {"decode", "cleanup"}
    BY <1>2, <1>4, <1>6, <1>9 DEF IInv, TypeOK
  <2> QED BY <1>1, <1>2, <1>9, <2>1, <2>2 DEF IInv, TypeOK
<1>11. HolderPassed' /\ NothingListedYet'
  BY <1>1, <1>2, <1>6, <1>9 DEF IInv, HolderPassed, NothingListedYet
<1>12. TempsAreListed'
  <2>1. \A f \in temps : f[1] \in Requests
    BY <1>2 DEF TempFiles
  <2> QED BY <1>1, <1>2, <1>4, <1>6, <1>7, <1>9, <2>1 DEF IInv, TempsAreListed, Forgotten
<1> QED BY <1>8, <1>10, <1>11, <1>12 DEF IInv

(* The decoder or Ingest has its verdict on the whole envelope. *)
LEMMA VerdictStep ==
    ASSUME IInv, NEW r \in Requests, TailFails(r) \/ Unsupported(r) \/ Ingested(r)
    PROVE  IInv'
<1>1. \A o \in Requests : Gate(o)' = Gate(o) /\ Items(o)' = Items(o)
  BY GatesStay DEF TailFails, Unsupported, Ingested
<1>2. /\ pc \in [Requests -> PCs] /\ pc[r] = "decode" /\ pc' = [pc EXCEPT ![r] = "cleanup"]
      /\ status \in [Requests -> Statuses]
      /\ \E code \in Statuses : status' = [status EXCEPT ![r] = code]
      /\ UNCHANGED <<listen, daemon, stops, push, arrived, gone, at, slot, temps, listed>>
  BY DEF TailFails, Unsupported, Ingested, Unwind, Statuses, IInv, TypeOK
<1>3. pc' \in [Requests -> PCs] /\ status' \in [Requests -> Statuses]
  BY <1>2 DEF PCs
<1>4. \A o \in Requests :
         /\ Holding(o)' = Holding(o)
         /\ pc'[o] \in {"decode", "cleanup"} <=> pc[o] \in {"decode", "cleanup"}
         /\ pc'[o] = "cut" <=> pc[o] = "cut"
         /\ pc'[o] \in {"new", "gates"} => pc[o] \in {"new", "gates"}
  BY <1>2 DEF Holding
<1>5. TypeOK' /\ Shapes'
  BY <1>1, <1>2, <1>3, <1>4 DEF IInv, TypeOK, Shapes
<1>6. HolderPassed' /\ NothingListedYet'
  BY <1>1, <1>2, <1>4 DEF IInv, HolderPassed, NothingListedYet
<1>7. TempsAreListed'
  <2>1. \A f \in temps : f[1] \in Requests
    BY DEF IInv, Shapes, TempFiles
  <2> QED BY <1>1, <1>2, <1>4, <2>1 DEF IInv, TempsAreListed, Forgotten
<1> QED BY <1>5, <1>6, <1>7 DEF IInv

(* What a push removes is its own: no other request holds the slot meanwhile. *)
LEMMA CleanupStep ==
    ASSUME IInv, NEW r \in Requests, Cleanup(r)
    PROVE  IInv'
<1>1. \A o \in Requests : Gate(o)' = Gate(o) /\ Items(o)' = Items(o)
  BY GatesStay DEF Cleanup
<1>2. /\ pc \in [Requests -> PCs] /\ pc[r] = "cleanup"
      /\ pc' = [pc EXCEPT ![r] = "respond"]
      /\ temps' = temps \ listed[r]
      /\ UNCHANGED <<listen, daemon, stops, push, arrived, gone, at, slot, listed, status>>
  BY DEF Cleanup, IInv, TypeOK
<1>3. pc' \in [Requests -> PCs]
  BY <1>2 DEF PCs
<1>4. \A o \in Requests :
         /\ Holding(o)' = Holding(o)
         /\ o # r => ~Holding(o) /\ pc'[o] = pc[o]
         /\ pc'[o] \in {"new", "gates"} => pc[o] \in {"new", "gates"}
  BY <1>2 DEF Holding, IInv, TypeOK
<1>5. TypeOK'
  <2>1. \A o \in Requests : pc'[o] \notin {"decode", "cleanup"}
    BY <1>2, <1>4 DEF Holding
  <2> QED BY <1>1, <1>2, <1>3, <1>4, <2>1 DEF IInv, TypeOK
<1>6. Shapes' /\ HolderPassed' /\ NothingListedYet'
  BY <1>1, <1>2, <1>4 DEF IInv, Shapes, HolderPassed, NothingListedYet
<1>7. TempsAreListed'
  <2>1. \A f \in temps : f[1] \in Requests
    BY DEF IInv, Shapes, TempFiles
  <2> QED BY <1>1, <1>2, <1>4, <2>1 DEF IInv, TempsAreListed, Forgotten, Holding
<1> QED BY <1>5, <1>6, <1>7 DEF IInv

(* The response goes out; then the slot is free again. *)
LEMMA ReleaseStep ==
    ASSUME IInv, NEW r \in Requests, Respond(r) \/ Release(r)
    PROVE  IInv'
<1>1. \A o \in Requests : Gate(o)' = Gate(o) /\ Items(o)' = Items(o)
  BY GatesStay DEF Respond, Release
<1>2. /\ pc \in [Requests -> PCs] /\ Holding(r) /\ slot = r
      /\ \/ pc[r] = "respond" /\ pc' = [pc EXCEPT ![r] = "release"] /\ slot' = slot
         \/ pc[r] = "release" /\ pc' = [pc EXCEPT ![r] = "done"] /\ slot' = Free
      /\ UNCHANGED <<listen, daemon, stops, push, arrived, gone, at, temps, listed, status>>
  BY DEF Respond, Release, Released, Holding, IInv, TypeOK
<1>3. pc' \in [Requests -> PCs]
  BY <1>2 DEF PCs
<1>4. \A o \in Requests :
         /\ Holding(o)' => Holding(o)
         /\ Holding(o)' <=> slot' = o
         /\ o # r => pc'[o] = pc[o]
         /\ pc'[o] \in {"decode", "cleanup"} <=> pc[o] \in {"decode", "cleanup"}
         /\ pc'[o] = "cut" <=> pc[o] = "cut"
         /\ pc'[o] \in {"new", "gates"} => pc[o] \in {"new", "gates"}
  BY <1>2, ClipAssumption DEF Holding, IInv, TypeOK
<1>5. TypeOK' /\ Shapes'
  BY <1>1, <1>2, <1>3, <1>4 DEF IInv, TypeOK, Shapes
<1>6. HolderPassed' /\ NothingListedYet'
  BY <1>1, <1>2, <1>4 DEF IInv, HolderPassed, NothingListedYet
<1>7. TempsAreListed'
  <2>1. \A f \in temps : f[1] \in Requests
    BY DEF IInv, Shapes, TempFiles
  <2> QED BY <1>1, <1>2, <1>4, <2>1 DEF IInv, TempsAreListed, Forgotten
<1> QED BY <1>5, <1>6, <1>7 DEF IInv

(* The daemon is told to stop, or started again. *)
LEMMA DaemonStep ==
    ASSUME IInv, Signal \/ Start
    PROVE  IInv'
<1>1. \A o \in Requests : Gate(o)' = Gate(o) /\ Items(o)' = Items(o)
  BY GatesStay DEF Signal, Start
<1>2. TypeOK'
  BY <1>1, ClipAssumption DEF Signal, Start, IInv, TypeOK, Holding
<1>3. Shapes' /\ HolderPassed' /\ NothingListedYet'
  BY <1>1 DEF Signal, Start, IInv, Shapes, HolderPassed, NothingListedYet, Holding
<1>4. TempsAreListed'
  BY DEF Signal, Start, IInv, TempsAreListed, Forgotten, Items
<1> QED BY <1>2, <1>3, <1>4 DEF IInv

(* The process ends: every push in flight is cut, and the slot went with it. *)
LEMMA ExitStep ==
    ASSUME IInv, Exit
    PROVE  IInv'
<1>1. \A o \in Requests : Gate(o)' = Gate(o) /\ Items(o)' = Items(o)
  BY GatesStay DEF Exit
<1>2. \A o \in Requests :
         /\ pc'[o] = IF InFlight(o) THEN "cut" ELSE pc[o]
         /\ ~Holding(o)'
         /\ pc[o] \in {"decode", "cleanup", "cut"} => pc'[o] = "cut"
         /\ pc'[o] \notin {"decode", "cleanup"}
         /\ pc'[o] \in {"new", "gates"} => pc[o] = "new"
  BY DEF Exit, InFlight, Holding
<1>3. pc' \in [Requests -> PCs]
  BY DEF Exit, IInv, TypeOK, PCs
<1>4. TypeOK'
  BY <1>1, <1>2, <1>3, ClipAssumption DEF Exit, IInv, TypeOK
<1>5. Shapes' /\ HolderPassed' /\ NothingListedYet'
  BY <1>1, <1>2 DEF Exit, IInv, Shapes, HolderPassed, NothingListedYet
<1>6. TempsAreListed'
  <2>1. \A f \in temps : f[1] \in Requests
    BY DEF IInv, Shapes, TempFiles
  <2> QED BY <1>1, <1>2, <2>1 DEF Exit, IInv, TempsAreListed, Forgotten
<1> QED BY <1>4, <1>5, <1>6 DEF IInv

------------------------------------------------------------------------------
(* Every step keeps the inductive invariant. *)
LEMMA StepInv == IInv /\ [Next]_vars => IInv'
<1> SUFFICES ASSUME IInv, [Next]_vars PROVE IInv'
  OBVIOUS
<1>1. ASSUME NEW r \in Requests, Accept(r) \/ Handle(r) \/ Send(r) \/ Break(r)
      PROVE  IInv'
  BY <1>1, GateStep, AcquireStep, DecodeItemStep, DecodeFailsStep, VerdictStep, CleanupStep,
     ReleaseStep, ClientStep DEF Handle
<1>2. CASE UNCHANGED vars
  BY <1>2 DEF vars, IInv, TypeOK, Shapes, HolderPassed, NothingListedYet, TempsAreListed,
     Forgotten, Items, Holding, Gate, ClassAllowed
<1> QED BY <1>1, <1>2, DaemonStep, ExitStep DEF Next, Finished

(* The inductive invariant holds in every state. *)
LEMMA IsInvariant == Spec => []IInv
BY InitInv, StepInv, PTL DEF Spec

(* clip.go, singleflight.go: the slot is with the one request between its
   tryAcquire and its deferred release, for any number of requests. *)
THEOREM TypeCorrect == Spec => []TypeOK
<1>1. IInv => TypeOK
  BY DEF IInv
<1> QED BY IsInvariant, <1>1, PTL

(* clip.go:95-100: however many requests there are and however their pushes end,
   the temp files are those of the push that holds the slot, what a killed daemon
   left, and the payloads whose path a repeated key overwrote. *)
THEOREM TempFilesAreOwned == Spec => []TempsAreOwned
<1>1. IInv => TempsAreOwned
  <2> SUFFICES ASSUME IInv, NEW f \in temps
               PROVE  \/ pc[f[1]] \in {"decode", "cleanup"} /\ slot = f[1]
                      \/ pc[f[1]] = "cut"
                      \/ f[3] < Items(f[1])[f[2]].keys
    BY DEF TempsAreOwned
  <2>1. f[1] \in Requests
    BY DEF IInv, Shapes, TempFiles
  <2> QED BY <2>1 DEF IInv, TypeOK, TempsAreListed, Forgotten, Holding
<1> QED BY IsInvariant, <1>1, PTL

(* clip.go:62-63, "single-flight is taken LAST": a 503 is only ever due to another
   request that has passed every gate and is in flight. *)
THEOREM BusyIsDeserved == Spec => BusyTellsOfAPush
<1>1. IInv /\ [Next]_vars => [\A r \in Requests : status[r] = 0 /\ status'[r] = 503 =>
                                \E o \in Requests \ {r} : Holding(o) /\ Gate(o) = 0]_vars
  <2> SUFFICES ASSUME IInv, Next, NEW r \in Requests, status[r] = 0, status'[r] = 503
               PROVE  \E o \in Requests \ {r} : Holding(o) /\ Gate(o) = 0
    BY DEF vars
  <2>1. status \in [Requests -> Statuses]
    BY DEF IInv, TypeOK
  <2>2. Busy(r)
    <3>2. status' # status
      OBVIOUS
    <3>0. PICK q \in Requests : Accept(q) \/ Handle(q) \/ Send(q) \/ Break(q)
      BY <3>2 DEF Next, Signal, Exit, Start, Finished, vars
    <3>1. Handle(q)
      BY <3>0, <3>2 DEF Accept, Send, Break
    <3>3. CASE Refuse(q)
      BY <2>1, <3>3 DEF Refuse, Answer, Gate
    <3>4. CASE Busy(q)
      <4>1. q = r
        BY <2>1, <3>4 DEF Busy, Answer
      <4> QED BY <3>4, <4>1
    <3>5. CASE DecodeFails(q) \/ TailFails(q) \/ Unsupported(q) \/ Ingested(q)
      BY <2>1, <3>5 DEF DecodeFails, TailFails, Unsupported, Ingested, Unwind
    <3>6. CASE Acquire(q) \/ DecodeItem(q) \/ Cleanup(q) \/ Respond(q) \/ Release(q)
      BY <3>2, <3>6 DEF Acquire, DecodeItem, Cleanup, Respond, Release
    <3> QED BY <3>1, <3>3, <3>4, <3>5, <3>6 DEF Handle
  <2>3. slot \in Requests /\ Holding(slot) /\ Gate(slot) = 0 /\ ~Holding(r)
    BY <2>2 DEF Busy, Taken, IInv, TypeOK, HolderPassed, Holding
  <2> QED BY <2>3
<1> QED BY IsInvariant, <1>1, PTL DEF Spec, BusyTellsOfAPush

(* ceiling.go:16-18, the multiplication first: a payload within the cap is never refused
   for the bytes that its base64 adds, and leaves the envelope around it 64 KiB but four
   bytes, whatever the cap. *)
THEOREM PayloadsFit ==
    ASSUME NEW m \in Nat, NEW n \in 0 .. m
    PROVE  Encoded(n) + (64 * 1024 - 4) <= HardCeiling(m)
BY DEF Encoded, HardCeiling
=============================================================================
