-------------------------- MODULE ClipChannelProofs --------------------------
(***************************************************************************)
(* The safety of the clipboard channel for any number of savers, ingest    *)
(* processes, wait calls and restarts, and any ring size.  The inductive   *)
(* invariant has three parts: Served, about the wait calls and who has     *)
(* them in hand; InStep, about the last path in memory and on disk; and    *)
(* Ring, about recents.json.  A call that some resume has taken is in its  *)
(* hands alone because a listed call has never been taken: that one        *)
(* history, taker, carries SendNeverBlocks.                                *)
(***************************************************************************)
EXTENDS ClipChannel, SequenceLemmas, FiniteSetTheorems, TLAPS

(* What TypeOK says of each saver's locals, said of the functions. *)
Shapes ==
    /\ seen \in [Savers -> Seq(Paths)]
    /\ parked \in [Savers -> Seq(Waiters)]

OnceIn(list) == \A i, j \in DOMAIN list : list[i] = list[j] => i = j

Served ==
    /\ OnceIn(waiters) /\ \A s \in Savers : OnceIn(parked[s])
    /\ \A w \in Waiters :
          /\ wpc[w] = "idle" \/ Listed(w) => taker[w] = {} /\ ch[w] = NoPath
          /\ \A s \in Savers : TakenBy(s, w) => s \in taker[w] /\ ch[w] = NoPath
          /\ \A s, t \in taker[w] : s = t
          /\ \A p \in {ch[w], answer[w]} \ {NoPath} :
                p \in written /\ \E s \in taker[w] : p = Last(Saved[s])
    /\ \A s \in Savers :
          /\ spc[s] \in {"read", "write", "take", "send"} => Last(Saved[s]) \in written
          /\ spc[s] = "send" => parked[s] # <<>>
          /\ s \in Ingests => spc[s] \notin {"take", "send"}

(* Unless memory and disk were set apart, at most one saver is between the two, and
   it is about to bring the disk in step. *)
InStep ==
    /\ LastPathSettles
    /\ ~apart =>
          /\ \A s \in Savers : spc[s] = "persist" => s \notin Ingests /\ lastPath = Last(Saved[s])
          /\ \A s, t \in Savers : spc[s] = "persist" /\ spc[t] = "persist" => s = t

(* The paths of a ring were appended in its order, ... *)
FromLog(ring, all) ==
    /\ \A i \in DOMAIN ring : \E m \in DOMAIN all : all[m] = ring[i]
    /\ \A i, j \in DOMAIN ring : i < j =>
          \E m, n \in DOMAIN all : m < n /\ all[m] = ring[i] /\ all[n] = ring[j]

(* ... and it is the end of what was. *)
EndOf(ring, all) ==
    /\ Len(ring) = IF Len(all) < RecentsCap THEN Len(all) ELSE RecentsCap
    /\ \A i \in 1 .. Len(ring) : ring[i] = all[Len(all) - Len(ring) + i]

Ring ==
    /\ FromLog(recents, log) /\ \A s \in Savers : FromLog(seen[s], log)
    /\ ~rewound =>
          /\ EndOf(recents, log)
          /\ \A s \in Savers : spc[s] = "write" => seen[s] = recents
          /\ \A s, t \in Savers : spc[s] = "write" /\ spc[t] = "write" => s = t

(* The inductive invariant. *)
IInv ==
    /\ TypeOK
    /\ Shapes
    /\ Served
    /\ InStep
    /\ Ring

------------------------------------------------------------------------------
(* A saver's last path is a path. *)
LEMMA LastIsAPath ==
    ASSUME NEW s \in Savers
    PROVE  /\ Last(Saved[s]) \in Paths /\ Last(Saved[s]) # NoPath
           /\ Saved[s] \in Seq(Paths) /\ Len(Saved[s]) > 0
<1>1. Saved[s] \in Seq(Paths) /\ Saved[s] # <<>>
  BY ClipAssumption
<1>2. Len(Saved[s]) \in 1 .. Len(Saved[s])
  BY <1>1
<1> QED BY <1>1, <1>2, ElementOfSeq, ClipAssumption DEF Last

(* The ring that appendRecents writes. *)
LEMMA KeptRing ==
    ASSUME NEW ring \in Seq(Paths), NEW paths \in Seq(Paths)
    PROVE  /\ Kept(ring, paths) \in Seq(Paths)
           /\ Len(Kept(ring, paths)) = IF Len(ring \o paths) > RecentsCap
                                       THEN RecentsCap ELSE Len(ring \o paths)
           /\ \A i \in 1 .. Len(Kept(ring, paths)) :
                 Kept(ring, paths)[i] =
                    (ring \o paths)[Len(ring \o paths) - Len(Kept(ring, paths)) + i]
<1> DEFINE all == ring \o paths
<1>1. all \in Seq(Paths) /\ Len(all) \in Nat /\ RecentsCap \in Nat /\ RecentsCap > 0
  BY JoinedParts, ClipAssumption
<1>2. CASE Len(all) > RecentsCap
  <2>1. Len(all) - RecentsCap \in Nat /\ Len(all) - RecentsCap <= Len(all)
    BY <1>1, <1>2
  <2> HIDE DEF all
  <2>2. LET k == SubSeq(all, Len(all) - RecentsCap + 1, Len(all))
        IN  /\ k \in Seq(Paths) /\ Len(k) = RecentsCap
            /\ \A i \in 1 .. RecentsCap : k[i] = all[Len(all) - RecentsCap + i]
    <3>1. Len(all) - (Len(all) - RecentsCap) = RecentsCap
      BY <1>1
    <3> QED BY <1>1, <2>1, <3>1, RemovedFront
  <2>3. Kept(ring, paths) = SubSeq(all, Len(all) - RecentsCap + 1, Len(all))
    BY <1>2 DEF Kept, all
  <2> QED BY <1>2, <2>2, <2>3 DEF all
<1>3. CASE ~(Len(all) > RecentsCap)
  <2>1. Kept(ring, paths) = all
    BY <1>3 DEF Kept
  <2> HIDE DEF all
  <2>2. \A i \in 1 .. Len(all) : Len(all) - Len(all) + i = i
    BY <1>1
  <2> QED BY <1>1, <1>3, <2>1, <2>2 DEF all
<1> QED BY <1>2, <1>3

------------------------------------------------------------------------------
(* The channel begins empty, with nobody waiting. *)
LEMMA InitInv == Init => IInv
<1> SUFFICES ASSUME Init PROVE IInv
  OBVIOUS
<1>1. TypeOK /\ Shapes
  <2>1. <<>> \in Seq(Paths) /\ <<>> \in Seq(Waiters) /\ Len(<<>>) = 0 /\ DOMAIN <<>> = {}
    OBVIOUS
  <2>2. RecentsCap \in Nat /\ MaxRestarts \in Nat
    BY ClipAssumption
  <2>3. Shapes
    BY <2>1 DEF Init, Shapes
  <2>4. \A w \in Waiters : ~Listed(w)
    BY <2>1 DEF Init, Listed
  <2>5. /\ ch \in [Waiters -> Paths \cup {NoPath}] /\ answer \in [Waiters -> Paths \cup {NoPath}]
        /\ wpc \in [Waiters -> WaitPCs] /\ spc \in [Savers -> SaverPCs]
        /\ taker \in [Waiters -> SUBSET Savers]
    BY DEF Init, WaitPCs, SaverPCs
  <2>6. /\ recents \in Seq(Paths) /\ log \in Seq(Paths) /\ waiters \in Seq(Waiters)
        /\ Len(recents) <= RecentsCap
    BY <2>1, <2>2 DEF Init
  <2>7. /\ {lastPath, disk} \subseteq Paths \cup {NoPath} /\ restarts \in 0 .. MaxRestarts
        /\ written \subseteq Paths /\ \A s \in Savers : seen[s] \in Seq(Paths) /\ parked[s] \in Seq(Waiters)
    BY <2>1, <2>2 DEF Init
  <2>8. apart \in BOOLEAN /\ rewound \in BOOLEAN
    BY DEF Init
  <2> QED BY <2>3, <2>4, <2>5, <2>6, <2>7, <2>8 DEF TypeOK
<1>2. Served
  BY DEF Init, Served, OnceIn, Listed, TakenBy
<1>3. InStep
  BY DEF Init, InStep, LastPathSettles
<1>4. Ring
  BY ClipAssumption DEF Init, Ring, FromLog, EndOf
<1> QED BY <1>1, <1>2, <1>3, <1>4 DEF IInv

(* Each step of a saver keeps the types. *)
LEMMA SaverTypes ==
    ASSUME IInv, NEW s \in Savers, FinishClipboard(s)
    PROVE  TypeOK' /\ Shapes'
<1>1. Last(Saved[s]) \in Paths /\ Saved[s] \in Seq(Paths)
  BY LastIsAPath
<1>2. /\ TypeOK /\ Shapes
      /\ seen[s] \in Seq(Paths) /\ parked[s] \in Seq(Waiters)
  BY DEF IInv, Shapes
<1>3. CASE Commit(s)
  BY <1>1, <1>2, <1>3 DEF Commit, TypeOK, Shapes, SaverPCs, Listed, files, waits
<1>4. CASE Persist(s)
  BY <1>1, <1>2, <1>4 DEF Persist, FileText, TypeOK, Shapes, SaverPCs, Listed, waits
<1>5. CASE PersistFails(s)
  BY <1>1, <1>2, <1>5 DEF PersistFails, TypeOK, Shapes, SaverPCs, Listed, files, waits
<1>6. CASE ReadRecents(s)
  BY <1>2, <1>6 DEF ReadRecents, TypeOK, Shapes, SaverPCs, Listed, files, waits
<1>7. CASE WriteRecents(s)
  <2>1. Kept(seen[s], Saved[s]) \in Seq(Paths) /\ Len(Kept(seen[s], Saved[s])) <= RecentsCap
    <3>1. RecentsCap \in Nat /\ Len(seen[s] \o Saved[s]) \in Nat
      BY <1>1, <1>2, ClipAssumption
    <3> QED BY <1>1, <1>2, <3>1, KeptRing
  <2>2. log \o Saved[s] \in Seq(Paths)
    BY <1>1, <1>2 DEF TypeOK
  <2> QED BY <1>2, <1>7, <2>1, <2>2 DEF WriteRecents, TypeOK, Shapes, SaverPCs, Listed, waits
<1>8. CASE WriteRecentsFails(s)
  BY <1>2, <1>8 DEF WriteRecentsFails, TypeOK, Shapes, SaverPCs, Listed, files, waits, history
<1>9. CASE TakeParked(s)
  <2>1. taker' \in [Waiters -> SUBSET Savers]
    BY <1>2, <1>9 DEF TakeParked, TypeOK
  <2> QED BY <1>2, <1>9, <2>1 DEF TakeParked, TakenList, TypeOK, Shapes, SaverPCs, Listed, files
<1>10. CASE Send(s)
  <2>1. parked[s] # <<>>
    BY <1>10 DEF Send, IInv, Served
  <2>2. Tail(parked[s]) \in Seq(Waiters)
    BY <1>2, <2>1
  <2> QED BY <1>1, <1>2, <1>10, <2>2 DEF Send, PathSent, TypeOK, Shapes, SaverPCs, Listed, files,
                                         history
<1> QED BY <1>3, <1>4, <1>5, <1>6, <1>7, <1>8, <1>9, <1>10 DEF FinishClipboard

(* What wait's Append and remove make of the list. *)
LEMMA ListAfterPark ==
    ASSUME IInv, NEW w \in Waiters, Park(w)
    PROVE  /\ waiters' \in Seq(Waiters) /\ OnceIn(waiters')
           /\ \A o \in Waiters : Listed(o)' <=> Listed(o) \/ o = w
<1>1. /\ waiters \in Seq(Waiters) /\ OnceIn(waiters)
      /\ \A i \in DOMAIN waiters : waiters[i] # w
      /\ waiters' = Append(waiters, w)
  BY DEF Park, IInv, TypeOK, Served, Listed
<1>2. /\ waiters' \in Seq(Waiters) /\ Len(waiters') = Len(waiters) + 1 /\ Len(waiters) \in Nat
      /\ DOMAIN waiters = 1 .. Len(waiters) /\ DOMAIN waiters' = 1 .. (Len(waiters) + 1)
      /\ \A i \in 1 .. Len(waiters) : waiters'[i] = waiters[i]
      /\ waiters'[Len(waiters) + 1] = w
  BY <1>1
<1> QED BY <1>1, <1>2 DEF OnceIn, Listed

(* A call whose context ends takes itself, and only itself, off the list. *)
LEMMA ListAfterCtxDone ==
    ASSUME IInv, NEW w \in Waiters, CtxDone(w)
    PROVE  /\ waiters' \in Seq(Waiters) /\ OnceIn(waiters')
           /\ \A o \in Waiters : Listed(o)' <=> Listed(o) /\ o # w
<1>1. /\ waiters \in Seq(Waiters) /\ \A i, j \in DOMAIN waiters : waiters[i] = waiters[j] => i = j
      /\ waiters' = RemoveFirst(waiters, w)
  BY DEF CtxDone, ListWithout, IInv, TypeOK, Served, OnceIn
<1> QED BY <1>1, WithoutFirst DEF OnceIn, Listed

(* Each step of a wait call, and the restart, keep the types. *)
LEMMA WaiterTypes ==
    ASSUME IInv, NEW w \in Waiters, Park(w) \/ Wait(w)
    PROVE  TypeOK' /\ Shapes'
<1>1. TypeOK /\ Shapes
  BY DEF IInv
<1>2. CASE Park(w)
  BY <1>1, <1>2, ListAfterPark DEF Park, TypeOK, Shapes, WaitPCs, files, savers, history
<1>3. CASE CtxDone(w)
  BY <1>1, <1>3, ListAfterCtxDone DEF CtxDone, TypeOK, Shapes, WaitPCs, files, savers, history
<1>4. CASE Woken(w) \/ Drain(w)
  <2>1. ~Listed(w)
    BY <1>1, <1>4 DEF Woken, Drain, IInv, TypeOK, Served
  <2>2. /\ ch' = [ch EXCEPT ![w] = NoPath] /\ answer' = [answer EXCEPT ![w] = ch[w]]
        /\ wpc' = [wpc EXCEPT ![w] = "ended"]
        /\ UNCHANGED <<lastPath, disk, recents, waiters, spc, seen, parked, restarts,
                       taker, written, log, apart, rewound>>
    BY <1>4 DEF Woken, Drain, files, savers, history
  <2>3. \A o \in Waiters : Listed(o)' = Listed(o)
    BY <2>2 DEF Listed
  <2> QED BY <1>1, <2>1, <2>2, <2>3 DEF TypeOK, Shapes, WaitPCs
<1> QED BY <1>2, <1>3, <1>4 DEF Wait

(* A restart forgets the ring and the waiters. *)
LEMMA RestartTypes ==
    ASSUME IInv, Restart
    PROVE  TypeOK' /\ Shapes'
<1>1. TypeOK /\ Shapes /\ <<>> \in Seq(Paths) /\ <<>> \in Seq(Waiters) /\ MaxRestarts \in Nat
  BY ClipAssumption DEF IInv
<1>2. Shapes' /\ \A s \in Savers : seen'[s] \in Seq(Paths) /\ parked'[s] \in Seq(Waiters)
  BY <1>1 DEF Restart, Shapes
<1>3. /\ waiters' \in Seq(Waiters) /\ \A w \in Waiters : ~Listed(w)'
      /\ wpc' \in [Waiters -> WaitPCs] /\ spc' \in [Savers -> SaverPCs]
      /\ ch' \in [Waiters -> Paths \cup {NoPath}]
      /\ restarts' \in 0 .. MaxRestarts
      /\ {lastPath', disk'} \subseteq Paths \cup {NoPath}
  BY <1>1 DEF Restart, LoadLastPath, TypeOK, WaitPCs, SaverPCs, Listed, files
<1>4. apart' \in BOOLEAN
  BY DEF Restart
<1>5. UNCHANGED <<recents, answer, taker, written, log, rewound>>
  BY DEF Restart, files
<1> QED BY <1>1, <1>2, <1>3, <1>4, <1>5 DEF TypeOK

------------------------------------------------------------------------------
(* Commit to memory, the files, the ring: nobody who waits notices. *)
LEMMA FilesServed ==
    ASSUME IInv, NEW s \in Savers,
           \/ Commit(s) \/ Persist(s) \/ PersistFails(s)
           \/ ReadRecents(s) \/ WriteRecents(s) \/ WriteRecentsFails(s)
    PROVE  Served'
<1>1. /\ UNCHANGED <<waiters, ch, wpc, answer, parked, taker>>
      /\ written \subseteq written' /\ spc \in [Savers -> SaverPCs]
      /\ \A t \in Savers \ {s} : spc'[t] = spc[t]
      /\ spc'[s] # "send"
      /\ s \in Ingests => spc'[s] \notin {"take", "send"}
      /\ spc'[s] \in {"read", "write", "take"} =>
            spc[s] \in {"read", "write"} \/ Last(Saved[s]) \in written'
  BY DEF Commit, Persist, FileText, PersistFails, ReadRecents, WriteRecents, WriteRecentsFails,
         waits, files, history, IInv, TypeOK
<1>2. \A w \in Waiters, t \in Savers : Listed(w)' = Listed(w) /\ TakenBy(t, w)' = TakenBy(t, w)
  BY <1>1 DEF Listed, TakenBy
<1>3. spc'[s] \in {"read", "write", "take"} => Last(Saved[s]) \in written'
  BY <1>1 DEF IInv, Served
<1> QED BY <1>1, <1>2, <1>3 DEF IInv, Served

(* resume takes the list: calls that nobody had taken. *)
LEMMA TakeServed ==
    ASSUME IInv, NEW s \in Savers, TakeParked(s)
    PROVE  Served'
<1>1. /\ spc[s] = "take" /\ waiters \in Seq(Waiters)
      /\ spc \in [Savers -> SaverPCs] /\ parked \in [Savers -> Seq(Waiters)]
      /\ parked' = [parked EXCEPT ![s] = waiters] /\ waiters' = <<>>
      /\ taker' = [w \in Waiters |-> IF Listed(w) THEN taker[w] \cup {s} ELSE taker[w]]
      /\ spc' = [spc EXCEPT ![s] = IF waiters = <<>> THEN "done" ELSE "send"]
      /\ UNCHANGED <<ch, wpc, answer, written>>
  BY DEF TakeParked, TakenList, IInv, TypeOK, Shapes
<1>2. /\ OnceIn(waiters') /\ \A t \in Savers : OnceIn(parked'[t])
      /\ \A w \in Waiters : ~Listed(w)'
  BY <1>1 DEF IInv, Served, OnceIn, Listed
<1>3. \A w \in Waiters, t \in Savers : TakenBy(t, w)' <=> IF t = s THEN Listed(w) ELSE TakenBy(t, w)
  BY <1>1 DEF TakenBy, Listed
<1>4. \A w \in Waiters : taker'[w] = IF Listed(w) THEN {s} ELSE taker[w]
  BY <1>1 DEF IInv, Served
<1>5. ASSUME NEW w \in Waiters
      PROVE  /\ wpc'[w] = "idle" \/ Listed(w)' => taker'[w] = {} /\ ch'[w] = NoPath
             /\ \A t \in Savers : TakenBy(t, w)' => t \in taker'[w] /\ ch'[w] = NoPath
             /\ \A t, u \in taker'[w] : t = u
             /\ \A p \in {ch'[w], answer'[w]} \ {NoPath} :
                   p \in written' /\ \E t \in taker'[w] : p = Last(Saved[t])
  BY <1>1, <1>2, <1>3, <1>4 DEF IInv, TypeOK, Served
<1>6. ASSUME NEW t \in Savers
      PROVE  /\ spc'[t] \in {"read", "write", "take", "send"} => Last(Saved[t]) \in written'
             /\ spc'[t] = "send" => parked'[t] # <<>>
             /\ t \in Ingests => spc'[t] \notin {"take", "send"}
  BY <1>1 DEF IInv, Served
<1> QED BY <1>2, <1>5, <1>6 DEF Served

(* resume sends to a call in its hands, which is in no other's. *)
LEMMA SendServed ==
    ASSUME IInv, NEW s \in Savers, Send(s)
    PROVE  Served'
<1>0. PICK h \in Waiters : h = Head(parked[s])
  BY DEF IInv, Served, Shapes, Send
<1>1. /\ spc[s] = "send" /\ ch[h] = NoPath /\ parked[s] # <<>>
      /\ spc \in [Savers -> SaverPCs] /\ parked \in [Savers -> Seq(Waiters)]
      /\ ch \in [Waiters -> Paths \cup {NoPath}]
      /\ ch' = [ch EXCEPT ![h] = Last(Saved[s])]
      /\ parked' = [parked EXCEPT ![s] = Tail(parked[s])]
      /\ spc' = [spc EXCEPT ![s] = IF parked'[s] = <<>> THEN "done" ELSE "send"]
      /\ UNCHANGED <<waiters, wpc, answer, taker, written>>
  BY <1>0 DEF Send, PathSent, IInv, TypeOK, Shapes, Served, history
<1>2. /\ h = parked[s][1] /\ Len(parked[s]) \in Nat /\ Len(parked[s]) > 0
      /\ DOMAIN parked[s] = 1 .. Len(parked[s])
      /\ parked'[s] \in Seq(Waiters) /\ DOMAIN parked'[s] = 1 .. (Len(parked[s]) - 1)
      /\ \A i \in 1 .. (Len(parked[s]) - 1) : parked'[s][i] = parked[s][i + 1]
  BY <1>0, <1>1
<1>3. OnceIn(parked[s])
  BY DEF IInv, Served
<1>4. OnceIn(parked'[s]) /\ \A w \in Waiters : TakenBy(s, w)' <=> TakenBy(s, w) /\ w # h
  <2>1. ASSUME NEW w \in Waiters, TakenBy(s, w)'
        PROVE  TakenBy(s, w) /\ w # h
    <3>1. PICK i \in 1 .. (Len(parked[s]) - 1) : parked'[s][i] = w
      BY <1>2, <2>1 DEF TakenBy
    <3>2. i + 1 \in DOMAIN parked[s] /\ 1 \in DOMAIN parked[s] /\ i + 1 # 1
      BY <1>2
    <3>3. parked[s][i + 1] = w /\ parked[s][1] # w
      BY <1>2, <1>3, <3>1, <3>2 DEF OnceIn
    <3> QED BY <1>2, <3>2, <3>3 DEF TakenBy
  <2>2. ASSUME NEW w \in Waiters, TakenBy(s, w), w # h
        PROVE  TakenBy(s, w)'
    <3>1. PICK i \in 1 .. Len(parked[s]) : parked[s][i] = w /\ i # 1
      BY <1>2, <2>2 DEF TakenBy
    <3>2. i - 1 \in 1 .. (Len(parked[s]) - 1) /\ (i - 1) + 1 = i
      BY <1>2, <3>1
    <3> QED BY <1>2, <3>1, <3>2 DEF TakenBy
  <2>3. OnceIn(parked'[s])
    <3> SUFFICES ASSUME NEW i \in 1 .. (Len(parked[s]) - 1), NEW j \in 1 .. (Len(parked[s]) - 1),
                        parked'[s][i] = parked'[s][j]
                 PROVE  i = j
      BY <1>2 DEF OnceIn
    <3>1. i + 1 \in DOMAIN parked[s] /\ j + 1 \in DOMAIN parked[s]
      BY <1>2
    <3>2. i + 1 = j + 1
      BY <1>2, <1>3, <3>1 DEF OnceIn
    <3> QED BY <3>2
  <2> QED BY <2>1, <2>2, <2>3
<1>5. /\ TakenBy(s, h) /\ s \in taker[h] /\ ~Listed(h) /\ wpc[h] # "idle"
      /\ \A t \in Savers : TakenBy(t, h) => t = s
  <2>1. TakenBy(s, h)
    BY <1>2 DEF TakenBy
  <2> QED BY <1>2, <2>1 DEF IInv, Served
<1>6. \A t \in Savers \ {s} : /\ spc'[t] = spc[t] /\ parked'[t] = parked[t]
                             /\ \A w \in Waiters : TakenBy(t, w)' = TakenBy(t, w)
  BY <1>1 DEF TakenBy
<1>7. \A w \in Waiters : Listed(w)' = Listed(w) /\ (w # h => ch'[w] = ch[w])
  BY <1>1 DEF Listed
<1>8. ASSUME NEW w \in Waiters
      PROVE  /\ wpc'[w] = "idle" \/ Listed(w)' => taker'[w] = {} /\ ch'[w] = NoPath
             /\ \A t \in Savers : TakenBy(t, w)' => t \in taker'[w] /\ ch'[w] = NoPath
             /\ \A t, u \in taker'[w] : t = u
             /\ \A p \in {ch'[w], answer'[w]} \ {NoPath} :
                   p \in written' /\ \E t \in taker'[w] : p = Last(Saved[t])
  <2>1. /\ wpc[w] = "idle" \/ Listed(w) => taker[w] = {} /\ ch[w] = NoPath
        /\ \A t \in Savers : TakenBy(t, w) => t \in taker[w] /\ ch[w] = NoPath
        /\ \A t, u \in taker[w] : t = u
        /\ \A p \in {ch[w], answer[w]} \ {NoPath} :
              p \in written /\ \E t \in taker[w] : p = Last(Saved[t])
    BY DEF IInv, Served
  <2>2. CASE w # h
    <3>1. \A t \in Savers : TakenBy(t, w)' => TakenBy(t, w)
      BY <1>4, <1>6
    <3> QED BY <1>1, <1>7, <2>1, <2>2, <3>1
  <2>3. CASE w = h
    <3>1. ch'[h] = Last(Saved[s]) /\ Last(Saved[s]) \in written
      BY <1>1, <1>2 DEF IInv, Served
    <3>2. \A t \in Savers : ~TakenBy(t, h)'
      BY <1>4, <1>5, <1>6
    <3>3. ~Listed(h)' /\ wpc'[h] # "idle"
      BY <1>1, <1>5, <1>7
    <3> QED BY <1>1, <1>5, <2>1, <2>3, <3>1, <3>2, <3>3
  <2> QED BY <2>2, <2>3
<1>9. ASSUME NEW t \in Savers
      PROVE  /\ spc'[t] \in {"read", "write", "take", "send"} => Last(Saved[t]) \in written'
             /\ spc'[t] = "send" => parked'[t] # <<>>
             /\ t \in Ingests => spc'[t] \notin {"take", "send"}
  BY <1>1, <1>6 DEF IInv, Served
<1> QED BY <1>1, <1>4, <1>6, <1>8, <1>9 DEF IInv, Served

(* A new wait call, and one that ends: what it returns is what it was sent. *)
LEMMA WaiterServed ==
    ASSUME IInv, NEW w \in Waiters, Park(w) \/ Wait(w)
    PROVE  Served'
<1>1. /\ wpc \in [Waiters -> WaitPCs] /\ ch \in [Waiters -> Paths \cup {NoPath}]
      /\ answer \in [Waiters -> Paths \cup {NoPath}]
      /\ UNCHANGED <<spc, parked, taker, written>>
  BY DEF IInv, TypeOK, Park, Wait, Woken, CtxDone, Drain, savers, history
<1>2. \A o \in Waiters, s \in Savers : TakenBy(s, o)' = TakenBy(s, o)
  BY <1>1 DEF TakenBy
<1>3. CASE Park(w)
  <2>1. /\ wpc[w] = "idle" /\ wpc' = [wpc EXCEPT ![w] = "parked"]
        /\ UNCHANGED <<ch, answer>>
    BY <1>3 DEF Park
  <2> QED BY <1>1, <1>2, <1>3, <2>1, ListAfterPark DEF IInv, Served
<1>4. CASE CtxDone(w)
  <2>1. wpc' = [wpc EXCEPT ![w] = "unlisted"] /\ UNCHANGED <<ch, answer>>
    BY <1>4 DEF CtxDone
  <2> QED BY <1>1, <1>2, <1>4, <2>1, ListAfterCtxDone DEF IInv, Served
<1>5. CASE Woken(w) \/ Drain(w)
  <2>1. /\ ch' = [ch EXCEPT ![w] = NoPath] /\ answer' = [answer EXCEPT ![w] = ch[w]]
        /\ wpc' = [wpc EXCEPT ![w] = "ended"] /\ waiters' = waiters
    BY <1>5 DEF Woken, Drain
  <2>2. \A o \in Waiters : Listed(o)' = Listed(o)
    BY <2>1 DEF Listed
  <2> QED BY <1>1, <1>2, <2>1, <2>2 DEF IInv, Served
<1> QED BY <1>3, <1>4, <1>5 DEF Wait

(* The lists and the channels of a stopped daemon are gone; ingests go on. *)
LEMMA RestartServed ==
    ASSUME IInv, Restart
    PROVE  Served'
<1>1. /\ waiters' = <<>> /\ ch' = [w \in Waiters |-> NoPath]
      /\ wpc' = [w \in Waiters |-> IF wpc[w] = "idle" THEN "idle" ELSE "ended"]
      /\ spc' = [s \in Savers |-> IF s \in Ingests \/ spc[s] = "begin" THEN spc[s] ELSE "done"]
      /\ parked' = [s \in Savers |-> <<>>]
      /\ UNCHANGED <<answer, taker, written>>
  BY DEF Restart
<1>2. /\ \A w \in Waiters : ~Listed(w)' /\ \A s \in Savers : ~TakenBy(s, w)'
      /\ OnceIn(waiters') /\ \A s \in Savers : OnceIn(parked'[s])
  BY <1>1 DEF Listed, TakenBy, OnceIn
<1>3. \A s \in Savers : spc'[s] = spc[s] \/ spc'[s] = "done"
  BY <1>1
<1>4. \A s \in Savers : spc'[s] # "send"
  BY <1>1 DEF IInv, Served
<1>5. ASSUME NEW w \in Waiters
      PROVE  /\ wpc'[w] = "idle" \/ Listed(w)' => taker'[w] = {} /\ ch'[w] = NoPath
             /\ \A t, u \in taker'[w] : t = u
             /\ \A p \in {ch'[w], answer'[w]} \ {NoPath} :
                   p \in written' /\ \E t \in taker'[w] : p = Last(Saved[t])
  BY <1>1, <1>2 DEF IInv, Served
<1> QED BY <1>1, <1>2, <1>3, <1>4, <1>5 DEF IInv, Served

------------------------------------------------------------------------------
(* Memory and disk: what a saver does between Commit and Persist. *)
LEMMA SaverInStep ==
    ASSUME IInv, NEW s \in Savers, FinishClipboard(s)
    PROVE  InStep'
<1>1. spc \in [Savers -> SaverPCs] /\ apart \in BOOLEAN
  BY DEF IInv, TypeOK
<1>2. CASE Commit(s)
  <2>1. /\ spc' = [spc EXCEPT ![s] = "persist"]
        /\ lastPath' = IF s \in Ingests THEN lastPath ELSE Last(Saved[s])
        /\ apart' = (apart \/ s \in Ingests \/ Overlap(s, "persist"))
    BY <1>2 DEF Commit
  <2>2. ~apart' => s \notin Ingests /\ \A t \in Savers \ {s} : spc[t] # "persist"
    BY <2>1 DEF Overlap
  <2>3. spc'[s] = "persist"
    BY <1>1, <2>1
  <2> QED BY <1>1, <2>1, <2>2, <2>3 DEF InStep, LastPathSettles
<1>3. CASE Persist(s)
  <2>1. /\ spc[s] = "persist" /\ spc' = [spc EXCEPT ![s] = "read"]
        /\ disk' = Last(Saved[s]) /\ lastPath' = lastPath /\ apart' = apart
    BY <1>3 DEF Persist, FileText
  <2> QED BY <1>1, <2>1 DEF IInv, InStep, LastPathSettles
<1>4. CASE PersistFails(s)
  BY <1>4 DEF PersistFails, InStep, LastPathSettles
<1>5. CASE ReadRecents(s) \/ WriteRecents(s) \/ WriteRecentsFails(s) \/ TakeParked(s) \/ Send(s)
  <2>1. /\ UNCHANGED <<lastPath, disk, apart>>
        /\ \A t \in Savers : spc'[t] = "persist" <=> spc[t] = "persist"
    BY <1>1, <1>5 DEF ReadRecents, WriteRecents, WriteRecentsFails, TakeParked, Send, files, history
  <2> QED BY <2>1 DEF IInv, InStep, LastPathSettles
<1> QED BY <1>2, <1>3, <1>4, <1>5 DEF FinishClipboard

(* A restart loads the file, and leaves only ingests between the two. *)
LEMMA RestartInStep ==
    ASSUME IInv, Restart
    PROVE  InStep'
<1>1. /\ lastPath' = disk /\ disk' = disk
      /\ apart' = (\E s \in Ingests : spc[s] = "persist")
      /\ \A s \in Savers : spc'[s] = IF s \in Ingests \/ spc[s] = "begin" THEN spc[s] ELSE "done"
  BY DEF Restart, LoadLastPath, files
<1>2. ~apart' => \A s \in Savers : spc'[s] # "persist"
  BY <1>1, ClipAssumption
<1> QED BY <1>1, <1>2 DEF InStep, LastPathSettles

------------------------------------------------------------------------------
(* What is in order stays in order while the log grows. *)
LEMMA FromLongerLog ==
    ASSUME NEW all \in Seq(Paths), NEW more \in Seq(Paths), NEW ring \in Seq(Paths),
           FromLog(ring, all)
    PROVE  FromLog(ring, all \o more)
<1>1. /\ Len(all \o more) = Len(all) + Len(more) /\ all \o more \in Seq(Paths)
      /\ \A i \in 1 .. Len(all) : (all \o more)[i] = all[i]
      /\ DOMAIN all = 1 .. Len(all) /\ Len(all) \in Nat /\ Len(more) \in Nat
      /\ DOMAIN (all \o more) = 1 .. Len(all \o more)
  BY JoinedParts
<1>2. DOMAIN all \subseteq DOMAIN (all \o more)
  BY <1>1
<1> QED BY <1>1, <1>2 DEF FromLog

(* The appended paths come after everything that was in the log. *)
LEMMA KeptFromLog ==
    ASSUME NEW all \in Seq(Paths), NEW ring \in Seq(Paths), NEW paths \in Seq(Paths),
           FromLog(ring, all)
    PROVE  FromLog(Kept(ring, paths), all \o paths)
<1> DEFINE both == ring \o paths
           k == Kept(ring, paths)
           long == all \o paths
<1>1. /\ both \in Seq(Paths) /\ Len(both) = Len(ring) + Len(paths)
      /\ \A i \in 1 .. Len(ring) : both[i] = ring[i]
      /\ \A i \in 1 .. Len(paths) : both[Len(ring) + i] = paths[i]
  BY JoinedParts
<1>2. /\ long \in Seq(Paths) /\ Len(long) = Len(all) + Len(paths)
      /\ \A i \in 1 .. Len(all) : long[i] = all[i]
      /\ \A i \in 1 .. Len(paths) : long[Len(all) + i] = paths[i]
  BY JoinedParts
<1>3. /\ Len(all) \in Nat /\ Len(ring) \in Nat /\ Len(paths) \in Nat /\ RecentsCap \in Nat
      /\ DOMAIN ring = 1 .. Len(ring) /\ DOMAIN all = 1 .. Len(all)
  BY ClipAssumption
<1>4. /\ k \in Seq(Paths) /\ Len(k) <= Len(both) /\ DOMAIN k = 1 .. Len(k) /\ Len(k) \in Nat
      /\ \A i \in 1 .. Len(k) : k[i] = both[Len(both) - Len(k) + i]
  <2>1. /\ k \in Seq(Paths)
        /\ Len(k) = IF Len(both) > RecentsCap THEN RecentsCap ELSE Len(both)
        /\ \A i \in 1 .. Len(k) : k[i] = both[Len(both) - Len(k) + i]
    BY KeptRing
  <2> HIDE DEF k, both
  <2>2. Len(k) \in Nat /\ DOMAIN k = 1 .. Len(k)
    BY <2>1, LenProperties
  <2>3. Len(k) <= Len(both)
    BY <1>1, <1>3, <2>1
  <2> QED BY <2>1, <2>2, <2>3
<1> HIDE DEF both, k, long
<1>5. ASSUME NEW i \in 1 .. Len(both)
      PROVE  \E m \in DOMAIN long : long[m] = both[i]
  <2>0. DOMAIN long = 1 .. (Len(all) + Len(paths))
    BY <1>2
  <2>1. CASE i <= Len(ring)
    <3>0. i \in DOMAIN ring
      BY <1>1, <1>3, <2>1
    <3>1. PICK m \in 1 .. Len(all) : all[m] = ring[i]
      BY <1>3, <3>0 DEF FromLog
    <3>2. m \in DOMAIN long /\ long[m] = both[i]
      BY <1>1, <1>2, <1>3, <2>0, <3>0, <3>1
    <3> QED BY <3>2
  <2>2. CASE ~(i <= Len(ring))
    <3>1. i - Len(ring) \in 1 .. Len(paths) /\ Len(ring) + (i - Len(ring)) = i
      BY <1>1, <1>3, <2>2
    <3>2. Len(all) + (i - Len(ring)) \in DOMAIN long
      BY <1>3, <2>0, <3>1
    <3> QED BY <1>1, <1>2, <3>1, <3>2
  <2> QED BY <2>1, <2>2
<1>6. ASSUME NEW i \in 1 .. Len(both), NEW j \in 1 .. Len(both), i < j
      PROVE  \E m, n \in DOMAIN long : m < n /\ long[m] = both[i] /\ long[n] = both[j]
  <2>0. DOMAIN long = 1 .. (Len(all) + Len(paths))
    BY <1>2
  <2>1. CASE j <= Len(ring)
    <3>1. i \in DOMAIN ring /\ j \in DOMAIN ring
      BY <1>3, <1>6, <2>1
    <3>2. PICK m \in 1 .. Len(all), n \in 1 .. Len(all) : m < n /\ all[m] = ring[i] /\ all[n] = ring[j]
      BY <1>3, <1>6, <3>1 DEF FromLog
    <3>3. m \in DOMAIN long /\ n \in DOMAIN long
      BY <1>3, <2>0
    <3> QED BY <1>1, <1>2, <1>3, <3>1, <3>2, <3>3
  <2>2. CASE ~(j <= Len(ring)) /\ i <= Len(ring)
    <3>0. i \in DOMAIN ring
      BY <1>1, <1>3, <2>2
    <3>1. PICK m \in 1 .. Len(all) : all[m] = ring[i]
      BY <1>3, <3>0 DEF FromLog
    <3>2. PICK q \in 1 .. Len(paths) : j = Len(ring) + q
      <4>1. j - Len(ring) \in 1 .. Len(paths) /\ j = Len(ring) + (j - Len(ring))
        BY <1>1, <1>3, <2>2
      <4> QED BY <4>1
    <3>3. m \in DOMAIN long /\ Len(all) + q \in DOMAIN long /\ m < Len(all) + q
      BY <1>3, <2>0
    <3>4. long[m] = both[i] /\ long[Len(all) + q] = both[j]
      BY <1>1, <1>2, <1>3, <3>0, <3>1, <3>2
    <3> QED BY <3>3, <3>4
  <2>3. CASE ~(i <= Len(ring))
    <3>1. PICK p \in 1 .. Len(paths), q \in 1 .. Len(paths) :
             i = Len(ring) + p /\ j = Len(ring) + q /\ p < q
      <4>1. /\ i - Len(ring) \in 1 .. Len(paths) /\ i = Len(ring) + (i - Len(ring))
            /\ j - Len(ring) \in 1 .. Len(paths) /\ j = Len(ring) + (j - Len(ring))
            /\ i - Len(ring) < j - Len(ring)
        BY <1>1, <1>3, <1>6, <2>3
      <4> QED BY <4>1
    <3>2. /\ Len(all) + p \in DOMAIN long /\ Len(all) + q \in DOMAIN long
          /\ Len(all) + p < Len(all) + q
      BY <1>3, <2>0, <3>1
    <3>3. long[Len(all) + p] = both[i] /\ long[Len(all) + q] = both[j]
      BY <1>1, <1>2, <3>1
    <3> QED BY <3>2, <3>3
  <2> QED BY <2>1, <2>2, <2>3
<1>7. ASSUME NEW i \in DOMAIN k
      PROVE  \E m \in DOMAIN long : long[m] = k[i]
  <2>1. Len(both) - Len(k) + i \in 1 .. Len(both)
    BY <1>1, <1>3, <1>4
  <2> QED BY <1>4, <1>5, <2>1
<1>8. ASSUME NEW i \in DOMAIN k, NEW j \in DOMAIN k, i < j
      PROVE  \E m, n \in DOMAIN long : m < n /\ long[m] = k[i] /\ long[n] = k[j]
  <2>1. /\ Len(both) - Len(k) + i \in 1 .. Len(both) /\ Len(both) - Len(k) + j \in 1 .. Len(both)
        /\ Len(both) - Len(k) + i < Len(both) - Len(k) + j
    BY <1>1, <1>3, <1>4, <1>8
  <2>2. PICK m \in DOMAIN long, n \in DOMAIN long :
           /\ m < n
           /\ long[m] = both[Len(both) - Len(k) + i]
           /\ long[n] = both[Len(both) - Len(k) + j]
    BY <1>6, <2>1
  <2> QED BY <1>4, <2>2
<1>9. FromLog(k, long)
  BY <1>7, <1>8 DEF FromLog
<1> QED BY <1>9 DEF k, long

(* And if the ring was the end of the log, it still is. *)
LEMMA KeptIsEnd ==
    ASSUME NEW all \in Seq(Paths), NEW ring \in Seq(Paths), NEW paths \in Seq(Paths),
           EndOf(ring, all)
    PROVE  EndOf(Kept(ring, paths), all \o paths)
<1> DEFINE both == ring \o paths
           k == Kept(ring, paths)
           long == all \o paths
<1>1. /\ both \in Seq(Paths) /\ Len(both) = Len(ring) + Len(paths)
      /\ \A i \in 1 .. Len(ring) : both[i] = ring[i]
      /\ \A i \in 1 .. Len(paths) : both[Len(ring) + i] = paths[i]
  BY JoinedParts
<1>2. /\ long \in Seq(Paths) /\ Len(long) = Len(all) + Len(paths)
      /\ \A i \in 1 .. Len(all) : long[i] = all[i]
      /\ \A i \in 1 .. Len(paths) : long[Len(all) + i] = paths[i]
  BY JoinedParts
<1>3. /\ Len(all) \in Nat /\ Len(ring) \in Nat /\ Len(paths) \in Nat
      /\ RecentsCap \in Nat /\ RecentsCap > 0
  BY ClipAssumption
<1>4. /\ Len(k) = IF Len(both) > RecentsCap THEN RecentsCap ELSE Len(both)
      /\ \A i \in 1 .. Len(k) : k[i] = both[Len(both) - Len(k) + i]
  BY KeptRing
<1> HIDE DEF both, k, long
<1>5. /\ Len(ring) = IF Len(all) < RecentsCap THEN Len(all) ELSE RecentsCap
      /\ \A i \in 1 .. Len(ring) : ring[i] = all[Len(all) - Len(ring) + i]
  BY DEF EndOf
<1>6. Len(k) = IF Len(long) < RecentsCap THEN Len(long) ELSE RecentsCap
  BY <1>1, <1>2, <1>3, <1>4, <1>5
<1>7. ASSUME NEW i \in 1 .. Len(k)
      PROVE  k[i] = long[Len(long) - Len(k) + i]
  <2> DEFINE b == Len(both) - Len(k) + i
  <2>1. b \in 1 .. Len(both) /\ Len(long) - Len(k) + i = (Len(all) - Len(ring)) + b
    BY <1>1, <1>2, <1>3, <1>4
  <2>2. k[i] = both[b]
    BY <1>4
  <2> HIDE DEF b
  <2>3. CASE b <= Len(ring)
    <3>0. b \in 1 .. Len(ring) /\ Len(ring) <= Len(all)
      BY <1>1, <1>3, <1>5, <2>1, <2>3
    <3>1. /\ Len(all) - Len(ring) + b \in 1 .. Len(all)
          /\ both[b] = ring[b] /\ ring[b] = all[Len(all) - Len(ring) + b]
      <4>1. Len(all) - Len(ring) + b \in 1 .. Len(all)
        BY <1>3, <3>0
      <4>2. both[b] = ring[b]
        BY <1>1, <3>0
      <4>3. ring[b] = all[Len(all) - Len(ring) + b]
        BY <1>5, <3>0
      <4> QED BY <4>1, <4>2, <4>3
    <3> QED BY <1>2, <2>1, <2>2, <3>1
  <2>4. CASE ~(b <= Len(ring))
    <3>1. /\ b - Len(ring) \in 1 .. Len(paths) /\ Len(ring) + (b - Len(ring)) = b
          /\ Len(all) - Len(ring) + b = Len(all) + (b - Len(ring))
      BY <1>1, <1>3, <2>1, <2>4
    <3> QED BY <1>1, <1>2, <2>1, <2>2, <3>1, ZenonT(30)
  <2> QED BY <2>3, <2>4
<1>8. EndOf(k, long)
  BY <1>6, <1>7 DEF EndOf
<1> QED BY <1>8 DEF k, long

(* recents.json and what the savers have read of it. *)
LEMMA SaverRing ==
    ASSUME IInv, NEW s \in Savers, FinishClipboard(s)
    PROVE  Ring'
<1>1. /\ spc \in [Savers -> SaverPCs] /\ seen \in [Savers -> Seq(Paths)]
      /\ recents \in Seq(Paths) /\ log \in Seq(Paths)
      /\ Ring /\ \A t \in Savers : FromLog(seen[t], log)
      /\ Saved[s] \in Seq(Paths)
  BY LastIsAPath DEF IInv, TypeOK, Shapes, Ring
<1>2. FromLog(<<>>, log)
  BY DEF FromLog
<1>3. CASE Commit(s) \/ Persist(s) \/ PersistFails(s) \/ TakeParked(s) \/ Send(s)
  <2>1. /\ UNCHANGED <<recents, log, seen, rewound>>
        /\ \A t \in Savers : spc'[t] = "write" <=> spc[t] = "write"
    BY <1>1, <1>3 DEF Commit, Persist, PersistFails, TakeParked, Send, files, history
  <2> QED BY <1>1, <2>1 DEF Ring, FromLog, EndOf
<1>4. CASE ReadRecents(s)
  <2>1. /\ spc' = [spc EXCEPT ![s] = "write"] /\ seen' = [seen EXCEPT ![s] = recents]
        /\ rewound' = (rewound \/ Overlap(s, "write"))
        /\ UNCHANGED <<recents, log>>
    BY <1>4 DEF ReadRecents, files
  <2>2. ~rewound' => ~rewound /\ \A t \in Savers \ {s} : spc'[t] # "write"
    BY <1>1, <2>1 DEF Overlap
  <2>3. FromLog(recents', log') /\ \A t \in Savers : FromLog(seen'[t], log')
    BY <1>1, <2>1 DEF Ring
  <2>4. ~rewound' => EndOf(recents', log')
    BY <1>1, <2>1, <2>2 DEF Ring
  <2>5. seen'[s] = recents'
    BY <1>1, <2>1
  <2> QED BY <2>2, <2>3, <2>4, <2>5 DEF Ring
<1>5. CASE WriteRecents(s)
  <2>1. /\ spc[s] = "write"
        /\ recents' = Kept(seen[s], Saved[s]) /\ log' = log \o Saved[s]
        /\ seen' = [seen EXCEPT ![s] = <<>>] /\ rewound' = rewound
        /\ spc'[s] # "write" /\ \A t \in Savers \ {s} : spc'[t] = spc[t]
    BY <1>1, <1>5 DEF WriteRecents
  <2>2. FromLog(recents', log')
    BY <1>1, <2>1, KeptFromLog
  <2>3. ASSUME NEW t \in Savers
        PROVE  FromLog(seen'[t], log')
    <3>1. CASE t = s
      <4>1. seen'[t] = <<>>
        BY <1>1, <2>1, <3>1
      <4> QED BY <4>1 DEF FromLog
    <3>2. CASE t # s
      BY <1>1, <2>1, <3>2, FromLongerLog
    <3> QED BY <3>1, <3>2
  <2>4. ASSUME ~rewound'
        PROVE  /\ EndOf(recents', log')
               /\ \A t \in Savers : spc'[t] # "write"
    <3>1. seen[s] = recents /\ EndOf(seen[s], log)
      BY <1>1, <2>1, <2>4 DEF Ring
    <3>2. EndOf(recents', log')
      BY <1>1, <2>1, <3>1, KeptIsEnd
    <3>3. \A t \in Savers : spc'[t] # "write"
      BY <1>1, <2>1, <2>4 DEF Ring
    <3> QED BY <3>2, <3>3
  <2> QED BY <2>2, <2>3, <2>4 DEF Ring
<1>6. CASE WriteRecentsFails(s)
  <2>1. /\ UNCHANGED <<recents, log, rewound>> /\ seen' = [seen EXCEPT ![s] = <<>>]
        /\ spc'[s] # "write" /\ \A t \in Savers \ {s} : spc'[t] = spc[t]
    BY <1>1, <1>6 DEF WriteRecentsFails, files, history
  <2>2. \A t \in Savers : seen'[t] = IF t = s THEN <<>> ELSE seen[t]
    BY <1>1, <2>1
  <2>3. FromLog(recents', log') /\ \A t \in Savers : FromLog(seen'[t], log')
    BY <1>1, <1>2, <2>1, <2>2 DEF Ring
  <2>4. ~rewound' => EndOf(recents', log')
    BY <1>1, <2>1 DEF Ring
  <2> QED BY <1>1, <2>1, <2>2, <2>3, <2>4 DEF Ring
<1> QED BY <1>3, <1>4, <1>5, <1>6 DEF FinishClipboard

(* The ring of a daemon that has started anew holds what came since. *)
LEMMA RestartRing ==
    ASSUME IInv, Restart
    PROVE  Ring'
<1>1. /\ UNCHANGED <<recents, log, rewound>>
      /\ \A s \in Savers : seen'[s] = IF s \in Ingests THEN seen[s] ELSE <<>>
      /\ \A s \in Savers : spc'[s] = "write" => spc[s] = "write" /\ s \in Ingests
  BY DEF Restart, files
<1>2. FromLog(<<>>, log)
  BY DEF FromLog
<1>3. FromLog(recents', log') /\ \A s \in Savers : FromLog(seen'[s], log')
  BY <1>1, <1>2 DEF IInv, Ring
<1>4. ~rewound' => EndOf(recents', log')
  BY <1>1 DEF IInv, Ring
<1>5. ~rewound' => /\ \A s \in Savers : spc'[s] = "write" => seen'[s] = recents'
                   /\ \A s, t \in Savers : spc'[s] = "write" /\ spc'[t] = "write" => s = t
  BY <1>1 DEF IInv, Ring
<1> QED BY <1>3, <1>4, <1>5 DEF Ring

(* A wait call has no part in either file. *)
LEMMA WaiterElsewhere ==
    ASSUME IInv, NEW w \in Waiters, Park(w) \/ Wait(w)
    PROVE  InStep' /\ Ring'
<1>1. UNCHANGED <<lastPath, disk, apart, spc, recents, log, seen, rewound>>
  BY DEF Park, Wait, Woken, CtxDone, Drain, files, savers, history
<1>2. InStep'
  BY <1>1 DEF IInv, InStep, LastPathSettles
<1>3. Ring'
  BY <1>1 DEF IInv, Ring, FromLog, EndOf
<1> QED BY <1>2, <1>3

------------------------------------------------------------------------------
(* Every step keeps the inductive invariant. *)
LEMMA StepInv == IInv /\ [Next]_vars => IInv'
<1> SUFFICES ASSUME IInv, [Next]_vars PROVE IInv'
  OBVIOUS
<1>1. ASSUME NEW s \in Savers, FinishClipboard(s)
      PROVE  IInv'
  <2>1. Served'
    BY <1>1, FilesServed, TakeServed, SendServed DEF FinishClipboard
  <2> QED BY <1>1, <2>1, SaverTypes, SaverInStep, SaverRing DEF IInv
<1>2. ASSUME NEW w \in Waiters, Park(w) \/ Wait(w)
      PROVE  IInv'
  BY <1>2, WaiterTypes, WaiterServed, WaiterElsewhere DEF IInv
<1>3. CASE Restart
  BY <1>3, RestartTypes, RestartServed, RestartInStep, RestartRing DEF IInv
<1>4. CASE UNCHANGED vars
  <2>1. UNCHANGED <<lastPath, disk, recents, waiters, ch, wpc, answer, spc, seen, parked,
                    restarts, taker, written, log, apart, rewound>>
    BY <1>4 DEF vars, files, waits, savers, history
  <2>2. TypeOK' /\ Shapes'
    BY <2>1 DEF IInv, TypeOK, Shapes, Listed
  <2>3. Served'
    BY <2>1 DEF IInv, Served, OnceIn, Listed, TakenBy
  <2>4. InStep' /\ Ring'
    BY <2>1 DEF IInv, InStep, LastPathSettles, Ring, FromLog, EndOf
  <2> QED BY <2>2, <2>3, <2>4 DEF IInv
<1> QED BY <1>1, <1>2, <1>3, <1>4 DEF Next, Finished

(* The inductive invariant holds in every state. *)
LEMMA IsInvariant == Spec => []IInv
BY InitInv, StepInv, PTL DEF Spec

(* concrete.go:70-83, waiters.go:83-130: the variables have their types, and a call
   that is on the list of waiters is parked, whatever interleaves. *)
THEOREM TypeCorrect == Spec => []TypeOK
<1>1. IInv => TypeOK
  BY DEF IInv
<1> QED BY IsInvariant, <1>1, PTL

(* waiters.go:90-98, "w <- path" with no lock held: for any number of savers and of
   wait calls the one-place channel is empty whenever a resume sends to it. *)
THEOREM SendsNeverBlock == Spec => []SendNeverBlocks
<1>1. IInv => SendNeverBlocks
  <2> SUFFICES ASSUME IInv, NEW w \in Waiters
               PROVE  LET holders == {s \in Savers : TakenBy(s, w)}
                      IN  /\ Cardinality(holders) + (IF Listed(w) THEN 1 ELSE 0) <= 1
                          /\ Listed(w) \/ holders # {} => ch[w] = NoPath
    BY DEF SendNeverBlocks
  <2> DEFINE holders == {s \in Savers : TakenBy(s, w)}
  <2>1. holders \subseteq taker[w] /\ (Listed(w) => taker[w] = {}) /\ \A s, t \in taker[w] : s = t
    BY DEF IInv, Served
  <2>2. Listed(w) \/ holders # {} => ch[w] = NoPath
    BY DEF IInv, Served
  <2>3. CASE holders = {}
    <3>1. Cardinality(holders) = 0
      BY <2>3, FS_EmptySet
    <3> QED BY <2>2, <3>1
  <2>4. CASE holders # {}
    <3>1. PICK s \in Savers : holders = {s}
      BY <2>1, <2>4
    <3>2. Cardinality(holders) = 1
      BY <3>1, FS_Singleton
    <3> QED BY <2>1, <2>2, <2>4, <3>2
  <2> QED BY <2>3, <2>4
<1> QED BY IsInvariant, <1>1, PTL

(* concrete.go:72-80: what a wait call returns is the last path of the one saver
   that took it, and that saver had written it to last_path before. *)
THEOREM AnswersWereWritten == Spec => []AnswersAreWritten
<1>1. IInv => AnswersAreWritten
  <2> SUFFICES ASSUME IInv, NEW w \in Waiters
               PROVE  /\ Cardinality(taker[w]) <= 1
                      /\ \A p \in {ch[w], answer[w]} \ {NoPath} :
                            p \in written /\ \E s \in taker[w] : p = Last(Saved[s])
    BY DEF AnswersAreWritten
  <2>1. /\ \A s, t \in taker[w] : s = t
        /\ \A p \in {ch[w], answer[w]} \ {NoPath} :
              p \in written /\ \E s \in taker[w] : p = Last(Saved[s])
    BY DEF IInv, Served
  <2>2. Cardinality(taker[w]) <= 1
    <3>1. CASE taker[w] = {}
      BY <3>1, FS_EmptySet
    <3>2. ASSUME NEW s \in taker[w]
          PROVE  Cardinality(taker[w]) <= 1
      <4>1. taker[w] = {s}
        BY <2>1
      <4> QED BY <4>1, FS_Singleton
    <3> QED BY <3>1, <3>2
  <2> QED BY <2>1, <2>2
<1> QED BY IsInvariant, <1>1, PTL

(* concrete.go:73-77: with the causes that `apart' records left out, s.lastPath and
   the last_path file agree whenever no saver is between the two. *)
THEOREM LastPathsAgree == Spec => []LastPathSettles
<1>1. IInv => LastPathSettles
  BY DEF IInv, InStep
<1> QED BY IsInvariant, <1>1, PTL

(* recents.go:31-43: recents.json keeps the order of the appends however savers and
   ingest processes interleave, and is their end if no two of them overlapped. *)
THEOREM RecentsKeepOrder == Spec => []RecentsInOrder
<1>1. IInv => RecentsInOrder
  <2> SUFFICES ASSUME IInv PROVE RecentsInOrder
    OBVIOUS
  <2>1. /\ recents \in Seq(Paths) /\ log \in Seq(Paths)
        /\ FromLog(recents, log) /\ (~rewound => EndOf(recents, log))
    BY DEF IInv, TypeOK, Ring
  <2>2. ASSUME EndOf(recents, log)
        PROVE  IsSuffix(recents, log)
    <3>1. /\ Len(recents) \in Nat /\ Len(log) \in Nat /\ Len(recents) <= Len(log)
          /\ RecentsCap \in Nat
      BY <2>1, <2>2, ClipAssumption DEF EndOf
    <3>2. /\ Reverse(recents) \in Seq(Paths) /\ Len(Reverse(recents)) = Len(recents)
          /\ Reverse(log) \in Seq(Paths) /\ Len(Reverse(log)) = Len(log)
          /\ \A i \in 1 .. Len(recents) : Reverse(recents)[i] = recents[Len(recents) - i + 1]
          /\ \A i \in 1 .. Len(log) : Reverse(log)[i] = log[Len(log) - i + 1]
      BY <2>1, <3>1 DEF Reverse
    <3>3. \A i \in 1 .. Len(recents) : Reverse(recents)[i] = Reverse(log)[i]
      <4> SUFFICES ASSUME NEW i \in 1 .. Len(recents)
                   PROVE  Reverse(recents)[i] = Reverse(log)[i]
        OBVIOUS
      <4>1. /\ Len(recents) - i + 1 \in 1 .. Len(recents) /\ i \in 1 .. Len(log)
            /\ Len(log) - Len(recents) + (Len(recents) - i + 1) = Len(log) - i + 1
        BY <3>1
      <4>2. recents[Len(recents) - i + 1] = log[Len(log) - i + 1]
        BY <2>2, <4>1 DEF EndOf
      <4> QED BY <3>2, <4>1, <4>2
    <3>4. SubSeq(Reverse(recents), 1, Len(recents)) = SubSeq(Reverse(log), 1, Len(recents))
      <4>1. /\ SubSeq(Reverse(recents), 1, Len(recents)) \in Seq(Paths)
            /\ Len(SubSeq(Reverse(recents), 1, Len(recents))) = Len(recents)
            /\ \A i \in 1 .. Len(recents) :
                  SubSeq(Reverse(recents), 1, Len(recents))[i] = Reverse(recents)[i]
        BY <3>1, <3>2, RemovedFront
      <4>2. /\ SubSeq(Reverse(log), 1, Len(recents)) \in Seq(Paths)
            /\ Len(SubSeq(Reverse(log), 1, Len(recents))) = Len(recents)
            /\ \A i \in 1 .. Len(recents) :
                  SubSeq(Reverse(log), 1, Len(recents))[i] = Reverse(log)[i]
        BY <3>1, <3>2, RemovedFront
      <4> QED BY <3>3, <4>1, <4>2, SeqEqual
    <3> QED BY <3>1, <3>2, <3>4 DEF IsSuffix, IsPrefix
  <2> QED BY <2>1, <2>2 DEF RecentsInOrder, FromLog, EndOf
<1> QED BY IsInvariant, <1>1, PTL
=============================================================================
