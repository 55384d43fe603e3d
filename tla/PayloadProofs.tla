----------------------------- MODULE PayloadProofs -----------------------------
(***************************************************************************)
(* What becomes of a payload: the name that it is given (Names), the file  *)
(* that takes the name (SavePipeline), and the body that tells of it       *)
(* (RecvBody); and the values of the body that brought it (JsonStream).    *)
(*                                                                         *)
(* SavePipeline, for any number of calls, processes and names, whatever    *)
(* the candidates: NamesAreOwned and NoLitter are inductive as they stand  *)
(* once TypeOK is known: that a reservation finds nothing under the name   *)
(* is what keeps it apart from the reservations and the finished files of  *)
(* the others.                                                             *)
(*                                                                         *)
(* Names, for names of any length and any cap: no leaf has a parenthesis,  *)
(* so a numbered name tells its leaf and its number (NumbersTellApart),    *)
(* and a new name gets the number of those that came before (NamesInv).    *)
(*                                                                         *)
(* RecvBody, for fields of any length: what is left to read is one of the  *)
(* four lines with all that follows it, and what was read is told          *)
(* (RecvInv).                                                              *)
(*                                                                         *)
(* JsonStream, for values of any length and any buffers: the reader is at  *)
(* a mark of the value, with the containers open that are open there, and  *)
(* what it gave and has still to give is what the string stands for up to  *)
(* there (JsonInv).                                                        *)
(***************************************************************************)
EXTENDS SavePipeline, Encodings, SequenceLemmas, FiniteSetTheorems

(* What TypeOK says of each save's value, said of the functions. *)
Shapes ==
    /\ cand \in [Savers -> Nat]
    /\ attempt \in [Savers -> {1, 2}]

(* The inductive invariant. *)
IInv ==
    /\ TypeOK
    /\ Shapes
    /\ NamesAreOwned
    /\ NoLitter

------------------------------------------------------------------------------
(* A candidate is a name, and the first one is always there. *)
LEMMA CandidatesAreNames ==
    ASSUME NEW s \in Savers
    PROVE  /\ Len(Candidates[s]) \in Nat /\ DOMAIN Candidates[s] = 1 .. Len(Candidates[s])
           /\ 1 \in DOMAIN Candidates[s]
           /\ \A i \in DOMAIN Candidates[s] : Candidates[s][i] \in Names
<1>1. Candidates[s] \in Seq(Names) /\ Candidates[s] # <<>>
  BY SaveAssumption
<1> QED BY <1>1

(* An empty process table satisfies the invariant. *)
LEMMA InitInv == Init => IInv
<1> SUFFICES ASSUME Init PROVE IInv
  OBVIOUS
<1>1. \A s \in Savers : 1 \in DOMAIN Candidates[s]
  BY CandidatesAreNames
<1>2. \A p \in Processes : lock[p] = Nobody
  BY DEF Init
<1>3. TypeOK /\ Shapes
  BY <1>1, <1>2, SaveAssumption DEF Init, TypeOK, Shapes, PCs
<1>4. NamesAreOwned /\ NoLitter
  BY SaveAssumption DEF Init, NamesAreOwned, NoLitter, Reserved
<1> QED BY <1>3, <1>4 DEF IInv

(* Taking the lock, and looking for a name under it: the directory is only read. *)
LEMMA ProbeStep ==
    ASSUME IInv, NEW s \in Savers, Lock(s) \/ NextTaken(s) \/ FoundFree(s) \/ Reprobe(s)
    PROVE  IInv'
<1>1. /\ file' = file /\ unreserved' = unreserved /\ killed' = killed
      /\ pc \in [Savers -> PCs] /\ cand \in [Savers -> Nat] /\ attempt \in [Savers -> {1, 2}]
      /\ lock \in [Processes -> Savers \cup {Nobody}] /\ ProcessOf \in [Savers -> Processes]
      /\ \A t \in Savers : /\ cand[t] \in DOMAIN Candidates[t]
                           /\ pc[t] \in {"probe", "reserve"} <=> lock[ProcessOf[t]] = t
  BY SaveAssumption DEF Lock, NextTaken, FoundFree, Reprobe, IInv, TypeOK, Shapes
<1>2. /\ Len(Candidates[s]) \in Nat /\ DOMAIN Candidates[s] = 1 .. Len(Candidates[s])
      /\ 1 \in DOMAIN Candidates[s]
  BY CandidatesAreNames
<1>3. /\ pc' \in [Savers -> PCs]
      /\ pc[s] \in {"new", "probe", "reserve"} /\ pc'[s] \in {"probe", "reserve"}
      /\ \A t \in Savers \ {s} : pc'[t] = pc[t] /\ cand'[t] = cand[t]
  BY <1>1 DEF Lock, NextTaken, FoundFree, Reprobe, PCs
<1>4. /\ cand' \in [Savers -> Nat] /\ attempt' \in [Savers -> {1, 2}]
      /\ \A t \in Savers : cand'[t] \in DOMAIN Candidates[t]
  <2>1. CASE Lock(s) \/ FoundFree(s)
    BY <1>1, <2>1 DEF Lock, FoundFree
  <2>2. CASE NextTaken(s)
    BY <1>1, <1>2, <2>2 DEF NextTaken
  <2>3. CASE Reprobe(s)
    BY <1>1, <1>2, <2>3 DEF Reprobe
  <2> QED BY <2>1, <2>2, <2>3
<1>5. /\ lock' \in [Processes -> Savers \cup {Nobody}]
      /\ \A t \in Savers : pc'[t] \in {"probe", "reserve"} <=> lock'[ProcessOf[t]] = t
  <2>1. CASE Lock(s)
    <3>1. /\ lock[ProcessOf[s]] = Nobody
          /\ lock' = [lock EXCEPT ![ProcessOf[s]] = s]
          /\ Nobody \notin Savers
      BY <2>1, SaveAssumption DEF Lock
    <3> QED BY <1>1, <1>3, <3>1
  <2>2. CASE NextTaken(s) \/ FoundFree(s) \/ Reprobe(s)
    <3>1. lock' = lock /\ pc[s] \in {"probe", "reserve"}
      BY <2>2 DEF NextTaken, FoundFree, Reprobe
    <3> QED BY <1>1, <1>3, <3>1
  <2> QED BY <2>1, <2>2
<1>6. TypeOK' /\ Shapes'
  BY <1>1, <1>3, <1>4, <1>5 DEF IInv, TypeOK, Shapes
<1>7. \A t \in Savers :
         /\ Reserved(t)' <=> Reserved(t)
         /\ pc'[t] = "done" <=> pc[t] = "done"
         /\ pc'[t] = "killed" <=> pc[t] = "killed"
         /\ Reserved(t) \/ pc[t] \in {"done", "killed"} => Dest(t)' = Dest(t)
  BY <1>3 DEF Reserved, Dest
<1>8. NamesAreOwned' /\ NoLitter'
  BY <1>1, <1>7 DEF IInv, NamesAreOwned, NoLitter
<1> QED BY <1>6, <1>8 DEF IInv

(* s.mu.Unlock(): the caller, and no other save of its process, stops holding it. *)
LEMMA UnlockLeavesOne ==
    ASSUME TypeOK, NEW s \in Savers, pc[s] \in {"probe", "reserve"}
    PROVE  /\ Unlocked(s) \in [Processes -> Savers \cup {Nobody}]
           /\ \A t \in Savers : Unlocked(s)[ProcessOf[t]] = t <=>
                                 pc[t] \in {"probe", "reserve"} /\ t # s
BY SaveAssumption DEF TypeOK, Unlocked

(* The empty file is created where there was nothing, so where nobody else has a
   reservation or a finished file. *)
LEMMA ReserveStep ==
    ASSUME IInv, NEW s \in Savers, Reserve(s)
    PROVE  IInv'
<1>1. /\ pc[s] = "reserve" /\ file[Dest(s)] = Absent
      /\ file' = [file EXCEPT ![Dest(s)] = Empty] /\ lock' = Unlocked(s)
      /\ pc' = [pc EXCEPT ![s] = "write"]
      /\ UNCHANGED <<cand, attempt, unreserved, killed>>
      /\ file \in [Names -> Savers \cup {Absent, Empty, Foreign}] /\ pc \in [Savers -> PCs]
  BY DEF Reserve, Creatable, IInv, TypeOK
<1>2. \A t \in Savers : Dest(t) \in Names /\ Dest(t)' = Dest(t)
  BY <1>1, CandidatesAreNames DEF IInv, TypeOK, Dest
<1>3. \A t \in Savers :
         /\ Reserved(t)' <=> Reserved(t) \/ t = s
         /\ pc'[t] \in {"probe", "reserve"} <=> pc[t] \in {"probe", "reserve"} /\ t # s
         /\ pc'[t] = "done" <=> pc[t] = "done"
         /\ pc'[t] = "killed" <=> pc[t] = "killed"
  BY <1>1 DEF Reserved
<1>4. TypeOK' /\ Shapes'
  BY <1>1, <1>2, <1>3, UnlockLeavesOne DEF IInv, TypeOK, Shapes, PCs
<1>5. NamesAreOwned'
  <2> SUFFICES ASSUME unreserved = {}
               PROVE  /\ \A t \in Savers : /\ Reserved(t)' => file'[Dest(t)] = Empty
                                           /\ pc'[t] = "done" => file'[Dest(t)] = t
                      /\ \A t, u \in Savers :
                            t # u /\ Reserved(t)' /\ Reserved(u)' => Dest(t) # Dest(u)
    BY <1>1, <1>2 DEF NamesAreOwned
  <2>1. \A t \in Savers : Reserved(t) \/ pc[t] = "done" => Dest(t) # Dest(s)
    BY <1>1, SaveAssumption DEF IInv, NamesAreOwned
  <2> QED BY <1>1, <1>2, <1>3, <2>1 DEF IInv, NamesAreOwned
<1>6. NoLitter'
  BY <1>1, <1>2, <1>3, SaveAssumption DEF IInv, NoLitter
<1> QED BY <1>4, <1>5, <1>6 DEF IInv

(* A save that lost both its reservations is the case NamesAreOwned leaves out. *)
LEMMA ReserveIgnoredStep ==
    ASSUME IInv, NEW s \in Savers, ReserveIgnored(s)
    PROVE  IInv'
<1>1. /\ pc[s] = "reserve" /\ file' = file /\ lock' = Unlocked(s)
      /\ pc' = [pc EXCEPT ![s] = "write"]
      /\ unreserved' = unreserved \cup {s} /\ UNCHANGED <<cand, attempt, killed>>
      /\ pc \in [Savers -> PCs]
  BY DEF ReserveIgnored, IInv, TypeOK
<1>2. \A t \in Savers :
         /\ Dest(t)' = Dest(t)
         /\ Reserved(t) => Reserved(t)'
         /\ pc'[t] \in {"probe", "reserve"} <=> pc[t] \in {"probe", "reserve"} /\ t # s
         /\ pc[t] = "killed" => pc'[t] = "killed"
  BY <1>1 DEF Reserved, Dest
<1>3. TypeOK' /\ Shapes'
  BY <1>1, <1>2, UnlockLeavesOne DEF IInv, TypeOK, Shapes, PCs
<1>4. NamesAreOwned' /\ NoLitter'
  BY <1>1, <1>2 DEF IInv, NamesAreOwned, NoLitter
<1> QED BY <1>3, <1>4 DEF IInv

(* The payload takes its reservation's place, or the reservation goes: the name was
   that save's alone. *)
LEMMA EndOfWriteStep ==
    ASSUME IInv, NEW s \in Savers, Rename(s) \/ RemoveDest(s)
    PROVE  IInv'
<1>1. /\ Reserved(s)
      /\ \/ pc' = [pc EXCEPT ![s] = "done"] /\ file' = [file EXCEPT ![Dest(s)] = s]
         \/ pc' = [pc EXCEPT ![s] = "failed"] /\ file' = [file EXCEPT ![Dest(s)] = Absent]
      /\ UNCHANGED <<lock, cand, attempt, unreserved, killed>>
      /\ file \in [Names -> Savers \cup {Absent, Empty, Foreign}] /\ pc \in [Savers -> PCs]
  BY DEF Rename, RemoveDest, Removed, Reserved, IInv, TypeOK
<1>2. \A t \in Savers : Dest(t) \in Names /\ Dest(t)' = Dest(t)
  BY <1>1, CandidatesAreNames DEF IInv, TypeOK, Dest
<1>3. \A t \in Savers :
         /\ Reserved(t)' <=> Reserved(t) /\ t # s
         /\ pc'[t] \in {"probe", "reserve"} <=> pc[t] \in {"probe", "reserve"}
         /\ pc'[t] = "done" => pc[t] = "done" \/ t = s
         /\ pc'[t] = "killed" <=> pc[t] = "killed"
  BY <1>1 DEF Reserved
<1>4. pc'[s] = "done" => file'[Dest(s)] = s
  BY <1>1, <1>2
<1>5. TypeOK' /\ Shapes'
  BY <1>1, <1>2, <1>3 DEF IInv, TypeOK, Shapes, PCs
<1>6. NamesAreOwned'
  <2> SUFFICES ASSUME unreserved = {}
               PROVE  /\ \A t \in Savers : /\ Reserved(t)' => file'[Dest(t)] = Empty
                                           /\ pc'[t] = "done" => file'[Dest(t)] = t
                      /\ \A t, u \in Savers :
                            t # u /\ Reserved(t)' /\ Reserved(u)' => Dest(t) # Dest(u)
    BY <1>1, <1>2 DEF NamesAreOwned
  <2>1. file[Dest(s)] = Empty /\ Empty \notin Savers
    BY <1>1, SaveAssumption DEF IInv, NamesAreOwned
  <2>2. \A t \in Savers \ {s} : Reserved(t) \/ pc[t] = "done" => Dest(t) # Dest(s)
    BY <1>1, <2>1 DEF IInv, NamesAreOwned
  <2> QED BY <1>1, <1>2, <1>3, <1>4, <2>2 DEF IInv, NamesAreOwned
<1>7. NoLitter'
  BY <1>1, <1>2, <1>3, SaveAssumption DEF IInv, NoLitter
<1> QED BY <1>5, <1>6, <1>7 DEF IInv

(* A step of the write fails: the reservation is still there. *)
LEMMA WriteFailsStep ==
    ASSUME IInv, NEW s \in Savers, WriteFails(s)
    PROVE  IInv'
<1>1. /\ pc[s] = "write" /\ pc' = [pc EXCEPT ![s] = "cleanup"] /\ pc \in [Savers -> PCs]
      /\ UNCHANGED <<file, lock, cand, attempt, unreserved, killed>>
  BY DEF WriteFails, IInv, TypeOK
<1>2. \A t \in Savers :
         /\ Dest(t)' = Dest(t) /\ Reserved(t)' = Reserved(t)
         /\ pc'[t] \in {"probe", "reserve"} <=> pc[t] \in {"probe", "reserve"}
         /\ pc'[t] = "done" <=> pc[t] = "done"
         /\ pc'[t] = "killed" <=> pc[t] = "killed"
  BY <1>1 DEF Reserved, Dest
<1>3. TypeOK' /\ Shapes'
  BY <1>1, <1>2 DEF IInv, TypeOK, Shapes, PCs
<1>4. NamesAreOwned' /\ NoLitter'
  BY <1>1, <1>2 DEF IInv, NamesAreOwned, NoLitter
<1> QED BY <1>3, <1>4 DEF IInv

(* A process dies, with its lock; what it had reserved it still accounts for. *)
LEMMA KillStep ==
    ASSUME IInv, NEW p \in Killable, Kill(p)
    PROVE  IInv'
<1>1. /\ pc' = [s \in Savers |-> IF ProcessOf[s] = p /\ ~Ended(s) THEN "killed" ELSE pc[s]]
      /\ lock' = [lock EXCEPT ![p] = Nobody] /\ killed' = killed \cup {p}
      /\ UNCHANGED <<file, cand, attempt, unreserved>>
      /\ pc \in [Savers -> PCs] /\ p \in Processes
      /\ lock \in [Processes -> Savers \cup {Nobody}] /\ ProcessOf \in [Savers -> Processes]
      /\ Nobody \notin Savers
  BY SaveAssumption DEF Kill, IInv, TypeOK
<1>2. pc' \in [Savers -> PCs]
  BY <1>1 DEF PCs
<1>3. \A t \in Savers :
         /\ Dest(t)' = Dest(t)
         /\ Reserved(t)' => Reserved(t)
         /\ Reserved(t) \/ pc[t] = "killed" => Reserved(t)' \/ pc'[t] = "killed"
         /\ pc'[t] = "done" <=> pc[t] = "done"
         /\ pc'[t] \in {"probe", "reserve"} <=>
               pc[t] \in {"probe", "reserve"} /\ ProcessOf[t] # p
  BY <1>1 DEF Reserved, Dest, Ended
<1>4. \A t \in Savers : pc'[t] \in {"probe", "reserve"} <=> lock'[ProcessOf[t]] = t
  BY <1>1, <1>3 DEF IInv, TypeOK
<1>5. TypeOK' /\ Shapes'
  BY <1>1, <1>2, <1>4 DEF IInv, TypeOK, Shapes
<1>6. NamesAreOwned' /\ NoLitter'
  BY <1>1, <1>3 DEF IInv, NamesAreOwned, NoLitter
<1> QED BY <1>5, <1>6 DEF IInv

(* Another program creates a file where there is none. *)
LEMMA IntrudeStep ==
    ASSUME IInv, NEW n \in Intruders, Intrude(n)
    PROVE  IInv'
<1>1. /\ n \in Names /\ file[n] = Absent /\ file' = [file EXCEPT ![n] = Foreign]
      /\ UNCHANGED <<lock, pc, cand, attempt, unreserved, killed>>
      /\ file \in [Names -> Savers \cup {Absent, Empty, Foreign}]
  BY SaveAssumption DEF Intrude, IInv, TypeOK
<1>2. \A t \in Savers : Dest(t) \in Names /\ Dest(t)' = Dest(t) /\ Reserved(t)' = Reserved(t)
  BY <1>1, CandidatesAreNames DEF IInv, TypeOK, Dest, Reserved
<1>3. TypeOK' /\ Shapes'
  BY <1>1 DEF IInv, TypeOK, Shapes
<1>4. NamesAreOwned' /\ NoLitter'
  BY <1>1, <1>2, SaveAssumption DEF IInv, NamesAreOwned, NoLitter
<1> QED BY <1>3, <1>4 DEF IInv

------------------------------------------------------------------------------
(* Every step keeps the inductive invariant. *)
LEMMA StepInv == IInv /\ [Next]_vars => IInv'
<1> SUFFICES ASSUME IInv, [Next]_vars PROVE IInv'
  OBVIOUS
<1>1. ASSUME NEW s \in Savers, Save(s) \/ WriteFails(s)
      PROVE  IInv'
  BY <1>1, ProbeStep, ReserveStep, ReserveIgnoredStep, EndOfWriteStep, WriteFailsStep DEF Save
<1>2. CASE UNCHANGED vars
  BY <1>2 DEF vars, IInv, TypeOK, Shapes, NamesAreOwned, NoLitter, Reserved, Dest
<1> QED BY <1>1, <1>2, KillStep, IntrudeStep DEF Next, Finished

(* The inductive invariant holds in every state. *)
LEMMA IsInvariant == Spec => []IInv
BY InitInv, StepInv, PTL DEF Spec

(* concrete.go:158-187: s.mu is held by a save exactly while it looks for a name,
   and by no two saves of a process. *)
THEOREM TypeCorrect == Spec => []TypeOK
<1>1. IInv => TypeOK
  BY DEF IInv
<1> QED BY IsInvariant, <1>1, PTL

(* concrete.go:172-187: for any number of daemons, ingest processes and calls, and
   any candidates, a reserved name is one save's, and a finished file stays. *)
THEOREM ReservationsAreExclusive == Spec => []NamesAreOwned
<1>1. IInv => NamesAreOwned
  BY DEF IInv
<1> QED BY IsInvariant, <1>1, PTL

(* concrete.go:189-192: an empty file under some name is a reservation that a save
   still answers for, or that a kill left behind. *)
THEOREM NoReservationIsLeft == Spec => []NoLitter
<1>1. IInv => NoLitter
  BY DEF IInv
<1> QED BY IsInvariant, <1>1, PTL

(* concrete.go:177-185: no step of any save replaces or removes the file of another
   program, unless a save has gone on without a reservation. *)
THEOREM OthersFilesSurvive == Spec => ForeignKept
<1>1. IInv /\ [Next]_vars =>
         [unreserved' = {} => \A n \in Names : file[n] = Foreign => file'[n] = Foreign]_vars
  <2> SUFFICES ASSUME IInv, Next, unreserved' = {}, NEW n \in Names, file[n] = Foreign
               PROVE  file'[n] = Foreign
    OBVIOUS
  <2>1. file \in [Names -> Savers \cup {Absent, Empty, Foreign}] /\ Intruders \subseteq Names
    BY SaveAssumption DEF IInv, TypeOK
  <2>2. unreserved = {}
    BY DEF Next, Save, Lock, NextTaken, FoundFree, Reserve, Reprobe, ReserveIgnored, Rename,
           RemoveDest, WriteFails, Kill, Intrude, Finished, vars
  <2>3. ASSUME NEW s \in Savers, Reserve(s)
        PROVE  file'[n] = Foreign
    BY <2>1, <2>3, SaveAssumption DEF Reserve, Creatable
  <2>4. ASSUME NEW s \in Savers, Rename(s) \/ RemoveDest(s)
        PROVE  file'[n] = Foreign
    <3>1. Reserved(s) /\ file[Dest(s)] = Empty
      BY <2>2, <2>4 DEF Rename, RemoveDest, Reserved, IInv, NamesAreOwned
    <3> QED BY <2>1, <2>4, <3>1, SaveAssumption DEF Rename, RemoveDest, Removed
  <2>5. ASSUME NEW m \in Intruders, Intrude(m)
        PROVE  file'[n] = Foreign
    BY <2>1, <2>5 DEF Intrude
  <2> QED
    BY <2>3, <2>4, <2>5 DEF Next, Save, Lock, NextTaken, FoundFree, Reprobe, ReserveIgnored,
           WriteFails, Kill, Finished, vars
<1> QED BY IsInvariant, <1>1, PTL DEF Spec, ForeignKept

------------------------------------------------------------------------------
(* The refinement of Directory. *)

(* A save has in hand what it will write to: the name it looks at, from its
   reservation to its end. *)
LEMMA HandFollows ==
    ASSUME NEW s \in Savers,
           \A t \in Savers \ {s} : Reserved(t)' = Reserved(t) /\ (Reserved(t) => Dest(t)' = Dest(t))
    PROVE  InHand' = [InHand EXCEPT ![s] = IF Reserved(s)' THEN {Dest(s)'} ELSE {}]
BY DEF InHand

(* A reservation is a claim, and a second one that fails a straying; of the probes
   before them the directory sees nothing. *)
LEMMA LookingRefines ==
    ASSUME IInv, NEW s \in Savers,
           Lock(s) \/ NextTaken(s) \/ FoundFree(s) \/ Reprobe(s) \/ Reserve(s) \/ ReserveIgnored(s)
    PROVE  [Promise!Next]_(Promise!vars)
<1>1. /\ pc \in [Savers -> PCs] /\ cand \in [Savers -> Nat]
      /\ pc[s] \in {"new", "probe", "reserve"} /\ InHand[s] = {}
      /\ Dest(s) \in Claimable[s]
      /\ \A t \in Savers \ {s} : pc'[t] = pc[t] /\ cand'[t] = cand[t]
      /\ pc' \in [Savers -> PCs]
  BY DEF Lock, NextTaken, FoundFree, Reprobe, Reserve, ReserveIgnored, IInv, TypeOK, Shapes, PCs,
         InHand, Reserved, Claimable, Dest
<1>2. \A t \in Savers \ {s} : Reserved(t)' = Reserved(t) /\ (Reserved(t) => Dest(t)' = Dest(t))
  BY <1>1 DEF Reserved, Dest
<1>3. /\ pc'[s] \in {"probe", "reserve", "write"}
      /\ (pc'[s] = "write" <=> Reserve(s) \/ ReserveIgnored(s))
  BY <1>1 DEF Lock, NextTaken, FoundFree, Reprobe, Reserve, ReserveIgnored
<1>4. /\ {t \in Savers : pc[t] \in {"done", "failed"}}' = {t \in Savers : pc[t] \in {"done", "failed"}}
      /\ {t \in Savers : pc[t] = "killed"}' = {t \in Savers : pc[t] = "killed"}
      /\ s \notin {t \in Savers : pc[t] \in {"done", "failed"}} \cup {t \in Savers : pc[t] = "killed"}
  BY <1>1, <1>3
<1>5. CASE Lock(s) \/ NextTaken(s) \/ FoundFree(s) \/ Reprobe(s)
  <2>1. UNCHANGED <<file, unreserved>> /\ pc'[s] # "write"
    BY <1>1, <1>5 DEF Lock, NextTaken, FoundFree, Reprobe
  <2>2. InHand' = InHand
    <3>1. ~Reserved(s)'
      BY <1>3, <2>1 DEF Reserved
    <3>2. InHand' = [InHand EXCEPT ![s] = {}]
      BY <1>2, <3>1, HandFollows
    <3> QED BY <1>1, <3>2 DEF InHand
  <2> QED BY <1>4, <2>1, <2>2 DEF Promise!vars
<1>6. CASE Reserve(s) \/ ReserveIgnored(s)
  <2>1. pc'[s] = "write" /\ Dest(s)' = Dest(s)
    BY <1>1, <1>3, <1>6 DEF Reserve, ReserveIgnored, Dest
  <2>2. InHand' = [InHand EXCEPT ![s] = {Dest(s)}]
    <3>1. Reserved(s)'
      BY <2>1 DEF Reserved
    <3> QED BY <1>2, <2>1, <3>1, HandFollows
  <2>3. CASE Reserve(s)
    <3>1. file[Dest(s)] = Absent /\ file' = [file EXCEPT ![Dest(s)] = Empty] /\ unreserved' = unreserved
      BY <2>3 DEF Reserve, Creatable
    <3>2. Promise!Claim(s)
      BY <1>1, <1>4, <2>2, <3>1 DEF Promise!Claim, Promise!Fresh
    <3> QED BY <3>2 DEF Promise!Next
  <2>4. CASE ReserveIgnored(s)
    <3>1. file[Dest(s)] # Absent /\ file' = file /\ unreserved' = unreserved \cup {s}
      BY <2>4 DEF ReserveIgnored, Creatable
    <3>2. Promise!Stray(s)
      BY <1>1, <1>4, <2>2, <3>1 DEF Promise!Stray, Promise!Fresh
    <3> QED BY <3>2 DEF Promise!Next
  <2> QED BY <1>6, <2>3, <2>4
<1> QED BY <1>5, <1>6

(* A save fills or gives back its own name, and finds there what it left. *)
LEMMA EndingRefines ==
    ASSUME IInv, NEW s \in Savers, Rename(s) \/ RemoveDest(s)
    PROVE  Promise!Next
<1>1. /\ pc \in [Savers -> PCs] /\ Reserved(s) /\ unreserved' = unreserved
      /\ \/ Rename(s) /\ pc' = [pc EXCEPT ![s] = "done"]
         \/ RemoveDest(s) /\ pc' = [pc EXCEPT ![s] = "failed"]
      /\ cand' = cand
  BY DEF Rename, RemoveDest, Reserved, IInv, TypeOK
<1>2. Dest(s) \in Names /\ Dest(s) \in InHand[s]
  BY <1>1, CandidatesAreNames DEF IInv, TypeOK, Dest, InHand
<1>3. InHand' = [InHand EXCEPT ![s] = {}]
  <2>1. \A t \in Savers \ {s} : Reserved(t)' = Reserved(t) /\ (Reserved(t) => Dest(t)' = Dest(t))
    BY <1>1 DEF Reserved, Dest
  <2>2. ~Reserved(s)'
    BY <1>1 DEF Reserved
  <2> QED BY <2>1, <2>2, HandFollows
<1>4. /\ {t \in Savers : pc[t] \in {"done", "failed"}}'
           = {t \in Savers : pc[t] \in {"done", "failed"}} \cup {s}
      /\ {t \in Savers : pc[t] = "killed"}' = {t \in Savers : pc[t] = "killed"}
  BY <1>1 DEF Reserved
<1>5. Promise!Own(Dest(s))
  BY <1>1 DEF Promise!Own, IInv, NamesAreOwned
<1>6. ASSUME NEW x, file' = [file EXCEPT ![Dest(s)] = x]
      PROVE  Promise!End(s, Dest(s), x)
  BY <1>1, <1>2, <1>3, <1>4, <1>5, <1>6 DEF Promise!End
<1>7. CASE Rename(s)
  <2>1. Promise!End(s, Dest(s), s)
    BY <1>6, <1>7 DEF Rename
  <2> QED BY <1>2, <2>1 DEF Promise!Next, Promise!Fill
<1>8. CASE RemoveDest(s)
  <2>1. Promise!End(s, Dest(s), Absent)
    BY <1>6, <1>8 DEF RemoveDest, Removed
  <2> QED BY <1>2, <2>1 DEF Promise!Next, Promise!GiveBack
<1> QED BY <1>1, <1>7, <1>8

(* The saves of a process die together. *)
LEMMA KillRefines ==
    ASSUME IInv, NEW p \in Killable, Kill(p)
    PROVE  Promise!Next
<1> DEFINE Over == {s \in Savers : pc[s] \in {"done", "failed"}}
           Gone == {s \in Savers : pc[s] = "killed"}
<1>1. PICK dead \in SUBSET Savers : dead = {s \in Savers : ProcessOf[s] = p /\ ~Ended(s)}
  OBVIOUS
<1>2. /\ pc' = [s \in Savers |-> IF s \in dead THEN "killed" ELSE pc[s]]
      /\ UNCHANGED <<file, cand, unreserved>>
  BY <1>1 DEF Kill
<1>3. dead \cap (Over \cup Gone) = {}
  BY <1>1 DEF Ended
<1>4. Over' = Over /\ Gone' = Gone \cup dead
  BY <1>2, <1>3
<1>5. InHand' = [s \in Savers |-> IF s \in dead THEN {} ELSE InHand[s]]
  BY <1>2 DEF InHand, Reserved, Dest
<1>6. Promise!Die(dead)
  BY <1>2, <1>3, <1>4, <1>5 DEF Promise!Die
<1> QED BY <1>6 DEF Promise!Next

(* concrete.go:150-192: lock, probes, retry and clean-up implement a directory in which
   a name is one save's from its claim to its end; of the faults only a second
   reservation that fails shows, as a straying. *)
THEOREM KeepsItsPromise == Spec => RefinesDirectory
<1>1. Init => Promise!Init
  BY DEF Init, Promise!Init, InHand, Reserved
<1>2. IInv /\ [Next]_vars => [Promise!Next]_(Promise!vars)
  <2> SUFFICES ASSUME IInv, [Next]_vars PROVE [Promise!Next]_(Promise!vars)
    OBVIOUS
  <2>1. ASSUME NEW s \in Savers, Save(s)
        PROVE  [Promise!Next]_(Promise!vars)
    BY <2>1, LookingRefines, EndingRefines DEF Save
  <2>2. ASSUME NEW s \in Savers, WriteFails(s)
        PROVE  UNCHANGED Promise!vars
    <3>1. /\ pc[s] = "write" /\ pc' = [pc EXCEPT ![s] = "cleanup"] /\ pc \in [Savers -> PCs]
          /\ UNCHANGED <<file, cand, unreserved>>
      BY <2>2 DEF WriteFails, IInv, TypeOK
    <3>2. \A t \in Savers : Reserved(t)' = Reserved(t) /\ Dest(t)' = Dest(t)
      BY <3>1 DEF Reserved, Dest
    <3>3. InHand' = InHand
      BY <3>2 DEF InHand
    <3> QED BY <3>1, <3>3 DEF Promise!vars
  <2>3. ASSUME NEW n \in Intruders, Intrude(n)
        PROVE  Promise!Next
    <3>1. InHand' = InHand /\ n \in Names
      BY <2>3, SaveAssumption DEF Intrude, InHand, Reserved, Dest
    <3>2. Promise!Create(n)
      BY <2>3, <3>1 DEF Intrude, Promise!Create
    <3> QED BY <3>1, <3>2 DEF Promise!Next
  <2>4. CASE UNCHANGED vars
    BY <2>4 DEF vars, Promise!vars, InHand, Reserved, Dest
  <2> QED BY <2>1, <2>2, <2>3, <2>4, KillRefines DEF Next, Finished
<1> QED BY <1>1, <1>2, IsInvariant, PTL DEF Spec, RefinesDirectory, Promise!Spec

------------------------------------------------------------------------------
(* The symbols that names are made of. *)
LEMMA SomeRunes ==
    /\ Dot \in Runes /\ " " \in Runes /\ "(" \in Runes /\ ")" \in Runes /\ "_" \in Runes
    /\ "/" \in Runes /\ "#" \in Runes /\ "png" \in Runes /\ "bin" \in Runes
BY NamesAssumption DEF Dot

(* The last dot of a name. *)
LEMMA LastDot ==
    ASSUME NEW s \in Seq(Runes)
    PROVE  /\ SelectLastInSeq(s, IsDot) \in 0 .. Len(s)
           /\ SelectLastInSeq(s, IsDot) # 0 => s[SelectLastInSeq(s, IsDot)] = Dot
           /\ \A i \in 1 .. Len(s) : s[i] = Dot => i <= SelectLastInSeq(s, IsDot)
<1> DEFINE I == {i \in 1 .. Len(s) : IsDot(s[i])}
           d == SelectLastInSeq(s, IsDot)
<1>1. d = IF I # {} THEN Max(I) ELSE 0
  BY DEF SelectLastInSeq
<1> HIDE DEF d
<1>2. I # {} => Max(I) \in I /\ \A i \in I : i <= Max(I)
  BY Extremes, Len(s) \in Nat
<1>3. /\ d \in 0 .. Len(s) /\ (d # 0 => s[d] = Dot)
      /\ \A i \in 1 .. Len(s) : s[i] = Dot => i <= d
  <2>1. \A i \in 1 .. Len(s) : i \in I <=> s[i] = Dot
    BY DEF IsDot
  <2>2. I \subseteq 1 .. Len(s) /\ Len(s) \in Nat
    OBVIOUS
  <2> HIDE DEF I
  <2>3. CASE I = {}
    BY <1>1, <2>1, <2>2, <2>3
  <2>4. CASE I # {}
    <3>1. d = Max(I) /\ d \in I /\ \A i \in I : i <= d
      BY <1>1, <1>2, <2>4
    <3>2. d \in 1 .. Len(s) /\ s[d] = Dot
      BY <2>1, <2>2, <3>1
    <3> QED BY <2>1, <2>2, <3>1, <3>2
  <2> QED BY <2>3, <2>4
<1> QED BY <1>3 DEF d

(* A name is a base and an extension with its dot, or all base. *)
LEMMA BaseAndExtension ==
    ASSUME NEW s \in Seq(Runes)
    PROVE  /\ PathExtension(s) \in Seq(Runes) /\ DotExt(s) \in Seq(Runes)
           /\ DeletingPathExtension(s) \in Seq(Runes)
           /\ s = DeletingPathExtension(s) \o DotExt(s)
           /\ DeletingPathExtension(s) = <<>> => s = <<>>
           /\ PathExtension(s) = <<>> => DotExt(s) = <<>>
           /\ PathExtension(s) # <<>> => /\ DotExt(s) = <<Dot>> \o PathExtension(s)
                                         /\ Dot \notin ToSet(PathExtension(s))
<1> DEFINE d == SelectLastInSeq(s, IsDot)
<1>1. /\ d \in 0 .. Len(s) /\ (d # 0 => s[d] = Dot)
      /\ \A i \in 1 .. Len(s) : s[i] = Dot => i <= d
  BY LastDot
<1> HIDE DEF d
<1>2. CASE d <= 1 \/ d = Len(s)
  <2>1. PathExtension(s) = <<>> /\ DotExt(s) = <<>>
    BY <1>2 DEF PathExtension, DotExt, d
  <2>2. DeletingPathExtension(s) = s
    BY <2>1 DEF DeletingPathExtension
  <2> QED BY <2>1, <2>2
<1>3. CASE ~(d <= 1 \/ d = Len(s))
  <2> DEFINE e == SubSeq(s, d + 1, Len(s))
             b == SubSeq(s, 1, d - 1)
  <2>1. d \in 2 .. (Len(s) - 1) /\ s[d] = Dot /\ Len(s) \in Nat
    BY <1>1, <1>3
  <2>2. /\ e \in Seq(Runes) /\ Len(e) = Len(s) - d /\ \A i \in 1 .. (Len(s) - d) : e[i] = s[d + i]
        /\ b \in Seq(Runes) /\ Len(b) = d - 1 /\ \A i \in 1 .. (d - 1) : b[i] = s[i]
    <3>1. d \in Nat /\ d <= Len(s) /\ d - 1 \in Nat /\ d - 1 <= Len(s)
      BY <2>1
    <3> HIDE DEF d
    <3>2. /\ e \in Seq(Runes) /\ Len(e) = Len(s) - d
          /\ \A i \in 1 .. (Len(s) - d) : e[i] = s[d + i]
      BY <3>1, RemovedFront
    <3>3. /\ b \in Seq(Runes) /\ Len(b) = d - 1 /\ \A i \in 1 .. (d - 1) : b[i] = s[i]
      BY <3>1, RemovedFront
    <3> QED BY <3>2, <3>3
  <2>3. PathExtension(s) = e
    BY <1>3 DEF PathExtension, d
  <2> HIDE DEF e, b
  <2>4. e # <<>> /\ DotExt(s) = <<Dot>> \o e
    BY <2>1, <2>2, <2>3 DEF DotExt
  <2>5. /\ <<Dot>> \o e \in Seq(Runes) /\ Len(<<Dot>> \o e) = 1 + (Len(s) - d)
        /\ (<<Dot>> \o e)[1] = Dot /\ \A i \in 1 .. (Len(s) - d) : (<<Dot>> \o e)[1 + i] = e[i]
    <3>1. <<Dot>> \in Seq(Runes) /\ Len(<<Dot>>) = 1 /\ <<Dot>>[1] = Dot
      BY SomeRunes, Singleton
    <3> QED BY <2>2, <3>1, JoinedParts
  <2>6. DeletingPathExtension(s) = b
    BY <2>1, <2>2, <2>4, <2>5 DEF DeletingPathExtension, b
  <2>7. Dot \notin ToSet(e)
    <3>1. DOMAIN e = 1 .. (Len(s) - d)
      BY <2>2
    <3>2. \A i \in 1 .. (Len(s) - d) : d + i \in 1 .. Len(s) /\ ~(d + i <= d)
      BY <2>1
    <3> QED BY <1>1, <2>2, <3>1, <3>2 DEF ToSet
  <2>8. s = b \o (<<Dot>> \o e)
    <3>1. s = SubSeq(s, 1, d - 1) \o SubSeq(s, (d - 1) + 1, Len(s))
      BY <2>1, SubSeqFull, ConcatAdjacentSubSeq, 1 \in 1 .. Len(s) + 1, d - 1 \in 1 - 1 .. Len(s),
         Len(s) \in d - 1 .. Len(s)
    <3>2. SubSeq(s, d, Len(s)) = <<s[d]>> \o SubSeq(s, d + 1, Len(s))
      BY <2>1, SubSeqRecursiveFirst, d \in 1 .. Len(s), Len(s) \in d .. Len(s)
    <3>3. (d - 1) + 1 = d
      BY <2>1
    <3> QED BY <2>1, <3>1, <3>2, <3>3 DEF b, e
  <2> QED BY <2>1, <2>2, <2>3, <2>4, <2>5, <2>6, <2>7, <2>8
<1> QED BY <1>2, <1>3

(* A base, a dot and an extension without a dot are what they are taken for. *)
LEMMA ExtensionIsFound ==
    ASSUME NEW b \in Seq(Runes), b # <<>>, NEW e \in Seq(Runes), e # <<>>, Dot \notin ToSet(e)
    PROVE  /\ PathExtension(b \o (<<Dot>> \o e)) = e
           /\ DotExt(b \o (<<Dot>> \o e)) = <<Dot>> \o e
           /\ DeletingPathExtension(b \o (<<Dot>> \o e)) = b
<1> DEFINE x == <<Dot>> \o e
           w == b \o x
           d == SelectLastInSeq(w, IsDot)
<1>1. <<Dot>> \in Seq(Runes) /\ Len(<<Dot>>) = 1 /\ <<Dot>>[1] = Dot
  BY SomeRunes, Singleton
<1>2. /\ Len(b) \in Nat \ {0} /\ Len(e) \in Nat \ {0} /\ DOMAIN e = 1 .. Len(e)
  BY EmptySeq, LenProperties
<1>3. /\ x \in Seq(Runes) /\ Len(x) = 1 + Len(e)
      /\ \A i \in 1 .. 1 : x[i] = <<Dot>>[i]
      /\ \A i \in 1 .. Len(e) : x[1 + i] = e[i]
  BY <1>1, JoinedParts
<1>4. SubSeq(x, 2, Len(x)) = e
  BY <1>1, TakenApart, 1 + 1 = 2
<1> HIDE DEF x
<1>5. /\ w \in Seq(Runes) /\ Len(w) = Len(b) + 1 + Len(e)
      /\ \A i \in 1 .. Len(x) : w[Len(b) + i] = x[i]
  <2>1. /\ b \o x \in Seq(Runes) /\ Len(b \o x) = Len(b) + Len(x)
        /\ \A i \in 1 .. Len(x) : (b \o x)[Len(b) + i] = x[i]
    <3>1. b \in Seq(Runes) /\ x \in Seq(Runes)
      BY <1>3
    <3> QED BY ONLY <3>1
  <2> HIDE DEF w
  <2>2. w = b \o x
    BY DEF w
  <2> QED BY <1>2, <1>3, <2>1, <2>2
<1>6. /\ SubSeq(w, 1, Len(b)) = b /\ SubSeq(w, Len(b) + 1, Len(w)) = x
      /\ SubSeq(w, Len(b) + 2, Len(w)) = e
  <2>1. SubSeq(w, 1, Len(b)) = b /\ SubSeq(w, Len(b) + 1, Len(w)) = x
    BY <1>3, TakenApart
  <2>2. /\ b \o <<Dot>> \in Seq(Runes) /\ Len(b \o <<Dot>>) = Len(b) + 1
        /\ w = (b \o <<Dot>>) \o e
    BY <1>1, JoinedParts, ConcatAssociative DEF x
  <2>3. SubSeq((b \o <<Dot>>) \o e, Len(b \o <<Dot>>) + 1, Len((b \o <<Dot>>) \o e)) = e
    BY <2>2, TakenApart
  <2>4. (Len(b) + 1) + 1 = Len(b) + 2
    BY <1>2
  <2> HIDE DEF w
  <2> QED BY <2>1, <2>2, <2>3, <2>4
<1> HIDE DEF w
<1>7. /\ d \in 0 .. Len(w) /\ (d # 0 => w[d] = Dot)
      /\ \A i \in 1 .. Len(w) : w[i] = Dot => i <= d
  BY <1>5, LastDot
<1> HIDE DEF d
<1>8. d = Len(b) + 1
  <2>1. w[Len(b) + 1] = Dot
    <3>1. x[1] = Dot /\ 1 \in 1 .. Len(x)
      BY <1>1, <1>2, <1>3
    <3> QED BY <1>5, <3>1
  <2>2. Len(b) + 1 <= d
    BY <1>2, <1>5, <1>7, <2>1
  <2>3. ASSUME d > Len(b) + 1 PROVE FALSE
    <3>1. PICK k \in 1 .. Len(e) : d = Len(b) + (1 + k)
      <4>1. d - Len(b) - 1 \in 1 .. Len(e) /\ d = Len(b) + (1 + (d - Len(b) - 1))
        BY <1>2, <1>5, <1>7, <2>3
      <4> QED BY <4>1
    <3>2. w[Len(b) + (1 + k)] = x[1 + k]
      BY <1>2, <1>3, <1>5, 1 + k \in 1 .. Len(x)
    <3>3. x[1 + k] = e[k]
      BY <1>3
    <3>4. w[d] = Dot
      BY <1>2, <1>7, <2>2
    <3>5. e[k] = Dot
      BY <3>1, <3>2, <3>3, <3>4
    <3> QED BY <1>2, <3>5 DEF ToSet
  <2> QED BY <1>2, <1>7, <2>2, <2>3
<1>9. PathExtension(w) = e
  <2>1. ~(d <= 1 \/ d = Len(w)) /\ d + 1 = Len(b) + 2
    BY <1>2, <1>5, <1>8
  <2> QED BY <1>6, <2>1 DEF PathExtension, d
<1>10. DotExt(w) = x
  BY <1>9 DEF DotExt, x
<1>11. DeletingPathExtension(w) = b
  <2>1. Len(w) - Len(x) = Len(b)
    BY <1>2, <1>3, <1>5
  <2> QED BY <1>6, <1>10, <2>1 DEF DeletingPathExtension
<1> QED BY <1>9, <1>10, <1>11 DEF w, x

------------------------------------------------------------------------------
(* The first symbol that is not a space, and the last that passes a test. *)
LEMMA FirstNotSpace ==
    ASSUME NEW s \in Seq(Runes), NEW j \in 1 .. Len(s), s[j] # " "
    PROVE  /\ SelectInSeq(s, NotSpace) \in 1 .. Len(s)
           /\ s[SelectInSeq(s, NotSpace)] # " "
           /\ SelectLastInSeq(s, NotSpace) \in SelectInSeq(s, NotSpace) .. Len(s)
<1> DEFINE I == {i \in 1 .. Len(s) : NotSpace(s[i])}
           a == SelectInSeq(s, NotSpace)
           z == SelectLastInSeq(s, NotSpace)
<1>1. a = (IF I # {} THEN Min(I) ELSE 0) /\ z = (IF I # {} THEN Max(I) ELSE 0)
  BY DEF SelectInSeq, SelectLastInSeq
<1>l. Len(s) \in Nat
  BY LenProperties
<1>2. j \in I /\ \A i \in I : i \in 1 .. Len(s) /\ s[i] # " "
  BY DEF NotSpace
<1>i. I \in SUBSET (1 .. Len(s)) /\ I # {}
  BY <1>2
<1> HIDE DEF I, a, z
<1>3. a \in I /\ z \in I /\ a <= z
  <2>1. a = Min(I) /\ z = Max(I)
    BY <1>1, <1>2
  <2>2. Min(I) \in I /\ Max(I) \in I /\ \A i \in I : Min(I) <= i
    BY ONLY <1>l, <1>i, Extremes
  <2> QED BY <2>1, <2>2
<1>4. a \in 1 .. Len(s) /\ z \in 1 .. Len(s)
  BY <1>2, <1>3
<1>5. z \in a .. Len(s)
  BY ONLY <1>l, <1>3, <1>4
<1>6. s[a] # " "
  BY <1>2, <1>3
<1> QED BY <1>4, <1>5, <1>6 DEF a, z

(* filepath.Base gives a name of runes. *)
LEMMA BaseIsAName ==
    ASSUME NEW raw \in Seq(Runes)
    PROVE  Base(raw) \in Seq(Runes)
<1> DEFINE n == SelectLastInSeq(raw, NotSlash)
           p == SubSeq(raw, 1, n)
           k == SelectLastInSeq(p, IsSlash)
<1>1. n \in 0 .. Len(raw)
  <2> DEFINE I == {i \in 1 .. Len(raw) : NotSlash(raw[i])}
  <2>1. n = IF I # {} THEN Max(I) ELSE 0
    BY DEF SelectLastInSeq
  <2>2. I # {} => Max(I) \in I
    BY Extremes, Len(raw) \in Nat
  <2>3. Len(raw) \in Nat /\ \A i \in I : i \in 1 .. Len(raw)
    OBVIOUS
  <2> HIDE DEF I, n
  <2>4. n = 0 \/ n \in I
    BY <2>1, <2>2
  <2> QED BY <2>3, <2>4
<1> HIDE DEF n
<1>2. p \in Seq(Runes)
  BY <1>1, PartOf, 1 \in Nat
<1> HIDE DEF p
<1>3. k \in 0 .. Len(p)
  <2> DEFINE I == {i \in 1 .. Len(p) : IsSlash(p[i])}
  <2>1. k = IF I # {} THEN Max(I) ELSE 0
    BY DEF SelectLastInSeq
  <2>2. I # {} => Max(I) \in I
    BY <1>2, Extremes, Len(p) \in Nat
  <2>3. Len(p) \in Nat /\ \A i \in I : i \in 1 .. Len(p)
    BY <1>2
  <2> HIDE DEF I, k
  <2>4. k = 0 \/ k \in I
    BY <2>1, <2>2
  <2> QED BY <2>3, <2>4
<1> HIDE DEF k
<1>4. SubSeq(p, k + 1, Len(p)) \in Seq(Runes)
  BY <1>2, <1>3, PartOf, k + 1 \in Nat, Len(p) \in Nat
<1>5. <<Dot>> \in Seq(Runes) /\ <<"/">> \in Seq(Runes)
  BY SomeRunes, Singleton
<1>6. Base(raw) = CASE raw = <<>> -> <<Dot>> [] p = <<>> -> <<"/">> [] OTHER -> SubSeq(p, k + 1, Len(p))
  BY DEF Base, p, n, k
<1> QED BY <1>4, <1>5, <1>6

(* A name that has been mapped and trimmed. *)
Plain(s) ==
    /\ s \in Seq(Runes)
    /\ \A i \in 1 .. Len(s) : s[i] \notin {"/", "("}
    /\ s # <<>> => s[1] # " "

(* What is left of any path after Base, the mapping and the trimming is plain. *)
LEMMA TrimmedIsPlain ==
    ASSUME NEW raw \in Seq(Runes)
    PROVE  Plain(Trimmed(Mapped(Base(raw))))
<1> DEFINE b == Base(raw)
           s == Mapped(b)
           a == SelectInSeq(s, NotSpace)
           z == SelectLastInSeq(s, NotSpace)
<1>1. b \in Seq(Runes) /\ DOMAIN b = 1 .. Len(b) /\ Len(b) \in Nat /\ \A i \in 1 .. Len(b) : b[i] \in Runes
  BY BaseIsAName, LenProperties, ElementOfSeq
<1> HIDE DEF b
<1>2. s = [i \in 1 .. Len(b) |-> IF b[i] \in Allowed THEN b[i] ELSE "_"]
  BY <1>1 DEF Mapped
<1>3. s \in Seq(Runes) /\ Len(s) = Len(b)
  <2>1. \A i \in 1 .. Len(b) : (IF b[i] \in Allowed THEN b[i] ELSE "_") \in Runes
    BY <1>1, SomeRunes
  <2>2. Len(b) \in Nat
    BY <1>1
  <2>3. s \in [1 .. Len(b) -> Runes]
    BY <1>2, <2>1
  <2> HIDE DEF s
  <2> QED BY ONLY <2>2, <2>3
<1>4. \A i \in 1 .. Len(s) : s[i] \in Allowed
  BY <1>1, <1>2, <1>3 DEF Allowed
<1>5. \A i \in 1 .. Len(s) : s[i] \notin {"/", "("}
  BY <1>4 DEF Allowed, Dot
<1> HIDE DEF s
<1>6. DOMAIN s = 1 .. Len(s)
  BY <1>3
<1>7. CASE \A i \in DOMAIN s : s[i] = " "
  <2>1. Trimmed(s) = <<>>
    BY <1>7 DEF Trimmed
  <2> QED BY <2>1, EmptySeq DEF Plain, s, b
<1>8. ASSUME NEW j \in 1 .. Len(s), s[j] # " "
      PROVE  Plain(Trimmed(s))
  <2>1. Trimmed(s) = SubSeq(s, a, z)
    BY <1>6, <1>8 DEF Trimmed
  <2>2. a \in 1 .. Len(s) /\ s[a] # " " /\ z \in a .. Len(s)
    BY <1>3, <1>8, FirstNotSpace
  <2> HIDE DEF a, z
  <2>3. a \in Nat /\ z \in Nat /\ 1 <= a /\ a <= z /\ z <= Len(s)
    <3>1. Len(s) \in Nat
      BY <1>1, <1>3
    <3>2. a \in 1 .. Len(s) /\ z \in a .. Len(s)
      BY <2>2
    <3> QED BY <3>1, <3>2
  <2>4. /\ SubSeq(s, a, z) \in Seq(Runes) /\ SubSeq(s, a, z)[1] = s[a]
        /\ \A i \in 1 .. Len(SubSeq(s, a, z)) : \E k \in 1 .. Len(s) : SubSeq(s, a, z)[i] = s[k]
    BY <1>3, <2>3, PartOf
  <2> QED BY <1>5, <2>1, <2>2, <2>4 DEF Plain
<1> QED BY <1>6, <1>7, <1>8 DEF s, b

(* A name that a file may have: neither hidden nor empty, nor with a symbol that
   is special. *)
Decent(s) ==
    /\ s \in Seq(Runes) /\ s # <<>>
    /\ s[1] \notin {Dot, " "}
    /\ \A i \in 1 .. Len(s) : s[i] \notin {"/", "("}

(* A decent name stays decent while its first symbol stays and no new one comes. *)
LEMMA DecentStays ==
    ASSUME NEW s, Decent(s), NEW t \in Seq(Runes), t # <<>>, t[1] = s[1],
           \A i \in 1 .. Len(t) : t[i] \in {s[j] : j \in 1 .. Len(s)}
    PROVE  Decent(t)
BY DEF Decent

(* SafeLeaf refuses no name that has no slash and no dot in front. *)
LEMMA DecentHasNoEscape ==
    ASSUME NEW s, s \in Seq(Runes), s # <<>>, s[1] # Dot, \A i \in 1 .. Len(s) : s[i] # "/"
    PROVE  ~Escapes(s)
<1>1. DOMAIN s = 1 .. Len(s)
  BY LenProperties
<1>2. "/" \notin ToSet(s)
  BY <1>1 DEF ToSet
<1>3. s # <<Dot>> /\ s # <<Dot, Dot>>
  <2>1. <<Dot>>[1] = Dot /\ <<Dot, Dot>>[1] = Dot
    OBVIOUS
  <2> QED BY <2>1
<1> QED BY <1>2, <1>3 DEF Escapes

(* The name that stands in for one that cannot be used. *)
LEMMA FallbackIsDecent ==
    ASSUME NEW it \in ItemNames, {".", "/", "("} \cap ToSet(it.uti) = {}
    PROVE  Decent(FallbackName(it))
<1> DEFINE ext == IF it.uti # <<>> THEN it.uti
                  ELSE CASE it.kind = "image" -> <<"png">> [] it.kind = "file" -> <<"bin">>
                         [] OTHER -> <<>>
           h == <<"#", Dot>>
<1>1. FallbackName(it) = IF ext = <<>> THEN <<"#">> ELSE h \o ext
  BY DEF FallbackName
<1>2. /\ it.uti \in Seq(Runes)
      /\ \A i \in 1 .. Len(it.uti) : it.uti[i] \notin {"/", "("}
  <2>1. it.uti \in Seq(Runes)
    BY DEF ItemNames
  <2>2. DOMAIN it.uti = 1 .. Len(it.uti)
    BY <2>1, LenProperties
  <2> QED BY <2>1, <2>2 DEF ToSet
<1>3. /\ ext \in Seq(Runes)
      /\ \A i \in 1 .. Len(ext) : ext[i] \notin {"/", "("}
  <2>1. CASE it.uti # <<>>
    BY <1>2, <2>1
  <2>2. /\ <<"png">> \in Seq(Runes) /\ Len(<<"png">>) = 1 /\ <<"png">>[1] = "png"
        /\ <<"bin">> \in Seq(Runes) /\ Len(<<"bin">>) = 1 /\ <<"bin">>[1] = "bin"
        /\ <<>> \in Seq(Runes) /\ Len(<<>>) = 0
    BY SomeRunes, Singleton, EmptySeq
  <2>3. CASE it.uti = <<>>
    <3>1. ext = <<"png">> \/ ext = <<"bin">> \/ ext = <<>>
      BY <2>3
    <3> HIDE DEF ext
    <3>2. CASE ext = <<"png">>
      BY <2>2, <3>2
    <3>3. CASE ext = <<"bin">>
      BY <2>2, <3>3
    <3>4. CASE ext = <<>>
      BY <2>2, <3>4
    <3> QED BY <3>1, <3>2, <3>3, <3>4
  <2> QED BY <2>1, <2>3
<1> HIDE DEF ext
<1>4. h \in Seq(Runes) /\ Len(h) = 2 /\ h[1] = "#" /\ h[2] = Dot
  BY SomeRunes, Pair
<1>5. <<"#">> \in Seq(Runes) /\ Len(<<"#">>) = 1 /\ <<"#">>[1] = "#"
  BY SomeRunes, Singleton
<1>6. Decent(<<"#">>)
  BY <1>5 DEF Decent, Dot
<1> HIDE DEF h
<1>7. Decent(h \o ext)
  <2>1. h \o ext \in Seq(Runes) /\ Len(h \o ext) = Len(h) + Len(ext) /\ Len(ext) \in Nat
        /\ \A i \in 1 .. Len(h) : (h \o ext)[i] = h[i]
    <3>1. h \in Seq(Runes) /\ ext \in Seq(Runes)
      BY <1>3, <1>4
    <3> QED BY ONLY <3>1
  <2>2. (h \o ext)[1] = "#" /\ h \o ext # <<>>
    BY <1>4, <2>1, EmptySeq
  <2>3. \A i \in 1 .. Len(h \o ext) : (h \o ext)[i] \notin {"/", "("}
    <3> TAKE i \in 1 .. Len(h \o ext)
    <3>1. \/ i \in 1 .. Len(h) /\ (h \o ext)[i] = h[i]
          \/ \E k \in 1 .. Len(ext) : (h \o ext)[i] = ext[k]
      <4>1. h \in Seq(Runes) /\ ext \in Seq(Runes)
        BY <1>3, <1>4
      <4> QED BY <4>1, JoinedElements
    <3>2. \A k \in 1 .. Len(h) : h[k] \notin {"/", "("}
      BY <1>4 DEF Dot
    <3> QED BY <1>3, <3>1, <3>2
  <2> QED BY <2>1, <2>2, <2>3 DEF Decent, Dot
<1> QED BY <1>1, <1>6, <1>7

(* The base of a name begins it, and both parts have only its symbols. *)
LEMMA PartsOfDecent ==
    ASSUME NEW s, Decent(s)
    PROVE  /\ DeletingPathExtension(s) \in Seq(Runes) /\ DotExt(s) \in Seq(Runes)
           /\ PathExtension(s) \in Seq(Runes)
           /\ s = DeletingPathExtension(s) \o DotExt(s)
           /\ Len(DeletingPathExtension(s)) \in Nat \ {0} /\ Len(DotExt(s)) \in Nat
           /\ Len(s) = Len(DeletingPathExtension(s)) + Len(DotExt(s))
           /\ DeletingPathExtension(s)[1] = s[1]
           /\ \A i \in 1 .. Len(DeletingPathExtension(s)) :
                 DeletingPathExtension(s)[i] \in {s[j] : j \in 1 .. Len(s)}
           /\ \A i \in 1 .. Len(DotExt(s)) : DotExt(s)[i] \in {s[j] : j \in 1 .. Len(s)}
<1> DEFINE b == DeletingPathExtension(s)
           x == DotExt(s)
<1>0. s \in Seq(Runes) /\ s # <<>>
  BY DEF Decent
<1>1. b \in Seq(Runes) /\ x \in Seq(Runes) /\ PathExtension(s) \in Seq(Runes)
      /\ s = b \o x /\ b # <<>>
  BY <1>0, BaseAndExtension
<1> HIDE DEF b, x
<1>2. /\ Len(b) \in Nat \ {0} /\ Len(x) \in Nat
  BY <1>1, EmptySeq, LenProperties
<1>3. /\ Len(b \o x) = Len(b) + Len(x)
      /\ \A i \in 1 .. Len(b) : (b \o x)[i] = b[i]
      /\ \A i \in 1 .. Len(x) : (b \o x)[Len(b) + i] = x[i]
  <2>1. b \in Seq(Runes) /\ x \in Seq(Runes)
    BY <1>1
  <2> QED BY ONLY <2>1
<1>4. /\ Len(s) = Len(b) + Len(x)
      /\ \A i \in 1 .. Len(b) : s[i] = b[i]
      /\ \A i \in 1 .. Len(x) : s[Len(b) + i] = x[i]
  BY <1>1, <1>3
<1>5. \A i \in 1 .. Len(b) : i \in 1 .. Len(s)
  BY ONLY <1>2, <1>4
<1>6. \A i \in 1 .. Len(x) : Len(b) + i \in 1 .. Len(s)
  BY ONLY <1>2, <1>4
<1>7. b[1] = s[1]
  BY ONLY <1>2, <1>4
<1> QED BY <1>1, <1>2, <1>4, <1>5, <1>6, <1>7 DEF b, x

(* The front of a decent name. *)
LEMMA FrontIsDecent ==
    ASSUME NEW s, Decent(s), NEW n \in Nat, 1 <= n, n <= Len(s)
    PROVE  Decent(SubSeq(s, 1, n)) /\ Len(SubSeq(s, 1, n)) = n
<1> DEFINE t == SubSeq(s, 1, n)
<1>1. s \in Seq(Runes)
  BY DEF Decent
<1>2. /\ t \in Seq(Runes) /\ (1 <= n => Len(t) = n - 1 + 1 /\ t[1] = s[1])
      /\ \A i \in 1 .. Len(t) : \E j \in 1 .. Len(s) : t[i] = s[j]
  BY ONLY <1>1, 1 \in Nat, n \in Nat, 1 <= 1, n <= Len(s), PartOf
<1> HIDE DEF t
<1>3. Len(t) = n /\ t[1] = s[1]
  BY ONLY <1>2, n \in Nat, 1 <= n
<1>4. t # <<>>
  BY <1>3, EmptySeq
<1>5. Decent(t)
  BY <1>2, <1>3, <1>4, DecentStays
<1> QED BY <1>3, <1>5 DEF t

(* Rule 5: what the cap leaves is decent, short enough, and keeps an extension
   that fits. *)
LEMMA Capped ==
    ASSUME NEW s, Decent(s)
    PROVE  /\ Decent(CapLength(s)) /\ Len(CapLength(s)) <= NameMaxBytes
           /\ PathExtension(s) # <<>> /\ Len(PathExtension(s)) + 1 < NameMaxBytes
              => PathExtension(CapLength(s)) = PathExtension(s)
<1> DEFINE b == DeletingPathExtension(s)
           x == DotExt(s)
           budget == NameMaxBytes - Len(x)
           m == IF budget < Len(b) THEN budget ELSE Len(b)
           t == SubSeq(b, 1, m)
<1>n. NameMaxBytes \in Nat /\ NameMaxBytes > 2
  BY NamesAssumption
<1>s. s \in Seq(Runes)
  BY DEF Decent
<1>1. /\ b \in Seq(Runes) /\ x \in Seq(Runes) /\ PathExtension(s) \in Seq(Runes)
      /\ s = b \o x
      /\ Len(b) \in Nat \ {0} /\ Len(x) \in Nat
      /\ Len(s) = Len(b) + Len(x)
      /\ b[1] = s[1]
      /\ \A i \in 1 .. Len(b) : b[i] \in {s[j] : j \in 1 .. Len(s)}
      /\ \A i \in 1 .. Len(x) : x[i] \in {s[j] : j \in 1 .. Len(s)}
  BY PartsOfDecent
<1>2. PathExtension(s) # <<>> =>
         /\ x = <<Dot>> \o PathExtension(s) /\ Dot \notin ToSet(PathExtension(s))
         /\ Len(x) = 1 + Len(PathExtension(s))
  <2>1. PathExtension(s) # <<>> => x = <<Dot>> \o PathExtension(s) /\ Dot \notin ToSet(PathExtension(s))
    BY <1>s, BaseAndExtension
  <2>2. <<Dot>> \in Seq(Runes) /\ Len(<<Dot>>) = 1
    BY SomeRunes, Singleton
  <2>3. Len(<<Dot>> \o PathExtension(s)) = 1 + Len(PathExtension(s))
    BY <1>1, <2>2, JoinedParts
  <2> QED BY <2>1, <2>3
<1>3. CASE Len(s) <= NameMaxBytes
  <2>1. CapLength(s) = s
    BY <1>3 DEF CapLength
  <2> QED BY <1>3, <2>1
<1>4. CASE ~(Len(s) <= NameMaxBytes) /\ Len(x) >= NameMaxBytes
  <2>1. CapLength(s) = SubSeq(s, 1, NameMaxBytes)
    <3>1. NameMaxBytes < Len(s)
      BY <1>n, <1>1, <1>4
    <3> QED BY <1>4, <3>1 DEF CapLength, TruncateBytes
  <2>2. Decent(SubSeq(s, 1, NameMaxBytes)) /\ Len(SubSeq(s, 1, NameMaxBytes)) = NameMaxBytes
    <3>1. 1 <= NameMaxBytes /\ NameMaxBytes <= Len(s)
      BY <1>n, <1>1, <1>4
    <3> QED BY <1>n, <3>1, FrontIsDecent
  <2>3. ~(PathExtension(s) # <<>> /\ Len(PathExtension(s)) + 1 < NameMaxBytes)
    <3>1. Len(PathExtension(s)) \in Nat
      BY <1>1, LenProperties
    <3> QED BY <1>n, <1>1, <1>2, <1>4, <3>1
  <2> QED BY <1>n, <2>1, <2>2, <2>3
<1>5. CASE ~(Len(s) <= NameMaxBytes) /\ ~(Len(x) >= NameMaxBytes)
  <2>1. CapLength(s) = t \o x
    BY <1>5 DEF CapLength, TruncateBytes
  <2>2. m \in Nat /\ 1 <= m /\ m <= Len(b) /\ m + Len(x) <= NameMaxBytes
    BY <1>n, <1>1, <1>5
  <2> HIDE DEF b, x, m
  <2>3. /\ t \in Seq(Runes) /\ (1 <= m => Len(t) = m - 1 + 1 /\ t[1] = b[1])
        /\ \A i \in 1 .. Len(t) : \E j \in 1 .. Len(b) : t[i] = b[j]
    BY ONLY <1>1, <2>2, 1 \in Nat, 1 <= 1, PartOf
  <2> HIDE DEF t
  <2>4. Len(t) = m /\ t[1] = s[1] /\ t # <<>>
    <3>1. Len(t) = m
      BY ONLY <2>2, <2>3
    <3>2. t # <<>>
      BY <2>2, <3>1, EmptySeq
    <3> QED BY <1>1, <2>2, <2>3, <3>1, <3>2
  <2>5. /\ t \o x \in Seq(Runes) /\ Len(t \o x) = m + Len(x) /\ (t \o x)[1] = s[1]
    <3>1. t \in Seq(Runes) /\ x \in Seq(Runes)
      BY <1>1, <2>3
    <3>2. t \o x \in Seq(Runes) /\ Len(t \o x) = Len(t) + Len(x)
          /\ \A i \in 1 .. Len(t) : (t \o x)[i] = t[i]
      BY ONLY <3>1
    <3>3. 1 \in 1 .. Len(t)
      BY <2>2, <2>4
    <3> QED BY <2>4, <3>2, <3>3
  <2>6. \A i \in 1 .. Len(t \o x) : (t \o x)[i] \in {s[j] : j \in 1 .. Len(s)}
    <3> TAKE i \in 1 .. Len(t \o x)
    <3>1. \/ i \in 1 .. Len(t) /\ (t \o x)[i] = t[i]
          \/ \E k \in 1 .. Len(x) : (t \o x)[i] = x[k]
      BY <1>1, <2>3, JoinedElements
    <3> QED BY <1>1, <2>3, <3>1
  <2>7. t \o x # <<>>
    BY <1>1, <2>2, <2>5, EmptySeq
  <2>8. Decent(t \o x)
    BY <2>5, <2>6, <2>7, DecentStays
  <2>9. PathExtension(s) # <<>> => PathExtension(t \o x) = PathExtension(s)
    <3> DEFINE e == PathExtension(s)
    <3>1. e \in Seq(Runes)
      BY <1>1
    <3>2. e # <<>> => x = <<Dot>> \o e /\ Dot \notin ToSet(e)
      BY <1>2
    <3> HIDE DEF e
    <3>3. e # <<>> => PathExtension(t \o (<<Dot>> \o e)) = e
      BY <2>3, <2>4, <3>1, <3>2, ExtensionIsFound
    <3>4. e # <<>> => PathExtension(t \o x) = e
      BY <3>2, <3>3
    <3> QED BY <3>4 DEF e
  <2> QED BY <2>1, <2>2, <2>5, <2>8, <2>9
<1> QED BY <1>3, <1>4, <1>5

(* CleanLeaf: a decent name within the cap, which keeps an extension that fits. *)
LEMMA LeafIsDecent ==
    ASSUME NEW it \in ItemNames, {".", "/", "("} \cap ToSet(it.uti) = {}
    PROVE  LET came == Trimmed(Mapped(Base(it.raw)))
           IN  /\ Decent(CleanLeaf(it)) /\ Len(CleanLeaf(it)) <= NameMaxBytes
               /\ came # <<>> /\ came[1] # Dot /\ PathExtension(came) # <<>>
                     /\ Len(PathExtension(came)) + 1 < NameMaxBytes
                  => PathExtension(CleanLeaf(it)) = PathExtension(came)
<1> DEFINE came == Trimmed(Mapped(Base(it.raw)))
           s == IF came = <<>> \/ came[1] = Dot THEN FallbackName(it) ELSE came
<1>1. CleanLeaf(it) = CapLength(s)
  BY DEF CleanLeaf
<1>2. Plain(came)
  BY TrimmedIsPlain DEF ItemNames
<1>3. Decent(s)
  <2>1. CASE came = <<>> \/ came[1] = Dot
    BY <2>1, FallbackIsDecent
  <2>2. CASE ~(came = <<>> \/ came[1] = Dot)
    BY <1>2, <2>2 DEF Plain, Decent
  <2> QED BY <2>1, <2>2
<1>4. came # <<>> /\ came[1] # Dot => s = came
  OBVIOUS
<1> HIDE DEF s, came
<1>5. /\ Decent(CapLength(s)) /\ Len(CapLength(s)) <= NameMaxBytes
      /\ PathExtension(s) # <<>> /\ Len(PathExtension(s)) + 1 < NameMaxBytes
         => PathExtension(CapLength(s)) = PathExtension(s)
  BY <1>3, Capped
<1>6. came # <<>> /\ came[1] # Dot /\ PathExtension(came) # <<>>
         /\ Len(PathExtension(came)) + 1 < NameMaxBytes
      => PathExtension(CapLength(s)) = PathExtension(came)
  BY <1>4, <1>5
<1> QED BY <1>1, <1>5, <1>6 DEF came

(* The number of a name and what is around it. *)
LEMMA Marks ==
    ASSUME NEW n \in DOMAIN Numerals
    PROVE  /\ Mark(n) \in Seq(Runes) /\ Len(Mark(n)) = 4
           /\ Mark(n)[1] = " " /\ Mark(n)[2] = "(" /\ Mark(n)[3] = Numerals[n] /\ Mark(n)[4] = ")"
           /\ \A i \in 1 .. Len(Mark(n)) : Mark(n)[i] \notin {"/"}
<1>1. Numerals[n] \in Runes
  <2>1. Numerals \in Seq(Runes)
    BY NamesAssumption
  <2>2. n \in 1 .. Len(Numerals)
    BY <2>1, LenProperties
  <2> QED BY <2>1, <2>2, ElementOfSeq
<1>2. Numerals[n] # "/"
  BY NamesAssumption DEF ToSet
<1>3. /\ Mark(n) \in Seq(Runes) /\ Len(Mark(n)) = 4
      /\ Mark(n)[1] = " " /\ Mark(n)[2] = "(" /\ Mark(n)[3] = Numerals[n] /\ Mark(n)[4] = ")"
  BY <1>1, SomeRunes, Quadruple DEF Mark
<1>4. \A i \in 1 .. 4 : i = 1 \/ i = 2 \/ i = 3 \/ i = 4
  OBVIOUS
<1>5. Mark(n)[1] # "/" /\ Mark(n)[2] # "/" /\ Mark(n)[4] # "/"
  BY <1>3
<1> QED BY <1>2, <1>3, <1>4, <1>5

(* CollisionName of a decent leaf is a name below the directory, too, four symbols
   longer, with the same extension. *)
LEMMA NumberedIsSafe ==
    ASSUME NEW s, Decent(s), NEW n \in DOMAIN Numerals
    PROVE  /\ Numbered(s, n) \in Seq(Runes)
           /\ ~Escapes(Numbered(s, n)) /\ Numbered(s, n)[1] = s[1]
           /\ Len(Numbered(s, n)) <= Len(s) + 4
           /\ PathExtension(s) # <<>> => PathExtension(Numbered(s, n)) = PathExtension(s)
<1> DEFINE b == DeletingPathExtension(s)
           x == DotExt(s)
           e == PathExtension(s)
           k == Mark(n)
           c == b \o k
           w == c \o x
<1>s. s \in Seq(Runes) /\ s # <<>> /\ Len(s) \in Nat /\ s[1] # Dot
      /\ \A i \in 1 .. Len(s) : s[i] # "/"
  BY LenProperties DEF Decent
<1>1. CASE n = 1
  <2>1. Numbered(s, n) = s
    BY <1>1 DEF Numbered
  <2> QED BY <1>s, <2>1, DecentHasNoEscape
<1>2. CASE n # 1
  <2>1. Numbered(s, n) = w
    BY <1>2 DEF Numbered, CollisionName
  <2>2. /\ b \in Seq(Runes) /\ x \in Seq(Runes) /\ e \in Seq(Runes)
        /\ Len(b) \in Nat \ {0} /\ Len(x) \in Nat
        /\ Len(s) = Len(b) + Len(x)
        /\ b[1] = s[1]
        /\ \A i \in 1 .. Len(b) : b[i] \in {s[j] : j \in 1 .. Len(s)}
        /\ \A i \in 1 .. Len(x) : x[i] \in {s[j] : j \in 1 .. Len(s)}
    BY PartsOfDecent
  <2>3. /\ k \in Seq(Runes) /\ Len(k) = 4 /\ \A i \in 1 .. Len(k) : k[i] # "/"
    BY Marks
  <2>4. e # <<>> => x = <<Dot>> \o e /\ Dot \notin ToSet(e)
    BY <1>s, BaseAndExtension
  <2> HIDE DEF b, x, e, k
  <2>5. c \in Seq(Runes) /\ Len(c) = Len(b) + Len(k) /\ \A i \in 1 .. Len(b) : c[i] = b[i]
    <3>1. b \in Seq(Runes) /\ k \in Seq(Runes)
      BY <2>2, <2>3
    <3> QED BY ONLY <3>1
  <2>6. \A i \in 1 .. Len(c) : c[i] # "/"
    <3> TAKE i \in 1 .. Len(c)
    <3>1. \/ i \in 1 .. Len(b) /\ c[i] = b[i]
          \/ \E j \in 1 .. Len(k) : c[i] = k[j]
      <4>1. b \in Seq(Runes) /\ k \in Seq(Runes)
        BY <2>2, <2>3
      <4>2. i \in 1 .. Len(b \o k)
        OBVIOUS
      <4> HIDE DEF c
      <4>3. c = b \o k
        BY DEF c
      <4> QED BY <4>1, <4>2, <4>3, JoinedElements
    <3> QED BY <1>s, <2>2, <2>3, <3>1
  <2> HIDE DEF c
  <2>7. /\ w \in Seq(Runes) /\ Len(w) = Len(c) + Len(x) /\ \A i \in 1 .. Len(c) : w[i] = c[i]
    <3>1. c \in Seq(Runes) /\ x \in Seq(Runes)
      BY <2>2, <2>5
    <3> QED BY ONLY <3>1
  <2>8. \A i \in 1 .. Len(w) : w[i] # "/"
    <3> TAKE i \in 1 .. Len(w)
    <3>1. \/ i \in 1 .. Len(c) /\ w[i] = c[i]
          \/ \E j \in 1 .. Len(x) : w[i] = x[j]
      BY <2>2, <2>5, JoinedElements
    <3> QED BY <1>s, <2>2, <2>6, <3>1
  <2>9. e # <<>> => PathExtension(w) = e
    <3>1. c # <<>>
      <4>1. Len(c) # 0
        BY <2>2, <2>3, <2>5
      <4> QED BY <4>1, EmptySeq
    <3>2. e # <<>> => PathExtension(c \o (<<Dot>> \o e)) = e
      BY <2>2, <2>4, <2>5, <3>1, ExtensionIsFound
    <3> QED BY <2>4, <3>2
  <2> HIDE DEF w
  <2>10. Len(c) = Len(b) + 4
    BY <2>3, <2>5
  <2>11. Len(w) = Len(s) + 4 /\ 1 \in 1 .. Len(b) /\ 1 \in 1 .. Len(c) /\ Len(w) # 0
    <3>1. /\ Len(b) \in Nat \ {0} /\ Len(x) \in Nat /\ Len(s) = Len(b) + Len(x)
          /\ Len(w) = Len(c) + Len(x)
      BY <2>2, <2>7
    <3> QED BY ONLY <2>10, <3>1
  <2>12. w[1] = s[1] /\ w # <<>>
    BY <2>2, <2>5, <2>7, <2>11, EmptySeq
  <2>13. ~Escapes(w)
    BY <1>s, <2>7, <2>8, <2>12, DecentHasNoEscape
  <2>14. Len(w) <= Len(s) + 4
    BY <1>s, <2>11
  <2> QED BY <2>1, <2>7, <2>9, <2>12, <2>13, <2>14 DEF e
<1> QED BY <1>1, <1>2

(* The parenthesis of a numbered name is behind its base, and nowhere before. *)
LEMMA ParenthesisIsFound ==
    ASSUME NEW s, Decent(s), NEW n \in DOMAIN Numerals, n # 1
    PROVE  LET b == DeletingPathExtension(s)
           IN  /\ b \in Seq(Runes) /\ Len(b) \in Nat
               /\ Numbered(s, n) = (b \o Mark(n)) \o DotExt(s)
               /\ Numbered(s, n)[Len(b) + 2] = "("
               /\ Numbered(s, n)[Len(b) + 3] = Numerals[n]
               /\ \A i \in 1 .. Len(b) + 1 : Numbered(s, n)[i] # "("
               /\ Len(Numbered(s, n)) >= Len(b) + 4
<1> DEFINE b == DeletingPathExtension(s)
           x == DotExt(s)
           k == Mark(n)
           c == b \o k
           w == c \o x
<1>1. Numbered(s, n) = w
  BY DEF Numbered, CollisionName
<1>2. /\ b \in Seq(Runes) /\ x \in Seq(Runes) /\ Len(b) \in Nat /\ Len(x) \in Nat
      /\ \A i \in 1 .. Len(b) : b[i] \in {s[j] : j \in 1 .. Len(s)}
  BY PartsOfDecent
<1>3. /\ k \in Seq(Runes) /\ Len(k) = 4
      /\ k[1] = " " /\ k[2] = "(" /\ k[3] = Numerals[n]
  BY Marks
<1>4. \A i \in 1 .. Len(b) : b[i] # "("
  BY <1>2 DEF Decent
<1> HIDE DEF b, x, k
<1>5. /\ c \in Seq(Runes) /\ Len(c) = Len(b) + Len(k)
      /\ \A i \in 1 .. Len(b) : c[i] = b[i]
      /\ \A i \in 1 .. Len(k) : c[Len(b) + i] = k[i]
  <2>1. b \in Seq(Runes) /\ k \in Seq(Runes)
    BY <1>2, <1>3
  <2> QED BY ONLY <2>1
<1> HIDE DEF c
<1>6. w \in Seq(Runes) /\ Len(w) = Len(c) + Len(x) /\ \A i \in 1 .. Len(c) : w[i] = c[i]
  <2>1. c \in Seq(Runes) /\ x \in Seq(Runes)
    BY <1>2, <1>5
  <2> QED BY ONLY <2>1
<1> HIDE DEF w
<1>l. Len(k) = 4
  BY <1>3
<1>7. /\ Len(c) = Len(b) + 4 /\ Len(w) >= Len(b) + 4
      /\ \A i \in 1 .. 3 : Len(b) + i \in 1 .. Len(c) /\ i \in 1 .. Len(k)
      /\ \A i \in 1 .. Len(b) : i \in 1 .. Len(c)
  BY ONLY <1>2, <1>l, <1>5, <1>6
<1>8. \A i \in 1 .. 3 : w[Len(b) + i] = k[i]
  <2> TAKE i \in 1 .. 3
  <2>1. Len(b) + i \in 1 .. Len(c) /\ i \in 1 .. Len(k)
    BY <1>7
  <2>2. w[Len(b) + i] = c[Len(b) + i]
    BY ONLY <1>6, <2>1
  <2>3. c[Len(b) + i] = k[i]
    BY ONLY <1>5, <2>1
  <2> QED BY <2>2, <2>3
<1>9. w[Len(b) + 2] = "(" /\ w[Len(b) + 3] = Numerals[n] /\ w[Len(b) + 1] # "("
  <2>1. w[Len(b) + 1] = k[1] /\ w[Len(b) + 2] = k[2] /\ w[Len(b) + 3] = k[3]
    BY ONLY <1>8
  <2> QED BY <1>3, <2>1
<1>10. \A i \in 1 .. Len(b) : w[i] = b[i]
  BY ONLY <1>5, <1>6, <1>7
<1>11. \A i \in 1 .. Len(b) + 1 : i \in 1 .. Len(b) \/ i = Len(b) + 1
  BY ONLY <1>2
<1>12. \A i \in 1 .. Len(b) + 1 : w[i] # "("
  BY <1>4, <1>9, <1>10, <1>11
<1> QED BY <1>1, <1>2, <1>7, <1>9, <1>12 DEF b, x, k, c, w

(* No two decent leaves share a numbered name, nor does one leaf under two numbers. *)
LEMMA NumbersTellApart ==
    ASSUME NEW s, Decent(s), NEW t, Decent(t),
           NEW m \in DOMAIN Numerals, NEW n \in DOMAIN Numerals,
           Numbered(s, m) = Numbered(t, n)
    PROVE  s = t /\ m = n
(* A leaf itself has no parenthesis. *)
<1>1. ASSUME NEW u, Decent(u), NEW v, Decent(v), NEW k \in DOMAIN Numerals, k # 1,
             Numbered(u, 1) = Numbered(v, k)
      PROVE  FALSE
  <2> DEFINE b == DeletingPathExtension(v)
  <2>1. u = Numbered(v, k)
    BY <1>1 DEF Numbered
  <2>2. Len(b) \in Nat /\ u[Len(b) + 2] = "(" /\ Len(u) >= Len(b) + 4
    BY <1>1, <2>1, ParenthesisIsFound
  <2>3. Len(u) \in Nat /\ \A i \in 1 .. Len(u) : u[i] # "("
    BY <1>1, LenProperties DEF Decent
  <2> HIDE DEF b
  <2>4. Len(b) + 2 \in 1 .. Len(u)
    <3>1. Len(b) \in Nat /\ Len(u) >= Len(b) + 4 /\ Len(u) \in Nat
      BY <2>2, <2>3
    <3> QED BY ONLY <3>1
  <2> QED BY <2>2, <2>3, <2>4
(* The longer base would have a parenthesis. *)
<1>2. ASSUME NEW u, Decent(u), NEW v, Decent(v), NEW k \in DOMAIN Numerals, k # 1,
             NEW l \in DOMAIN Numerals, l # 1, Numbered(u, k) = Numbered(v, l)
      PROVE  ~(Len(DeletingPathExtension(u)) < Len(DeletingPathExtension(v)))
  <2> DEFINE b == DeletingPathExtension(u)
             c == DeletingPathExtension(v)
  <2>1. Len(b) \in Nat /\ Len(c) \in Nat /\ Numbered(u, k)[Len(b) + 2] = "("
        /\ \A i \in 1 .. Len(c) + 1 : Numbered(v, l)[i] # "("
    BY <1>2, ParenthesisIsFound
  <2> HIDE DEF b, c
  <2>2. ASSUME Len(b) < Len(c) PROVE FALSE
    <3>1. Len(b) \in Nat /\ Len(c) \in Nat
      BY <2>1
    <3>2. Len(b) + 2 \in 1 .. Len(c) + 1
      BY ONLY <2>2, <3>1
    <3> QED BY <1>2, <2>1, <3>2
  <2> QED BY <2>2 DEF b, c
<1>3. CASE m = 1 /\ n = 1
  BY <1>3 DEF Numbered
<1>4. CASE m = 1 /\ n # 1
  BY <1>1, <1>4
<1>5. CASE m # 1 /\ n = 1
  BY <1>1, <1>5
<1>6. CASE m # 1 /\ n # 1
  <2> DEFINE b == DeletingPathExtension(s)
             c == DeletingPathExtension(t)
             w == Numbered(s, m)
  <2>1. /\ b \in Seq(Runes) /\ c \in Seq(Runes) /\ Len(b) \in Nat /\ Len(c) \in Nat
        /\ w = (b \o Mark(m)) \o DotExt(s) /\ w = (c \o Mark(n)) \o DotExt(t)
        /\ w[Len(b) + 3] = Numerals[m] /\ w[Len(c) + 3] = Numerals[n]
    BY <1>6, ParenthesisIsFound
  <2>2. Len(b) = Len(c)
    <3>1. ~(Len(b) < Len(c)) /\ ~(Len(c) < Len(b))
      BY <1>2, <1>6
    <3>2. Len(b) \in Nat /\ Len(c) \in Nat
      BY <2>1
    <3> HIDE DEF b, c
    <3> QED BY ONLY <3>1, <3>2
  <2>3. m = n
    BY <2>1, <2>2, NamesAssumption
  <2>4. /\ DotExt(s) \in Seq(Runes) /\ s = b \o DotExt(s)
        /\ DotExt(t) \in Seq(Runes) /\ t = c \o DotExt(t)
    BY PartsOfDecent
  <2>5. Mark(m) \in Seq(Runes) /\ Mark(n) \in Seq(Runes)
    BY Marks
  <2> HIDE DEF b, c, w
  <2>6. w = b \o (Mark(m) \o DotExt(s)) /\ w = c \o (Mark(n) \o DotExt(t))
        /\ Mark(m) \o DotExt(s) \in Seq(Runes) /\ Mark(n) \o DotExt(t) \in Seq(Runes)
    <3>1. (b \o Mark(m)) \o DotExt(s) = b \o (Mark(m) \o DotExt(s))
      <4> DEFINE y == Mark(m)
                 z == DotExt(s)
      <4>1. b \in Seq(Runes) /\ y \in Seq(Runes) /\ z \in Seq(Runes)
        BY <2>1, <2>4, <2>5
      <4> HIDE DEF y, z
      <4>2. (b \o y) \o z = b \o (y \o z)
        BY ONLY <4>1, ConcatAssociative
      <4> QED BY <4>2 DEF y, z
    <3>2. (c \o Mark(n)) \o DotExt(t) = c \o (Mark(n) \o DotExt(t))
      <4> DEFINE y == Mark(n)
                 z == DotExt(t)
      <4>1. c \in Seq(Runes) /\ y \in Seq(Runes) /\ z \in Seq(Runes)
        BY <2>1, <2>4, <2>5
      <4> HIDE DEF y, z
      <4>2. (c \o y) \o z = c \o (y \o z)
        BY ONLY <4>1, ConcatAssociative
      <4> QED BY <4>2 DEF y, z
    <3>3. Mark(m) \o DotExt(s) \in Seq(Runes) /\ Mark(n) \o DotExt(t) \in Seq(Runes)
      BY <2>4, <2>5, ConcatProperties
    <3> QED BY <2>1, <3>1, <3>2, <3>3
  <2>7. b = c /\ Mark(m) \o DotExt(s) = Mark(n) \o DotExt(t)
    <3> DEFINE y == Mark(m) \o DotExt(s)
               z == Mark(n) \o DotExt(t)
    <3>1. y \in Seq(Runes) /\ z \in Seq(Runes) /\ b \o y = c \o z
      BY <2>6
    <3> HIDE DEF y, z
    <3>2. SubSeq(b \o y, 1, Len(b)) = b /\ SubSeq(b \o y, Len(b) + 1, Len(b \o y)) = y
      BY <2>1, <3>1, TakenApart
    <3>3. SubSeq(c \o z, 1, Len(c)) = c /\ SubSeq(c \o z, Len(c) + 1, Len(c \o z)) = z
      BY <2>1, <3>1, TakenApart
    <3>4. b = c /\ y = z
      BY <2>2, <3>1, <3>2, <3>3
    <3> QED BY <3>4 DEF y, z
  <2>8. DotExt(s) = DotExt(t)
    <3>1. SubSeq(Mark(m) \o DotExt(s), Len(Mark(m)) + 1, Len(Mark(m) \o DotExt(s))) = DotExt(s)
      BY <2>4, <2>5, TakenApart
    <3>2. SubSeq(Mark(m) \o DotExt(t), Len(Mark(m)) + 1, Len(Mark(m) \o DotExt(t))) = DotExt(t)
      BY <2>4, <2>5, TakenApart
    <3> QED BY <2>3, <2>7, <3>1, <3>2
  <2> QED BY <2>3, <2>4, <2>7, <2>8
<1> QED BY <1>3, <1>4, <1>5, <1>6

(***************************************************************************)
(* The invariant of saving: every name is its leaf with the number that    *)
(* its predecessors leave it, and all smaller numbers of the leaf are      *)
(* taken.                                                                  *)
(***************************************************************************)
Before(sv, i, leaf) == {j \in 1 .. i : sv[j].leaf = leaf}
Seen(sv, name) == \E i \in DOMAIN sv : sv[i].name = name
Numbering ==
    /\ \A i \in 1 .. Len(saved) :
          /\ saved[i].leaf = CleanLeaf(saved[i].item)
          /\ saved[i].name = Numbered(saved[i].leaf, 1 + Cardinality(Before(saved, i - 1, saved[i].leaf)))
    /\ \A i \in 1 .. Len(saved) :
          \A k \in 1 .. Cardinality(Before(saved, Len(saved), saved[i].leaf)) :
              Seen(saved, Numbered(saved[i].leaf, k))
CleanItem(it) == it \in ItemNames /\ {".", "/", "("} \cap ToSet(it.uti) = {}
NamesInv ==
    /\ offered \in Seq(ItemNames) /\ \A i \in 1 .. Len(offered) : CleanItem(offered[i])
    /\ saved \in Seq([item : ItemNames, leaf : Seq(Runes), name : Seq(Runes)])
    /\ \A i \in 1 .. Len(saved) : CleanItem(saved[i].item)
    /\ Len(saved) + Len(offered) <= Len(Numerals)
    /\ Numbering

(* How many came before is a number, and no more than there are. *)
LEMMA Predecessors ==
    ASSUME NEW sv, NEW n \in Nat, NEW leaf
    PROVE  /\ IsFiniteSet(Before(sv, n, leaf))
           /\ Cardinality(Before(sv, n, leaf)) \in 0 .. n
<1>1. IsFiniteSet(1 .. n) /\ Cardinality(1 .. n) = n
  BY FS_Interval
<1>2. Before(sv, n, leaf) \subseteq 1 .. n
  BY DEF Before
<1>3. /\ IsFiniteSet(Before(sv, n, leaf))
      /\ Cardinality(Before(sv, n, leaf)) <= Cardinality(1 .. n)
  BY <1>1, <1>2, FS_Subset
<1>4. Cardinality(Before(sv, n, leaf)) \in Nat
  BY <1>3, FS_CardinalityType
<1> QED BY <1>1, <1>3, <1>4

(* An earlier count is smaller by those in between. *)
LEMMA FewerBefore ==
    ASSUME NEW sv, NEW n \in Nat, NEW i \in 1 .. n
    PROVE  1 + Cardinality(Before(sv, i - 1, sv[i].leaf)) <= Cardinality(Before(sv, n, sv[i].leaf))
<1> DEFINE A == Before(sv, i - 1, sv[i].leaf)
           B == Before(sv, n, sv[i].leaf)
<1>1. IsFiniteSet(A) /\ IsFiniteSet(B) /\ Cardinality(A) \in Nat /\ Cardinality(B) \in Nat
  BY Predecessors, i - 1 \in Nat
<1>2. A \cup {i} \subseteq B /\ i \notin A
  BY DEF Before
<1> HIDE DEF A, B
<1>3. Cardinality(A \cup {i}) = Cardinality(A) + 1
  BY <1>1, <1>2, FS_AddElement
<1>4. Cardinality(A \cup {i}) <= Cardinality(B)
  BY <1>1, <1>2, FS_Subset
<1> QED BY <1>1, <1>3, <1>4 DEF A, B

(* uniqueLeaf finds the number behind all that were saved under the leaf. *)
LEMMA NextNumber ==
    ASSUME NamesInv, NEW it, CleanItem(it), Len(saved) < Len(Numerals)
    PROVE  LET leaf == CleanLeaf(it)
               c == Cardinality(Before(saved, Len(saved), leaf))
           IN  /\ UniqueLeaf(leaf) = Numbered(leaf, 1 + c)
               /\ 1 + c \in DOMAIN Numerals
               /\ \A k \in 1 .. c : Seen(saved, Numbered(leaf, k))
<1> DEFINE leaf == CleanLeaf(it)
           c == Cardinality(Before(saved, Len(saved), leaf))
           L == Len(saved)
<1>1. L \in Nat /\ DOMAIN saved = 1 .. L /\ Len(Numerals) \in Nat /\ DOMAIN Numerals = 1 .. Len(Numerals)
  BY NamesAssumption, LenProperties DEF NamesInv
<1>2. c \in 0 .. L
  BY <1>1, Predecessors
<1>3. Decent(leaf)
  BY LeafIsDecent DEF CleanItem
<1>4. \A k \in 1 .. c : Seen(saved, Numbered(leaf, k))
  <2> TAKE k \in 1 .. c
  <2>1. PICK i \in Before(saved, L, leaf) : TRUE
    <3>1. Before(saved, L, leaf) # {}
      BY <1>2, FS_EmptySet
    <3> QED BY <3>1
  <2>2. i \in 1 .. L /\ saved[i].leaf = leaf
    BY <2>1 DEF Before
  <2> QED BY <2>2 DEF NamesInv, Numbering
<1>5. ~Seen(saved, Numbered(leaf, 1 + c))
  <2> SUFFICES ASSUME NEW i \in DOMAIN saved, saved[i].name = Numbered(leaf, 1 + c)
               PROVE  FALSE
    BY DEF Seen
  <2> DEFINE a == Cardinality(Before(saved, i - 1, saved[i].leaf))
             l == saved[i].leaf
  <2>1. l = CleanLeaf(saved[i].item) /\ saved[i].name = Numbered(l, 1 + a) /\ CleanItem(saved[i].item)
    BY <1>1 DEF NamesInv, Numbering
  <2>2. Decent(l)
    BY <2>1, LeafIsDecent DEF CleanItem
  <2>3. i \in 1 .. L /\ i - 1 \in Nat /\ a \in 0 .. (i - 1)
    BY <1>1, Predecessors
  <2>4. 1 + a \in DOMAIN Numerals /\ 1 + c \in DOMAIN Numerals
    BY <1>1, <1>2, <2>3
  <2>5. leaf = l /\ 1 + c = 1 + a
    <3> HIDE DEF leaf, l, a, c
    <3> QED BY <1>3, <2>1, <2>2, <2>4, NumbersTellApart
  <2>6. 1 + a <= c
    BY <1>1, <2>3, <2>5, FewerBefore
  <2> QED BY <1>2, <2>3, <2>5, <2>6
<1>6. UniqueLeaf(leaf) = Numbered(leaf, 1 + c)
  <2> DEFINE P(k) == /\ ~Seen(saved, Numbered(leaf, k))
                     /\ \A j \in 1 .. (k - 1) : Seen(saved, Numbered(leaf, j))
  <2>1. 1 + c \in 1 .. (L + 1) /\ P(1 + c)
    <3>1. 1 + c \in 1 .. (L + 1) /\ (1 + c) - 1 = c
      BY <1>1, <1>2
    <3> QED BY <1>4, <1>5, <3>1
  <2>2. ASSUME NEW k \in 1 .. (L + 1), P(k) PROVE k = 1 + c
    <3>1. ~(k \in 1 .. c)
      BY <1>4, <2>2
    <3>2. ~(1 + c \in 1 .. (k - 1))
      BY <1>5, <2>2
    <3> QED BY <1>1, <1>2, <3>1, <3>2
  <2> HIDE DEF c, P
  <2>3. (CHOOSE k \in 1 .. (L + 1) : P(k)) = 1 + c
    BY <2>1, <2>2
  <2> QED BY <2>3 DEF UniqueLeaf, P, Exists, Seen
<1>7. 1 + c \in DOMAIN Numerals
  BY <1>1, <1>2
<1> QED BY <1>4, <1>6, <1>7

(* Before the first save no name is taken. *)
LEMMA NamesStart == EncInit => NamesInv
<1> SUFFICES ASSUME EncInit PROVE NamesInv
  OBVIOUS
<1>1. PICK w \in Works : offered = w.offered /\ saved = <<>>
  BY DEF EncInit, NamesInit
<1>2. Offerable(offered)
  BY <1>1, WorksAssumption
<1>3. Len(saved) = 0 /\ saved \in Seq([item : ItemNames, leaf : Seq(Runes), name : Seq(Runes)])
  BY <1>1
<1>4. offered \in Seq(ItemNames) /\ Len(offered) <= Len(Numerals)
      /\ Len(offered) \in Nat /\ DOMAIN offered = 1 .. Len(offered)
  BY <1>2, LenProperties DEF Offerable
<1>5. \A i \in 1 .. Len(offered) : CleanItem(offered[i])
  <2> TAKE i \in 1 .. Len(offered)
  <2>1. offered[i] \in ItemNames
    BY <1>4, ElementOfSeq
  <2> QED BY <1>2, <1>4, <2>1 DEF Offerable, CleanItem
<1>6. Numbering
  BY <1>3 DEF Numbering
<1>7. Len(saved) + Len(offered) <= Len(Numerals)
  BY <1>3, <1>4
<1> QED BY <1>3, <1>4, <1>5, <1>6, <1>7 DEF NamesInv

(* What saving one more leaves of the counts of the earlier ones. *)
LEMMA CountsGrow ==
    ASSUME NEW S, NEW sv \in Seq(S), NEW r \in S
    PROVE  LET tv == Append(sv, r)
               n == Len(sv)
           IN  /\ \A i \in 0 .. n : \A leaf : Before(tv, i, leaf) = Before(sv, i, leaf)
               /\ Cardinality(Before(tv, n + 1, r.leaf)) = 1 + Cardinality(Before(sv, n, r.leaf))
               /\ \A leaf : leaf # r.leaf => Before(tv, n + 1, leaf) = Before(sv, n, leaf)
<1> DEFINE tv == Append(sv, r)
           n == Len(sv)
<1>1. n \in Nat /\ Len(tv) = n + 1 /\ tv[n + 1] = r /\ \A i \in 1 .. n : tv[i] = sv[i]
  BY AppendProperties, LenProperties
<1> HIDE DEF tv, n
<1>2. ASSUME NEW i \in 0 .. n, NEW leaf PROVE Before(tv, i, leaf) = Before(sv, i, leaf)
  <2>1. \A j \in 1 .. i : tv[j] = sv[j]
    BY <1>1
  <2> QED BY <2>1 DEF Before
<1>3. \A j : j \in 1 .. (n + 1) <=> j \in 1 .. n \/ j = n + 1
  BY ONLY <1>1
<1>4. Before(tv, n + 1, r.leaf) = Before(sv, n, r.leaf) \cup {n + 1}
  BY <1>1, <1>3 DEF Before
<1>5. n + 1 \notin Before(sv, n, r.leaf)
  <2>1. ~(n + 1 \in 1 .. n)
    BY ONLY <1>1
  <2> QED BY <2>1 DEF Before
<1>6. /\ IsFiniteSet(Before(sv, n, r.leaf)) /\ Cardinality(Before(sv, n, r.leaf)) \in Nat
  BY <1>1, Predecessors
<1>7. Cardinality(Before(tv, n + 1, r.leaf)) = Cardinality(Before(sv, n, r.leaf)) + 1
  BY <1>4, <1>5, <1>6, FS_AddElement
<1>8. ASSUME NEW leaf, leaf # r.leaf PROVE Before(tv, n + 1, leaf) = Before(sv, n, leaf)
  BY <1>1, <1>3, <1>8 DEF Before
<1> QED BY <1>2, <1>6, <1>7, <1>8 DEF tv, n

(* Every item is saved, under the number that comes next. *)
LEMMA NamesStep ==
    ASSUME NamesInv, SaveNext
    PROVE  NamesInv'
<1> DEFINE it == Head(offered)
           leaf == CleanLeaf(it)
           L == Len(saved)
           c == Cardinality(Before(saved, L, leaf))
           r == [item |-> it, leaf |-> leaf, name |-> UniqueLeaf(leaf)]
           R == [item : ItemNames, leaf : Seq(Runes), name : Seq(Runes)]
<1>1. /\ offered \in Seq(ItemNames) /\ offered # <<>> /\ saved \in Seq(R)
      /\ L \in Nat /\ DOMAIN saved = 1 .. L /\ Len(Numerals) \in Nat /\ L + Len(offered) <= Len(Numerals)
  BY NamesAssumption, LenProperties DEF NamesInv, SaveNext
<1>2. /\ Len(offered) \in Nat \ {0} /\ it = offered[1]
      /\ Tail(offered) \in Seq(ItemNames) /\ Len(Tail(offered)) = Len(offered) - 1
      /\ \A i \in 1 .. Len(Tail(offered)) : Tail(offered)[i] = offered[i + 1]
  <2>1. offered \in Seq(ItemNames) /\ offered # <<>>
    BY <1>1
  <2> QED BY ONLY <2>1
<1>3. CleanItem(it)
  BY <1>2 DEF NamesInv
<1>4. Decent(leaf)
  BY <1>3, LeafIsDecent DEF CleanItem
<1>5. L < Len(Numerals)
  <2> HIDE DEF L
  <2> QED BY ONLY <1>1, <1>2
<1>6. /\ UniqueLeaf(leaf) = Numbered(leaf, 1 + c) /\ 1 + c \in DOMAIN Numerals
      /\ \A k \in 1 .. c : Seen(saved, Numbered(leaf, k))
  BY <1>3, <1>5, NextNumber
<1>7. ~Escapes(leaf)
  BY <1>4, DecentHasNoEscape DEF Decent
<1>8. offered' = Tail(offered) /\ saved' = Append(saved, r)
  BY <1>7 DEF SaveNext
<1>9. r \in R
  BY <1>3, <1>4, <1>6, NumberedIsSafe DEF CleanItem, Decent
<1>10. /\ saved' \in Seq(R) /\ Len(saved') = L + 1 /\ saved'[L + 1] = r
       /\ \A i \in 1 .. L : saved'[i] = saved[i]
  BY <1>1, <1>8, <1>9, AppendProperties
<1>11. /\ \A i \in 0 .. L : \A lf : Before(saved', i, lf) = Before(saved, i, lf)
       /\ Cardinality(Before(saved', L + 1, leaf)) = 1 + c
       /\ \A lf : lf # leaf => Before(saved', L + 1, lf) = Before(saved, L, lf)
  <2>1. leaf = r.leaf
    OBVIOUS
  <2> HIDE DEF r, R, leaf
  <2> QED BY <1>1, <1>8, <1>9, <2>1, CountsGrow
<1>12. \A i : i \in 1 .. (L + 1) <=> i \in 1 .. L \/ i = L + 1
  <2> HIDE DEF L
  <2> QED BY ONLY <1>1
<1>13. DOMAIN saved' = 1 .. (L + 1)
  BY <1>10, LenProperties
<1>14. \A nm : Seen(saved, nm) => Seen(saved', nm)
  BY <1>1, <1>10, <1>12, <1>13 DEF Seen
<1>15. Seen(saved', Numbered(leaf, 1 + c))
  <2>1. r.name = Numbered(leaf, 1 + c)
    BY <1>6
  <2>2. saved'[L + 1].name = Numbered(leaf, 1 + c)
    <3> HIDE DEF r
    <3> QED BY <1>10, <2>1
  <2>3. L + 1 \in DOMAIN saved'
    BY <1>12, <1>13
  <2> HIDE DEF L, c, leaf
  <2> QED BY ONLY <2>2, <2>3 DEF Seen
<1>16. \A i \in 1 .. Len(saved') : CleanItem(saved'[i].item)
  <2> TAKE i \in 1 .. Len(saved')
  <2>1. i \in 1 .. L \/ i = L + 1
    BY <1>10, <1>12
  <2>2. CASE i \in 1 .. L
    BY <1>10, <2>2 DEF NamesInv
  <2>3. CASE i = L + 1
    <3>1. saved'[i].item = it
      BY <1>10, <2>3
    <3> QED BY <1>3, <3>1
  <2> QED BY <2>1, <2>2, <2>3
<1>17. ASSUME NEW i \in 1 .. Len(saved')
       PROVE  /\ saved'[i].leaf = CleanLeaf(saved'[i].item)
              /\ saved'[i].name
                   = Numbered(saved'[i].leaf, 1 + Cardinality(Before(saved', i - 1, saved'[i].leaf)))
  <2>1. i \in 1 .. L \/ i = L + 1
    BY <1>10, <1>12
  <2>2. CASE i \in 1 .. L
    <3>1. saved'[i] = saved[i]
      BY <1>10, <2>2
    <3>2. i - 1 \in 0 .. L
      <4> HIDE DEF L
      <4> QED BY ONLY <1>1, <2>2
    <3> QED BY <1>11, <2>2, <3>1, <3>2 DEF NamesInv, Numbering
  <2>3. CASE i = L + 1
    <3>a. i - 1 = L /\ L \in 0 .. L
      <4> HIDE DEF L
      <4> QED BY ONLY <1>1, <2>3
    <3>1. i - 1 = L /\ L \in 0 .. L /\ saved'[i] = r
      BY <1>10, <2>3, <3>a
    <3>2. saved'[i].leaf = leaf /\ saved'[i].item = it /\ saved'[i].name = Numbered(leaf, 1 + c)
      BY <1>6, <3>1
    <3>3. Before(saved', i - 1, leaf) = Before(saved, L, leaf)
      BY <1>11, <3>1
    <3> HIDE DEF r
    <3> QED BY <3>2, <3>3
  <2> QED BY <2>1, <2>2, <2>3
<1>18. ASSUME NEW i \in 1 .. Len(saved'),
              NEW k \in 1 .. Cardinality(Before(saved', Len(saved'), saved'[i].leaf))
       PROVE  Seen(saved', Numbered(saved'[i].leaf, k))
  <2>1. i \in 1 .. L \/ i = L + 1
    BY <1>10, <1>12
  <2>2. CASE saved'[i].leaf = leaf
    <3>1. k \in 1 .. (1 + c) /\ c \in Nat
      BY <1>1, <1>10, <1>11, <2>2, Predecessors
    <3>2. k \in 1 .. c \/ k = 1 + c
      <4> HIDE DEF c
      <4> QED BY ONLY <3>1
    <3>3. Seen(saved', Numbered(leaf, k))
      BY <1>6, <1>14, <1>15, <3>2
    <3> QED BY <2>2, <3>3
  <2>3. CASE saved'[i].leaf # leaf
    <3>1. i \in 1 .. L /\ saved'[i] = saved[i]
      BY <1>10, <2>1, <2>3
    <3>2. Before(saved', Len(saved'), saved'[i].leaf) = Before(saved, L, saved[i].leaf)
      BY <1>10, <1>11, <2>3, <3>1
    <3>3. Seen(saved, Numbered(saved[i].leaf, k))
      BY <3>1, <3>2 DEF NamesInv, Numbering
    <3> QED BY <1>14, <3>1, <3>3
  <2> QED BY <2>2, <2>3
<1>19. Numbering'
  BY <1>17, <1>18 DEF Numbering
<1>20. \A i \in 1 .. Len(offered') : CleanItem(offered'[i])
  <2>1. \A i \in 1 .. Len(offered') : i + 1 \in 1 .. Len(offered)
    BY ONLY <1>2, <1>8
  <2> QED BY <1>2, <1>8, <2>1 DEF NamesInv
<1>21. Len(saved') + Len(offered') <= Len(Numerals)
  <2> HIDE DEF L
  <2> QED BY ONLY <1>1, <1>2, <1>8, <1>10
<1> QED BY <1>2, <1>8, <1>10, <1>16, <1>19, <1>20, <1>21 DEF NamesInv

(* The numbering makes the names what NamesAreSafe says of them. *)
LEMMA NamesFollow == NamesInv => NamesAreSafe
<1> SUFFICES ASSUME NamesInv, NEW i \in DOMAIN saved
             PROVE  LET s == saved[i]
                        came == Trimmed(Mapped(Base(s.item.raw)))
                        before == {j \in 1..(i - 1) : saved[j].leaf = s.leaf}
                    IN  /\ ~Escapes(s.name) /\ s.name[1] \notin {Dot, " "}
                        /\ Len(s.name) <= NameMaxBytes + Len(Mark(2))
                        /\ came # <<>> /\ came[1] # Dot /\ PathExtension(came) # <<>>
                              /\ Len(PathExtension(came)) + 1 < NameMaxBytes
                           => PathExtension(s.name) = PathExtension(came)
                        /\ s.name = Numbered(s.leaf, 1 + Cardinality(before))
  BY DEF NamesAreSafe
<1> DEFINE s == saved[i]
           l == s.leaf
           a == Cardinality(Before(saved, i - 1, l))
           came == Trimmed(Mapped(Base(s.item.raw)))
           L == Len(saved)
<1>1. /\ L \in Nat /\ i \in 1 .. L /\ Len(Numerals) \in Nat
      /\ DOMAIN Numerals = 1 .. Len(Numerals) /\ L <= Len(Numerals)
  <2>1. /\ L \in Nat /\ DOMAIN saved = 1 .. L /\ Len(Numerals) \in Nat
        /\ DOMAIN Numerals = 1 .. Len(Numerals) /\ Len(offered) \in Nat
        /\ L + Len(offered) <= Len(Numerals)
    BY NamesAssumption, LenProperties DEF NamesInv
  <2>2. L <= Len(Numerals)
    <3> HIDE DEF L
    <3> QED BY ONLY <2>1
  <2> QED BY <2>1, <2>2
<1>2. l = CleanLeaf(s.item) /\ s.name = Numbered(l, 1 + a) /\ CleanItem(s.item)
  BY <1>1 DEF NamesInv, Numbering
<1>3. i - 1 \in Nat /\ a \in 0 .. (i - 1) /\ 1 + a \in DOMAIN Numerals
  BY <1>1, Predecessors
<1>4. /\ Decent(l) /\ Len(l) <= NameMaxBytes
      /\ came # <<>> /\ came[1] # Dot /\ PathExtension(came) # <<>>
            /\ Len(PathExtension(came)) + 1 < NameMaxBytes
         => PathExtension(l) = PathExtension(came)
  BY <1>2, LeafIsDecent DEF CleanItem
<1>5. Len(Mark(2)) = 4
  BY DEF Mark
<1> HIDE DEF a, l, came
<1>6. /\ s.name \in Seq(Runes) /\ ~Escapes(s.name) /\ s.name[1] = l[1]
      /\ Len(s.name) <= Len(l) + 4
      /\ PathExtension(l) # <<>> => PathExtension(s.name) = PathExtension(l)
  BY <1>2, <1>3, <1>4, NumberedIsSafe
<1>7. s.name[1] \notin {Dot, " "}
  BY <1>4, <1>6 DEF Decent
<1>8. Len(s.name) <= NameMaxBytes + Len(Mark(2))
  <2> DEFINE x == Len(s.name)
             y == Len(l)
             z == Len(Mark(2))
  <2>1. x \in Nat /\ y \in Nat /\ x <= y + 4 /\ y <= NameMaxBytes /\ z = 4 /\ NameMaxBytes \in Nat
    BY <1>4, <1>5, <1>6, NamesAssumption, LenProperties DEF Decent
  <2> HIDE DEF x, y, z
  <2>2. x <= NameMaxBytes + z
    BY ONLY <2>1
  <2> QED BY <2>2 DEF x, z
<1> QED BY <1>2, <1>4, <1>6, <1>7, <1>8 DEF Before, a, l, came

(* Names of items are safe and keep what they came with, each with the number   *)
(* of those that came before (sanitize.go, uniqueLeaf of concrete.go).          *)
THEOREM NamesAlwaysSafe == EncSpec => []NamesAreSafe
<1>1. ASSUME NamesInv, [EncNext]_encVars PROVE NamesInv'
  <2>1. CASE SaveNext
    BY <1>1, <2>1, NamesStep
  <2>2. CASE UNCHANGED namesVars
    BY <1>1, <2>2 DEF NamesInv, Numbering, namesVars
  <2> QED BY <1>1, <2>1, <2>2 DEF EncNext, encVars
<1> QED BY <1>1, NamesStart, NamesFollow, PTL DEF EncSpec

------------------------------------------------------------------------------
(* The symbols that bodies are made of. *)
LEMMA SomeBytes ==
    /\ NL \in Bytes /\ ":" \in Bytes /\ " " \in Bytes /\ "]" \in Bytes /\ "[cid=" \in Bytes
    /\ "type" \in Bytes /\ "sender" \in Bytes /\ "path" \in Bytes /\ "text" \in Bytes
BY BytesAssumption DEF NL

(* Where a byte is first. *)
Has(s, x) == \E i \in 1 .. Len(s) : s[i] = x
First(s, x) ==
    LET I == {i \in 1 .. Len(s) : s[i] = x}
    IN  IF I # {} THEN Min(I) ELSE 0

(* The tests of the parser look for one byte each. *)
LEMMA FirstOfEach ==
    ASSUME NEW s
    PROVE  /\ SelectInSeq(s, IsNL) = First(s, NL)
           /\ SelectInSeq(s, IsColon) = First(s, ":")
           /\ SelectInSeq(s, IsClose) = First(s, "]")
BY DEF SelectInSeq, IsNL, IsColon, IsClose, First

(* A byte that is not there is found at no place. *)
LEMMA FirstMissing ==
    ASSUME NEW s, NEW x, ~Has(s, x)
    PROVE  First(s, x) = 0
BY DEF First, Has

(* What is before a byte and what is behind it. *)
LEMMA FirstThere ==
    ASSUME NEW S, NEW l \in Seq(S), NEW r \in Seq(S), NEW x \in S, ~Has(l, x)
    PROVE  LET w == l \o (<<x>> \o r)
           IN  /\ w \in Seq(S) /\ Len(w) = Len(l) + 1 + Len(r)
               /\ First(w, x) = Len(l) + 1
               /\ SubSeq(w, 1, Len(l)) = l
               /\ SubSeq(w, Len(l) + 2, Len(w)) = r
<1> DEFINE y == <<x>> \o r
           w == l \o y
           I == {i \in 1 .. Len(w) : w[i] = x}
<1>1. <<x>> \in Seq(S) /\ Len(<<x>>) = 1 /\ <<x>>[1] = x
  BY Singleton
<1>2. y \in Seq(S) /\ Len(y) = 1 + Len(r) /\ y[1] = x
  <2> DEFINE o == <<x>>
  <2>1. o \in Seq(S) /\ Len(o) = 1 /\ o[1] = x
    BY <1>1
  <2> HIDE DEF o
  <2>2. o \o r \in Seq(S) /\ Len(o \o r) = Len(o) + Len(r) /\ (o \o r)[1] = o[1]
    <3>1. o \in Seq(S) /\ r \in Seq(S) /\ Len(o) = 1
      BY <2>1
    <3>2. /\ o \o r \in Seq(S) /\ Len(o \o r) = Len(o) + Len(r)
          /\ \A i \in 1 .. Len(o) : (o \o r)[i] = o[i]
      BY ONLY <3>1, JoinedParts
    <3> QED BY <3>1, <3>2
  <2> QED BY <2>1, <2>2 DEF o
<1>3. SubSeq(y, 2, Len(y)) = r
  <2>1. SubSeq(y, Len(<<x>>) + 1, Len(y)) = r
    BY <1>1, TakenApart
  <2> QED BY <1>1, <2>1
<1>l. Len(l) \in Nat /\ Len(r) \in Nat
  BY LenProperties
<1> HIDE DEF y
<1>4. /\ w \in Seq(S) /\ Len(w) = Len(l) + Len(y)
      /\ \A i \in 1 .. Len(l) : w[i] = l[i]
      /\ \A i \in 1 .. Len(y) : w[Len(l) + i] = y[i]
  <2>1. l \in Seq(S) /\ y \in Seq(S)
    BY <1>2
  <2> QED BY ONLY <2>1
<1>5. SubSeq(w, 1, Len(l)) = l /\ SubSeq(w, Len(l) + 1, Len(w)) = y
  BY <1>2, TakenApart
<1> HIDE DEF w
<1>6. /\ Len(w) \in Nat /\ Len(w) = Len(l) + 1 + Len(r) /\ 1 \in 1 .. Len(y)
      /\ Len(l) + 1 \in 1 .. Len(w)
      /\ \A i \in 1 .. Len(w) : i \in 1 .. Len(l) \/ Len(l) + 1 <= i
  BY ONLY <1>l, <1>2, <1>4
<1>7. SubSeq(w, Len(l) + 2, Len(w)) = r
  <2> DEFINE z == SubSeq(w, Len(l) + 2, Len(w))
  <2>1. /\ z \in Seq(S) /\ Len(z) = Len(r)
        /\ \A i \in 1 .. Len(r) : z[i] = w[Len(l) + 1 + i]
    <3>1. SubSeq(w, (Len(l) + 1) + 1, Len(w)) = z /\ Len(l) + 1 \in Nat /\ Len(l) + 1 <= Len(w)
      BY <1>l, <1>6
    <3> DEFINE m == Len(l) + 1
    <3>4. w \in Seq(S) /\ m \in Nat /\ m <= Len(w) /\ SubSeq(w, m + 1, Len(w)) = z
      BY <1>4, <3>1
    <3> HIDE DEF m, z
    <3>5. /\ z \in Seq(S) /\ Len(z) = Len(w) - m
          /\ \A i \in 1 .. (Len(w) - m) : z[i] = w[m + i]
      BY <3>4, RemovedFront
    <3>2. /\ z \in Seq(S) /\ Len(z) = Len(w) - (Len(l) + 1)
          /\ \A i \in 1 .. (Len(w) - (Len(l) + 1)) : z[i] = w[(Len(l) + 1) + i]
      BY <3>5 DEF m
    <3>3. Len(w) - (Len(l) + 1) = Len(r)
      BY ONLY <1>l, <1>6
    <3> QED BY <3>2, <3>3
  <2>2. /\ SubSeq(y, 2, Len(y)) \in Seq(S)
        /\ \A i \in 1 .. Len(r) : SubSeq(y, 2, Len(y))[i] = y[1 + i]
    <3>1. 1 <= Len(y) /\ 1 \in Nat /\ 1 + 1 = 2 /\ Len(y) - 1 = Len(r)
      BY <1>l, <1>2
    <3> QED BY <1>2, <3>1, RemovedFront
  <2>3. \A i \in 1 .. Len(r) : w[Len(l) + 1 + i] = y[1 + i]
    <3> TAKE i \in 1 .. Len(r)
    <3>1. 1 + i \in 1 .. Len(y) /\ Len(l) + (1 + i) = Len(l) + 1 + i
      BY <1>l, <1>2
    <3> QED BY <1>4, <3>1
  <2>4. \A i \in 1 .. Len(r) : z[i] = r[i]
    BY <1>3, <2>1, <2>2, <2>3
  <2> HIDE DEF z
  <2>5. z = r
    BY <2>1, <2>4, SeqEqual
  <2> QED BY <2>5 DEF z
<1>8. Len(l) + 1 \in I /\ \A i \in I : Len(l) + 1 <= i
  <2>1. w[Len(l) + 1] = x
    BY <1>2, <1>4, <1>6
  <2>2. ASSUME NEW i \in 1 .. Len(l) PROVE w[i] # x
    BY <1>4 DEF Has
  <2> QED BY <1>6, <2>1, <2>2
<1>9. I \in SUBSET (1 .. Len(w))
  OBVIOUS
<1>10. First(w, x) = Min(I)
  BY <1>8 DEF First
<1> HIDE DEF I
<1>11. Min(I) \in I /\ Min(I) <= Len(l) + 1
  <2>1. Min(I) \in I /\ \A i \in I : Min(I) <= i
    BY <1>6, <1>8, <1>9, Extremes
  <2> QED BY <1>8, <2>1
<1>12. Min(I) \in 1 .. Len(w)
  BY <1>9, <1>11
<1>13. Min(I) = Len(l) + 1
  <2>1. Len(l) + 1 <= Min(I)
    BY <1>8, <1>11
  <2> QED BY ONLY <1>l, <1>11, <1>12, <2>1
<1> QED BY <1>4, <1>5, <1>6, <1>7, <1>10, <1>13 DEF w, y

(* A sequence that has a byte has a first one. *)
LEMMA CutAtFirst ==
    ASSUME NEW s \in Seq(Bytes), NEW x \in Bytes, Has(s, x)
    PROVE  \E l, r \in Seq(Bytes) : ~Has(l, x) /\ s = l \o (<<x>> \o r)
<1> DEFINE n == First(s, x)
           I == {i \in 1 .. Len(s) : s[i] = x}
           l == SubSeq(s, 1, n - 1)
           r == SubSeq(s, n + 1, Len(s))
<1>1. Len(s) \in Nat
  BY LenProperties
<1>2. n = Min(I) /\ I # {} /\ I \in SUBSET (1 .. Len(s))
  BY DEF First, Has
<1>3. n \in 1 .. Len(s) /\ s[n] = x /\ \A i \in 1 .. Len(s) : s[i] = x => n <= i
  <2> HIDE DEF n
  <2>1. Min(I) \in I /\ \A i \in I : Min(I) <= i
    <3> HIDE DEF I
    <3> QED BY <1>1, <1>2, Extremes
  <2> QED BY <1>2, <2>1
<1> HIDE DEF n
<1>4. /\ l \in Seq(Bytes) /\ Len(l) = n - 1 /\ \A i \in 1 .. (n - 1) : l[i] = s[i]
  BY <1>3, RemovedFront, n - 1 \in Nat, n - 1 <= Len(s)
<1>5. /\ r \in Seq(Bytes) /\ Len(r) = Len(s) - n /\ \A i \in 1 .. (Len(s) - n) : r[i] = s[n + i]
  BY <1>3, RemovedFront, n \in Nat, n <= Len(s)
<1> HIDE DEF l, r
<1>6. ~Has(l, x)
  <2> SUFFICES ASSUME NEW i \in 1 .. Len(l), l[i] = x PROVE FALSE
    BY DEF Has
  <2>1. i \in 1 .. (n - 1) /\ i \in 1 .. Len(s) /\ ~(n <= i)
    BY ONLY <1>1, <1>3, <1>4
  <2> QED BY <1>3, <1>4, <2>1
<1> DEFINE y == <<x>> \o r
           w == l \o y
<1>7. y \in Seq(Bytes) /\ Len(y) = 1 + Len(r) /\ y[1] = x /\ \A i \in 1 .. Len(r) : y[1 + i] = r[i]
  <2> DEFINE o == <<x>>
  <2>1. o \in Seq(Bytes) /\ Len(o) = 1 /\ o[1] = x
    BY Singleton
  <2> HIDE DEF o
  <2>2. /\ o \o r \in Seq(Bytes) /\ Len(o \o r) = Len(o) + Len(r) /\ (o \o r)[1] = o[1]
        /\ \A i \in 1 .. Len(r) : (o \o r)[Len(o) + i] = r[i]
    <3>1. o \in Seq(Bytes) /\ r \in Seq(Bytes) /\ Len(o) = 1
      BY <1>5, <2>1
    <3>2. /\ o \o r \in Seq(Bytes) /\ Len(o \o r) = Len(o) + Len(r)
          /\ \A i \in 1 .. Len(o) : (o \o r)[i] = o[i]
          /\ \A i \in 1 .. Len(r) : (o \o r)[Len(o) + i] = r[i]
      <4>1. o \in Seq(Bytes) /\ r \in Seq(Bytes)
        BY <3>1
      <4> QED BY ONLY <4>1
    <3> QED BY <3>1, <3>2
  <2> QED BY <2>1, <2>2 DEF o
<1> HIDE DEF y
<1>8. /\ w \in Seq(Bytes) /\ Len(w) = Len(l) + Len(y)
      /\ \A i \in 1 .. Len(l) : w[i] = l[i]
      /\ \A i \in 1 .. Len(y) : w[Len(l) + i] = y[i]
  <2>1. l \in Seq(Bytes) /\ y \in Seq(Bytes)
    BY <1>4, <1>7
  <2> QED BY ONLY <2>1
<1> HIDE DEF w
<1>9. Len(w) = Len(s)
  BY ONLY <1>1, <1>3, <1>4, <1>5, <1>7, <1>8
<1>10. \A i \in 1 .. Len(s) : w[i] = s[i]
  <2> TAKE i \in 1 .. Len(s)
  <2>1. \/ i \in 1 .. (n - 1)
        \/ i = n
        \/ i - n \in 1 .. Len(r)
    BY ONLY <1>1, <1>3, <1>5
  <2>2. CASE i \in 1 .. (n - 1)
    BY <1>4, <1>8, <2>2
  <2>3. CASE i = n
    <3>1. 1 \in 1 .. Len(y) /\ Len(l) + 1 = i
      BY ONLY <1>1, <1>3, <1>4, <1>5, <1>7, <2>3
    <3> QED BY <1>3, <1>7, <1>8, <2>3, <3>1
  <2>4. CASE i - n \in 1 .. Len(r)
    <3>1. 1 + (i - n) \in 1 .. Len(y) /\ Len(l) + (1 + (i - n)) = i /\ n + (i - n) = i
          /\ Len(r) = Len(s) - n
      BY ONLY <1>1, <1>3, <1>4, <1>5, <1>7, <2>4
    <3> DEFINE k == i - n
    <3>2. y[1 + k] = r[k] /\ r[k] = s[n + k]
      BY <1>5, <1>7, <2>4, <3>1
    <3>3. w[Len(l) + (1 + k)] = y[1 + k]
      BY <1>8, <3>1
    <3> QED BY <3>1, <3>2, <3>3
  <2> QED BY <2>1, <2>2, <2>3, <2>4
<1>11. w = s
  BY <1>8, <1>9, <1>10, SeqEqual
<1> QED BY <1>4, <1>5, <1>6, <1>11 DEF w, y


(* A line is a label, a colon, a space and a value. *)
LEMMA LineParts ==
    ASSUME NEW label \in Bytes, NEW v \in Seq(Bytes)
    PROVE  /\ Line(label, v) \in Seq(Bytes) /\ Line(label, v) # <<>>
           /\ Line(label, v) = <<label>> \o (<<":">> \o (<<" ">> \o v))
<1> DEFINE c == ":"
           d == " "
           t == <<label, c, d>>
<1>0. /\ label \in Bytes /\ c \in Bytes /\ d \in Bytes /\ v \in Seq(Bytes)
      /\ t = <<label, c, d>>
  BY SomeBytes
<1> HIDE DEF c, d, t
<1> DEFINE w == t \o v
           y == <<d>> \o v
           z == <<c>> \o y
           u == <<label>> \o z
<1>1. t \in Seq(Bytes) /\ Len(t) = 3 /\ t[1] = label /\ t[2] = c /\ t[3] = d
  BY <1>0, Triple
<1>2. y \in Seq(Bytes) /\ Len(y) = 1 + Len(v) /\ y[1] = d /\ \A i \in 1 .. Len(v) : y[1 + i] = v[i]
  BY <1>0, Headed
<1>l. Len(v) \in Nat
  BY LenProperties
<1> HIDE DEF y
<1>3. z \in Seq(Bytes) /\ Len(z) = 1 + Len(y) /\ z[1] = c /\ \A i \in 1 .. Len(y) : z[1 + i] = y[i]
  BY <1>0, <1>2, Headed
<1> HIDE DEF z
<1>4. u \in Seq(Bytes) /\ Len(u) = 1 + Len(z) /\ u[1] = label /\ \A i \in 1 .. Len(z) : u[1 + i] = z[i]
  BY <1>0, <1>3, Headed
<1>5. /\ w \in Seq(Bytes) /\ Len(w) = Len(t) + Len(v)
      /\ \A i \in 1 .. Len(t) : w[i] = t[i]
      /\ \A i \in 1 .. Len(v) : w[Len(t) + i] = v[i]
  <2>1. t \in Seq(Bytes) /\ v \in Seq(Bytes)
    BY <1>1
  <2> QED BY ONLY <2>1
<1> HIDE DEF u, w
<1>n. Len(t) = 3 /\ Len(y) = 1 + Len(v) /\ Len(z) = 1 + Len(y) /\ Len(u) = 1 + Len(z)
      /\ Len(w) = Len(t) + Len(v) /\ Len(v) \in Nat
  BY <1>1, <1>2, <1>3, <1>4, <1>5, <1>l
<1>6. Len(w) = 3 + Len(v) /\ Len(u) = 3 + Len(v) /\ Len(w) \in Nat /\ Len(w) # 0
  BY ONLY <1>n
<1>7. \A i \in 1 .. Len(w) : w[i] = u[i]
  <2> TAKE i \in 1 .. Len(w)
  <2>1. i = 1 \/ i = 2 \/ i = 3 \/ i - 3 \in 1 .. Len(v)
    BY ONLY <1>6, <1>n
  <2>2. CASE i = 1
    <3>1. 1 \in 1 .. Len(t)
      BY ONLY <1>n
    <3> QED BY <1>1, <1>4, <1>5, <2>2, <3>1
  <2>3. CASE i = 2
    <3>1. 1 \in 1 .. Len(z) /\ 1 + 1 = i /\ 2 \in 1 .. Len(t)
      BY ONLY <1>n, <2>3
    <3> QED BY <1>1, <1>3, <1>4, <1>5, <2>3, <3>1
  <2>4. CASE i = 3
    <3>1. 2 \in 1 .. Len(z) /\ 1 + 2 = i /\ 1 \in 1 .. Len(y) /\ 1 + 1 = 2 /\ 3 \in 1 .. Len(t)
      BY ONLY <1>n, <2>4
    <3>2. u[i] = z[2] /\ z[2] = y[1] /\ w[i] = t[3]
      BY <1>3, <1>4, <1>5, <2>4, <3>1
    <3> QED BY <1>1, <1>2, <3>2
  <2>5. CASE i - 3 \in 1 .. Len(v)
    <3> DEFINE k == i - 3
    <3>1. 1 + k \in 1 .. Len(y) /\ 1 + (1 + k) \in 1 .. Len(z) /\ 1 + (1 + (1 + k)) = i
          /\ Len(t) + k = i
      BY ONLY <1>n, <2>5
    <3>2. k \in 1 .. Len(v)
      BY <2>5
    <3> HIDE DEF k
    <3>3. u[1 + (1 + (1 + k))] = z[1 + (1 + k)]
      BY <1>4, <3>1
    <3>4. z[1 + (1 + k)] = y[1 + k]
      BY <1>3, <3>1
    <3>5. y[1 + k] = v[k] /\ w[Len(t) + k] = v[k]
      BY <1>2, <1>5, <3>2
    <3> QED BY <3>1, <3>3, <3>4, <3>5
  <2> QED BY <2>1, <2>2, <2>3, <2>4, <2>5
<1>8. w = u
  BY <1>4, <1>5, <1>6, <1>7, SeqEqual
<1>9. w # <<>>
  BY <1>6
<1> QED BY <1>5, <1>8, <1>9 DEF w, u, z, y, c, d, t, Line

(* The space behind the colon, and no other, is dropped. *)
LEMMA SpaceDropped ==
    ASSUME NEW v \in Seq(Bytes)
    PROVE  <<" ">> \o v \in Seq(Bytes) /\ DropSpace(<<" ">> \o v) = v
<1> DEFINE d == " "
           w == <<d>> \o v
<1>1. d \in Bytes
  BY SomeBytes
<1> HIDE DEF d
<1>2. w \in Seq(Bytes) /\ w # <<>> /\ w[1] = d /\ Tail(w) = v
  BY <1>1, Headed
<1> HIDE DEF w
<1>3. w \in Seq(Bytes) /\ DropSpace(w) = v
  BY <1>2 DEF DropSpace, d
<1> QED BY <1>3 DEF w, d

(* The label and the value of a line are found again. *)
LEMMA LineRead ==
    ASSUME NEW label \in Bytes, label # ":", NEW v \in Seq(Bytes)
    PROVE  /\ SplitFirstColon(Line(label, v)).label = <<label>>
           /\ SplitFirstColon(Line(label, v)).value = v
<1> DEFINE o == <<label>>
           y == <<" ">> \o v
           x == ":"
           w == o \o (<<x>> \o y)
<1>1. o \in Seq(Bytes) /\ Len(o) = 1 /\ o[1] = label
  BY Singleton
<1>2. y \in Seq(Bytes) /\ DropSpace(y) = v
  BY SpaceDropped
<1>3. ~Has(o, x)
  BY <1>1 DEF Has
<1>4. Line(label, v) = w
  BY LineParts
<1>5. x \in Bytes
  BY SomeBytes
<1>6. SelectInSeq(w, IsColon) = First(w, x)
  BY FirstOfEach
<1> HIDE DEF o, y, x
<1>7. First(w, x) = Len(o) + 1 /\ SubSeq(w, 1, Len(o)) = o /\ SubSeq(w, Len(o) + 2, Len(w)) = y
  <2>1. o \in Seq(Bytes) /\ y \in Seq(Bytes) /\ x \in Bytes /\ ~Has(o, x)
    BY <1>1, <1>2, <1>3, <1>5
  <2> QED BY ONLY <2>1, FirstThere
<1> HIDE DEF w
<1>8. SelectInSeq(w, IsColon) = 2 /\ SubSeq(w, 1, 1) = o /\ SubSeq(w, 3, Len(w)) = y
  BY <1>1, <1>6, <1>7
<1>9. /\ SplitFirstColon(w).label = SubSeq(w, 1, 1)
      /\ SplitFirstColon(w).value = DropSpace(SubSeq(w, 3, Len(w)))
  <2>1. 2 # 0 /\ 2 - 1 = 1 /\ 2 + 1 = 3
    OBVIOUS
  <2> QED BY <1>8, <2>1 DEF SplitFirstColon
<1> QED BY <1>2, <1>4, <1>8, <1>9 DEF o

(* A line has a newline only in its value. *)
LEMMA LineHasNoNewline ==
    ASSUME NEW label \in Bytes, label # NL, NEW v \in Seq(Bytes), ~Has(v, NL)
    PROVE  ~Has(Line(label, v), NL)
<1> DEFINE t == <<label, ":", " ">>
<1>1. t \in Seq(Bytes) /\ Len(t) = 3 /\ \A i \in 1 .. 3 : t[i] # NL
  <2> DEFINE c == ":"
             d == " "
  <2>1. c \in Bytes /\ d \in Bytes /\ c # NL /\ d # NL
    BY SomeBytes DEF NL
  <2> HIDE DEF c, d
  <2>2. /\ <<label, c, d>> \in Seq(Bytes) /\ Len(<<label, c, d>>) = 3
        /\ \A i \in 1 .. 3 : <<label, c, d>>[i] # NL
    BY <2>1, Triple
  <2> QED BY <2>2 DEF c, d
<1> HIDE DEF t
<1>2. Line(label, v) = t \o v
  BY DEF Line, t
<1> SUFFICES ASSUME NEW i \in 1 .. Len(t \o v), (t \o v)[i] = NL PROVE FALSE
  BY <1>2 DEF Has
<1>3. \/ i \in 1 .. Len(t) /\ (t \o v)[i] = t[i]
      \/ \E k \in 1 .. Len(v) : i = Len(t) + k /\ (t \o v)[i] = v[k]
  <2>1. t \in Seq(Bytes) /\ v \in Seq(Bytes) /\ i \in 1 .. Len(t \o v)
    BY <1>1
  <2> QED BY ONLY <2>1, JoinedElements
<1>4. \A k \in 1 .. Len(v) : v[k] # NL
  BY DEF Has
<1> QED BY <1>1, <1>3, <1>4

------------------------------------------------------------------------------
(* The body line by line: what is left to read after each. *)
Join(l, more) == IF more = <<>> THEN l ELSE l \o (<<NL>> \o more)
TextOn == IF item.hasText THEN Line("text", Sent(item)) ELSE <<>>
PathOn == IF item.path # <<>> THEN Join(Line("path", item.path), TextOn) ELSE TextOn
SenderOn == Join(Line("sender", item.sender), PathOn)
TypeOn == Join(Line("type", item.type), SenderOn)

(* The fields of a delivery are sequences of bytes. *)
LEMMA Fields ==
    ASSUME Deliverable(item)
    PROVE  /\ item.type \in Seq(Bytes) /\ item.sender \in Seq(Bytes) /\ item.path \in Seq(Bytes)
           /\ item.text \in Seq(Bytes) /\ item.cid \in Seq(Bytes)
           /\ item.hasText \in BOOLEAN /\ item.replyTo \in BOOLEAN
           /\ ~item.replyTo => item.cid = <<>>
           /\ ~Has(item.type, NL)
<1>1. /\ item.type \in Seq(Bytes) /\ item.sender \in Seq(Bytes) /\ item.path \in Seq(Bytes)
      /\ item.text \in Seq(Bytes) /\ item.cid \in Seq(Bytes)
      /\ item.hasText \in BOOLEAN /\ item.replyTo \in BOOLEAN
  BY DEF Deliverable
<1>2. NL \notin ToSet(item.type) /\ (~item.replyTo => item.cid = <<>>)
  BY DEF Deliverable
<1>3. DOMAIN item.type = 1 .. Len(item.type)
  BY <1>1, LenProperties
<1> QED BY <1>1, <1>2, <1>3 DEF ToSet, Has

(* Lines joined are bytes. *)
LEMMA JoinTyped ==
    ASSUME NEW l \in Seq(Bytes), NEW more \in Seq(Bytes)
    PROVE  /\ Join(l, more) \in Seq(Bytes)
           /\ l # <<>> => Join(l, more) # <<>>
<1>1. NL \in Bytes
  BY SomeBytes
<1>2. <<NL>> \o more \in Seq(Bytes) /\ <<NL>> \o more # <<>>
  BY <1>1, Headed
<1> DEFINE y == <<NL>> \o more
<1>3. y \in Seq(Bytes) /\ l \in Seq(Bytes)
  BY <1>2
<1> HIDE DEF y
<1>4. l \o y \in Seq(Bytes) /\ Len(l \o y) = Len(l) + Len(y)
  BY ONLY <1>3
<1>5. l # <<>> => l \o y # <<>>
  <2> SUFFICES ASSUME l # <<>> PROVE l \o y # <<>>
    OBVIOUS
  <2>1. Len(l) # 0 /\ Len(l) \in Nat /\ Len(y) \in Nat
    BY <1>3, EmptySeq, LenProperties
  <2>2. Len(l \o y) # 0
    BY ONLY <1>4, <2>1
  <2> QED BY <2>2
<1> QED BY <1>4, <1>5 DEF Join, y

(* What a message is sent as. *)
LEMMA SentTyped ==
    ASSUME Deliverable(item)
    PROVE  Sent(item) \in Seq(Bytes)
<1>1. CASE ~item.replyTo
  BY <1>1, Fields DEF Sent
<1>2. CASE item.replyTo
  <2> DEFINE a == <<"[cid=">>
             b == <<"]", " ">>
             c == item.cid
             t == item.text
  <2>1. /\ a \in Seq(Bytes) /\ b \in Seq(Bytes) /\ c \in Seq(Bytes) /\ t \in Seq(Bytes)
    <3>1. a \in Seq(Bytes) /\ b \in Seq(Bytes)
      <4> DEFINE k == "[cid="
                 m == "]"
                 n == " "
      <4>1. k \in Bytes /\ m \in Bytes /\ n \in Bytes
        BY SomeBytes
      <4> HIDE DEF k, m, n
      <4>2. <<k>> \in Seq(Bytes) /\ <<m, n>> \in Seq(Bytes)
        BY ONLY <4>1
      <4> QED BY <4>2 DEF k, m, n
    <3> QED BY <3>1, Fields
  <2>2. Sent(item) = a \o c \o b \o t
    BY <1>2 DEF Sent, PrependCid
  <2> HIDE DEF a, b, c, t
  <2>3. a \o c \o b \o t \in Seq(Bytes)
    BY ONLY <2>1
  <2> QED BY <2>2, <2>3
<1> QED BY <1>1, <1>2

(* What is left of a body, from each of its lines on, is bytes. *)
LEMMA OnTyped ==
    ASSUME Deliverable(item)
    PROVE  /\ TextOn \in Seq(Bytes) /\ (TextOn = <<>> <=> ~item.hasText)
           /\ PathOn \in Seq(Bytes) /\ (PathOn = <<>> <=> item.path = <<>> /\ ~item.hasText)
           /\ SenderOn \in Seq(Bytes) /\ SenderOn # <<>>
<1>1. Line("text", Sent(item)) \in Seq(Bytes) /\ Line("text", Sent(item)) # <<>>
  BY SomeBytes, SentTyped, LineParts
<1>2. Line("path", item.path) \in Seq(Bytes) /\ Line("path", item.path) # <<>>
  BY SomeBytes, Fields, LineParts
<1>3. Line("sender", item.sender) \in Seq(Bytes) /\ Line("sender", item.sender) # <<>>
  BY SomeBytes, Fields, LineParts
<1>4. TextOn \in Seq(Bytes) /\ (TextOn = <<>> <=> ~item.hasText)
  <2>1. CASE item.hasText
    BY <1>1, <2>1 DEF TextOn
  <2>2. CASE ~item.hasText
    BY <2>2 DEF TextOn
  <2> QED BY <2>1, <2>2
<1>5. PathOn \in Seq(Bytes) /\ (PathOn = <<>> <=> item.path = <<>> /\ ~item.hasText)
  <2>1. CASE item.path # <<>>
    BY <1>2, <1>4, <2>1, JoinTyped DEF PathOn
  <2>2. CASE item.path = <<>>
    BY <1>4, <2>2 DEF PathOn
  <2> QED BY <2>1, <2>2
<1>6. SenderOn \in Seq(Bytes) /\ SenderOn # <<>>
  BY <1>3, <1>5, JoinTyped DEF SenderOn
<1> QED BY <1>4, <1>5, <1>6

(* recvBodyString writes the lines one behind the other. *)
LEMMA Written ==
    ASSUME Deliverable(item)
    PROVE  RecvBodyString(item) = TypeOn
<1> DEFINE a == Line("type", item.type)
           n == <<NL>>
           c == Line("sender", item.sender)
           pl == Line("path", item.path)
           tl == Line("text", Sent(item))
           p == IF item.path # <<>> THEN n \o pl ELSE <<>>
           x == IF item.hasText THEN n \o tl ELSE <<>>
<1>1. RecvBodyString(item) = (((a \o n) \o c) \o p) \o x
  BY DEF RecvBodyString
<1>2. /\ a \in Seq(Bytes) /\ c \in Seq(Bytes) /\ pl \in Seq(Bytes) /\ tl \in Seq(Bytes)
      /\ pl # <<>> /\ tl # <<>>
  BY SomeBytes, Fields, SentTyped, LineParts
<1>3. n \in Seq(Bytes)
  <2>1. NL \in Bytes
    BY SomeBytes
  <2> QED BY ONLY <2>1
<1>t. TextOn = IF item.hasText THEN tl ELSE <<>>
  BY DEF TextOn
<1>p. PathOn = IF item.path # <<>> THEN Join(pl, TextOn) ELSE TextOn
  BY DEF PathOn
<1>s. TypeOn = Join(a, SenderOn) /\ SenderOn = Join(c, PathOn)
  BY DEF TypeOn, SenderOn
<1>j. \A l, more : Join(l, more) = IF more = <<>> THEN l ELSE l \o (n \o more)
  BY DEF Join
<1> HIDE DEF a, n, c, pl, tl
<1>4. p \in Seq(Bytes) /\ x \in Seq(Bytes)
  <2>1. n \o pl \in Seq(Bytes) /\ n \o tl \in Seq(Bytes)
    BY ONLY <1>2, <1>3, ConcatProperties
  <2> QED BY <2>1
<1>5. (((a \o n) \o c) \o p) \o x = a \o (n \o (c \o (p \o x))) /\ p \o x \in Seq(Bytes)
  <2>1. /\ a \in Seq(Bytes) /\ n \in Seq(Bytes) /\ c \in Seq(Bytes)
        /\ p \in Seq(Bytes) /\ x \in Seq(Bytes)
    BY <1>2, <1>3, <1>4
  <2> HIDE DEF p, x
  <2>2. /\ a \o n \in Seq(Bytes)
        /\ \A u \in Seq(Bytes) : (a \o n) \o u = a \o (n \o u)
    <3>1. a \in Seq(Bytes) /\ n \in Seq(Bytes)
      BY <2>1
    <3> QED BY ONLY <3>1
  <2>3. /\ p \o x \in Seq(Bytes)
        /\ \A u \in Seq(Bytes) : (u \o p) \o x = u \o (p \o x)
    <3>1. p \in Seq(Bytes) /\ x \in Seq(Bytes)
      BY <2>1
    <3> QED BY ONLY <3>1
  <2> DEFINE q == p \o x
             an == a \o n
  <2>4. an \in Seq(Bytes) /\ c \in Seq(Bytes) /\ q \in Seq(Bytes)
    BY <2>1, <2>2, <2>3
  <2> HIDE DEF q, an
  <2>5. an \o c \in Seq(Bytes) /\ c \o q \in Seq(Bytes) /\ (an \o c) \o q = an \o (c \o q)
    BY ONLY <2>4
  <2>6. ((an \o c) \o p) \o x = (an \o c) \o (p \o x)
    BY ONLY <2>3, <2>5
  <2>7. (a \o n) \o (c \o q) = a \o (n \o (c \o q))
    BY ONLY <2>2, <2>5
  <2> QED BY <2>3, <2>5, <2>6, <2>7 DEF q, an
<1>6. c \o (p \o x) = SenderOn
  <2>1. p \o x = IF PathOn = <<>> THEN <<>> ELSE n \o PathOn
    <3>1. CASE item.path # <<>> /\ item.hasText
      <4>1. p = n \o pl /\ x = n \o tl /\ PathOn = pl \o x /\ PathOn # <<>>
        BY <1>2, <1>t, <1>p, <1>j, <3>1, OnTyped
      <4> HIDE DEF p, x
      <4>2. (n \o pl) \o x = n \o (pl \o x)
        <5>1. n \in Seq(Bytes) /\ pl \in Seq(Bytes) /\ x \in Seq(Bytes)
          BY <1>2, <1>3, <1>4
        <5> QED BY ONLY <5>1, ConcatAssociative
      <4> QED BY <4>1, <4>2
    <3>2. CASE item.path # <<>> /\ ~item.hasText
      <4>1. p = n \o pl /\ x = <<>> /\ PathOn = pl /\ PathOn # <<>>
        BY <1>2, <1>t, <1>p, <1>j, <3>2
      <4> HIDE DEF p
      <4>2. p \o <<>> = p
        BY <1>4, ConcatEmptySeq
      <4> QED BY <4>1, <4>2
    <3>3. CASE item.path = <<>> /\ item.hasText
      <4>1. p = <<>> /\ x = n \o tl /\ PathOn = tl /\ PathOn # <<>>
        BY <1>2, <1>t, <1>p, <3>3
      <4> HIDE DEF x
      <4>2. <<>> \o x = x
        BY <1>4, ConcatEmptySeq
      <4> QED BY <4>1, <4>2
    <3>4. CASE item.path = <<>> /\ ~item.hasText
      <4>1. p = <<>> /\ x = <<>> /\ PathOn = <<>>
        BY <1>t, <1>p, <3>4
      <4> QED BY <4>1
    <3> QED BY <3>1, <3>2, <3>3, <3>4, Fields
  <2> HIDE DEF p, x
  <2>2. CASE PathOn = <<>>
    <3>1. c \o <<>> = c
      BY <1>2, ConcatEmptySeq
    <3> QED BY <1>s, <1>j, <2>1, <2>2, <3>1
  <2>3. CASE PathOn # <<>>
    BY <1>s, <1>j, <2>1, <2>3
  <2> QED BY <2>2, <2>3
<1>7. SenderOn # <<>>
  BY OnTyped
<1> QED BY <1>1, <1>5, <1>6, <1>7, <1>s, <1>j

(* A turn of the loop reads a line and leaves what is behind it. *)
TheLine(s) == LET nl == SelectInSeq(s, IsNL) IN IF nl = 0 THEN s ELSE SubSeq(s, 1, nl - 1)
Behind(s) == LET nl == SelectInSeq(s, IsNL) IN IF nl = 0 THEN <<>> ELSE SubSeq(s, nl + 1, Len(s))

(* A line ends at its newline. *)
LEMMA LineEnds ==
    ASSUME NEW l \in Seq(Bytes), NEW m \in Seq(Bytes), ~Has(l, NL)
    PROVE  TheLine(l \o (<<NL>> \o m)) = l /\ Behind(l \o (<<NL>> \o m)) = m
<1> DEFINE w == l \o (<<NL>> \o m)
<1>1. NL \in Bytes
  BY SomeBytes
<1>2. First(w, NL) = Len(l) + 1 /\ SubSeq(w, 1, Len(l)) = l /\ SubSeq(w, Len(l) + 2, Len(w)) = m
  BY <1>1, FirstThere
<1>3. SelectInSeq(w, IsNL) = First(w, NL)
  BY FirstOfEach
<1> HIDE DEF w
<1> DEFINE nl == SelectInSeq(w, IsNL)
<1>4. nl = Len(l) + 1 /\ Len(l) \in Nat
  BY <1>2, <1>3, LenProperties
<1> HIDE DEF nl
<1>5. nl # 0 /\ nl - 1 = Len(l) /\ nl + 1 = Len(l) + 2
  BY ONLY <1>4
<1>6. TheLine(w) = SubSeq(w, 1, nl - 1) /\ Behind(w) = SubSeq(w, nl + 1, Len(w))
  BY <1>5 DEF nl, TheLine, Behind
<1> QED BY <1>2, <1>5, <1>6 DEF w

(* The first of the joined lines is read alone. *)
LEMMA OneLine ==
    ASSUME NEW l \in Seq(Bytes), NEW m \in Seq(Bytes), ~Has(l, NL)
    PROVE  TheLine(Join(l, m)) = l /\ Behind(Join(l, m)) = m
<1>1. CASE m = <<>>
  <2>1. Join(l, m) = l
    BY <1>1 DEF Join
  <2>2. SelectInSeq(l, IsNL) = 0
    BY FirstOfEach, FirstMissing
  <2> QED BY <1>1, <2>1, <2>2 DEF TheLine, Behind
<1>2. CASE m # <<>>
  BY <1>2, LineEnds DEF Join
<1> QED BY <1>1, <1>2

(* What the header has told so far. *)
Told(t, s, p) ==
    [type |-> t, sender |-> s, path |-> p, text |-> <<>>, hasText |-> FALSE, cid |-> <<>>]

(* Where there is no text there is no conversation to take out of it. *)
LEMMA NoText ==
    ASSUME NEW t, NEW s, NEW p
    PROVE  ExtractCid(Told(t, s, p)) = Told(t, s, p)
BY DEF ExtractCid, Told

(* The labels are told apart. *)
LEMMA OneTuples ==
    /\ <<"type">> # <<"sender">> /\ <<"type">> # <<"path">> /\ <<"type">> # <<"text">>
    /\ <<"sender">> # <<"path">> /\ <<"sender">> # <<"text">> /\ <<"path">> # <<"text">>
OBVIOUS

(* What a turn does with the line it read. *)
Noted(p, f, more) ==
    CASE f.label = <<"type">> -> [p EXCEPT !.type = f.value]
      [] f.label = <<"sender">> -> [p EXCEPT !.sender = f.value]
      [] f.label = <<"path">> -> [p EXCEPT !.path = f.value]
      [] f.label = <<"text">> ->
             [p EXCEPT !.hasText = TRUE,
                       !.text = IF more = <<>> THEN f.value ELSE f.value \o <<NL>> \o more]
      [] OTHER -> p

(* A turn of the loop: the line that is read, what it says and what is left. *)
LEMMA Turn ==
    ASSUME ParseLine
    PROVE  LET f == SplitFirstColon(TheLine(rest))
               more == Behind(rest)
               q == Noted(parsed, f, more)
           IN  /\ rest' = IF f.label = <<"text">> THEN <<>> ELSE more
               /\ finished' = (rest' = <<>>)
               /\ parsed' = IF rest' = <<>> THEN ExtractCid(q) ELSE q
               /\ item' = item
BY DEF ParseLine, TheLine, Behind, Noted

(* A turn on a line of the header tells its field. *)
LEMMA HeaderLine ==
    ASSUME NEW label \in {"type", "sender", "path"}, NEW v \in Seq(Bytes), ~Has(v, NL),
           NEW m \in Seq(Bytes), rest = Join(Line(label, v), m),
           NEW t, NEW s, NEW p, parsed = Told(t, s, p), ParseLine
    PROVE  /\ rest' = m /\ finished' = (m = <<>>) /\ item' = item
           /\ label = "type" => parsed' = Told(v, s, p)
           /\ label = "sender" => parsed' = Told(t, v, p)
           /\ label = "path" => parsed' = Told(t, s, v)
<1> DEFINE l == Line(label, v)
           f == SplitFirstColon(l)
           q == Noted(parsed, f, m)
<1>1. label \in Bytes /\ label # ":" /\ label # NL
  BY SomeBytes DEF NL
<1>2. l \in Seq(Bytes) /\ ~Has(l, NL)
  BY <1>1, LineParts, LineHasNoNewline
<1>3. TheLine(rest) = l /\ Behind(rest) = m
  <2> HIDE DEF l
  <2> QED BY <1>2, OneLine DEF l
<1>4. f.label = <<label>> /\ f.value = v
  BY <1>1, LineRead
<1> HIDE DEF l
<1>5. /\ rest' = IF f.label = <<"text">> THEN <<>> ELSE m
      /\ finished' = (rest' = <<>>)
      /\ parsed' = IF rest' = <<>> THEN ExtractCid(q) ELSE q
      /\ item' = item
  BY <1>3, Turn
<1> HIDE DEF f
<1>6. f.label # <<"text">>
  BY <1>4, OneTuples
<1>7. /\ label = "type" => q = Told(v, s, p)
      /\ label = "sender" => q = Told(t, v, p)
      /\ label = "path" => q = Told(t, s, v)
  BY <1>4, OneTuples DEF Told, Noted
<1> HIDE DEF q
<1>8. rest' = m /\ finished' = (m = <<>>)
  BY <1>5, <1>6
<1>9. ExtractCid(q) = q
  BY <1>7, NoText
<1> QED BY <1>5, <1>7, <1>8, <1>9

(* Kept keeps a text without newline, and takes a newline off only where it is
   the first and the last. *)
LEMMA KeptNone ==
    ASSUME NEW w \in Seq(Bytes), ~Has(w, NL)
    PROVE  Kept(w) = w
<1>1. SelectInSeq(w, IsNL) = 0
  BY FirstOfEach, FirstMissing
<1>2. w # <<>> => Len(w) # 0
  BY EmptySeq
<1> QED BY <1>1, <1>2 DEF Kept

(* Splitting and joining drops nothing but a newline at the very end. *)
LEMMA KeptSome ==
    ASSUME NEW l \in Seq(Bytes), NEW r \in Seq(Bytes), ~Has(l, NL)
    PROVE  Kept(l \o (<<NL>> \o r)) = IF r = <<>> THEN l ELSE l \o (<<NL>> \o r)
<1> DEFINE w == l \o (<<NL>> \o r)
<1>1. NL \in Bytes
  BY SomeBytes
<1>2. /\ w \in Seq(Bytes) /\ Len(w) = Len(l) + 1 + Len(r)
      /\ First(w, NL) = Len(l) + 1 /\ SubSeq(w, 1, Len(l)) = l
  BY <1>1, FirstThere
<1>3. SelectInSeq(w, IsNL) = First(w, NL)
  BY FirstOfEach
<1> HIDE DEF w
<1>4. Len(l) \in Nat /\ Len(r) \in Nat /\ (r = <<>> <=> Len(r) = 0)
  BY LenProperties, EmptySeq
<1> DEFINE n == Len(w)
           a == Len(l)
           b == Len(r)
<1>5. a \in Nat /\ b \in Nat /\ n = a + 1 + b
  BY <1>2, <1>4
<1> HIDE DEF n, a, b
<1>6. n # 0 /\ n \in Nat /\ (a + 1 = n <=> b = 0) /\ (b = 0 => n - 1 = a)
  BY ONLY <1>5
<1>7. w # <<>>
  <2>1. Len(w) # 0
    BY <1>6 DEF n
  <2> QED BY <2>1
<1>8. CASE r = <<>>
  <2>1. SelectInSeq(w, IsNL) = Len(w) /\ Len(w) - 1 = Len(l)
    BY <1>2, <1>3, <1>4, <1>6, <1>8 DEF n, a, b
  <2>2. Front(w) = SubSeq(w, 1, Len(l))
    BY <2>1 DEF Front
  <2>3. Kept(w) = Front(w)
    BY <1>7, <2>1 DEF Kept
  <2> QED BY <1>2, <1>8, <2>2, <2>3 DEF w
<1>9. CASE r # <<>>
  <2>1. SelectInSeq(w, IsNL) # Len(w)
    BY <1>2, <1>3, <1>4, <1>6, <1>9 DEF n, a, b
  <2> QED BY <1>9, <2>1 DEF Kept, w
<1> QED BY <1>8, <1>9

(* The text of a body is what is behind its label. *)
LEMMA TextLine ==
    ASSUME NEW w \in Seq(Bytes), rest = Line("text", w),
           NEW t, NEW s, NEW p, parsed = Told(t, s, p), ParseLine
    PROVE  /\ rest' = <<>> /\ finished' = TRUE /\ item' = item
           /\ parsed' = ExtractCid([Told(t, s, p) EXCEPT !.hasText = TRUE, !.text = Kept(w)])
<1>1. "text" \in Bytes /\ "text" # ":" /\ "text" # NL /\ NL \in Bytes
  BY SomeBytes DEF NL
<1>2. ASSUME NEW l \in Seq(Bytes), NEW r \in Seq(Bytes), ~Has(l, NL),
             TheLine(rest) = Line("text", l), Behind(rest) = r,
             Kept(w) = IF r = <<>> THEN l ELSE l \o <<NL>> \o r
      PROVE  /\ rest' = <<>> /\ finished' = TRUE /\ item' = item
             /\ parsed' = ExtractCid([Told(t, s, p) EXCEPT !.hasText = TRUE, !.text = Kept(w)])
  <2> DEFINE n == Line("text", l)
             f == SplitFirstColon(n)
             q == Noted(parsed, f, r)
             e == [Told(t, s, p) EXCEPT !.hasText = TRUE, !.text = Kept(w)]
  <2>2. TheLine(rest) = n /\ Behind(rest) = r
    BY <1>2
  <2>3. f.label = <<"text">> /\ f.value = l
    BY <1>1, <1>2, LineRead
  <2> HIDE DEF n
  <2>4. /\ rest' = IF f.label = <<"text">> THEN <<>> ELSE r
        /\ finished' = (rest' = <<>>)
        /\ parsed' = IF rest' = <<>> THEN ExtractCid(q) ELSE q
        /\ item' = item
    BY <2>2, Turn
  <2> HIDE DEF f
  <2>5. q = [parsed EXCEPT !.hasText = TRUE,
                           !.text = IF r = <<>> THEN f.value ELSE f.value \o <<NL>> \o r]
    BY <2>3, OneTuples DEF Noted
  <2>6. (IF r = <<>> THEN f.value ELSE f.value \o <<NL>> \o r) = Kept(w)
    BY <1>2, <2>3
  <2>7. q = e
    BY <2>5, <2>6
  <2> QED BY <2>3, <2>4, <2>7
<1>3. CASE ~Has(w, NL)
  <2> DEFINE n == Line("text", w)
  <2>1. Join(n, <<>>) = n /\ <<>> \in Seq(Bytes)
    BY DEF Join
  <2>2. n \in Seq(Bytes) /\ ~Has(n, NL)
    BY <1>1, <1>3, LineParts, LineHasNoNewline
  <2>3. TheLine(n) = n /\ Behind(n) = <<>>
    <3> HIDE DEF n
    <3> QED BY <2>1, <2>2, OneLine
  <2> QED BY <1>2, <1>3, <2>1, <2>3, KeptNone
<1>4. CASE Has(w, NL)
  <2>1. PICK l, r \in Seq(Bytes) : ~Has(l, NL) /\ w = l \o (<<NL>> \o r)
    <3>1. w \in Seq(Bytes) /\ NL \in Bytes /\ Has(w, NL)
      BY <1>1, <1>4
    <3> QED BY ONLY <3>1, CutAtFirst
  <2> DEFINE y == <<NL>> \o r
             h == <<"text", ":", " ">>
  <2>2. y \in Seq(Bytes) /\ y # <<>>
    BY <1>1, Headed
  <2>3. <<NL>> \in Seq(Bytes)
    BY <1>1, Singleton
  <2>4. l \o <<NL>> \o r = l \o (<<NL>> \o r)
    <3> DEFINE o == <<NL>>
    <3>1. l \in Seq(Bytes) /\ o \in Seq(Bytes) /\ r \in Seq(Bytes)
      BY <2>3
    <3> HIDE DEF o
    <3>2. (l \o o) \o r = l \o (o \o r)
      BY ONLY <3>1
    <3> QED BY <3>2 DEF o
  <2>5. Kept(w) = IF r = <<>> THEN l ELSE l \o <<NL>> \o r
    BY <2>1, <2>4, KeptSome
  <2>6. rest = Line("text", l) \o y
    <3> DEFINE a == "text"
               b == ":"
               c == " "
    <3>1. h \in Seq(Bytes)
      <4>1. a \in Bytes /\ b \in Bytes /\ c \in Bytes
        BY SomeBytes
      <4> HIDE DEF a, b, c
      <4>2. <<a, b, c>> \in Seq(Bytes)
        BY ONLY <4>1
      <4> QED BY <4>2 DEF a, b, c
    <3>2. rest = h \o (l \o y) /\ Line("text", l) = h \o l
      BY <2>1 DEF Line
    <3>3. h \in Seq(Bytes) /\ l \in Seq(Bytes) /\ y \in Seq(Bytes)
      BY <2>2, <3>1
    <3> HIDE DEF h, y
    <3>4. (h \o l) \o y = h \o (l \o y)
      BY ONLY <3>3
    <3> QED BY <3>2, <3>4
  <2>7. TheLine(rest) = Line("text", l) /\ Behind(rest) = r
    <3> DEFINE n == Line("text", l)
    <3>1. n \in Seq(Bytes) /\ ~Has(n, NL)
      BY <1>1, <2>1, LineParts, LineHasNoNewline
    <3> HIDE DEF n
    <3>2. TheLine(n \o y) = n /\ Behind(n \o y) = r
      BY <3>1, LineEnds
    <3> QED BY <2>6, <3>2 DEF n
  <2> QED BY <1>2, <2>1, <2>5, <2>7
<1> QED BY <1>3, <1>4

------------------------------------------------------------------------------
(* A token before a text, and off again. *)
Opening == <<"[cid=">> \o item.cid
Closing == <<"]">>
Space == <<" ">>
Token(x) == Opening \o (Closing \o (Space \o x))

(* The parts of the token that names the conversation. *)
LEMMA TokenParts ==
    ASSUME Deliverable(item)
    PROVE  /\ Opening \in Seq(Bytes) /\ Closing \in Seq(Bytes) /\ Space \in Seq(Bytes)
           /\ Opening # <<>> /\ Len(Opening) = 1 + Len(item.cid) /\ Opening[1] = "[cid="
           /\ \A i \in 1 .. Len(item.cid) : Opening[1 + i] = item.cid[i]
<1> DEFINE k == "[cid="
           m == "]"
           n == " "
           c == item.cid
           o == <<k>> \o c
<1>1. k \in Bytes /\ m \in Bytes /\ n \in Bytes /\ c \in Seq(Bytes)
  BY SomeBytes, Fields
<1> HIDE DEF k, m, n, c
<1>2. <<m>> \in Seq(Bytes) /\ <<n>> \in Seq(Bytes)
  BY ONLY <1>1
<1>3. /\ o \in Seq(Bytes) /\ o # <<>> /\ Len(o) = 1 + Len(c) /\ o[1] = k
      /\ \A i \in 1 .. Len(c) : o[1 + i] = c[i]
  BY <1>1, Headed
<1> QED BY <1>2, <1>3 DEF Opening, Closing, Space, o, k, m, n, c

(* A token before a text is bytes. *)
LEMMA TokenTyped ==
    ASSUME Deliverable(item), NEW x \in Seq(Bytes)
    PROVE  Token(x) \in Seq(Bytes) /\ Space \o x \in Seq(Bytes) /\ Closing \o (Space \o x) \in Seq(Bytes)
<1> DEFINE y == Space \o x
           z == Closing \o y
<1>1. y \in Seq(Bytes)
  <2>1. Space \in Seq(Bytes) /\ x \in Seq(Bytes)
    BY TokenParts
  <2> QED BY ONLY <2>1
<1> HIDE DEF y
<1>2. z \in Seq(Bytes)
  <2>1. Closing \in Seq(Bytes) /\ y \in Seq(Bytes)
    BY TokenParts, <1>1
  <2> QED BY ONLY <2>1 DEF z
<1> HIDE DEF z
<1>3. Opening \o z \in Seq(Bytes)
  <2>1. Opening \in Seq(Bytes) /\ z \in Seq(Bytes)
    BY TokenParts, <1>2
  <2> QED BY ONLY <2>1
<1> QED BY <1>1, <1>2, <1>3 DEF Token, y, z

(* A token before a text stays there when the text grows. *)
LEMMA TokenJoined ==
    ASSUME Deliverable(item), NEW x \in Seq(Bytes), NEW y \in Seq(Bytes)
    PROVE  Token(x \o y) = Token(x) \o y
<1> DEFINE sx == Space \o x
           cx == Closing \o sx
<1>1. sx \in Seq(Bytes) /\ cx \in Seq(Bytes)
  BY TokenTyped
<1>2. sx \o y = Space \o (x \o y)
  <2>1. Space \in Seq(Bytes) /\ x \in Seq(Bytes) /\ y \in Seq(Bytes)
    BY TokenParts
  <2> QED BY ONLY <2>1 DEF sx
<1> HIDE DEF sx
<1>3. cx \o y = Closing \o (sx \o y)
  <2>1. Closing \in Seq(Bytes) /\ sx \in Seq(Bytes) /\ y \in Seq(Bytes)
    BY TokenParts, <1>1
  <2> QED BY ONLY <2>1 DEF cx
<1> HIDE DEF cx
<1>4. (Opening \o cx) \o y = Opening \o (cx \o y)
  <2>1. Opening \in Seq(Bytes) /\ cx \in Seq(Bytes) /\ y \in Seq(Bytes)
    BY TokenParts, <1>1
  <2> QED BY ONLY <2>1
<1> QED BY <1>2, <1>3, <1>4 DEF Token, cx, sx

(* A single byte has no other. *)
LEMMA HasOne ==
    ASSUME NEW a, NEW b, a # b
    PROVE  ~Has(<<a>>, b)
BY DEF Has

(* A reply is sent behind its token. *)
LEMMA SentIsToken ==
    ASSUME Deliverable(item), item.replyTo
    PROVE  Sent(item) = Token(item.text)
<1> DEFINE a == <<"[cid=">> \o item.cid
           b == <<"]", " ">>
           t == item.text
<1>1. Sent(item) = (a \o b) \o t
  BY DEF Sent, PrependCid
<1>2. a = Opening
  BY DEF Opening
<1>3. b = Closing \o Space
  <2> DEFINE m == "]"
             n == " "
  <2>1. m \in Bytes /\ n \in Bytes
    BY SomeBytes
  <2> HIDE DEF m, n
  <2>2. <<m, n>> = <<m>> \o <<n>>
    BY ONLY <2>1, TwoOnes
  <2> QED BY <2>2 DEF m, n, b, Closing, Space
<1>4. t \in Seq(Bytes) /\ Opening \in Seq(Bytes) /\ Closing \in Seq(Bytes) /\ Space \in Seq(Bytes)
  BY Fields, TokenParts
<1> HIDE DEF a, b, t
<1>5. (Closing \o Space) \o t = Closing \o (Space \o t) /\ Closing \o Space \in Seq(Bytes)
  <2>1. Closing \in Seq(Bytes) /\ Space \in Seq(Bytes) /\ t \in Seq(Bytes)
    BY <1>4
  <2> QED BY ONLY <2>1
<1>6. (Opening \o b) \o t = Opening \o (b \o t)
  <2>1. Opening \in Seq(Bytes) /\ b \in Seq(Bytes) /\ t \in Seq(Bytes)
    BY <1>3, <1>4, <1>5
  <2> QED BY ONLY <2>1
<1> QED BY <1>1, <1>2, <1>3, <1>5, <1>6 DEF Token, t

(* A joined sequence has no byte that neither part has. *)
LEMMA JoinedHas ==
    ASSUME NEW l \in Seq(Bytes), NEW r \in Seq(Bytes), NEW x, ~Has(l, x), ~Has(r, x)
    PROVE  ~Has(l \o r, x)
<1> SUFFICES ASSUME NEW i \in 1 .. Len(l \o r), (l \o r)[i] = x PROVE FALSE
  BY DEF Has
<1>1. l \in Seq(Bytes) /\ r \in Seq(Bytes) /\ i \in 1 .. Len(l \o r)
  OBVIOUS
<1>2. \/ i \in 1 .. Len(l) /\ (l \o r)[i] = l[i]
      \/ \E k \in 1 .. Len(r) : i = Len(l) + k /\ (l \o r)[i] = r[k]
  BY <1>1, JoinedElements
<1> QED BY <1>2 DEF Has

(* A token brings no newline. *)
LEMMA TokenHasNoNewline ==
    ASSUME Deliverable(item), ~Has(item.cid, NL), NEW x \in Seq(Bytes), ~Has(x, NL)
    PROVE  ~Has(Token(x), NL)
<1>1. ~Has(Opening, NL)
  <2>1. ~Has(<<"[cid=">>, NL)
    <3>1. "[cid=" # NL
      BY DEF NL
    <3> QED BY <3>1, HasOne
  <2>2. <<"[cid=">> \in Seq(Bytes) /\ item.cid \in Seq(Bytes)
    <3> DEFINE k == "[cid="
    <3>1. k \in Bytes
      BY SomeBytes
    <3> HIDE DEF k
    <3>2. <<k>> \in Seq(Bytes)
      BY <3>1, Singleton
    <3> QED BY <3>2, Fields DEF k
  <2> QED BY <2>1, <2>2, JoinedHas DEF Opening
<1>2. ~Has(Closing, NL) /\ ~Has(Space, NL)
  <2>1. "]" # NL /\ " " # NL
    BY DEF NL
  <2> QED BY <2>1, HasOne DEF Closing, Space
<1>3. ~Has(Space \o x, NL)
  BY <1>2, TokenParts, JoinedHas
<1>4. ~Has(Closing \o (Space \o x), NL)
  BY <1>2, <1>3, TokenParts, TokenTyped, JoinedHas
<1> QED BY <1>1, <1>4, TokenParts, TokenTyped, JoinedHas DEF Token

(* What splitting and joining drops is behind the token. *)
LEMMA KeptBehindToken ==
    ASSUME Deliverable(item), ~Has(item.cid, NL), NEW x \in Seq(Bytes)
    PROVE  Kept(Token(x)) = Token(Kept(x)) /\ Kept(x) \in Seq(Bytes)
<1>1. CASE ~Has(x, NL)
  BY <1>1, KeptNone, TokenTyped, TokenHasNoNewline
<1>2. CASE Has(x, NL)
  <2>n. NL \in Bytes
    BY SomeBytes
  <2>1. PICK l, r \in Seq(Bytes) : ~Has(l, NL) /\ x = l \o (<<NL>> \o r)
    <3>1. x \in Seq(Bytes) /\ NL \in Bytes /\ Has(x, NL)
      BY <1>2, <2>n
    <3> QED BY ONLY <3>1, CutAtFirst
  <2> DEFINE y == <<NL>> \o r
  <2>2. y \in Seq(Bytes)
    BY <2>n, Headed
  <2>3. Token(x) = Token(l) \o y
    <3> HIDE DEF y
    <3> QED BY <2>1, <2>2, TokenJoined DEF y
  <2>4. Token(l) \in Seq(Bytes) /\ ~Has(Token(l), NL)
    BY <2>1, TokenTyped, TokenHasNoNewline
  <2>5. Kept(Token(x)) = IF r = <<>> THEN Token(l) ELSE Token(l) \o y
    BY <2>3, <2>4, KeptSome
  <2>6. Kept(x) = IF r = <<>> THEN l ELSE l \o y
    BY <2>1, KeptSome
  <2> QED BY <2>1, <2>3, <2>5, <2>6
<1> QED BY <1>1, <1>2

(* What is between the opening of a token and its end. *)
LEMMA CidIsCut ==
    ASSUME NEW c \in Seq(Bytes), NEW w \in Seq(Bytes), NEW n \in Nat, n = 1 + Len(c), n <= Len(w),
           \A i \in 1 .. Len(c) : w[1 + i] = c[i]
    PROVE  SubSeq(w, 2, n) = c
<1> DEFINE t == SubSeq(w, 2, n)
<1>l. Len(c) \in Nat /\ Len(w) \in Nat
  BY LenProperties
<1>1. \A i \in 2 .. n : w[i] \in Bytes
  <2> TAKE i \in 2 .. n
  <2>1. i \in 1 .. Len(w)
    BY <1>l
  <2> QED BY <2>1, ElementOfSeq
<1>2. /\ t \in Seq(Bytes) /\ Len(t) = (IF 2 <= n THEN n - 2 + 1 ELSE 0)
      /\ \A i \in 1 .. n - 2 + 1 : t[i] = w[2 + i - 1]
  BY <1>1, SubSeqProperties
<1> HIDE DEF t
<1>3. Len(t) = Len(c)
  BY <1>l, <1>2
<1>4. \A i \in 1 .. Len(c) : t[i] = c[i]
  <2> TAKE i \in 1 .. Len(c)
  <2>1. i \in 1 .. n - 2 + 1 /\ 2 + i - 1 = 1 + i
    BY <1>l
  <2> QED BY <1>2, <2>1
<1>5. t = c
  BY <1>2, <1>3, <1>4, SeqEqual
<1> QED BY <1>5 DEF t

(* The token is taken out again, and the text behind it is left. *)
LEMMA TokenRead ==
    ASSUME Deliverable(item), ~Has(item.cid, "]"), NEW x \in Seq(Bytes),
           NEW p, p.hasText = TRUE, p.text = Token(x)
    PROVE  ExtractCid(p) = [p EXCEPT !.cid = item.cid, !.text = x]
<1> DEFINE w == Token(x)
           o == Opening
           z == "]"
           y == Space \o x
           e == SelectInSeq(w, IsClose)
<1>1. o \in Seq(Bytes) /\ o # <<>> /\ Len(o) = 1 + Len(item.cid) /\ o[1] = "[cid="
      /\ \A i \in 1 .. Len(item.cid) : o[1 + i] = item.cid[i]
  BY TokenParts
<1>2. y \in Seq(Bytes) /\ DropSpace(y) = x
  BY SpaceDropped DEF Space
<1>3. z \in Bytes /\ item.cid \in Seq(Bytes)
  BY SomeBytes, Fields
<1>4. ~Has(o, z)
  <2>1. z # "[cid="
    OBVIOUS
  <2>2. <<"[cid=">> \in Seq(Bytes)
    <3> DEFINE k == "[cid="
    <3>1. k \in Bytes
      BY SomeBytes
    <3> HIDE DEF k
    <3>2. <<k>> \in Seq(Bytes)
      BY <3>1, Singleton
    <3> QED BY <3>2 DEF k
  <2> HIDE DEF z
  <2>3. ~Has(<<"[cid=">>, z)
    BY <2>1, HasOne
  <2>4. ~Has(item.cid, z)
    BY DEF z
  <2> QED BY <1>3, <2>2, <2>3, <2>4, JoinedHas DEF Opening
<1>5. w = o \o (<<z>> \o y)
  BY DEF Token, Closing
<1>6. e = First(w, z)
  BY FirstOfEach
<1> HIDE DEF o, z, y, e
<1>7. /\ o \o (<<z>> \o y) \in Seq(Bytes) /\ First(w, z) = Len(o) + 1
      /\ Len(w) = Len(o) + 1 + Len(y)
      /\ SubSeq(w, 1, Len(o)) = o /\ SubSeq(w, Len(o) + 2, Len(w)) = y
  <2>1. o \in Seq(Bytes) /\ y \in Seq(Bytes) /\ z \in Bytes /\ ~Has(o, z)
    BY <1>1, <1>2, <1>3, <1>4
  <2> HIDE DEF w
  <2> QED BY <1>5, <2>1, FirstThere
<1>l. Len(o) \in Nat \ {0} /\ Len(y) \in Nat /\ Len(w) = Len(o) + 1 + Len(y) /\ e = Len(o) + 1
  BY <1>1, <1>2, <1>6, <1>7, LenProperties, EmptySeq
<1>8. w \in Seq(Bytes)
  BY <1>5, <1>7
<1> HIDE DEF w
<1>9. /\ e > 0 /\ e - 1 = Len(o) /\ e + 1 = Len(o) + 2 /\ Len(o) <= Len(w) /\ Len(w) # 0
      /\ 1 \in 1 .. Len(o)
  BY ONLY <1>l
<1>10. \A i \in 1 .. Len(o) : w[i] = o[i]
  <2>1. \A i \in 1 .. Len(o) : SubSeq(w, 1, Len(o))[i] = w[i]
    BY <1>8, <1>l, <1>9, RemovedFront
  <2> QED BY <1>7, <2>1
<1>11. w[1] = "[cid=" /\ w # <<>>
  BY <1>1, <1>9, <1>10
<1>12. SubSeq(w, 2, e - 1) = item.cid
  <2>1. \A i \in 1 .. Len(item.cid) : 1 + i \in 1 .. Len(o) /\ w[1 + i] = item.cid[i]
    <3>1. Len(item.cid) \in Nat
      BY <1>3, LenProperties
    <3>2. \A i \in 1 .. Len(item.cid) : 1 + i \in 1 .. Len(o)
      BY <1>1, <3>1
    <3> QED BY <1>1, <1>10, <3>2
  <2>2. SubSeq(w, 2, Len(o)) = item.cid
    BY <1>1, <1>3, <1>8, <1>9, <1>l, <2>1, CidIsCut
  <2> QED BY <1>9, <2>2
<1>13. SubSeq(w, e + 1, Len(w)) = y
  BY <1>7, <1>9
<1>14. p.text = w
  BY DEF w
<1>15. ExtractCid(p) = [p EXCEPT !.cid = SubSeq(w, 2, e - 1), !.text = DropSpace(SubSeq(w, e + 1, Len(w)))]
  BY <1>9, <1>11, <1>14 DEF ExtractCid, e
<1> QED BY <1>2, <1>12, <1>13, <1>15

(***************************************************************************)
(* The invariant of reading a body: what is left begins at a line, and the *)
(* header up to there has been told.                                       *)
(***************************************************************************)
Fine ==
    /\ item.type # <<>>
    /\ NL \notin ToSet(item.sender \o item.path) /\ {NL, "]"} \cap ToSet(item.cid) = {}
Reported ==
    /\ parsed.type = item.type
    /\ parsed.sender = item.sender
    /\ parsed.path = item.path
    /\ parsed.hasText = item.hasText
    /\ item.hasText =>
          \/ parsed.text = Kept(item.text) /\ parsed.cid = item.cid
          \/ ~item.replyTo /\ item.text[1] = "[cid=" /\ "]" \in ToSet(item.text)
AtType == rest = TypeOn /\ parsed = Told(<<>>, <<>>, <<>>)
AtSender == rest = SenderOn /\ parsed = Told(item.type, <<>>, <<>>)
AtPath == item.path # <<>> /\ rest = PathOn /\ parsed = Told(item.type, item.sender, <<>>)
AtText == item.hasText /\ rest = TextOn /\ parsed = Told(item.type, item.sender, item.path)
RecvInv ==
    /\ Deliverable(item)
    /\ Fine => IF finished THEN Reported ELSE AtType \/ AtSender \/ AtPath \/ AtText

(* The fields of a fine delivery have none of the bytes that part a body. *)
LEMMA FineFields ==
    ASSUME Deliverable(item), Fine
    PROVE  /\ ~Has(item.type, NL) /\ ~Has(item.sender, NL) /\ ~Has(item.path, NL)
           /\ ~Has(item.cid, NL) /\ ~Has(item.cid, "]")
<1>1. /\ item.sender \in Seq(Bytes) /\ item.path \in Seq(Bytes) /\ item.cid \in Seq(Bytes)
      /\ ~Has(item.type, NL)
  BY Fields
<1>2. DOMAIN item.cid = 1 .. Len(item.cid)
  BY <1>1, LenProperties
<1>3. ~Has(item.cid, NL) /\ ~Has(item.cid, "]")
  BY <1>2 DEF Fine, ToSet, Has
<1> DEFINE a == item.sender
           b == item.path
           w == a \o b
<1>4. a \in Seq(Bytes) /\ b \in Seq(Bytes)
  BY <1>1
<1>w. NL \notin ToSet(w)
  BY DEF Fine
<1> HIDE DEF a, b
<1>5. /\ w \in Seq(Bytes) /\ Len(w) = Len(a) + Len(b)
      /\ \A i \in 1 .. Len(a) : w[i] = a[i]
      /\ \A i \in 1 .. Len(b) : w[Len(a) + i] = b[i]
  BY ONLY <1>4 DEF w
<1>l. Len(a) \in Nat /\ Len(b) \in Nat
  BY <1>4, LenProperties
<1> HIDE DEF w
<1>6. \A i \in 1 .. Len(w) : w[i] # NL
  <2>1. DOMAIN w = 1 .. Len(w)
    BY <1>5, LenProperties
  <2> QED BY <1>w, <2>1 DEF ToSet
<1>7. /\ \A i \in 1 .. Len(a) : i \in 1 .. Len(w)
      /\ \A i \in 1 .. Len(b) : Len(a) + i \in 1 .. Len(w)
  <2>1. Len(w) = Len(a) + Len(b)
    BY <1>5
  <2> QED BY ONLY <1>l, <2>1
<1>8. ~Has(a, NL) /\ ~Has(b, NL)
  BY <1>5, <1>6, <1>7 DEF Has
<1> QED BY <1>1, <1>3, <1>8 DEF a, b

(* What is kept of a text is a beginning of it. *)
LEMMA KeptPrefix ==
    ASSUME NEW x \in Seq(Bytes)
    PROVE  /\ Kept(x) \in Seq(Bytes)
           /\ \A i \in 1 .. Len(Kept(x)) : i \in 1 .. Len(x) /\ Kept(x)[i] = x[i]
<1>1. CASE ~Has(x, NL)
  BY <1>1, KeptNone
<1>2. CASE Has(x, NL)
  <2>n. NL \in Bytes
    BY SomeBytes
  <2>1. PICK l, r \in Seq(Bytes) : ~Has(l, NL) /\ x = l \o (<<NL>> \o r)
    <3>1. x \in Seq(Bytes) /\ NL \in Bytes /\ Has(x, NL)
      BY <1>2, <2>n
    <3> QED BY ONLY <3>1, CutAtFirst
  <2>2. Kept(x) = x \/ Kept(x) = l
    BY <2>1, KeptSome
  <2> DEFINE y == <<NL>> \o r
  <2>3. y \in Seq(Bytes) /\ l \in Seq(Bytes)
    BY <2>n, Headed
  <2>4. x = l \o y
    BY <2>1
  <2> HIDE DEF y
  <2>5. Len(l \o y) = Len(l) + Len(y) /\ \A i \in 1 .. Len(l) : (l \o y)[i] = l[i]
    BY ONLY <2>3
  <2>6. Len(l) \in Nat /\ Len(y) \in Nat
    BY <2>3, LenProperties
  <2>7. \A i \in 1 .. Len(l) : i \in 1 .. Len(l \o y)
    BY ONLY <2>5, <2>6
  <2>8. CASE Kept(x) = x
    BY <2>8
  <2>9. CASE Kept(x) = l
    BY <2>3, <2>4, <2>5, <2>7, <2>9
  <2> QED BY <2>2, <2>8, <2>9
<1> QED BY <1>1, <1>2

(* What is told of a text is the text, with the exceptions of BodiesComeBack. *)
LEMMA TextTold ==
    ASSUME Deliverable(item), Fine, item.hasText, NEW q,
           q = ExtractCid([Told(item.type, item.sender, item.path)
                              EXCEPT !.hasText = TRUE, !.text = Kept(Sent(item))])
    PROVE  /\ q.type = item.type /\ q.sender = item.sender /\ q.path = item.path /\ q.hasText = item.hasText
           /\ \/ q.text = Kept(item.text) /\ q.cid = item.cid
              \/ ~item.replyTo /\ item.text[1] = "[cid=" /\ "]" \in ToSet(item.text)
<1> DEFINE k == Kept(Sent(item))
           e == [Told(item.type, item.sender, item.path) EXCEPT !.hasText = TRUE, !.text = k]
<1>1. /\ item.text \in Seq(Bytes) /\ item.hasText = TRUE /\ item.replyTo \in BOOLEAN
      /\ ~item.replyTo => item.cid = <<>>
  BY Fields
<1>2. /\ e.type = item.type /\ e.sender = item.sender /\ e.path = item.path
      /\ e.hasText = TRUE /\ e.text = k /\ e.cid = <<>>
      /\ \A c, x : LET u == [e EXCEPT !.cid = c, !.text = x]
                   IN  /\ u.type = item.type /\ u.sender = item.sender /\ u.path = item.path
                       /\ u.hasText = TRUE /\ u.text = x /\ u.cid = c
  BY DEF Told
<1>3. q = ExtractCid(e)
  OBVIOUS
<1> HIDE DEF e
<1>4. CASE item.replyTo
  <2>1. k = Token(Kept(item.text)) /\ Kept(item.text) \in Seq(Bytes)
    BY <1>1, <1>4, FineFields, SentIsToken, KeptBehindToken
  <2> HIDE DEF k
  <2>2. ExtractCid(e) = [e EXCEPT !.cid = item.cid, !.text = Kept(item.text)]
    BY <1>2, <2>1, FineFields, TokenRead
  <2> DEFINE c == item.cid
             x == Kept(item.text)
  <2>3. q = [e EXCEPT !.cid = c, !.text = x]
    BY <1>3, <2>2
  <2>4. c = item.cid /\ x = Kept(item.text)
    OBVIOUS
  <2> HIDE DEF c, x
  <2>5. /\ q.type = item.type /\ q.sender = item.sender /\ q.path = item.path
        /\ q.hasText = TRUE /\ q.text = x /\ q.cid = c
    BY ONLY <1>2, <2>3
  <2> QED BY <1>1, <2>4, <2>5
<1>5. CASE ~item.replyTo
  <2>1. k = Kept(item.text)
    BY <1>5 DEF Sent
  <2> HIDE DEF k
  <2> DEFINE end == SelectInSeq(k, IsClose)
             C == k # <<>> /\ k[1] = "[cid=" /\ end > 0
  <2>2. CASE ~C
    <3>1. ExtractCid(e) = e
      BY <1>2, <2>2 DEF ExtractCid
    <3> QED BY <1>1, <1>2, <1>3, <1>5, <2>1, <3>1
  <2>3. CASE C
    <3>1. ExtractCid(e) = [e EXCEPT !.cid = SubSeq(k, 2, end - 1),
                                    !.text = DropSpace(SubSeq(k, end + 1, Len(k)))]
      BY <1>2, <2>3 DEF ExtractCid
    <3>2. Has(k, "]")
      <4>1. SelectInSeq(k, IsClose) # 0
        BY <2>3
      <4> QED BY <4>1, FirstOfEach, FirstMissing
    <3>3. /\ k \in Seq(Bytes)
          /\ \A i \in 1 .. Len(k) : i \in 1 .. Len(item.text) /\ k[i] = item.text[i]
      BY <1>1, <2>1, KeptPrefix
    <3>4. 1 \in 1 .. Len(k)
      <4>1. Len(k) \in Nat /\ Len(k) # 0
        BY <2>3, <3>3, LenProperties, EmptySeq
      <4> QED BY ONLY <4>1
    <3>5. item.text[1] = "[cid="
      BY <2>3, <3>3, <3>4
    <3>6. "]" \in ToSet(item.text)
      <4>1. DOMAIN item.text = 1 .. Len(item.text)
        BY <1>1, LenProperties
      <4> QED BY <3>2, <3>3, <4>1 DEF Has, ToSet
    <3> DEFINE c == SubSeq(k, 2, end - 1)
               x == DropSpace(SubSeq(k, end + 1, Len(k)))
    <3>7. q = [e EXCEPT !.cid = c, !.text = x]
      BY <1>3, <3>1
    <3> HIDE DEF c, x
    <3>8. /\ q.type = item.type /\ q.sender = item.sender /\ q.path = item.path /\ q.hasText = TRUE
      BY ONLY <1>2, <3>7
    <3> QED BY <1>1, <1>5, <3>5, <3>6, <3>8
  <2> QED BY <2>2, <2>3
<1> QED BY <1>4, <1>5

(* Before the first turn the whole body is left and nothing is told. *)
LEMMA RecvStart == EncInit => RecvInv
<1> SUFFICES ASSUME EncInit PROVE RecvInv
  OBVIOUS
<1>1. PICK w \in Works : RecvInit(w.item)
  BY DEF EncInit
<1>2. Deliverable(item)
  BY <1>1, WorksAssumption DEF RecvInit
<1>3. ASSUME Fine PROVE ~finished /\ AtType
  BY <1>1, <1>2, <1>3, Written DEF RecvInit, Fine, AtType, Told
<1> QED BY <1>2, <1>3 DEF RecvInv

(* A header line that is read brings the next one, or the end. *)
LEMMA RecvStep ==
    ASSUME RecvInv, ParseLine
    PROVE  RecvInv'
<1>1. Deliverable(item) /\ item' = item /\ ~finished
  BY DEF RecvInv, ParseLine
<1>2. Deliverable(item')
  BY <1>1
<1> SUFFICES ASSUME Fine
             PROVE  IF finished' THEN Reported' ELSE (AtType \/ AtSender \/ AtPath \/ AtText)'
  BY <1>1, <1>2 DEF RecvInv, Fine
<1>3. /\ item.type \in Seq(Bytes) /\ item.sender \in Seq(Bytes) /\ item.path \in Seq(Bytes)
      /\ item.hasText \in BOOLEAN
      /\ ~Has(item.type, NL) /\ ~Has(item.sender, NL) /\ ~Has(item.path, NL)
  BY <1>1, Fields, FineFields
<1>4. /\ TextOn \in Seq(Bytes) /\ (TextOn = <<>> <=> ~item.hasText)
      /\ PathOn \in Seq(Bytes) /\ (PathOn = <<>> <=> item.path = <<>> /\ ~item.hasText)
      /\ SenderOn \in Seq(Bytes) /\ SenderOn # <<>>
  BY <1>1, OnTyped
<1>5. /\ TextOn' = TextOn /\ PathOn' = PathOn /\ SenderOn' = SenderOn
  BY <1>1 DEF TextOn, PathOn, SenderOn
<1>6. CASE AtType
  <2>1. rest = Join(Line("type", item.type), SenderOn)
    BY <1>6 DEF AtType, TypeOn
  <2>2. rest' = SenderOn /\ finished' = (SenderOn = <<>>) /\ parsed' = Told(item.type, <<>>, <<>>)
    BY <1>3, <1>4, <1>6, <2>1, HeaderLine DEF AtType
  <2> QED BY <1>1, <1>4, <1>5, <2>2 DEF AtSender
<1>7. CASE AtSender
  <2>1. rest = Join(Line("sender", item.sender), PathOn)
    BY <1>7 DEF AtSender, SenderOn
  <2>2. rest' = PathOn /\ finished' = (PathOn = <<>>)
        /\ parsed' = Told(item.type, item.sender, <<>>)
    BY <1>3, <1>4, <1>7, <2>1, HeaderLine DEF AtSender
  <2>3. CASE item.path # <<>>
    BY <1>1, <1>4, <1>5, <2>2, <2>3 DEF AtPath
  <2>4. CASE item.path = <<>> /\ item.hasText
    <3>1. PathOn = TextOn
      BY <2>4 DEF PathOn
    <3> QED BY <1>1, <1>4, <1>5, <2>2, <2>4, <3>1 DEF AtText
  <2>5. CASE item.path = <<>> /\ ~item.hasText
    BY <1>1, <1>3, <1>4, <2>2, <2>5 DEF Reported, Told
  <2> QED BY <1>3, <2>3, <2>4, <2>5
<1>8. CASE AtPath
  <2>1. rest = Join(Line("path", item.path), TextOn)
    BY <1>8 DEF AtPath, PathOn
  <2>2. rest' = TextOn /\ finished' = (TextOn = <<>>)
        /\ parsed' = Told(item.type, item.sender, item.path)
    BY <1>3, <1>4, <1>8, <2>1, HeaderLine DEF AtPath
  <2>3. CASE item.hasText
    BY <1>1, <1>4, <1>5, <2>2, <2>3 DEF AtText
  <2>4. CASE ~item.hasText
    BY <1>1, <1>3, <1>4, <2>2, <2>4 DEF Reported, Told
  <2> QED BY <1>3, <2>3, <2>4
<1>9. CASE AtText
  <2>1. rest = Line("text", Sent(item)) /\ parsed = Told(item.type, item.sender, item.path)
        /\ item.hasText
    BY <1>9 DEF AtText, TextOn
  <2>2. Sent(item) \in Seq(Bytes)
    BY <1>1, SentTyped
  <2>3. finished' = TRUE
        /\ parsed' = ExtractCid([Told(item.type, item.sender, item.path)
                                    EXCEPT !.hasText = TRUE, !.text = Kept(Sent(item))])
    BY <2>1, <2>2, TextLine
  <2>4. /\ parsed'.type = item.type /\ parsed'.sender = item.sender /\ parsed'.path = item.path
        /\ parsed'.hasText = item.hasText
        /\ \/ parsed'.text = Kept(item.text) /\ parsed'.cid = item.cid
           \/ ~item.replyTo /\ item.text[1] = "[cid=" /\ "]" \in ToSet(item.text)
    BY <1>1, <2>1, <2>3, TextTold
  <2> QED BY <1>1, <2>3, <2>4 DEF Reported
<1> QED BY <1>1, <1>6, <1>7, <1>8, <1>9 DEF RecvInv

(* When nothing is left all four lines are told. *)
LEMMA RecvFollows == RecvInv => BodiesComeBack
BY DEF RecvInv, BodiesComeBack, Fine, Reported

(* A body that is told is what was delivered (recvBodyString, parseRecvBody). *)
THEOREM BodiesAlwaysComeBack == EncSpec => []BodiesComeBack
<1>1. ASSUME RecvInv, [EncNext]_encVars PROVE RecvInv'
  <2>1. CASE ParseLine
    BY <1>1, <2>1, RecvStep
  <2>2. CASE UNCHANGED recvVars
    BY <1>1, <2>2 DEF RecvInv, Fine, Reported, AtType, AtSender, AtPath, AtText,
                      TypeOn, SenderOn, PathOn, TextOn, recvVars
  <2> QED BY <1>1, <2>1, <2>2 DEF EncNext, encVars
<1> QED BY <1>1, RecvStart, RecvFollows, PTL DEF EncSpec

------------------------------------------------------------------------------
(* The inductive invariant: the reader is at a mark, with the containers open that the
   value has open there, and what it gave and has still to give of a string is what the
   string stands for up to there. *)
Symbolic == Symbols \X Nat
InParts == value.how \in {"string", "nullable", "skip"} /\ Marked(value) /\ Parted(value)
Stands(k) == pos = value.marks[k].from /\ closers = value.marks[k].stack
Gave(k) ==
    value.how # "skip" => closers = <<>> /\ out \o pending = SubSeq(value.means, 1, value.marks[k].got)
InQuotes ==
    /\ InParts /\ (room > 0 => pending = <<>>)
    /\ \E k \in DOMAIN value.marks : k > 1 /\ value.marks[k].inside /\ Stands(k) /\ Gave(k)
InBrackets ==
    /\ InParts /\ value.how = "skip" /\ closers # <<>> /\ room = 0
    /\ \E k \in DOMAIN value.marks : k > 1 /\ ~value.marks[k].inside /\ Stands(k)
JsonInv ==
    /\ Readable(value)
    /\ room \in Nat /\ out \in Seq(Symbolic) /\ pending \in Seq(Symbolic)
    /\ \/ at = "start" /\ value.how # "none" /\ pos = 1 /\ closers = <<>> /\ out = <<>> /\ pending = <<>> /\ room = 0
       \/ at = "string" /\ InQuotes
       \/ at = "container" /\ InBrackets
       \/ at = "done" /\ ValuesAreConsumedWhole

(* The bytes of the reader are the symbols of the value. *)
LEMMA ByteIsAt ==
    ASSUME value.text \in Seq(Symbols), NEW i \in Nat, i > 0
    PROVE  Byte(i) = At(value, i)
<1>1. DOMAIN value.text = 1 .. Len(value.text) /\ Len(value.text) \in Nat
  BY LenProperties
<1> QED BY <1>1 DEF Byte, At

(* Past skips a run. *)
LEMMA PastRun ==
    ASSUME value.text \in Seq(Symbols), NEW i \in Nat, i > 0, NEW S, NEW j, Run(value, i, j, S)
    PROVE  Past(i, S) = j
<1> DEFINE P(m) == Byte(m) \notin S /\ \A k \in i .. (m - 1) : Byte(k) \in S
           R == i .. (Len(value.text) + 1)
<1>1. j \in R /\ P(j)
  <2>1. j \in R /\ At(value, j) \notin S /\ \A k \in i .. (j - 1) : At(value, k) \in S
    BY DEF Run
  <2>2. j \in Nat /\ j > 0 /\ \A k \in i .. (j - 1) : k \in Nat /\ k > 0
    BY <2>1
  <2> QED BY <2>1, <2>2, ByteIsAt
<1>2. ASSUME NEW m \in R, P(m) PROVE m = j
  <2> HIDE DEF R
  <2>1. m \in Int /\ j \in Int /\ i <= m /\ i <= j
    BY <1>1 DEF R
  <2>2. ~(m < j)
    <3>1. m < j => m \in i .. (j - 1)
      BY <2>1
    <3> QED BY <1>1, <1>2, <3>1
  <2>3. ~(j < m)
    <3>1. j < m => j \in i .. (m - 1)
      BY <2>1
    <3> QED BY <1>1, <1>2, <3>1
  <2> QED BY <2>1, <2>2, <2>3
<1>3. Past(i, S) = CHOOSE m \in R : P(m)
  BY DEF Past
<1> HIDE DEF P, R
<1> QED BY <1>1, <1>2, <1>3

(* A sequence cut in two, and joined again. *)
LEMMA CutInTwo ==
    ASSUME NEW S, NEW s \in Seq(S), NEW n \in Nat, n <= Len(s)
    PROVE  LET f == SubSeq(s, 1, n)
               g == SubSeq(s, n + 1, Len(s))
           IN  f \in Seq(S) /\ g \in Seq(S) /\ f \o g = s
<1> DEFINE f == SubSeq(s, 1, n)
           g == SubSeq(s, n + 1, Len(s))
<1>1. /\ f \in Seq(S) /\ Len(f) = n /\ \A i \in 1 .. n : f[i] = s[i]
      /\ g \in Seq(S) /\ Len(g) = Len(s) - n /\ \A i \in 1 .. (Len(s) - n) : g[i] = s[n + i]
      /\ Len(s) \in Nat
  BY RemovedFront
<1> HIDE DEF f, g
<1> DEFINE w == f \o g
<1>2. /\ w \in Seq(S) /\ Len(w) = Len(f) + Len(g)
      /\ \A i \in 1 .. Len(f) : w[i] = f[i]
      /\ \A i \in 1 .. Len(g) : w[Len(f) + i] = g[i]
  BY <1>1, JoinedParts
<1> HIDE DEF w
<1>3. Len(w) = Len(s)
  BY <1>1, <1>2
<1>4. ASSUME NEW i \in 1 .. Len(w) PROVE w[i] = s[i]
  <2>1. CASE i <= n
    BY <1>1, <1>2, <2>1
  <2>2. CASE n < i
    <3>1. i - n \in 1 .. Len(g) /\ n + (i - n) = i
      BY <1>1, <1>3, <2>2
    <3>2. w[n + (i - n)] = g[i - n] /\ g[i - n] = s[n + (i - n)]
      BY <1>1, <1>2, <3>1
    <3> QED BY <3>1, <3>2
  <2> QED BY <1>1, <2>1, <2>2
<1>5. w = s
  BY <1>2, <1>3, <1>4, SeqEqual
<1> QED BY <1>1, <1>5 DEF w, f, g

(* What is given to the caller or kept for the next Read follows what was given before. *)
LEMMA GiveKeeps ==
    ASSUME NEW B, NEW bytes \in Seq(B), out \in Seq(B), NEW r \in Nat, Give(bytes, r)
    PROVE  /\ out' \in Seq(B) /\ pending' \in Seq(B) /\ room' \in Nat
           /\ out' \o pending' = out \o bytes
           /\ room' > 0 => pending' = <<>>
<1> DEFINE n == LeastOf(r, Len(bytes))
           f == SubSeq(bytes, 1, n)
           g == SubSeq(bytes, n + 1, Len(bytes))
<1>1. n \in Nat /\ n <= Len(bytes) /\ n <= r /\ (r - n > 0 => n = Len(bytes)) /\ Len(bytes) \in Nat
  BY LenProperties DEF LeastOf
<1>2. out' = out \o f /\ pending' = g /\ room' = r - n
  BY DEF Give, Left, Rest
<1> HIDE DEF n
<1>3. f \in Seq(B) /\ g \in Seq(B) /\ f \o g = bytes
  BY <1>1, CutInTwo
<1>4. n = Len(bytes) => g = <<>>
  BY <1>1
<1> HIDE DEF f, g
<1>5. out \in Seq(B) /\ f \in Seq(B) /\ g \in Seq(B)
  BY <1>3
<1>6. out \o f \in Seq(B) /\ (out \o f) \o g = out \o (f \o g)
  BY ONLY <1>5
<1> QED BY <1>1, <1>2, <1>3, <1>4, <1>6

(* The bytes of a code point. *)
LEMMA RuneTyped ==
    ASSUME NEW x \in Symbols, NEW n \in Nat
    PROVE  Rune(x, n) \in Seq(Symbolic) /\ Len(Rune(x, n)) = n
<1>1. Symbols \X Nat = Symbolic
  BY DEF Symbolic
<1>2. ASSUME NEW S, NEW y \in S
      PROVE  [k \in 1 .. n |-> <<y, k>>] \in Seq(S \X Nat) /\ Len([k \in 1 .. n |-> <<y, k>>]) = n
  OBVIOUS
<1>3. [k \in 1 .. n |-> <<x, k>>] \in Seq(Symbols \X Nat) /\ Len([k \in 1 .. n |-> <<x, k>>]) = n
  BY <1>2
<1> QED BY <1>1, <1>3, Zenon DEF Rune

(* The places of an escape. *)
LEMMA EscapePlaces ==
    ASSUME NEW e, NEW i \in Nat, EscapeAt(value, i, e)
    PROVE  \A n \in Nat : DOMAIN e.text = 1 .. n =>
              \A m \in 0 .. (n - 1) : At(value, i + m) = e.text[m + 1]
<1> TAKE n \in Nat
<1> HAVE DOMAIN e.text = 1 .. n
<1> TAKE m \in 0 .. (n - 1)
<1>1. m + 1 \in DOMAIN e.text /\ i + (m + 1) - 1 = i + m
  OBVIOUS
<1> QED BY <1>1 DEF EscapeAt

(* The table of escapes is the one that the reader goes by. *)
LEMMA EscapeRead ==
    ASSUME value.text \in Seq(Symbols), NEW i \in Nat, i > 0,
           NEW e \in EscapesOfJson, EscapeAt(value, i, e)
    PROVE  /\ At(value, i) = "\\" /\ ReadEscape(i + 1) = Yields(e.means, Len(e.text) - 1)
           /\ e.means \in Seq(Symbolic) /\ Len(e.text) \in Nat /\ Len(e.text) > 1
<1>1. /\ Byte(i + 1) = At(value, i + 1) /\ Byte(i + 2) = At(value, i + 2)
      /\ Byte(i + 3) = At(value, i + 3) /\ Byte(i + 4) = At(value, i + 4)
      /\ Byte(i + 5) = At(value, i + 5)
  BY ByteIsAt
<1>2. /\ i + 1 + 1 = i + 2 /\ i + 2 + 0 = i + 2 /\ i + 2 + 1 = i + 3 /\ i + 2 + 2 = i + 4
      /\ i + 2 + 3 = i + 5
  OBVIOUS
<1>s. {Quote, "\\", "n", "u", "h1", "h2", "h3", "pair"} \subseteq Symbols
  BY JsonAssumption
<1>q. Quote \notin {"\\", "n", "u"}
  BY Zenon DEF Quote
<1>3. ASSUME NEW x \in {Quote, "\\", "n"}, e = Escape(<<"\\", x>>, x, 1)
      PROVE  /\ At(value, i) = "\\" /\ ReadEscape(i + 1) = Yields(e.means, Len(e.text) - 1)
             /\ e.means \in Seq(Symbolic) /\ Len(e.text) \in Nat /\ Len(e.text) > 1
  <2>1. e.text = <<"\\", x>> /\ e.means = Rune(x, 1)
    BY <1>3 DEF Escape, Rune
  <2>2. Len(e.text) = 2 /\ At(value, i) = "\\" /\ At(value, i + 1) = x
    <3>1. Len(e.text) = 2 /\ DOMAIN e.text = 1 .. 2
      BY <2>1
    <3>2. \A m \in 0 .. 1 : At(value, i + m) = e.text[m + 1]
      BY <3>1, EscapePlaces, 2 - 1 = 1
    <3>3. At(value, i) = e.text[1] /\ At(value, i + 1) = e.text[2]
      BY ONLY <3>2, i \in Nat
    <3> QED BY <2>1, <3>1, <3>3
  <2>3. ReadEscape(i + 1) = Yields(Rune(x, 1), 1)
    BY <1>1, <1>q, <2>2 DEF ReadEscape
  <2>4. Rune(x, 1) \in Seq(Symbolic)
    BY <1>s, RuneTyped
  <2> QED BY <2>1, <2>2, <2>3, <2>4
<1>4. ASSUME NEW h \in {"h1", "h2", "h3"}, NEW n \in {1, 2, 3},
             h = "h1" <=> n = 1, h = "h2" <=> n = 2, e = Escape(<<"\\", "u", h>>, h, n)
      PROVE  /\ At(value, i) = "\\" /\ ReadEscape(i + 1) = Yields(e.means, Len(e.text) - 1)
             /\ e.means \in Seq(Symbolic) /\ Len(e.text) \in Nat /\ Len(e.text) > 1
  <2>1. e.text = <<"\\", "u", h>> /\ e.means = Rune(h, n)
    BY <1>4 DEF Escape, Rune
  <2>2. Len(e.text) = 3 /\ At(value, i) = "\\" /\ At(value, i + 1) = "u" /\ At(value, i + 2) = h
    <3>1. Len(e.text) = 3 /\ DOMAIN e.text = 1 .. 3
      BY <2>1
    <3>2. \A m \in 0 .. 2 : At(value, i + m) = e.text[m + 1]
      BY <3>1, EscapePlaces, 3 - 1 = 2
    <3>3. At(value, i) = e.text[1] /\ At(value, i + 1) = e.text[2] /\ At(value, i + 2) = e.text[3]
      BY ONLY <3>2, i \in Nat
    <3> QED BY <2>1, <3>1, <3>3
  <2>3. UnicodeEscape(i + 2) = Yields(Rune(h, n), 1)
    BY <1>1, <1>4, <2>2 DEF UnicodeEscape
  <2>4. ReadEscape(i + 1) = Yields(Rune(h, n), 2)
    <3>1. UnicodeEscape(i + 1 + 1).len = 1 /\ UnicodeEscape(i + 1 + 1).bytes = Rune(h, n)
      BY <1>2, <2>3 DEF Yields
    <3>2. Byte(i + 1) = "u"
      BY <1>1, <2>2
    <3> QED BY <3>1, <3>2 DEF ReadEscape
  <2>5. Rune(h, n) \in Seq(Symbolic)
    BY <1>s, RuneTyped
  <2> QED BY <2>1, <2>2, <2>4, <2>5
<1>5. ASSUME e = Escape(<<"\\", "u", "hi", "\\", "u", "lo">>, "pair", 4)
      PROVE  /\ At(value, i) = "\\" /\ ReadEscape(i + 1) = Yields(e.means, Len(e.text) - 1)
             /\ e.means \in Seq(Symbolic) /\ Len(e.text) \in Nat /\ Len(e.text) > 1
  <2>1. e.text = <<"\\", "u", "hi", "\\", "u", "lo">> /\ e.means = Rune("pair", 4)
    BY <1>5 DEF Escape, Rune
  <2>2. /\ Len(e.text) = 6 /\ At(value, i) = "\\" /\ At(value, i + 1) = "u" /\ At(value, i + 2) = "hi"
        /\ At(value, i + 3) = "\\" /\ At(value, i + 4) = "u" /\ At(value, i + 5) = "lo"
    <3>1. Len(e.text) = 6 /\ DOMAIN e.text = 1 .. 6
      BY <2>1
    <3>2. \A m \in 0 .. 5 : At(value, i + m) = e.text[m + 1]
      BY <3>1, EscapePlaces, 6 - 1 = 5
    <3>3. /\ At(value, i) = e.text[1] /\ At(value, i + 1) = e.text[2] /\ At(value, i + 2) = e.text[3]
          /\ At(value, i + 3) = e.text[4] /\ At(value, i + 4) = e.text[5] /\ At(value, i + 5) = e.text[6]
      BY ONLY <3>2, i \in Nat
    <3> QED BY <2>1, <3>1, <3>3
  <2>3. \A k \in 0 .. 3 : Byte(i + 2 + k) = <<"hi", "\\", "u", "lo">>[k + 1]
    BY <1>1, <1>2, <2>2
  <2>4. UnicodeEscape(i + 2) = Yields(Rune("pair", 4), 4)
    BY <1>1, <2>2, <2>3 DEF UnicodeEscape
  <2>5. ReadEscape(i + 1) = Yields(Rune("pair", 4), 5)
    <3>1. UnicodeEscape(i + 1 + 1).len = 4 /\ UnicodeEscape(i + 1 + 1).bytes = Rune("pair", 4)
      BY <1>2, <2>4 DEF Yields
    <3>2. Byte(i + 1) = "u"
      BY <1>1, <2>2
    <3> QED BY <3>1, <3>2 DEF ReadEscape
  <2>6. Rune("pair", 4) \in Seq(Symbolic)
    BY <1>s, RuneTyped
  <2> QED BY <2>1, <2>2, <2>5, <2>6
<1> QED BY <1>3, <1>4, <1>5 DEF EscapesOfJson

(* What the reader takes for an escape is one. *)
LEMMA EscapeFound ==
    ASSUME value.text \in Seq(Symbols), NEW i \in Nat, i > 0,
           At(value, i) = "\\", ReadEscape(i + 1).len > 0
    PROVE  \E e \in EscapesOfJson : EscapeAt(value, i, e)
<1>1. /\ Byte(i + 1) = At(value, i + 1) /\ Byte(i + 2) = At(value, i + 2)
      /\ Byte(i + 3) = At(value, i + 3) /\ Byte(i + 4) = At(value, i + 4)
      /\ Byte(i + 5) = At(value, i + 5)
  BY ByteIsAt
<1>2. /\ i + 1 + 1 = i + 2 /\ i + 2 + 0 = i + 2 /\ i + 2 + 1 = i + 3 /\ i + 2 + 2 = i + 4
      /\ i + 2 + 3 = i + 5
  OBVIOUS
<1>s. {Quote, "\\", "n", "u", "h1", "h2", "h3", "pair"} \subseteq Symbols
  BY JsonAssumption
<1>q. Quote \notin {"\\", "n", "u"}
  BY Zenon DEF Quote
<1>3. \/ Byte(i + 1) \in {Quote, "\\", "n"}
      \/ Byte(i + 1) = "u" /\ UnicodeEscape(i + 2).len > 0
  <2>1. Bad.len = 0
    BY DEF Bad, Yields
  <2>2. CASE Byte(i + 1) = "u"
    BY <1>2, <2>1, <2>2 DEF ReadEscape
  <2>3. CASE Byte(i + 1) # "u"
    BY <2>1, <2>3 DEF ReadEscape
  <2> QED BY <2>2, <2>3
<1>4. ASSUME NEW x \in {Quote, "\\", "n"}, Byte(i + 1) = x
      PROVE  \E e \in EscapesOfJson : EscapeAt(value, i, e)
  <2>1. Escape(<<"\\", x>>, x, 1) \in EscapesOfJson
    BY DEF EscapesOfJson
  <2>2. EscapeAt(value, i, Escape(<<"\\", x>>, x, 1))
    <3>1. i + 1 - 1 = i /\ i + 2 - 1 = i + 1
      OBVIOUS
    <3>2. \A k \in 1 .. 2 : At(value, i + k - 1) = <<"\\", x>>[k]
      BY <1>1, <1>4, <3>1
    <3> QED BY <3>2 DEF EscapeAt, Escape
  <2> QED BY <2>1, <2>2
<1>5. ASSUME Byte(i + 1) = "u", UnicodeEscape(i + 2).len > 0
      PROVE  \E e \in EscapesOfJson : EscapeAt(value, i, e)
  <2>1. \/ Byte(i + 2) \in {"h1", "h2", "h3"}
        \/ \A k \in 0 .. 3 : Byte(i + 2 + k) = <<"hi", "\\", "u", "lo">>[k + 1]
    BY <1>5 DEF UnicodeEscape, Bad, Yields
  <2>2. ASSUME NEW h \in {"h1", "h2", "h3"}, Byte(i + 2) = h
        PROVE  \E e \in EscapesOfJson : EscapeAt(value, i, e)
    <3>1. PICK n \in {1, 2, 3} : Escape(<<"\\", "u", h>>, h, n) \in EscapesOfJson
      BY DEF EscapesOfJson
    <3>2. EscapeAt(value, i, Escape(<<"\\", "u", h>>, h, n))
      BY <1>1, <1>5, <2>2 DEF EscapeAt, Escape
    <3> QED BY <3>1, <3>2
  <2>3. ASSUME \A k \in 0 .. 3 : Byte(i + 2 + k) = <<"hi", "\\", "u", "lo">>[k + 1]
        PROVE  \E e \in EscapesOfJson : EscapeAt(value, i, e)
    <3> DEFINE e == Escape(<<"\\", "u", "hi", "\\", "u", "lo">>, "pair", 4)
    <3>1. /\ Byte(i + 2) = "hi" /\ Byte(i + 3) = "\\" /\ Byte(i + 4) = "u" /\ Byte(i + 5) = "lo"
      BY <1>2, <2>3
    <3>2. EscapeAt(value, i, e)
      BY <1>1, <1>5, <3>1 DEF EscapeAt, Escape
    <3>3. e \in EscapesOfJson
      BY DEF EscapesOfJson
    <3> QED BY <3>2, <3>3
  <2> QED BY <2>1, <2>2, <2>3
<1> QED BY <1>3, <1>4, <1>5

-------------------------------------------------------------------------------
(* Marks. *)

(* A mark is a place in the text, and of what the string stands for. *)
LEMMA MarkTyped ==
    ASSUME Marked(value), NEW k \in DOMAIN value.marks
    PROVE  LET a == value.marks[k]
           IN  /\ a.from \in Nat /\ a.from > 0 /\ a.at \in Nat /\ a.at > 0
               /\ a.inside \in BOOLEAN /\ a.stack \in Seq({"]", "}"})
               /\ a.got \in 0 .. Len(value.means)
               /\ ~a.inside => Run(value, a.from, a.at, {" "})
<1>1. value.marks \in Seq(MarksIn(value)) /\ value.text \in Seq(Symbols)
  BY DEF Marked
<1>2. value.marks[k] \in MarksIn(value)
  BY <1>1, ElementOfSeq, LenProperties
<1>3. Len(value.text) \in Nat
  BY <1>1, LenProperties
<1>4. ~value.marks[k].inside => Run(value, value.marks[k].from, value.marks[k].at, {" "})
  BY DEF Marked
<1>5. 1 .. (Len(value.text) + 1) \subseteq {n \in Nat : n > 0}
  BY <1>3
<1>6. /\ value.marks[k].from \in Places(value) /\ value.marks[k].at \in Places(value)
      /\ value.marks[k].inside \in BOOLEAN /\ value.marks[k].stack \in Seq({"]", "}"})
      /\ value.marks[k].got \in 0 .. Len(value.means)
  BY <1>2, Zenon DEF MarksIn
<1> QED BY <1>4, <1>5, <1>6 DEF Places

(* The parts of a value that brings its marks. *)
LEMMA ValueTyped ==
    ASSUME Marked(value)
    PROVE  /\ value.text \in Seq(Symbols) /\ value.means \in Seq(Symbolic)
           /\ Len(value.marks) \in Nat /\ Len(value.marks) >= 1
           /\ DOMAIN value.marks = 1 .. Len(value.marks)
<1>1. /\ value.text \in Seq(Symbols) /\ value.means \in Seq(Symbols \X Nat)
      /\ value.marks \in Seq(MarksIn(value)) /\ value.marks # <<>>
  BY DEF Marked
<1>2. /\ Len(value.marks) \in Nat /\ DOMAIN value.marks = 1 .. Len(value.marks)
      /\ Len(value.marks) # 0
  BY <1>1, LenProperties, EmptySeq
<1>3. value.means \in Seq(Symbolic)
  BY <1>1, Zenon DEF Symbolic
<1> QED BY <1>1, <1>2, <1>3

(* What comes behind a mark at which the value has not ended. *)
LEMMA NextMark ==
    ASSUME InParts, NEW k \in DOMAIN value.marks, k = 1 \/ Open(value.marks[k])
    PROVE  \/ /\ k + 1 \in DOMAIN value.marks /\ k + 1 > 1 /\ Len(value.marks) > 1
              /\ IF value.marks[k].inside THEN InString(value, value.marks[k], value.marks[k + 1])
                 ELSE Outside(value, value.marks[k], value.marks[k + 1])
              /\ ~Open(value.marks[k + 1]) =>
                    value.kind = "good" /\ Complete(value, value.marks[k + 1])
           \/ value.kind \in {"cut", "bad"} /\ Stops(value, value.marks[k])
<1> DEFINE n == Len(value.marks)
<1>1. n \in Nat /\ n >= 1 /\ DOMAIN value.marks = 1 .. n
  BY ValueTyped DEF InParts
<1>2. /\ \A j \in 2 .. (n - 1) : Open(value.marks[j])
      /\ \A j \in 1 .. (n - 1) : IF value.marks[j].inside
                                 THEN InString(value, value.marks[j], value.marks[j + 1])
                                 ELSE Outside(value, value.marks[j], value.marks[j + 1])
      /\ \/ value.kind = "good" /\ n > 1 /\ ~Open(value.marks[n]) /\ Complete(value, value.marks[n])
         \/ value.kind \in {"cut", "bad"} /\ (n > 1 => Open(value.marks[n])) /\ Stops(value, value.marks[n])
  BY DEF InParts, Parted
<1> HIDE DEF n
<1>3. CASE k = n
  BY <1>1, <1>2, <1>3
<1>4. CASE k < n
  <2>1. k + 1 \in 1 .. n /\ k \in 1 .. (n - 1) /\ n > 1 /\ k + 1 > 1
    BY <1>1, <1>4
  <2>2. ASSUME ~Open(value.marks[k + 1])
        PROVE  value.kind = "good" /\ Complete(value, value.marks[k + 1])
    <3>1. k + 1 = n
      <4>1. ~(k + 1 \in 2 .. (n - 1))
        BY <1>2, <2>2
      <4> QED BY <1>1, <2>1, <4>1
    <3> QED BY <1>2, <2>1, <2>2, <3>1
  <2> QED BY <1>1, <1>2, <2>1, <2>2 DEF n
<1> QED BY <1>1, <1>3, <1>4

(* Something of a string, given or to be given, is a beginning of it. *)
LEMMA GivenIsPrefix ==
    ASSUME NEW S, NEW o \in Seq(S), NEW p \in Seq(S), NEW m \in Seq(S), NEW g \in 0 .. Len(m),
           o \o p = SubSeq(m, 1, g)
    PROVE  IsPrefix(o, m)
<1> DEFINE w == o \o p
           f == SubSeq(m, 1, g)
<1>1. /\ w \in Seq(S) /\ Len(w) = Len(o) + Len(p) /\ \A i \in 1 .. Len(o) : w[i] = o[i]
      /\ Len(o) \in Nat /\ Len(p) \in Nat /\ Len(m) \in Nat
  BY JoinedParts
<1>2. Len(f) = g /\ \A i \in 1 .. g : f[i] = m[i]
  BY RemovedFront, g \in Nat, g <= Len(m)
<1>3. w = f
  OBVIOUS
<1> HIDE DEF w, f
<1>4. Len(o) <= Len(m) /\ \A i \in 1 .. Len(o) : o[i] = m[i]
  BY <1>1, <1>2, <1>3
<1> DEFINE q == SubSeq(m, 1, Len(o))
<1>5. q \in Seq(S) /\ Len(q) = Len(o) /\ \A i \in 1 .. Len(o) : q[i] = m[i]
  BY <1>1, <1>4, RemovedFront
<1>6. SubSeq(o, 1, Len(o)) \in Seq(S) /\ Len(SubSeq(o, 1, Len(o))) = Len(o)
      /\ \A i \in 1 .. Len(o) : SubSeq(o, 1, Len(o))[i] = o[i]
  BY <1>1, RemovedFront
<1> HIDE DEF q
<1>7. SubSeq(o, 1, Len(o)) = q
  <2> DEFINE z == SubSeq(o, 1, Len(o))
  <2>1. z \in Seq(S) /\ Len(z) = Len(q) /\ \A i \in 1 .. Len(q) : z[i] = q[i]
    BY <1>4, <1>5, <1>6
  <2> HIDE DEF z
  <2>2. z = q
    BY <1>5, <2>1, SeqEqual
  <2> QED BY <2>2 DEF z
<1> QED BY <1>4, <1>7 DEF IsPrefix, q

(* The next state, at a mark in a string, at one in a container, or at the end. *)
LEMMA InQuotesNext ==
    ASSUME JsonInv, InParts, value' = value, NEW k \in DOMAIN value.marks, k > 1, value.marks[k].inside,
           at' = "string", pos' = value.marks[k].from, closers' = value.marks[k].stack,
           room' \in Nat, out' \in Seq(Symbolic), pending' \in Seq(Symbolic),
           room' > 0 => pending' = <<>>,
           value.how # "skip" =>
              closers' = <<>> /\ out' \o pending' = SubSeq(value.means, 1, value.marks[k].got)
    PROVE  JsonInv'
<1>1. Readable(value') /\ InParts'
  BY DEF JsonInv, InParts
<1>2. InQuotes'
  BY <1>1 DEF InQuotes, Stands, Gave
<1> QED BY <1>1, <1>2 DEF JsonInv

(* The next state is at a mark in a container. *)
LEMMA InBracketsNext ==
    ASSUME JsonInv, InParts, value' = value, NEW k \in DOMAIN value.marks, k > 1, ~value.marks[k].inside,
           value.how = "skip",
           at' = "container", pos' = value.marks[k].from, closers' = value.marks[k].stack,
           closers' # <<>>,
           room' = 0, out' \in Seq(Symbolic), pending' \in Seq(Symbolic)
    PROVE  JsonInv'
<1>1. Readable(value') /\ InParts'
  BY DEF JsonInv, InParts
<1>2. InBrackets'
  BY <1>1 DEF InBrackets, Stands
<1> QED BY <1>1, <1>2 DEF JsonInv

(* The next state is the end of the value. *)
LEMMA EndNext ==
    ASSUME JsonInv, InParts, value' = value, at' = "done",
           room' \in Nat, out' \in Seq(Symbolic), pending' \in Seq(Symbolic),
           \/ value.kind = "good" /\ res' = "ok" /\ pos' = value.whole + 1
              /\ (value.how # "skip" => out' = value.means)
           \/ value.kind \in {"cut", "bad"} /\ res' \in {"malformed", "incomplete"}
              /\ (value.how # "skip" => IsPrefix(out', value.means))
    PROVE  JsonInv'
<1>1. Readable(value')
  BY DEF JsonInv
<1>2. value.how # "skip" => IsPrefix(out', value.means)
  <2>1. value.means \in Seq(Symbolic) /\ Len(value.means) <= Len(value.means)
    BY ValueTyped, LenProperties DEF InParts
  <2>2. IsPrefix(value.means, value.means)
    BY <2>1 DEF IsPrefix
  <2> QED BY <2>2
<1>3. ValuesAreConsumedWhole'
  BY <1>2 DEF ValuesAreConsumedWhole, InParts
<1> QED BY <1>1, <1>3 DEF JsonInv

-------------------------------------------------------------------------------
(* Steps in a string. *)

(* What a part says continues what was given. *)
LEMMA SaidIsGiven ==
    ASSUME NEW S, NEW m \in Seq(S), NEW g \in 0 .. Len(m), NEW h \in 0 .. Len(m), NEW bytes \in Seq(S),
           h = g + Len(bytes), SubSeq(m, g + 1, h) = bytes
    PROVE  SubSeq(m, 1, g) \o bytes = SubSeq(m, 1, h)
<1> DEFINE f == SubSeq(m, 1, h)
<1>1. Len(bytes) \in Nat /\ Len(m) \in Nat /\ g \in Nat /\ h \in Nat /\ g <= h /\ h <= Len(m)
  BY LenProperties
<1>2. f \in Seq(S) /\ Len(f) = h /\ \A i \in 1 .. h : f[i] = m[i]
  BY <1>1, RemovedFront
<1>3. /\ SubSeq(m, 1, g) \in Seq(S) /\ Len(SubSeq(m, 1, g)) = g
      /\ \A i \in 1 .. g : SubSeq(m, 1, g)[i] = m[i]
  BY <1>1, RemovedFront
<1>4. bytes \in Seq(S) /\ \A i \in 1 .. Len(bytes) : bytes[i] = m[g + i]
  <2>1. \A i \in (g + 1) .. h : m[i] \in S
    BY <1>1, ElementOfSeq
  <2>2. \A i \in 1 .. h - (g + 1) + 1 : SubSeq(m, g + 1, h)[i] = m[(g + 1) + i - 1]
    BY <1>1, <2>1, SubSeqProperties
  <2>3. h - (g + 1) + 1 = Len(bytes) /\ \A i \in Nat : (g + 1) + i - 1 = g + i
    BY <1>1
  <2> QED BY <1>1, <2>2, <2>3
<1> DEFINE p == SubSeq(m, 1, g)
           w == p \o bytes
<1> HIDE DEF f, p
<1>5. /\ w \in Seq(S) /\ Len(w) = Len(p) + Len(bytes)
      /\ \A i \in 1 .. Len(p) : w[i] = p[i]
      /\ \A i \in 1 .. Len(bytes) : w[Len(p) + i] = bytes[i]
  BY <1>3, <1>4, JoinedParts DEF p
<1> HIDE DEF w
<1>6. ASSUME NEW i \in 1 .. h PROVE w[i] = f[i]
  <2>1. CASE i <= g
    BY <1>1, <1>2, <1>3, <1>5, <2>1 DEF p
  <2>2. CASE g < i
    <3>1. i - g \in 1 .. Len(bytes) /\ g + (i - g) = i
      BY <1>1, <2>2
    <3>2. w[g + (i - g)] = bytes[i - g] /\ bytes[i - g] = m[g + (i - g)]
      BY <1>3, <1>4, <1>5, <3>1 DEF p
    <3> QED BY <1>2, <3>1, <3>2
  <2> QED BY <1>1, <2>1, <2>2
<1>7. w = f
  <2>1. Len(w) = h /\ Len(w) = Len(f)
    BY <1>1, <1>2, <1>3, <1>5 DEF p
  <2> QED BY <1>2, <1>5, <1>6, <2>1, SeqEqual
<1> QED BY <1>7 DEF w, p, f

(* A Read with a new buffer moves on what is pending and stays at its mark. *)
LEMMA ReadKeeps ==
    ASSUME JsonInv, NEW n \in Nat, Read(n)
    PROVE  JsonInv'
<1>1. /\ at = "string" /\ room = 0 /\ Give(pending, n)
      /\ value' = value /\ pos' = pos /\ at' = at /\ closers' = closers
  BY DEF Read
<1>2. InQuotes /\ out \in Seq(Symbolic) /\ pending \in Seq(Symbolic)
  BY <1>1 DEF JsonInv
<1>3. PICK k \in DOMAIN value.marks : k > 1 /\ value.marks[k].inside /\ Stands(k) /\ Gave(k)
  BY <1>2 DEF InQuotes
<1>4. InParts
  BY <1>2 DEF InQuotes
<1>5. /\ out' \in Seq(Symbolic) /\ pending' \in Seq(Symbolic) /\ room' \in Nat
      /\ out' \o pending' = out \o pending /\ (room' > 0 => pending' = <<>>)
  BY <1>1, <1>2, GiveKeeps
<1>6. /\ at' = "string" /\ pos' = value.marks[k].from /\ closers' = value.marks[k].stack
      /\ (value.how # "skip" =>
            closers' = <<>> /\ out' \o pending' = SubSeq(value.means, 1, value.marks[k].got))
  BY <1>1, <1>3, <1>5 DEF Stands, Gave
<1> QED BY <1>1, <1>3, <1>4, <1>5, <1>6, InQuotesNext

(* One part of a string is given, and the reader is at the next mark. *)
LEMMA PartGiven ==
    ASSUME JsonInv, at = "string", InParts, NEW k \in DOMAIN value.marks, Stands(k), Gave(k),
           pending = <<>>, k + 1 \in DOMAIN value.marks, k + 1 > 1, value.marks[k + 1].inside,
           value.marks[k + 1].stack = value.marks[k].stack,
           NEW bytes \in Seq(Symbolic), Says(value, value.marks[k], value.marks[k + 1], bytes),
           Give(bytes, room), value' = value, at' = at, closers' = closers,
           pos' = value.marks[k + 1].from
    PROVE  JsonInv'
<1>1. room \in Nat /\ out \in Seq(Symbolic)
  BY DEF JsonInv
<1>2. /\ out' \in Seq(Symbolic) /\ pending' \in Seq(Symbolic) /\ room' \in Nat
      /\ out' \o pending' = out \o bytes /\ (room' > 0 => pending' = <<>>)
  BY <1>1, GiveKeeps
<1>3. ASSUME value.how # "skip"
      PROVE  closers' = <<>> /\ out' \o pending' = SubSeq(value.means, 1, value.marks[k + 1].got)
  <2> DEFINE g == value.marks[k].got
             h == value.marks[k + 1].got
  <2>1. /\ value.means \in Seq(Symbolic) /\ g \in 0 .. Len(value.means) /\ h \in 0 .. Len(value.means)
    BY ValueTyped, MarkTyped DEF InParts
  <2>2. h = g + Len(bytes) /\ SubSeq(value.means, g + 1, h) = bytes
    BY <1>3 DEF Says
  <2>3. SubSeq(value.means, 1, g) \o bytes = SubSeq(value.means, 1, h)
    <3> HIDE DEF g, h
    <3> QED BY <2>1, <2>2, SaidIsGiven
  <2>4. out \o <<>> = out
    BY <1>1
  <2>5. closers = <<>> /\ out \o pending = SubSeq(value.means, 1, g)
    BY <1>3 DEF Gave
  <2> QED BY <1>2, <2>3, <2>4, <2>5
<1>4. closers' = value.marks[k + 1].stack /\ at' = "string"
  BY DEF Stands
<1> QED BY <1>2, <1>3, <1>4, InQuotesNext

(* The outcomes of reading a byte. *)
Quoted ==
    /\ room' = 0 /\ pos' = pos + 1 /\ pending' = pending /\ out' = out
    /\ IF closers # <<>> THEN at' = "container" ELSE at' = "done" /\ res' = "ok"
Refused ==
    /\ room' = 0 /\ pending' = pending /\ out' = out
    /\ at' = "done" /\ res' = "malformed"
Given(bytes, n) == Give(bytes, room) /\ pos' = pos + 1 + n /\ at' = at

(* Quote and Eof are none of the other symbols. *)
LEMMA SymbolsApart ==
    /\ Quote \notin {"\\", "n", "u", "{", "[", "}", "]", ",", ":", ".", "e", "1", "-", Eof}
    /\ Eof \notin {"\\", "n", "u", "{", "[", "}", "]", ",", ":", ".", "e", "1", "-", "l", "x"}
BY Zenon DEF Quote, Eof

(* What one turn of the loop of a Read does, by the byte it meets. *)
LEMMA ByteRead ==
    ASSUME ReadByte, pos \in Nat
    PROVE  LET b == Byte(pos)
               e == ReadEscape(pos + 1)
           IN  /\ value' = value /\ closers' = closers
               /\ b = Quote => Quoted
               /\ b = Eof => Refused
               /\ b \notin {Quote, "\\", Eof} => Given(<< <<b, 1>> >>, 0)
               /\ b = "\\" => (e.len = 0 /\ Refused) \/ (e.len > 0 /\ Given(e.bytes, e.len))
<1> DEFINE b == Byte(pos)
           e == ReadEscape(pos + 1)
           End == /\ room' = 0
                  /\ IF b = Quote /\ closers # <<>>
                     THEN at' = "container" /\ UNCHANGED res
                     ELSE at' = "done" /\ res' = IF b = Quote THEN "ok" ELSE "malformed"
                  /\ pos' = pos + 1
                  /\ UNCHANGED <<pending, out>>
<1>1. /\ value' = value /\ closers' = closers
      /\ \/ (b = Quote \/ b = Eof \/ (b = "\\" /\ e.len = 0)) /\ End
         \/ b \notin {Quote, "\\", Eof} /\ Give(<< <<b, 1>> >>, room) /\ pos' = pos + 1 /\ at' = at
         \/ b = "\\" /\ e.len > 0 /\ Give(e.bytes, room) /\ pos' = pos + 1 + e.len /\ at' = at
  BY Zenon DEF ReadByte
<1>2. Quote # Eof /\ Quote # "\\" /\ Eof # "\\"
  BY SymbolsApart
<1>3. b = Quote => Quoted
  <2>1. b = Quote => End
    BY <1>1, <1>2
  <2> QED BY <2>1 DEF Quoted
<1>4. b # Quote /\ End => Refused
  BY DEF Refused
<1>5. b = Eof => Refused
  <2>1. b = Eof => End
    BY <1>1, <1>2
  <2> QED BY <1>2, <1>4, <2>1
<1>6. b \notin {Quote, "\\", Eof} => Given(<< <<b, 1>> >>, 0)
  BY <1>1 DEF Given
<1>7. b = "\\" => (e.len = 0 /\ Refused) \/ (e.len > 0 /\ Given(e.bytes, e.len))
  <2> SUFFICES ASSUME b = "\\"
               PROVE  (e.len = 0 /\ Refused) \/ (e.len > 0 /\ Given(e.bytes, e.len))
    OBVIOUS
  <2>1. CASE e.len = 0 /\ End
    BY <1>2, <1>4, <2>1
  <2>2. CASE e.len > 0 /\ Give(e.bytes, room) /\ pos' = pos + 1 + e.len /\ at' = at
    BY <2>2 DEF Given
  <2> QED BY <1>1, <1>2, <2>1, <2>2
<1> QED BY <1>1, <1>3, <1>5, <1>6, <1>7

(* A turn of the loop goes to the next mark, or ends the string where it ends. *)
LEMMA ReadByteKeeps ==
    ASSUME JsonInv, ReadByte
    PROVE  JsonInv'
<1>1. at = "string" /\ room > 0
  BY DEF ReadByte
<1>2. /\ InQuotes /\ out \in Seq(Symbolic) /\ pending \in Seq(Symbolic) /\ room \in Nat
  BY <1>1 DEF JsonInv
<1>3. InParts /\ pending = <<>>
  BY <1>1, <1>2 DEF InQuotes
<1>4. PICK k \in DOMAIN value.marks : k > 1 /\ value.marks[k].inside /\ Stands(k) /\ Gave(k)
  BY <1>2 DEF InQuotes
<1> DEFINE a == value.marks[k]
           c == value.marks[k + 1]
           x == At(value, pos)
           e == ReadEscape(pos + 1)
<1>5. /\ pos \in Nat /\ pos > 0 /\ pos = a.from /\ closers = a.stack /\ a.got \in 0 .. Len(value.means)
      /\ value.text \in Seq(Symbols) /\ value.means \in Seq(Symbolic)
  BY <1>3, <1>4, MarkTyped, ValueTyped DEF Stands, InParts
<1>6. Byte(pos) = x
  BY <1>5, ByteIsAt
<1>7. /\ value' = value /\ closers' = closers
      /\ x = Quote => Quoted
      /\ x = Eof => Refused
      /\ x \notin {Quote, "\\", Eof} => Given(<< <<x, 1>> >>, 0)
      /\ x = "\\" => (e.len = 0 /\ Refused) \/ (e.len > 0 /\ Given(e.bytes, e.len))
  BY <1>5, <1>6, ByteRead
<1>8. value.how # "skip" => closers = <<>> /\ out = SubSeq(value.means, 1, a.got) /\ IsPrefix(out, value.means)
  <2>1. out \o <<>> = out
    BY <1>2
  <2>2. value.how # "skip" => closers = <<>> /\ out \o pending = SubSeq(value.means, 1, a.got)
    BY <1>4 DEF Gave
  <2> HIDE DEF a
  <2> QED BY <1>2, <1>3, <1>5, <2>1, <2>2, GivenIsPrefix
<1>9. ASSUME value.kind \in {"cut", "bad"}, Stops(value, a)
      PROVE  JsonInv'
  <2>1. \/ x = Eof
        \/ x = "\\" /\ \A f \in EscapesOfJson : ~EscapeAt(value, pos, f)
    BY <1>4, <1>5, <1>9 DEF Stops
  <2>2. Refused
    <3>1. CASE x = Eof
      BY <1>7, <3>1
    <3>2. CASE x = "\\" /\ \A f \in EscapesOfJson : ~EscapeAt(value, pos, f)
      <4>1. ~(e.len > 0)
        BY <1>5, <3>2, EscapeFound
      <4> QED BY <1>7, <3>2, <4>1
    <3> QED BY <2>1, <3>1, <3>2
  <2>3. /\ at' = "done" /\ res' \in {"malformed", "incomplete"} /\ room' \in Nat
        /\ out' = out /\ pending' = pending
    BY <2>2 DEF Refused
  <2> QED BY <1>2, <1>3, <1>7, <1>8, <1>9, <2>3, EndNext
<1>10. ASSUME /\ k + 1 \in DOMAIN value.marks /\ k + 1 > 1 /\ InString(value, a, c)
              /\ ~Open(c) => value.kind = "good" /\ Complete(value, c)
       PROVE  JsonInv'
  <2>1. c.stack = a.stack
    BY <1>10 DEF InString
  <2>2. CASE x = Quote /\ c.from = a.from + 1 /\ ~c.inside /\ Says(value, a, c, <<>>)
    <3>1. /\ room' = 0 /\ room' \in Nat /\ pos' = c.from /\ pending' = pending /\ out' = out
          /\ IF closers # <<>> THEN at' = "container" ELSE at' = "done" /\ res' = "ok"
      BY <1>5, <1>7, <2>2 DEF Quoted
    <3>2. CASE closers # <<>>
      BY <1>2, <1>3, <1>5, <1>7, <1>8, <1>10, <2>1, <2>2, <3>1, <3>2, InBracketsNext
    <3>3. CASE closers = <<>>
      <4>1. value.kind = "good" /\ c.from = value.whole + 1 /\ c.got = Len(value.means)
        BY <1>5, <1>10, <2>1, <2>2, <3>3 DEF Open, Complete
      <4>2. ASSUME value.how # "skip" PROVE out = value.means
        <5>1. c.got = a.got
          BY <1>5, <2>2, <4>2 DEF Says
        <5>2. SubSeq(value.means, 1, Len(value.means)) = value.means
          BY <1>5
        <5> QED BY <1>8, <4>1, <4>2, <5>1, <5>2
      <4> QED BY <1>2, <1>3, <1>7, <3>1, <3>3, <4>1, <4>2, EndNext
    <3> QED BY <3>2, <3>3
  <2>3. CASE /\ x \notin {Quote, "\\", Eof} /\ c.inside
             /\ c.from = a.from + 1 /\ Says(value, a, c, << <<x, 1>> >>)
    <3>1. << <<x, 1>> >> \in Seq(Symbolic)
      <4>1. x \in Symbols
        BY <1>5, <2>3, ElementOfSeq, LenProperties DEF At
      <4>2. <<x, 1>> \in Symbols \X Nat
        BY <4>1
      <4>3. <<x, 1>> \in Symbolic
        BY <4>2, Zenon DEF Symbolic
      <4> QED BY <4>3, Singleton
    <3>2. Give(<< <<x, 1>> >>, room) /\ pos' = c.from /\ at' = at
      BY <1>5, <1>7, <2>3 DEF Given
    <3> QED BY <1>1, <1>3, <1>4, <1>7, <1>10, <2>1, <2>3, <3>1, <3>2, PartGiven
  <2>4. CASE \E f \in EscapesOfJson :
                /\ EscapeAt(value, a.from, f) /\ c.inside
                /\ c.from = a.from + Len(f.text) /\ Says(value, a, c, f.means)
    <3>1. PICK f \in EscapesOfJson :
                /\ EscapeAt(value, a.from, f) /\ c.inside
                /\ c.from = a.from + Len(f.text) /\ Says(value, a, c, f.means)
      BY <2>4
    <3>2. /\ x = "\\" /\ e = Yields(f.means, Len(f.text) - 1)
          /\ f.means \in Seq(Symbolic) /\ Len(f.text) \in Nat /\ Len(f.text) > 1
      BY <1>5, <3>1, EscapeRead
    <3>3. e.len = Len(f.text) - 1 /\ e.bytes = f.means /\ e.len > 0
      BY <3>2 DEF Yields
    <3>4. Given(f.means, e.len)
      <4>1. e.len # 0
        BY <3>2, <3>3
      <4> HIDE DEF e
      <4> QED BY <1>7, <3>2, <3>3, <4>1
    <3>5. Give(f.means, room) /\ pos' = c.from /\ at' = at
      <4>1. pos + 1 + e.len = a.from + Len(f.text)
        <5>1. pos \in Nat /\ pos = a.from /\ e.len = Len(f.text) - 1 /\ Len(f.text) \in Nat
          BY <1>5, <3>2, <3>3
        <5> HIDE DEF e, a
        <5> QED BY ONLY <5>1
      <4> QED BY <3>1, <3>4, <4>1 DEF Given
    <3> QED BY <1>1, <1>3, <1>4, <1>7, <1>10, <2>1, <3>1, <3>2, <3>5, PartGiven
  <2> QED BY <1>5, <1>10, <2>2, <2>3, <2>4 DEF InString
<1> QED BY <1>3, <1>4, <1>9, <1>10, NextMark DEF Open

-------------------------------------------------------------------------------
(* Steps outside of strings. *)

(* A stack is not empty after a push. *)
LEMMA Longer ==
    ASSUME NEW S, NEW s \in Seq(S), NEW x
    PROVE  Append(s, x) # <<>>
<1>1. Len(Append(s, x)) = Len(s) + 1 /\ Len(s) \in Nat
  BY LenProperties
<1>2. Len(s) + 1 # 0 /\ Len(<<>>) = 0
  BY <1>1
<1> QED BY <1>1, <1>2

(* The top of a stack. *)
LEMMA StackTop ==
    ASSUME NEW S, NEW s \in Seq(S), s # <<>>
    PROVE  Last(s) \in S /\ (Front(s) = <<>> <=> Len(s) = 1)
<1>1. Len(s) \in Nat /\ Len(s) > 0
  BY LenProperties, EmptySeq
<1>2. Last(s) \in S
  BY <1>1, ElementOfSeq DEF Last
<1>3. Front(s) \in Seq(S) /\ Len(Front(s)) = Len(s) - 1
  BY <1>1, RemovedFront, Len(s) - 1 \in Nat, Len(s) - 1 <= Len(s) DEF Front
<1>4. Front(s) = <<>> <=> Len(Front(s)) = 0
  BY <1>3, EmptySeq
<1> QED BY <1>1, <1>2, <1>3, <1>4

(* What skipping does, by the byte it meets. *)
LEMMA SkipOutcome ==
    ASSUME NEW i, SkipAt(i)
    PROVE  LET x == Byte(i)
           IN  /\ x = Eof => Ends("incomplete", i)
               /\ x = Quote => Enters("string", i + 1, closers)
               /\ x = "{" => Enters("container", i + 1, Append(closers, "}"))
               /\ x = "[" => Enters("container", i + 1, Append(closers, "]"))
               /\ x = "n" => ValueEnds(Past(i + 1, Letters))
               /\ x \in Numeric => ValueEnds(Past(i + 1, Numeric))
<1> DEFINE x == Byte(i)
<1>1. CASE x = Eof \/ x = Quote \/ x = "{" \/ x = "[" \/ x = "n"
  <2>1. x \notin Numeric
    BY <1>1, SymbolsApart DEF Numeric, Digits
  <2> QED BY <1>1, <2>1, SymbolsApart DEF SkipAt
<1>2. CASE ~(x = Eof \/ x = Quote \/ x = "{" \/ x = "[" \/ x = "n")
  BY <1>2 DEF SkipAt
<1> QED BY <1>1, <1>2

(* A value, or a part of one, is skipped from a mark on. *)
LEMMA SkipAtKeeps ==
    ASSUME JsonInv, InParts, value.how = "skip", value' = value, room = 0,
           NEW k \in DOMAIN value.marks, ~value.marks[k].inside, closers = value.marks[k].stack,
           k = 1 \/ Open(value.marks[k]), SkipAt(value.marks[k].at),
           closers # <<>> => At(value, value.marks[k].at) \notin {Last(closers), ",", ":"}
    PROVE  JsonInv'
<1> DEFINE a == value.marks[k]
           c == value.marks[k + 1]
           i == a.at
           x == At(value, i)
<1>1. /\ i \in Nat /\ i > 0 /\ value.text \in Seq(Symbols) /\ Byte(i) = x
      /\ out \in Seq(Symbolic) /\ pending \in Seq(Symbolic) /\ closers \in Seq({"]", "}"})
  BY MarkTyped, ValueTyped, ByteIsAt DEF InParts, JsonInv
<1>2. /\ x = Eof => Ends("incomplete", i)
      /\ x = Quote => Enters("string", i + 1, closers)
      /\ x = "{" => Enters("container", i + 1, Append(closers, "}"))
      /\ x = "[" => Enters("container", i + 1, Append(closers, "]"))
      /\ x = "n" => ValueEnds(Past(i + 1, Letters))
      /\ x \in Numeric => ValueEnds(Past(i + 1, Numeric))
  BY <1>1, SkipOutcome
<1>5. i + 1 \in Nat /\ i + 1 > 0
  <2>1. i \in Nat
    BY <1>1
  <2> HIDE DEF i
  <2> QED BY ONLY <2>1
<1>3. ASSUME value.kind \in {"cut", "bad"}, Stops(value, a)
      PROVE  JsonInv'
  <2>1. x = Eof
    BY <1>3 DEF Stops
  <2>2. Ends("incomplete", i)
    BY <1>2, <2>1
  <2>3. /\ at' = "done" /\ res' \in {"malformed", "incomplete"} /\ room' \in Nat
        /\ out' = out /\ pending' = pending
    BY <2>2 DEF Ends
  <2> QED BY <1>1, <1>3, <2>3, EndNext
<1>4. ASSUME /\ k + 1 \in DOMAIN value.marks /\ k + 1 > 1 /\ Outside(value, a, c)
             /\ ~Open(c) => value.kind = "good" /\ Complete(value, c)
      PROVE  JsonInv'
  <2>1. c.inside <=> x = Quote
    BY <1>4 DEF Outside
  <2>2. ASSUME Enters("container", c.from, c.stack), c.stack # <<>>, x # Quote
        PROVE  JsonInv'
    <3>1. /\ at' = "container" /\ pos' = c.from /\ closers' = c.stack /\ room' = 0
          /\ out' = out /\ pending' = pending
      BY <2>2 DEF Enters
    <3> QED BY <1>1, <1>4, <2>1, <2>2, <3>1, InBracketsNext
  <2>3. ASSUME ValueEnds(c.from), c.stack = closers, x # Quote
        PROVE  JsonInv'
    <3>1. CASE closers # <<>>
      BY <2>2, <2>3, <3>1 DEF ValueEnds
    <3>2. CASE closers = <<>>
      <4>1. Ends("ok", c.from)
        BY <2>3, <3>2 DEF ValueEnds
      <4>2. value.kind = "good" /\ c.from = value.whole + 1
        BY <1>4, <2>1, <2>3, <3>2 DEF Open, Complete
      <4>3. /\ at' = "done" /\ res' = "ok" /\ room' \in Nat /\ pos' = value.whole + 1
            /\ out' = out /\ pending' = pending
        BY <4>1, <4>2 DEF Ends
      <4> QED BY <1>1, <4>2, <4>3, EndNext
    <3> QED BY <3>1, <3>2
  <2>4. CASE x = Quote /\ c.from = i + 1 /\ c.stack = a.stack
    <3>1. /\ at' = "string" /\ pos' = c.from /\ closers' = c.stack
          /\ room' \in Nat /\ ~(room' > 0) /\ out' = out /\ pending' = pending
      <4>1. Enters("string", i + 1, closers)
        BY <1>2, <2>4
      <4>2. /\ at' = "string" /\ pos' = c.from /\ closers' = c.stack /\ room' = 0
            /\ out' = out /\ pending' = pending
        BY <2>4, <4>1 DEF Enters
      <4>3. 0 \in Nat /\ ~(0 > 0)
        BY ONLY TRUE
      <4> QED BY <4>2, <4>3
    <3> QED BY <1>1, <1>4, <2>1, <2>4, <3>1, InQuotesNext
  <2>5. CASE x = "{" /\ c.from = i + 1 /\ c.stack = Append(a.stack, "}")
    <3>1. c.stack # <<>> /\ x # Quote
      BY <1>1, <2>5, SymbolsApart, Longer
    <3> QED BY <1>2, <2>2, <2>5, <3>1
  <2>6. CASE x = "[" /\ c.from = i + 1 /\ c.stack = Append(a.stack, "]")
    <3>1. c.stack # <<>> /\ x # Quote
      BY <1>1, <2>6, SymbolsApart, Longer
    <3> QED BY <1>2, <2>2, <2>6, <3>1
  <2>7. CASE x = "n" /\ Run(value, i + 1, c.from, Letters) /\ c.stack = a.stack
    <3>1. Past(i + 1, Letters) = c.from /\ x # Quote
      <4>1. Past(i + 1, Letters) = c.from
        BY <1>1, <1>5, <2>7, PastRun
      <4> QED BY <2>7, <4>1, SymbolsApart
    <3> QED BY <1>2, <2>3, <2>7, <3>1
  <2>8. CASE x \in Numeric /\ Run(value, i + 1, c.from, Numeric) /\ c.stack = a.stack
    <3>1. Past(i + 1, Numeric) = c.from /\ x # Quote
      <4>1. Past(i + 1, Numeric) = c.from
        BY <1>1, <1>5, <2>8, PastRun
      <4> QED BY <2>8, <4>1, SymbolsApart DEF Numeric, Digits
    <3> QED BY <1>2, <2>3, <2>8, <3>1
  <2>9. ~(a.stack # <<>> /\ x = Last(a.stack)) /\ ~(a.stack # <<>> /\ x \in {",", ":"})
    OBVIOUS
  <2> QED BY <1>4, <2>4, <2>5, <2>6, <2>7, <2>8, <2>9 DEF Outside
<1> QED BY <1>3, <1>4, NextMark

(* A turn of the loop over a container goes to the next mark. *)
LEMMA SkipContainerKeeps ==
    ASSUME JsonInv, SkipContainer
    PROVE  JsonInv'
<1>1. at = "container"
  BY DEF SkipContainer
<1>2. InBrackets /\ out \in Seq(Symbolic) /\ pending \in Seq(Symbolic)
  BY <1>1 DEF JsonInv
<1>3. InParts /\ value.how = "skip" /\ closers # <<>> /\ room = 0
  BY <1>2 DEF InBrackets
<1>4. PICK k \in DOMAIN value.marks : k > 1 /\ ~value.marks[k].inside /\ Stands(k)
  BY <1>2 DEF InBrackets
<1> DEFINE a == value.marks[k]
           c == value.marks[k + 1]
           i == a.at
           x == At(value, i)
<1>5. /\ pos = a.from /\ closers = a.stack /\ i \in Nat /\ i > 0 /\ a.from \in Nat /\ a.from > 0
      /\ Run(value, a.from, i, {" "}) /\ value.text \in Seq(Symbols)
      /\ closers \in Seq({"]", "}"})
  BY <1>3, <1>4, MarkTyped, ValueTyped DEF InParts, Stands
<1>6. SkipWS(pos) = i /\ Byte(i) = x
  BY <1>5, PastRun, ByteIsAt DEF SkipWS
<1>7. /\ value' = value
      /\ IF x = Last(closers)
         THEN IF Len(closers) = 1 THEN Ends("ok", i + 1)
              ELSE Enters("container", i + 1, Front(closers))
         ELSE IF x \in {",", ":"} THEN Enters("container", i + 1, closers)
         ELSE SkipAt(i)
  BY <1>6 DEF SkipContainer
<1>8. Last(closers) \in {"]", "}"}
  BY <1>3, <1>5, StackTop
<1>9. Open(a)
  BY <1>3, <1>5 DEF Open
<1>10. CASE x \notin {Last(closers), ",", ":"}
  BY <1>3, <1>4, <1>5, <1>7, <1>9, <1>10, SkipAtKeeps
<1>11. ASSUME x \in {Last(closers), ",", ":"}, value.kind \in {"cut", "bad"}, Stops(value, a)
       PROVE  JsonInv'
  <2>1. x = Eof
    BY <1>3, <1>4, <1>11 DEF Stops
  <2> QED BY <1>8, <1>11, <2>1, Zenon DEF Eof
<1>12. ASSUME x \in {Last(closers), ",", ":"},
              k + 1 \in DOMAIN value.marks /\ k + 1 > 1 /\ Outside(value, a, c),
              ~Open(c) => value.kind = "good" /\ Complete(value, c)
       PROVE  JsonInv'
  <2>1. x # Quote /\ ~c.inside
    <3>1. x # Quote
      BY <1>8, <1>12, SymbolsApart
    <3> QED BY <1>12, <3>1 DEF Outside
  <2>2. /\ c.from = i + 1
        /\ c.stack = IF x = Last(closers) THEN Front(closers) ELSE closers
    <3>1. x \in {"]", "}", ",", ":"} /\ x \notin Numeric
      BY <1>8, <1>12 DEF Numeric, Digits
    <3>2. Last(closers) \notin {",", ":"}
      BY <1>8
    <3> QED BY <1>3, <1>5, <1>12, <2>1, <3>1, <3>2 DEF Outside
  <2>3. CASE x = Last(closers) /\ Len(closers) = 1
    <3>1. c.stack = <<>>
      BY <1>3, <1>5, <2>2, <2>3, StackTop
    <3>2. value.kind = "good" /\ c.from = value.whole + 1
      BY <1>12, <2>1, <3>1 DEF Open, Complete
    <3>3. /\ at' = "done" /\ res' = "ok" /\ room' \in Nat /\ pos' = value.whole + 1
          /\ out' = out /\ pending' = pending
      BY <1>3, <1>7, <2>2, <2>3, <3>2 DEF Ends
    <3> QED BY <1>2, <1>3, <1>7, <3>2, <3>3, EndNext
  <2>4. CASE ~(x = Last(closers) /\ Len(closers) = 1)
    <3>1. c.stack # <<>>
      <4>1. x = Last(closers) => Front(closers) # <<>>
        BY <1>3, <1>5, <2>4, StackTop
      <4> QED BY <1>3, <2>2, <4>1
    <3>2. Enters("container", c.from, c.stack)
      BY <1>7, <1>12, <2>2, <2>4
    <3>3. /\ at' = "container" /\ pos' = c.from /\ closers' = c.stack /\ room' = 0
          /\ out' = out /\ pending' = pending
      BY <1>3, <3>2 DEF Enters
    <3> QED BY <1>2, <1>3, <1>7, <1>12, <2>1, <3>1, <3>3, InBracketsNext
  <2> QED BY <2>3, <2>4
<1> QED BY <1>3, <1>9, <1>10, <1>11, <1>12, NextMark, <1>4

(* The value that follows the colon. *)
LEMMA FirstMark ==
    ASSUME Marked(value), pos = 1
    PROVE  /\ 1 \in DOMAIN value.marks /\ SkipWS(pos) = value.marks[1].at
           /\ value.marks[1].at \in Nat /\ value.marks[1].at > 0
           /\ Byte(value.marks[1].at) = At(value, value.marks[1].at)
           /\ value.marks[1].from = 1 /\ ~value.marks[1].inside /\ value.marks[1].stack = <<>>
           /\ value.marks[1].got = 0
<1>1. 1 \in DOMAIN value.marks /\ value.text \in Seq(Symbols)
  BY ValueTyped
<1>2. /\ value.marks[1].from = 1 /\ ~value.marks[1].inside /\ value.marks[1].stack = <<>>
      /\ value.marks[1].got = 0
  BY DEF Marked
<1>3. /\ Run(value, 1, value.marks[1].at, {" "})
      /\ value.marks[1].at \in Nat /\ value.marks[1].at > 0
  BY <1>1, <1>2, MarkTyped
<1>4. 1 \in Nat /\ 1 > 0
  OBVIOUS
<1>5. SkipWS(pos) = value.marks[1].at
  BY <1>1, <1>3, <1>4, PastRun DEF SkipWS
<1> QED BY <1>1, <1>2, <1>3, <1>5, ByteIsAt

(* Null, where a string may be. *)
LEMMA NullKeeps ==
    ASSUME JsonInv, at = "start", value' = value, value.how = "nullable", value.kind = "good", Marked(value),
           IsNull(value, value.marks[1].at), value.whole = value.marks[1].at + 3, value.means = <<>>,
           ReadValue
    PROVE  JsonInv'
<1> DEFINE i == value.marks[1].at
<1>1. /\ pos = 1 /\ out = <<>> /\ pending = <<>> /\ room = 0
      /\ out \in Seq(Symbolic) /\ pending \in Seq(Symbolic)
  BY DEF JsonInv
<1>2. SkipWS(pos) = i /\ i \in Nat /\ i > 0 /\ value.text \in Seq(Symbols)
  BY <1>1, FirstMark, ValueTyped
<1>3. \A k \in 0 .. 3 : At(value, i + k) = <<"n", "u", "l", "l">>[k + 1]
  BY DEF IsNull
<1>4. At(value, i) = "n" /\ \A k \in 1 .. 3 : At(value, i + k) = <<"u", "l", "l">>[k]
  <2> HIDE DEF i
  <2>1. /\ At(value, i + 0) = "n" /\ At(value, i + 1) = "u"
        /\ At(value, i + 2) = "l" /\ At(value, i + 3) = "l"
    BY <1>3
  <2>2. i + 0 = i
    BY ONLY <1>2
  <2> QED BY <2>1, <2>2
<1>5. Byte(i) = "n" /\ \A k \in 1 .. 3 : Byte(i + k) = <<"u", "l", "l">>[k]
  <2> HIDE DEF i
  <2>1. \A k \in 1 .. 3 : i + k \in Nat /\ i + k > 0
    BY ONLY <1>2
  <2> QED BY <1>2, <1>4, <2>1, ByteIsAt
<1>6. NullAt(i)
  <2>1. value.how # "string"
    OBVIOUS
  <2> QED BY <1>2, <1>5, <2>1 DEF ReadValue
<1>7. Ends("null", i + 4)
  BY <1>5, <1>6 DEF NullAt
<1>8. i + 4 = value.whole + 1
  <2> HIDE DEF i
  <2>1. i \in Nat /\ value.whole = i + 3
    BY <1>2 DEF i
  <2> QED BY ONLY <2>1
<1>9. /\ at' = "done" /\ res' = "null" /\ pos' = value.whole + 1 /\ room' = 0
      /\ out' = <<>> /\ pending' = pending
  BY <1>1, <1>7, <1>8 DEF Ends
<1>10. IsPrefix(<<>>, <<>>)
  BY DEF IsPrefix
<1>11. ValuesAreConsumedWhole'
  BY <1>9, <1>10 DEF ValuesAreConsumedWhole
<1>12. Readable(value')
  BY DEF JsonInv
<1> QED BY <1>1, <1>9, <1>11, <1>12 DEF JsonInv

(* A value in parts. *)
LEMMA PartsBegin ==
    ASSUME JsonInv, at = "start", value' = value, InParts, ReadValue
    PROVE  JsonInv'
<1> DEFINE a == value.marks[1]
           c == value.marks[1 + 1]
           i == a.at
           x == At(value, i)
<1>1. /\ pos = 1 /\ closers = <<>> /\ out = <<>> /\ pending = <<>> /\ room = 0
      /\ out \in Seq(Symbolic) /\ pending \in Seq(Symbolic)
  BY DEF JsonInv
<1>2. /\ 1 \in DOMAIN value.marks /\ SkipWS(pos) = i /\ Byte(i) = x /\ i \in Nat /\ i > 0
      /\ ~a.inside /\ a.stack = <<>> /\ a.got = 0 /\ value.text \in Seq(Symbols)
      /\ value.means \in Seq(Symbolic)
  BY <1>1, FirstMark, ValueTyped DEF InParts
<1>3. CASE value.how = "skip"
  <2>1. SkipAt(i)
    BY <1>2, <1>3 DEF ReadValue
  <2> QED BY <1>1, <1>2, <1>3, <2>1, SkipAtKeeps
<1>4. CASE value.how \in {"string", "nullable"}
  <2>1. /\ x = "n" /\ value.how = "nullable" => NullAt(i)
        /\ x # "n" \/ value.how = "string" => StringAt(i)
    BY <1>2, <1>4 DEF ReadValue
  <2>2. ASSUME /\ 1 + 1 \in DOMAIN value.marks /\ 1 + 1 > 1 /\ Len(value.marks) > 1 /\ Outside(value, a, c)
        PROVE  JsonInv'
    <3>1. x = Quote
      BY <1>4, <2>2 DEF InParts, Parted
    <3>2. Enters("string", i + 1, closers)
      <4>1. StringAt(i)
        BY <2>1, <3>1, SymbolsApart
      <4> QED BY <1>2, <3>1, <4>1, SymbolsApart DEF StringAt
    <3>3. c.inside /\ c.got = a.got /\ c.from = i + 1 /\ c.stack = a.stack
      BY <1>2, <2>2, <3>1, SymbolsApart DEF Outside, Numeric, Digits
    <3>4. SubSeq(value.means, 1, 0) = <<>> /\ <<>> \o <<>> = <<>>
      BY <1>2
    <3>5. /\ at' = "string" /\ pos' = c.from /\ closers' = c.stack /\ closers' = <<>>
          /\ out' = out /\ pending' = pending /\ room' = 0
      BY <1>1, <1>2, <3>2, <3>3 DEF Enters
    <3>6. out' \o pending' = SubSeq(value.means, 1, c.got)
      BY <1>1, <1>2, <3>3, <3>4, <3>5
    <3>7. room' \in Nat /\ ~(room' > 0)
      BY <3>5
    <3> QED BY <1>1, <2>2, <3>3, <3>5, <3>6, <3>7, InQuotesNext
  <2>3. ASSUME value.kind \in {"cut", "bad"}, Stops(value, a)
        PROVE  JsonInv'
    <3>1. x # Quote /\ ~IsNull(value, i)
      BY <1>2, <1>4, <2>3 DEF Stops
    <3>2. \E r \in {"malformed", "incomplete"} : \E j : Ends(r, j)
      <4>1. CASE StringAt(i)
        BY <1>2, <3>1, <4>1 DEF StringAt
      <4>2. CASE x = "n" /\ NullAt(i)
        <5>1. ~ \A k \in 1 .. 3 : Byte(i + k) = <<"u", "l", "l">>[k]
          <6> SUFFICES ASSUME \A k \in 1 .. 3 : Byte(i + k) = <<"u", "l", "l">>[k]
                       PROVE  IsNull(value, i)
            BY <3>1
          <6>1. /\ Byte(i + 1) = "u" /\ Byte(i + 2) = "l" /\ Byte(i + 3) = "l"
            OBVIOUS
          <6> HIDE DEF i
          <6>2. /\ i + 1 \in Nat /\ i + 1 > 0 /\ i + 2 \in Nat /\ i + 2 > 0
                /\ i + 3 \in Nat /\ i + 3 > 0 /\ i + 0 = i
            BY ONLY <1>2
          <6>3. /\ At(value, i + 0) = "n" /\ At(value, i + 1) = "u"
                /\ At(value, i + 2) = "l" /\ At(value, i + 3) = "l"
            BY <1>2, <4>2, <6>1, <6>2, ByteIsAt
          <6> QED BY <6>3 DEF IsNull
        <5> QED BY <4>2, <5>1 DEF NullAt
      <4> QED BY <1>4, <2>1, <4>1, <4>2
    <3>3. PICK r \in {"malformed", "incomplete"} : \E j : Ends(r, j)
      BY <3>2
    <3>4. /\ at' = "done" /\ res' \in {"malformed", "incomplete"} /\ out' = <<>>
          /\ pending' = pending /\ room' = 0
      BY <1>1, <3>3 DEF Ends
    <3>5. IsPrefix(<<>>, value.means)
      <4>1. Len(<<>>) = 0 /\ 0 <= Len(value.means) /\ SubSeq(value.means, 1, 0) = <<>>
            /\ SubSeq(<<>>, 1, 0) = <<>>
        BY <1>2, LenProperties
      <4> QED BY <4>1 DEF IsPrefix
    <3> QED BY <1>1, <2>3, <3>4, <3>5, EndNext
  <2> QED BY <1>2, <2>2, <2>3, NextMark
<1> QED BY <1>3, <1>4 DEF InParts

(* A number. *)
LEMMA NumberKeeps ==
    ASSUME JsonInv, at = "start", value' = value, value.how = "number", Marked(value), IsNumber(value),
           ReadValue
    PROVE  JsonInv'
<1> DEFINE i == value.marks[1].at
           j == value.marks[2].from
           t == value.text
           d == SubSeq(t, i, j - 1)
           integer == /\ \E k \in i..(j - 1) : At(value, k) = "1"
                      /\ \A k \in (i + 1)..(j - 1) : At(value, k) # "-"
<1>1. /\ pos = 1 /\ out \in Seq(Symbolic) /\ pending \in Seq(Symbolic) /\ room = 0
  BY DEF JsonInv
<1>2. /\ SkipWS(pos) = i /\ Byte(i) = At(value, i) /\ i \in Nat /\ i > 0 /\ t \in Seq(Symbols)
  BY <1>1, FirstMark, ValueTyped
<1>3. /\ Run(value, i, j, Digits)
      /\ \/ value.kind = "bad" /\ ~integer
         \/ /\ value.kind = "good" /\ integer
            /\ IF At(value, j) \in {".", "e"} THEN Run(value, j + 1, value.whole + 1, Digits)
               ELSE j = value.whole + 1
         \/ /\ value.kind = "scientific" /\ integer /\ At(value, j) = "."
            /\ \E k \in Places(value) : Run(value, j + 1, k, Digits) /\ At(value, k) = "e"
  BY DEF IsNumber
<1>4. /\ j \in i .. (Len(t) + 1) /\ At(value, j) \notin Digits
      /\ \A k \in i .. (j - 1) : At(value, k) \in Digits
  BY <1>3 DEF Run
<1>5. Past(i, Digits) = j
  BY <1>2, <1>3, PastRun
<1> HIDE DEF i, j, t, integer
<1>6. Len(t) \in Nat /\ DOMAIN t = 1 .. Len(t) /\ j \in Nat /\ j > 0 /\ i <= j /\ j - 1 <= Len(t)
  BY <1>2, <1>4, LenProperties
<1>7. /\ d \in Seq(Symbols) /\ Len(d) = j - i
      /\ \A k \in 1 .. (j - i) : d[k] = t[i + k - 1]
  <2>1. \A k \in i .. (j - 1) : t[k] \in Symbols
    BY <1>2, <1>6, ElementOfSeq
  <2> QED BY <1>2, <1>6, <2>1, SubSeqProperties
<1> HIDE DEF d
<1>8. \A k \in i .. (j - 1) : At(value, k) = t[k]
  BY <1>2, <1>6 DEF At, t
<1>9. \A k \in 1 .. (j - i) : d[k] = At(value, i + k - 1)
  BY <1>2, <1>6, <1>7, <1>8
<1>10. "1" \in ToSet(d) <=> \E k \in i .. (j - 1) : At(value, k) = "1"
  <2>1. DOMAIN d = 1 .. (j - i)
    BY <1>7, LenProperties
  <2>2. ASSUME NEW k \in 1 .. (j - i) PROVE i + k - 1 \in i .. (j - 1)
    BY <1>2, <1>6
  <2>3. ASSUME NEW k \in i .. (j - 1) PROVE k - i + 1 \in 1 .. (j - i) /\ i + (k - i + 1) - 1 = k
    BY <1>2, <1>6
  <2> QED BY <1>9, <2>1, <2>2, <2>3 DEF ToSet
<1>11. d # <<>> => ("-" \in ToSet(Tail(d)) <=> \E k \in (i + 1) .. (j - 1) : At(value, k) = "-")
  <2> SUFFICES ASSUME d # <<>>
               PROVE  "-" \in ToSet(Tail(d)) <=> \E k \in (i + 1) .. (j - 1) : At(value, k) = "-"
    OBVIOUS
  <2>1. /\ Tail(d) \in Seq(Symbols) /\ Len(Tail(d)) = (j - i) - 1
        /\ \A k \in 1 .. ((j - i) - 1) : Tail(d)[k] = d[k + 1]
    <3>1. d \in Seq(Symbols) /\ d # <<>>
      BY <1>7
    <3>2. Tail(d) \in Seq(Symbols) /\ Len(Tail(d)) = Len(d) - 1 /\ \A k \in 1 .. (Len(d) - 1) : Tail(d)[k] = d[k + 1]
      BY ONLY <3>1
    <3> QED BY <1>7, <3>2
  <2>2. DOMAIN Tail(d) = 1 .. ((j - i) - 1)
    BY <2>1, LenProperties
  <2>3. ASSUME NEW k \in 1 .. ((j - i) - 1)
        PROVE  i + k \in (i + 1) .. (j - 1) /\ Tail(d)[k] = At(value, i + k)
    <3>1. k + 1 \in 1 .. (j - i) /\ i + (k + 1) - 1 = i + k /\ i + k \in (i + 1) .. (j - 1)
      BY <1>2, <1>6
    <3> QED BY <1>9, <2>1, <3>1
  <2>4. ASSUME NEW k \in (i + 1) .. (j - 1)
        PROVE  k - i \in 1 .. ((j - i) - 1) /\ i + (k - i) = k
    BY <1>2, <1>6
  <2>5. ASSUME NEW k \in (i + 1) .. (j - 1), At(value, k) = "-"
        PROVE  "-" \in ToSet(Tail(d))
    <3>1. Tail(d)[k - i] = "-" /\ k - i \in DOMAIN Tail(d)
      BY <2>2, <2>3, <2>4, <2>5
    <3> QED BY <3>1 DEF ToSet
  <2>6. ASSUME "-" \in ToSet(Tail(d))
        PROVE  \E k \in (i + 1) .. (j - 1) : At(value, k) = "-"
    <3>1. PICK k \in DOMAIN Tail(d) : Tail(d)[k] = "-"
      BY <2>6 DEF ToSet
    <3> QED BY <2>2, <2>3, <3>1
  <2> QED BY <2>5, <2>6
<1>12. integer <=> ("1" \in ToSet(d) /\ "-" \notin ToSet(Tail(d)))
  <2>1. "1" \in ToSet(d) => d # <<>>
    BY DEF ToSet
  <2> QED BY <1>10, <1>11, <2>1 DEF integer
<1>13. NumberAt(i)
  BY <1>2 DEF ReadValue
<1>14. Byte(j) = At(value, j) /\ j = i + Len(d) /\ SubSeq(value.text, i, Past(i, Digits) - 1) = d
  BY <1>2, <1>5, <1>6, <1>7, ByteIsAt DEF d, t
<1>15. integer => Byte(i) # Eof
  <2> SUFFICES ASSUME integer PROVE At(value, i) # Eof
    BY <1>2
  <2>1. PICK k \in i .. (j - 1) : At(value, k) = "1"
    BY DEF integer
  <2>2. At(value, i) \in Digits
    BY <1>2, <1>4, <1>6, <2>1
  <2> QED BY <2>2, SymbolsApart DEF Digits
<1>16. \/ Byte(i) = Eof /\ Ends("incomplete", i)
       \/ Byte(i) # Eof /\ ~integer /\ Ends("malformed", j)
       \/ integer /\ Byte(j) \in {".", "e"} /\ Ends("ok", Past(j + 1, Digits))
       \/ integer /\ Byte(j) \notin {".", "e"} /\ Ends("ok", j)
  <2> DEFINE q == i + Len(d)
             atoi == "1" \in ToSet(d) /\ "-" \notin ToSet(Tail(d))
  <2>1. (CASE Byte(i) = Eof -> Ends("incomplete", i)
          [] Byte(i) # Eof /\ ~atoi -> Ends("malformed", q)
          [] atoi /\ Byte(q) \in {".", "e"} -> Ends("ok", Past(q + 1, Digits))
          [] atoi /\ Byte(q) \notin {".", "e"} -> Ends("ok", q))
    BY <1>13, <1>14, Zenon DEF NumberAt
  <2>2. q = j /\ (atoi <=> integer)
    BY <1>12, <1>14
  <2> HIDE DEF q, atoi
  <2>3. CASE Byte(i) = Eof
    <3>1. ~atoi
      BY <1>15, <2>2, <2>3
    <3> QED BY <2>1, <2>3, <3>1
  <2>4. CASE Byte(i) # Eof /\ ~integer
    BY <2>1, <2>2, <2>4
  <2>5. CASE Byte(i) # Eof /\ integer
    BY <2>1, <2>2, <2>5
  <2> QED BY <2>3, <2>4, <2>5
<1>17. ASSUME NEW r, NEW q, Ends(r, q),
              \/ value.kind = "bad" /\ r \in {"malformed", "incomplete"}
              \/ value.kind = "good" /\ r = "ok" /\ q = value.whole + 1
              \/ value.kind = "scientific" /\ r = "ok" /\ Byte(q) = "e"
       PROVE  JsonInv'
  <2>1. /\ at' = "done" /\ res' = r /\ pos' = q /\ room' = 0 /\ out' = out /\ pending' = pending
    BY <1>1, <1>17 DEF Ends
  <2>2. Byte(pos)' = Byte(q)
    BY <2>1 DEF Byte
  <2>3. ValuesAreConsumedWhole'
    BY <1>17, <2>1, <2>2 DEF ValuesAreConsumedWhole
  <2>4. Readable(value')
    BY DEF JsonInv
  <2> QED BY <1>1, <2>1, <2>3, <2>4 DEF JsonInv
<1>18. CASE value.kind = "bad" /\ ~integer
  BY <1>16, <1>17, <1>18
<1>19. CASE /\ value.kind = "good" /\ integer
            /\ IF At(value, j) \in {".", "e"} THEN Run(value, j + 1, value.whole + 1, Digits)
               ELSE j = value.whole + 1
  <2>1. CASE At(value, j) \in {".", "e"}
    <3>1. Past(j + 1, Digits) = value.whole + 1
      BY <1>2, <1>6, <1>19, <2>1, PastRun, j + 1 \in Nat, j + 1 > 0 DEF t
    <3>2. Ends("ok", Past(j + 1, Digits))
      BY <1>14, <1>15, <1>16, <1>19, <2>1
    <3>3. Ends("ok", value.whole + 1)
      BY <3>1, <3>2
    <3> QED BY <1>17, <1>19, <3>3
  <2>2. CASE At(value, j) \notin {".", "e"}
    <3>1. Ends("ok", j)
      BY <1>14, <1>15, <1>16, <1>19, <2>2
    <3> QED BY <1>17, <1>19, <2>2, <3>1
  <2> QED BY <2>1, <2>2
<1>20. CASE /\ value.kind = "scientific" /\ integer /\ At(value, j) = "."
            /\ \E k \in Places(value) : Run(value, j + 1, k, Digits) /\ At(value, k) = "e"
  <2>1. PICK k \in Places(value) : Run(value, j + 1, k, Digits) /\ At(value, k) = "e"
    BY <1>20
  <2>2. Past(j + 1, Digits) = k
    BY <1>2, <1>6, <2>1, PastRun, j + 1 \in Nat, j + 1 > 0 DEF t
  <2>3. Byte(k) = "e"
    <3>1. k \in Nat /\ k > 0
      BY <1>6, <2>1 DEF Places, t
    <3> QED BY <1>2, <2>1, <3>1, ByteIsAt DEF t
  <2>4. Ends("ok", Past(j + 1, Digits))
    BY <1>14, <1>15, <1>16, <1>20
  <2>5. Ends("ok", k)
    BY <2>2, <2>4
  <2> QED BY <1>17, <1>20, <2>3, <2>5
<1> QED BY <1>3, <1>18, <1>19, <1>20

(* Every step of the reader goes to the next mark, or ends the value where it ends. *)
LEMMA JsonStep ==
    ASSUME JsonInv, ParseJson
    PROVE  JsonInv'
<1>1. CASE ReadValue
  <2>1. at = "start" /\ value' = value
    BY <1>1 DEF ReadValue
  <2>2. value.how # "none"
    BY <2>1 DEF JsonInv
  <2>3. value.how = "number" /\ Marked(value) /\ IsNumber(value) => JsonInv'
    BY <1>1, <2>1, NumberKeeps
  <2>4. /\ value.how = "nullable" /\ value.kind = "good" /\ Marked(value)
        /\ IsNull(value, value.marks[1].at) /\ value.whole = value.marks[1].at + 3 /\ value.means = <<>>
        => JsonInv'
    BY <1>1, <2>1, NullKeeps
  <2>5. InParts => JsonInv'
    BY <1>1, <2>1, PartsBegin
  <2> QED BY <2>2, <2>3, <2>4, <2>5 DEF JsonInv, Readable, InParts
<1>2. CASE SkipContainer
  BY <1>2, SkipContainerKeeps
<1>3. CASE ReadByte
  BY <1>3, ReadByteKeeps
<1>4. CASE \E n \in 1 .. MaxBuf : Read(n)
  BY <1>4, ReadKeeps, JsonAssumption
<1> QED BY <1>1, <1>2, <1>3, <1>4 DEF ParseJson

(* A value is read from its start, and there is nothing to read where none was sent. *)
LEMMA JsonStart ==
    ASSUME NEW w, Readable(w), JsonInit(w)
    PROVE  JsonInv
<1>1. value = w /\ pos = 1 /\ room = 0 /\ closers = <<>> /\ out = <<>> /\ pending = <<>>
  BY DEF JsonInit
<1>2. out \in Seq(Symbolic) /\ pending \in Seq(Symbolic)
  BY <1>1
<1>3. CASE w.how = "none"
  <2>1. at = "done" /\ w.kind = "none"
    BY <1>3 DEF JsonInit, Readable
  <2>2. ValuesAreConsumedWhole
    BY <1>1, <2>1 DEF ValuesAreConsumedWhole
  <2> QED BY <1>1, <1>2, <2>1, <2>2 DEF JsonInv
<1>4. CASE w.how # "none"
  <2>1. at = "start"
    BY <1>4 DEF JsonInit
  <2> QED BY <1>1, <1>2, <1>4, <2>1 DEF JsonInv
<1> QED BY <1>3, <1>4

(* What the reader gave is a beginning of the string, at its start and at every mark. *)
LEMMA JsonConsumed == JsonInv => ValuesAreConsumedWhole
<1> SUFFICES ASSUME JsonInv PROVE ValuesAreConsumedWhole
  OBVIOUS
<1>1. out \in Seq(Symbolic) /\ pending \in Seq(Symbolic)
  BY DEF JsonInv
<1>2. CASE at = "done"
  BY <1>2 DEF JsonInv
<1>3. CASE at = "start"
  <2>1. out = <<>> /\ value.how # "none"
    BY <1>3 DEF JsonInv
  <2>2. ASSUME value.how \in {"string", "nullable"} PROVE IsPrefix(out, value.means)
    <3>1. Marked(value)
      BY <2>1, <2>2 DEF JsonInv, Readable
    <3>2. value.means \in Seq(Symbolic)
      BY <3>1, ValueTyped
    <3>3. Len(value.means) \in Nat
      BY <3>2, LenProperties
    <3>4. 0 \in 0 .. Len(value.means) /\ out \o <<>> = SubSeq(value.means, 1, 0)
      BY <2>1, <3>2, <3>3
    <3> QED BY <1>1, <3>2, <3>4, GivenIsPrefix, <<>> \in Seq(Symbolic)
  <2> QED BY <1>3, <2>2 DEF ValuesAreConsumedWhole
<1>4. CASE at = "string"
  <2>1. InQuotes
    BY <1>4 DEF JsonInv
  <2>2. ASSUME value.how \in {"string", "nullable"} PROVE IsPrefix(out, value.means)
    <3>1. PICK k \in DOMAIN value.marks : Gave(k)
      BY <2>1 DEF InQuotes
    <3>2. Marked(value)
      BY <2>1 DEF InQuotes, InParts
    <3>3. value.marks[k].got \in 0 .. Len(value.means) /\ value.means \in Seq(Symbolic)
      BY <3>2, ValueTyped, MarkTyped
    <3>4. out \o pending = SubSeq(value.means, 1, value.marks[k].got)
      BY <2>2, <3>1 DEF Gave
    <3> QED BY <1>1, <3>3, <3>4, GivenIsPrefix
  <2> QED BY <1>4, <2>2 DEF ValuesAreConsumedWhole
<1>5. CASE at = "container"
  <2>1. value.how = "skip"
    BY <1>5 DEF JsonInv, InBrackets
  <2> QED BY <1>5, <2>1 DEF ValuesAreConsumedWhole
<1> QED BY <1>2, <1>3, <1>4, <1>5 DEF JsonInv

(* The readers of JSON strings (jsonstream.go) and of the other values of a /clip body
   (clip.go) consume a value of correct JSON to its last byte, whatever buffers their
   caller has, and a string gives what it stands for; none that is cut short, or has an
   escape that is none, is taken for complete. *)
THEOREM ValuesAlwaysConsumed == EncSpec => []ValuesAreConsumedWhole
<1>1. EncInit => JsonInv
  BY JsonStart, WorksAssumption DEF EncInit
<1>2. JsonInv /\ [EncNext]_encVars => JsonInv'
  <2> SUFFICES ASSUME JsonInv, [EncNext]_encVars PROVE JsonInv'
    OBVIOUS
  <2>1. CASE ParseJson
    BY <2>1, JsonStep
  <2>2. CASE UNCHANGED jsonVars
    <3>1. UNCHANGED <<value, pos, at, closers, room, pending, out, res>>
      BY <2>2 DEF jsonVars
    <3>2. Byte(pos)' = Byte(pos) /\ InQuotes' = InQuotes /\ InBrackets' = InBrackets
      BY <3>1 DEF Byte, InQuotes, InBrackets, InParts, Stands, Gave
    <3>3. ValuesAreConsumedWhole' = ValuesAreConsumedWhole
      BY <3>1, <3>2 DEF ValuesAreConsumedWhole
    <3> QED BY <3>1, <3>2, <3>3 DEF JsonInv
  <2> QED BY <2>1, <2>2 DEF EncNext, encVars
<1>3. JsonInv => ValuesAreConsumedWhole
  BY JsonConsumed
<1> QED BY <1>1, <1>2, <1>3, PTL DEF EncSpec
=============================================================================
