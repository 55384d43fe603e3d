----------------------------- MODULE SavePipeline -----------------------------
(***************************************************************************)
(* How a payload becomes a file (saveStream, uniqueLeaf and reserve in     *)
(* internal/store/concrete.go:155-223, writeAtomicFsync in fsutil.go):     *)
(* find a free name, create an empty file there, write a temp file and     *)
(* rename it over the empty one.  The lock s.mu makes the choice of the    *)
(* name exclusive within a process only; the directory is shared with      *)
(* `clipbeam ingest' processes and with every other program.               *)
(***************************************************************************)
EXTENDS Naturals, Sequences

CONSTANTS Savers,     \* calls of saveStream
          Processes,
          ProcessOf,  \* the process of each saver
          Names,      \* file names
          Candidates, \* what uniqueLeaf tries for each saver: leaf, "leaf (2)", ...
          Intruders,  \* bound: names that another program may create a file under
          Killable,   \* bound: processes that may be killed
          Nobody, Absent, Empty, Foreign

ASSUME SaveAssumption ==
    /\ ProcessOf \in [Savers -> Processes]
    /\ Candidates \in [Savers -> Seq(Names) \ {<<>>}]
    /\ Intruders \subseteq Names /\ Killable \subseteq Processes
    /\ Nobody \notin Savers
    /\ {Absent, Empty, Foreign} \cap Savers = {}
    /\ Absent # Empty /\ Absent # Foreign /\ Empty # Foreign

VARIABLES file,       \* what is under each name; a saver stands for its payload
          lock,       \* the holder of s.mu in each process
          pc,         \* where each save stands
          cand,       \* the candidate it looks at
          attempt,    \* 1, or 2 after a reservation that failed
          unreserved, \* history: saves that go on without a reservation
          killed      \* history: processes that were killed

vars == <<file, lock, pc, cand, attempt, unreserved, killed>>

PCs == {"new", "probe", "reserve", "write", "cleanup", "done", "failed", "killed"}
Dest(s) == Candidates[s][cand[s]]
Ended(s) == pc[s] \in {"done", "failed", "killed"}

Init ==
    /\ file \in [Names -> {Absent, Foreign}]
    /\ \A n \in Names \ Intruders : file[n] = Absent
    /\ lock = [p \in Processes |-> Nobody]
    /\ pc = [s \in Savers |-> "new"]
    /\ cand = [s \in Savers |-> 1]
    /\ attempt = [s \in Savers |-> 1]
    /\ unreserved = {}
    /\ killed = {}

(* s.mu.Lock() *)
Lock(s) ==
    /\ pc[s] = "new"
    /\ ProcessOf[s] \notin killed
    /\ lock[ProcessOf[s]] = Nobody
    /\ lock' = [lock EXCEPT ![ProcessOf[s]] = s]
    /\ pc' = [pc EXCEPT ![s] = "probe"]
    /\ UNCHANGED <<file, cand, attempt, unreserved, killed>>

(* uniqueLeaf: one Lstat at a time, until a name is free. *)
NextTaken(s) ==
    /\ pc[s] = "probe"
    /\ file[Dest(s)] # Absent
    /\ cand[s] < Len(Candidates[s])
    /\ cand' = [cand EXCEPT ![s] = @ + 1]
    /\ UNCHANGED <<file, lock, pc, attempt, unreserved, killed>>

FoundFree(s) ==
    /\ pc[s] = "probe"
    /\ file[Dest(s)] = Absent
    /\ pc' = [pc EXCEPT ![s] = "reserve"]
    /\ UNCHANGED <<file, lock, cand, attempt, unreserved, killed>>

(* reserve: create the file, exclusively; then s.mu.Unlock(). *)
CreateAny(n) == TRUE  \* mutant: O_CREATE without O_EXCL
Creatable(n) == file[n] = Absent

StillLocked(s) == lock  \* mutant: no Unlock
Unlocked(s) == [lock EXCEPT ![ProcessOf[s]] = Nobody]

Reserve(s) ==
    /\ pc[s] = "reserve"
    /\ Creatable(Dest(s))
    /\ file' = [file EXCEPT ![Dest(s)] = Empty]
    /\ lock' = Unlocked(s)
    /\ pc' = [pc EXCEPT ![s] = "write"]
    /\ UNCHANGED <<cand, attempt, unreserved, killed>>

(* Somebody was faster: probe once more, from the start ... *)
Reprobe(s) ==
    /\ pc[s] = "reserve"
    /\ ~Creatable(Dest(s))
    /\ attempt[s] = 1
    /\ attempt' = [attempt EXCEPT ![s] = 2]
    /\ cand' = [cand EXCEPT ![s] = 1]
    /\ pc' = [pc EXCEPT ![s] = "probe"]
    /\ UNCHANGED <<file, lock, unreserved, killed>>

(* ... but the second reservation may fail too, which goes unnoticed. *)
ReserveIgnored(s) ==
    /\ pc[s] = "reserve"
    /\ ~Creatable(Dest(s))
    /\ attempt[s] = 2
    /\ unreserved' = unreserved \cup {s}
    /\ lock' = Unlocked(s)
    /\ pc' = [pc EXCEPT ![s] = "write"]
    /\ UNCHANGED <<file, cand, attempt, killed>>

(* writeAtomicFsync: the temp file is complete and takes the name ... *)
Rename(s) ==
    /\ pc[s] = "write"
    /\ file' = [file EXCEPT ![Dest(s)] = s]
    /\ pc' = [pc EXCEPT ![s] = "done"]
    /\ UNCHANGED <<lock, cand, attempt, unreserved, killed>>

(* ... or some step of it fails: the temp file is removed, ... *)
WriteFails(s) ==
    /\ pc[s] = "write"
    /\ pc' = [pc EXCEPT ![s] = "cleanup"]
    /\ UNCHANGED <<file, lock, cand, attempt, unreserved, killed>>

(* ... and then whatever is at the reserved name. *)
LeftAlone(s) == file  \* mutant: the reservation stays
Removed(s) == [file EXCEPT ![Dest(s)] = Absent]

RemoveDest(s) ==
    /\ pc[s] = "cleanup"
    /\ file' = Removed(s)
    /\ pc' = [pc EXCEPT ![s] = "failed"]
    /\ UNCHANGED <<lock, cand, attempt, unreserved, killed>>

(* The process is killed, its lock with it; its reservations stay. *)
Kill(p) ==
    /\ p \notin killed
    /\ killed' = killed \cup {p}
    /\ pc' = [s \in Savers |-> IF ProcessOf[s] = p /\ ~Ended(s) THEN "killed" ELSE pc[s]]
    /\ lock' = [lock EXCEPT ![p] = Nobody]
    /\ UNCHANGED <<file, cand, attempt, unreserved>>

(* Another program creates a file in the directory. *)
Intrude(n) ==
    /\ file[n] = Absent
    /\ file' = [file EXCEPT ![n] = Foreign]
    /\ UNCHANGED <<lock, pc, cand, attempt, unreserved, killed>>

Save(s) ==
    \/ Lock(s) \/ NextTaken(s) \/ FoundFree(s)
    \/ Reserve(s) \/ Reprobe(s) \/ ReserveIgnored(s)
    \/ Rename(s) \/ RemoveDest(s)

Finished ==
    /\ \A s \in Savers : Ended(s)
    /\ UNCHANGED vars

Next ==
    \/ \E s \in Savers : Save(s) \/ WriteFails(s)
    \/ \E p \in Killable : Kill(p)
    \/ \E n \in Intruders : Intrude(n)
    \/ Finished

(* Goroutines and processes run. *)
Fairness == \A s \in Savers : WF_vars(Save(s))

Spec == Init /\ [][Next]_vars
FairSpec == Spec /\ Fairness
------------------------------------------------------------------------------
(* Properties. *)

(* The variables have their types, and a save holds its process's lock exactly
   while it looks for a name. *)
TypeOK ==
    /\ file \in [Names -> Savers \cup {Absent, Empty, Foreign}]
    /\ lock \in [Processes -> Savers \cup {Nobody}]
    /\ pc \in [Savers -> PCs]
    /\ \A s \in Savers :
          /\ cand[s] \in DOMAIN Candidates[s] /\ attempt[s] \in {1, 2}
          /\ pc[s] \in {"probe", "reserve"} <=> lock[ProcessOf[s]] = s
    /\ unreserved \subseteq Savers /\ killed \subseteq Processes

Reserved(s) == pc[s] \in {"write", "cleanup"}

(* As long as no save has lost both its reservations, a name that is reserved
   belongs to one save, whose empty file is there until it is replaced or
   removed; what a finished save wrote is under the name it returned for ever
   after; across all processes (concrete.go:172-187). *)
NamesAreOwned ==
    unreserved = {} =>
        /\ \A s \in Savers :
              /\ Reserved(s) => file[Dest(s)] = Empty
              /\ pc[s] = "done" => file[Dest(s)] = s
        /\ \A s, t \in Savers : s # t /\ Reserved(s) /\ Reserved(t) => Dest(s) # Dest(t)

(* A file of another program is never replaced or removed, unless a save has lost
   both its reservations (concrete.go:177-185). *)
ForeignKept ==
    [][unreserved' = {} => \A n \in Names : file[n] = Foreign => file'[n] = Foreign]_vars

(* A save that failed takes its reservation with it: an empty file is either
   about to be replaced or was left by a killed process (concrete.go:189-192). *)
NoLitter ==
    \A n \in Names : file[n] = Empty =>
        \E s \in Savers : Dest(s) = n /\ (Reserved(s) \/ pc[s] = "killed")

(***************************************************************************)
(* The lock, the probes and the retry implement a directory in which a     *)
(* name is claimed at once by one save, and touched by nobody else until   *)
(* it is filled or given back; only a save that lost both its              *)
(* reservations strays (concrete.go:172-192).                              *)
(***************************************************************************)
Claimable == [s \in Savers |-> {Candidates[s][i] : i \in DOMAIN Candidates[s]}]
InHand == [s \in Savers |-> IF Reserved(s) THEN {Dest(s)} ELSE {}]

Promise == INSTANCE Directory WITH
    Wanted <- Claimable, under <- file, holds <- InHand,
    over <- {s \in Savers : pc[s] \in {"done", "failed"}},
    gone <- {s \in Savers : pc[s] = "killed"}, astray <- unreserved

RefinesDirectory == Promise!Spec

(* Every save ends, although saves wait for one another's lock. *)
SavesEnd == <>(\A s \in Savers : Ended(s))
=============================================================================
