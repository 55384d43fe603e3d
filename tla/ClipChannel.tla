----------------------------- MODULE ClipChannel -----------------------------
(***************************************************************************)
(* The clipboard channel of the store: FinishClipboard                     *)
(* (internal/store/concrete.go:70-83), which commits the last saved path   *)
(* to memory and to disk, appends to recents.json and resumes the parked   *)
(* WaitForNext calls (pathWaiters, internal/store/waiters.go:83-130).      *)
(*                                                                         *)
(* A saver is one call of FinishClipboard.  Most savers are goroutines of  *)
(* the daemon; an ingest saver is a `clipbeam ingest' process, with a      *)
(* store of its own over the same files.  A waiter is one WaitForNext call *)
(* on the daemon.  Every file is written by temp file and rename           *)
(* (fsutil.go), so a write is one step; a read and a write are two.        *)
(***************************************************************************)
EXTENDS Naturals, Sequences, FiniteSets, SequencesExt

CONSTANTS Savers,      \* calls of FinishClipboard
          Ingests,     \* those made by an ingest process
          Waiters,     \* calls of WaitForNext
          Paths,       \* saved paths
          Saved,       \* the savedPaths argument of each saver
          RecentsCap,  \* recentsCap (20 in the code)
          MaxRestarts, \* bound: how often the daemon is restarted
          Faulty,      \* bound: savers whose file writes may fail
          NoPath       \* an empty channel, an empty last path, wait's ""

ASSUME ClipAssumption ==
    /\ Ingests \subseteq Savers /\ Faulty \subseteq Savers
    /\ Saved \in [Savers -> Seq(Paths) \ {<<>>}]
    /\ RecentsCap \in Nat \ {0} /\ MaxRestarts \in Nat
    /\ NoPath \notin Paths

VARIABLES lastPath,  \* s.lastPath of the daemon
          disk,      \* the last_path file
          recents,   \* the recents.json file, oldest first
          waiters,   \* p.waiters of the daemon, as the calls that own the channels
          ch,        \* each wait call's channel
          wpc,       \* where each wait call stands
          answer,    \* what each wait call is about to return, or has returned
          spc,       \* where each saver stands
          seen,      \* the saver's local `recents'
          parked,    \* the saver's local `parked'
          restarts,  \* restarts of the daemon so far
          taker,     \* history: the saver whose resume took each wait call
          written,   \* history: paths whose write to last_path has been tried
          log,       \* history: paths appended to recents.json, in order
          apart,     \* history: memory and disk were set apart, see LastPathSettles
          rewound    \* history: two savers overlapped between read and write

files == <<disk, recents>>
waits == <<waiters, ch, wpc, answer>>
savers == <<spc, seen, parked>>
history == <<taker, written, log, apart, rewound>>
vars == <<lastPath, files, waits, savers, restarts, history>>

SaverPCs == {"begin", "persist", "read", "write", "take", "send", "done"}
WaitPCs == {"idle", "parked", "unlisted", "ended"}

Listed(w) == \E i \in DOMAIN waiters : waiters[i] = w
Overlap(s, at) == \E o \in Savers \ {s} : spc[o] = at

Init ==
    /\ lastPath = NoPath /\ disk = NoPath /\ recents = <<>>
    /\ waiters = <<>>
    /\ ch = [w \in Waiters |-> NoPath]
    /\ wpc = [w \in Waiters |-> "idle"]
    /\ answer = [w \in Waiters |-> NoPath]
    /\ spc = [s \in Savers |-> "begin"]
    /\ seen = [s \in Savers |-> <<>>]
    /\ parked = [s \in Savers |-> <<>>]
    /\ restarts = 0
    /\ taker = [w \in Waiters |-> {}]
    /\ written = {} /\ log = <<>>
    /\ apart = FALSE /\ rewound = FALSE

------------------------------------------------------------------------------
(* FinishClipboard.  With no saved path (short texts only) it does nothing at
   all: a saver is a call that has at least one. *)

(* s.lastPath = last, under s.mu.  An ingest process sets its own. *)
Commit(s) ==
    /\ spc[s] = "begin"
    /\ lastPath' = IF s \in Ingests THEN lastPath ELSE Last(Saved[s])
    /\ spc' = [spc EXCEPT ![s] = "persist"]
    /\ apart' = (apart \/ s \in Ingests \/ Overlap(s, "persist"))
    /\ UNCHANGED <<files, waits, seen, parked, restarts,
                   taker, written, log, rewound>>

(* The last_path file is replaced, after the lock was released. *)
FirstOf(s) == Head(Saved[s])  \* mutant: the first saved path, not the last
FileText(s) == Last(Saved[s])

Persist(s) ==
    /\ spc[s] = "persist"
    /\ disk' = FileText(s)
    /\ written' = written \cup {disk'}
    /\ spc' = [spc EXCEPT ![s] = "read"]
    /\ UNCHANGED <<lastPath, recents, waits, seen, parked, restarts,
                   taker, log, apart, rewound>>

(* The write fails; the error is ignored and the old file stays. *)
PersistFails(s) ==
    /\ s \in Faulty
    /\ spc[s] = "persist"
    /\ written' = written \cup {Last(Saved[s])}
    /\ apart' = TRUE
    /\ spc' = [spc EXCEPT ![s] = "read"]
    /\ UNCHANGED <<lastPath, files, waits, seen, parked, restarts,
                   taker, log, rewound>>

(* appendRecents: read the ring ... *)
ReadRecents(s) ==
    /\ spc[s] = "read"
    /\ seen' = [seen EXCEPT ![s] = recents]
    /\ spc' = [spc EXCEPT ![s] = "write"]
    /\ rewound' = (rewound \/ Overlap(s, "write"))
    /\ UNCHANGED <<lastPath, files, waits, parked, restarts,
                   taker, written, log, apart>>

(* ... append, keep the last RecentsCap, and write it back.  This ends the work
   of an ingest process, whose own store has no wait calls to resume. *)
KeptFirst(ring, paths) ==  \* mutant: the oldest are kept
    LET all == ring \o paths
    IN  IF Len(all) > RecentsCap THEN SubSeq(all, 1, RecentsCap) ELSE all

Kept(ring, paths) ==
    LET all == ring \o paths
    IN  IF Len(all) > RecentsCap
        THEN SubSeq(all, Len(all) - RecentsCap + 1, Len(all)) ELSE all

WriteRecents(s) ==
    /\ spc[s] = "write"
    /\ recents' = Kept(seen[s], Saved[s])
    /\ log' = log \o Saved[s]
    /\ seen' = [seen EXCEPT ![s] = <<>>]
    /\ spc' = [spc EXCEPT ![s] = IF s \in Ingests THEN "done" ELSE "take"]
    /\ UNCHANGED <<lastPath, disk, waits, parked, restarts,
                   taker, written, apart, rewound>>

(* The write fails; the error is ignored and the old ring stays. *)
WriteRecentsFails(s) ==
    /\ s \in Faulty
    /\ spc[s] = "write"
    /\ seen' = [seen EXCEPT ![s] = <<>>]
    /\ spc' = [spc EXCEPT ![s] = IF s \in Ingests THEN "done" ELSE "take"]
    /\ UNCHANGED <<lastPath, files, waits, parked, restarts, history>>

(* resume: take the whole list under p.mu. *)
KeptList == waiters  \* mutant: p.waiters is not cleared
TakenList == <<>>

TakeParked(s) ==
    /\ spc[s] = "take"
    /\ parked' = [parked EXCEPT ![s] = waiters]
    /\ waiters' = TakenList
    /\ taker' = [w \in Waiters |-> IF Listed(w)
                                   THEN taker[w] \cup {s} ELSE taker[w]]
    /\ spc' = [spc EXCEPT ![s] = IF waiters = <<>> THEN "done" ELSE "send"]
    /\ UNCHANGED <<lastPath, files, ch, wpc, answer, seen, restarts,
                   written, log, apart, rewound>>

(* w <- path, one call after another, with no lock held.  The channel has
   capacity 1: the send waits while it is full. *)
PathInMemory(s) == lastPath  \* mutant: s.lastPath as it is now
PathSent(s) == Last(Saved[s])

Send(s) ==
    /\ spc[s] = "send"
    /\ ch[Head(parked[s])] = NoPath
    /\ ch' = [ch EXCEPT ![Head(parked[s])] = PathSent(s)]
    /\ parked' = [parked EXCEPT ![s] = Tail(@)]
    /\ spc' = [spc EXCEPT ![s] = IF parked'[s] = <<>> THEN "done" ELSE "send"]
    /\ UNCHANGED <<lastPath, files, waiters, wpc, answer, seen, restarts, history>>

------------------------------------------------------------------------------
(* WaitForNext *)

Park(w) ==
    /\ wpc[w] = "idle"
    /\ waiters' = Append(waiters, w)
    /\ wpc' = [wpc EXCEPT ![w] = "parked"]
    /\ UNCHANGED <<lastPath, files, ch, answer, savers, restarts, history>>

Woken(w) ==
    /\ wpc[w] = "parked"
    /\ ch[w] # NoPath
    /\ answer' = [answer EXCEPT ![w] = ch[w]]
    /\ ch' = [ch EXCEPT ![w] = NoPath]
    /\ wpc' = [wpc EXCEPT ![w] = "ended"]
    /\ UNCHANGED <<lastPath, files, waiters, savers, restarts, history>>

(* The 120 s are over or the client has gone (select may choose this case even
   when the channel is ready): take the channel off the list, if it is there. *)
ListWith(w) == waiters  \* mutant: the channel stays on the list
ListWithout(w) == RemoveFirst(waiters, w)

CtxDone(w) ==
    /\ wpc[w] = "parked"
    /\ waiters' = ListWithout(w)
    /\ wpc' = [wpc EXCEPT ![w] = "unlisted"]
    /\ UNCHANGED <<lastPath, files, ch, answer, savers, restarts, history>>

(* The final receive does not wait: it finds what has been sent by now. *)
Ready(w) == ch[w] # NoPath  \* mutant: the final select has no default
ReadyOrDefault(w) == TRUE

Drain(w) ==
    /\ wpc[w] = "unlisted"
    /\ ReadyOrDefault(w)
    /\ answer' = [answer EXCEPT ![w] = ch[w]]
    /\ ch' = [ch EXCEPT ![w] = NoPath]
    /\ wpc' = [wpc EXCEPT ![w] = "ended"]
    /\ UNCHANGED <<lastPath, files, waiters, savers, restarts, history>>

------------------------------------------------------------------------------
(***************************************************************************)
(* The daemon stops and a new one loads last_path (newConcrete).  Its      *)
(* unfinished savers and its open wait calls are gone.                     *)
(***************************************************************************)
NoLoad == NoPath  \* mutant: the file is not loaded
LoadLastPath == disk

Restart ==
    /\ restarts < MaxRestarts
    /\ restarts' = restarts + 1
    /\ lastPath' = LoadLastPath
    /\ waiters' = <<>>
    /\ ch' = [w \in Waiters |-> NoPath]
    /\ wpc' = [w \in Waiters |-> IF wpc[w] = "idle" THEN "idle" ELSE "ended"]
    /\ spc' = [s \in Savers |-> IF s \in Ingests \/ spc[s] = "begin" THEN spc[s] ELSE "done"]
    /\ seen' = [s \in Savers |-> IF s \in Ingests THEN seen[s] ELSE <<>>]
    /\ parked' = [s \in Savers |-> <<>>]
    /\ apart' = (\E s \in Ingests : spc[s] = "persist")
    /\ UNCHANGED <<files, answer, taker, written, log, rewound>>

FinishClipboard(s) ==
    \/ Commit(s)
    \/ Persist(s) \/ PersistFails(s)
    \/ ReadRecents(s) \/ WriteRecents(s) \/ WriteRecentsFails(s)
    \/ TakeParked(s) \/ Send(s)

Wait(w) == Woken(w) \/ CtxDone(w) \/ Drain(w)

(* Every call has ended: nothing is left to do. *)
Finished ==
    /\ \A s \in Savers : spc[s] = "done"
    /\ \A w \in Waiters : wpc[w] = "ended"
    /\ UNCHANGED vars

Next ==
    \/ \E s \in Savers : FinishClipboard(s)
    \/ \E w \in Waiters : Park(w) \/ Wait(w)
    \/ Restart
    \/ Finished

(* Goroutines and processes run; a wait has a deadline, so its context ends. *)
Fairness ==
    /\ \A s \in Savers : WF_vars(FinishClipboard(s))
    /\ \A w \in Waiters : WF_vars(Wait(w))

Spec == Init /\ [][Next]_vars
FairSpec == Spec /\ Fairness
------------------------------------------------------------------------------
(* Properties. *)

TakenBy(s, w) == \E i \in DOMAIN parked[s] : parked[s][i] = w

(* The variables have their types, and only an open wait call is listed. *)
TypeOK ==
    /\ {lastPath, disk} \subseteq Paths \cup {NoPath}
    /\ recents \in Seq(Paths) /\ log \in Seq(Paths) /\ Len(recents) <= RecentsCap
    /\ waiters \in Seq(Waiters)
    /\ ch \in [Waiters -> Paths \cup {NoPath}]
    /\ wpc \in [Waiters -> WaitPCs]
    /\ answer \in [Waiters -> Paths \cup {NoPath}]
    /\ spc \in [Savers -> SaverPCs]
    /\ \A s \in Savers : seen[s] \in Seq(Paths) /\ parked[s] \in Seq(Waiters)
    /\ restarts \in 0 .. MaxRestarts
    /\ taker \in [Waiters -> SUBSET Savers]
    /\ written \subseteq Paths
    /\ apart \in BOOLEAN /\ rewound \in BOOLEAN
    /\ \A w \in Waiters : Listed(w) => wpc[w] = "parked"

(* A send of resume never waits, although it runs with no lock and the call may
   be ending: a wait call is listed once, or in the hands of one resume, and its
   channel is empty until then (waiters.go:90-98). *)
SendNeverBlocks ==
    \A w \in Waiters :
        LET holders == {s \in Savers : TakenBy(s, w)}
        IN  /\ Cardinality(holders) + (IF Listed(w) THEN 1 ELSE 0) <= 1
            /\ Listed(w) \/ holders # {} => ch[w] = NoPath

(* One resume serves a wait call, with its own path and no other, and last_path
   was written with that path before anybody was woken by it: `clipbeam wait' is
   never ahead of the file that a restarted daemon reads (concrete.go:72-80). *)
AnswersAreWritten ==
    \A w \in Waiters :
        /\ Cardinality(taker[w]) <= 1
        /\ \A p \in {ch[w], answer[w]} \ {NoPath} :
              p \in written /\ \E s \in taker[w] : p = Last(Saved[s])

(* Memory and disk agree on the last path whenever no saver is between the two,
   unless two savers ever were there at once, a write failed, or an ingest process
   changed the file behind the daemon's back; a restart loads the file. *)
LastPathSettles ==
    ~apart /\ (\A s \in Savers : spc[s] # "persist") => lastPath = disk

(* However the savers of all processes interleave, recents.json lists paths in
   the order in which they were appended; and it is the last RecentsCap of them
   unless two savers overlapped between its read and its write (recents.go:31-43). *)
RecentsInOrder ==
    /\ \A i, j \in DOMAIN recents : i < j =>
          \E m, n \in DOMAIN log : m < n /\ log[m] = recents[i] /\ log[n] = recents[j]
    /\ ~rewound =>
          /\ Len(recents) = IF Len(log) < RecentsCap THEN Len(log) ELSE RecentsCap
          /\ IsSuffix(recents, log)

(* Every FinishClipboard and every WaitForNext that has started returns: neither
   can hold up the other. *)
CallsEnd ==
    <>[] /\ \A s \in Savers : spc[s] = "done"
         /\ \A w \in Waiters : wpc[w] \in {"idle", "ended"}

(* waiters.go:81-82: "Parked WaitForNext callers are all resumed with the next
   saved path".  A call that resume has taken off the list returns a path. *)
ParkedAreResumed ==
    \A w \in Waiters : wpc[w] = "ended" /\ taker[w] # {} /\ restarts = 0 => answer[w] # NoPath
=============================================================================
