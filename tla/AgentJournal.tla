----------------------------- MODULE AgentJournal -----------------------------
(***************************************************************************)
(* The agent channel's journal on disk (internal/store/agentjournal.go):   *)
(* `clipbeam ingest' processes write one record file per item, named by    *)
(* time and a counter; `clipbeam recv' processes claim the oldest record   *)
(* by renaming it and print its item.  The processes share nothing but the *)
(* directory.  One action is one file operation.                           *)
(*                                                                         *)
(* Time is `clock'.  It never goes back, and it moves on while a record is *)
(* written (an fsync and a rename): names drawn by two processes between   *)
(* the same two writes carry the same time.                                *)
(***************************************************************************)
EXTENDS Naturals, Sequences, FiniteSets, Functions, SequencesExt

CONSTANTS Ingests,  \* ingest processes
          Frame,    \* the items each of them journals, in order
          Callers,  \* each makes one recv call after another
          Items,    \* agent items
          NoItem, NoName

ASSUME JournalAssumption ==
    /\ Frame \in [Ingests -> Seq(Items)]
    \* an item is one payload of one process, whatever its contents
    /\ \A p, q \in Ingests : \A i \in DOMAIN Frame[p], j \in DOMAIN Frame[q] :
          Frame[p][i] = Frame[q][j] => p = q /\ i = j
    /\ NoItem \notin Items
    /\ NoName \notin Nat \X Nat

VARIABLES journal,  \* the record files: a function from names to items
          taken,    \* the .taken- files: likewise
          clock,    \* time.Now().UnixNano()
          left,     \* the items each ingest process has still to journal
          seqno,    \* journalSeq of each ingest process
          drawn,    \* the name each has built for its next record
          rpc,      \* where each caller's recv stands
          listing,  \* the names it has listed and not yet tried
          mine,     \* the name it has claimed
          got,      \* the item it is about to print
          accepted, \* history: items that are saved
          emitted,  \* history: how often each item was printed
          lost,     \* history: items dropped with a caller, a record or the daemon
          claims,   \* history: items claimed, in order
          older,    \* history: <<a, b>> if a was saved before b's name was drawn
          collided  \* history: a name was drawn twice

dir == <<journal, taken, clock>>
ingests == <<left, seqno, drawn>>
callers == <<rpc, listing, mine, got>>
history == <<accepted, emitted, lost, claims, older, collided>>
journalVars == <<dir, ingests, callers, history>>

JournalInit ==
    /\ journal = <<>> /\ taken = <<>> /\ clock = 1
    /\ left = Frame
    /\ seqno = [p \in Ingests |-> 0]
    /\ drawn = [p \in Ingests |-> NoName]
    /\ rpc = [c \in Callers |-> "idle"]
    /\ listing = [c \in Callers |-> <<>>]
    /\ mine = [c \in Callers |-> NoName]
    /\ got = [c \in Callers |-> NoItem]
    /\ accepted = {} /\ lost = {} /\ claims = <<>> /\ older = {}
    /\ emitted = [i \in Items |-> 0]
    /\ collided = FALSE

Without(f, n) == Restrict(f, DOMAIN f \ {n})
With(f, n, i) == [m \in DOMAIN f \cup {n} |-> IF m = n THEN i ELSE f[m]]

------------------------------------------------------------------------------
(* writeAgentJournal: name the record ... *)
Draw(p) ==
    LET name == <<clock, seqno[p] + 1>>
    IN  /\ left[p] # <<>>
        /\ drawn[p] = NoName
        /\ seqno' = [seqno EXCEPT ![p] = @ + 1]
        /\ drawn' = [drawn EXCEPT ![p] = name]
        /\ older' = older \cup (accepted \X {Head(left[p])})
        /\ collided' = (collided \/ \E q \in Ingests : drawn[q] = name)
        /\ UNCHANGED <<dir, left, callers, accepted, emitted, lost, claims>>

(* ... and write it: a temp file renamed over whatever has that name. *)
Write(p) ==
    /\ drawn[p] # NoName
    /\ journal' = With(journal, drawn[p], Head(left[p]))
    /\ clock' = clock + 1
    /\ accepted' = accepted \cup {Head(left[p])}
    /\ lost' = lost \cup (IF drawn[p] \in DOMAIN journal THEN {journal[drawn[p]]} ELSE {})
    /\ left' = [left EXCEPT ![p] = Tail(@)]
    /\ drawn' = [drawn EXCEPT ![p] = NoName]
    /\ UNCHANGED <<taken, seqno, callers, emitted, claims, older, collided>>

(* The write fails, or the process is killed: nothing more is journaled. *)
Abort(p) ==
    /\ drawn[p] # NoName
    /\ left' = [left EXCEPT ![p] = <<>>]
    /\ drawn' = [drawn EXCEPT ![p] = NoName]
    /\ UNCHANGED <<dir, seqno, callers, history>>
------------------------------------------------------------------------------
(***************************************************************************)
(* DrainAgentDisk, as called by a recv that found no daemon.               *)
(***************************************************************************)
LargerName(m, n) ==  \* mutant: the newest record first
    m[1] > n[1] \/ (m[1] = n[1] /\ m[2] > n[2])
SmallerName(m, n) == m[1] < n[1] \/ (m[1] = n[1] /\ m[2] < n[2])
SortedNames ==
    CHOOSE s \in [1 .. Cardinality(DOMAIN journal) -> DOMAIN journal] :
        \A i, j \in DOMAIN s : i < j => SmallerName(s[i], s[j])

(* List the records; with none there is nothing to return. *)
List(c) ==
    /\ rpc[c] \in {"list", "relist"}
    /\ listing' = [listing EXCEPT ![c] = SortedNames]
    /\ rpc' = [rpc EXCEPT ![c] = IF SortedNames = <<>> THEN "idle" ELSE "claim"]
    /\ UNCHANGED <<dir, ingests, mine, got, history>>

(* The context of the call (10 s) has ended; it is looked at before a listing. *)
Expire(c) ==
    /\ rpc[c] = "relist"
    /\ rpc' = [rpc EXCEPT ![c] = "idle"]
    /\ UNCHANGED <<dir, ingests, listing, mine, got, history>>

(* After a record that cannot be had, the next one of the listing is tried;
   after the last, the directory is listed again. *)
SameAgain(names) == names  \* mutant: the loser stays at the name it lost
Following(names) == Tail(names)
Onward(c) == IF Following(listing[c]) = <<>> THEN "relist" ELSE "claim"

(* os.Rename succeeds: the record is claimed. *)
StillListed(n) == journal  \* mutant: the record is linked, not renamed
Unlisted(n) == Without(journal, n)

Claim(c) ==
    LET n == Head(listing[c])
    IN  /\ rpc[c] = "claim"
        /\ n \in DOMAIN journal
        /\ journal' = Unlisted(n)
        /\ taken' = With(taken, n, journal[n])
        /\ claims' = Append(claims, journal[n])
        /\ mine' = [mine EXCEPT ![c] = n]
        /\ rpc' = [rpc EXCEPT ![c] = "read"]
        /\ UNCHANGED <<clock, ingests, listing, got,
                       accepted, emitted, lost, older, collided>>

(* os.Rename fails: the record is gone. *)
LoseClaim(c) ==
    /\ rpc[c] = "claim"
    /\ Head(listing[c]) \notin DOMAIN journal
    /\ listing' = [listing EXCEPT ![c] = Following(@)]
    /\ rpc' = [rpc EXCEPT ![c] = Onward(c)]
    /\ UNCHANGED <<dir, ingests, mine, got, history>>

(* Read the claimed record. *)
Read(c) ==
    /\ rpc[c] = "read"
    /\ mine[c] \in DOMAIN taken
    /\ got' = [got EXCEPT ![c] = taken[mine[c]]]
    /\ listing' = [listing EXCEPT ![c] = <<>>]
    /\ rpc' = [rpc EXCEPT ![c] = "remove"]
    /\ UNCHANGED <<dir, ingests, mine, history>>

(* os.ReadFile fails: the record is dropped, and the drainer goes on ... *)
Drop(c) ==
    /\ rpc[c] = "read"
    /\ lost' = lost \cup {taken[n] : n \in {mine[c]} \cap DOMAIN taken}
    /\ taken' = Without(taken, mine[c])
    /\ mine' = [mine EXCEPT ![c] = NoName]
    /\ listing' = [listing EXCEPT ![c] = Following(@)]
    /\ rpc' = [rpc EXCEPT ![c] = Onward(c)]
    /\ UNCHANGED <<journal, clock, ingests, got,
                   accepted, emitted, claims, older, collided>>

(* ... because another drainer has removed a .taken- file of the same name, ... *)
Vanished(c) == mine[c] \notin DOMAIN taken /\ Drop(c)

(* ... or because of an I/O error or a damaged record. *)
Unreadable(c) == mine[c] \in DOMAIN taken /\ Drop(c)

RemoveClaimed(c) ==
    /\ rpc[c] = "remove"
    /\ taken' = Without(taken, mine[c])
    /\ mine' = [mine EXCEPT ![c] = NoName]
    /\ rpc' = [rpc EXCEPT ![c] = "print"]
    /\ UNCHANGED <<journal, clock, ingests, listing, got, history>>

(* recv prints the item and exits. *)
Emit(c) ==
    /\ rpc[c] = "print"
    /\ emitted' = [emitted EXCEPT ![got[c]] = @ + 1]
    /\ got' = [got EXCEPT ![c] = NoItem]
    /\ rpc' = [rpc EXCEPT ![c] = "idle"]
    /\ UNCHANGED <<dir, ingests, listing, mine, accepted, lost, claims, older, collided>>

(* What a caller has in its hands: a claimed record or an item to print. *)
Holds(c) ==
    CASE rpc[c] = "read"               -> {taken[n] : n \in {mine[c]} \cap DOMAIN taken}
      [] rpc[c] \in {"remove", "print"} -> {got[c]}
      [] OTHER                         -> {}

(* The recv process is killed, and what it had claimed goes with it: no
   drainer looks at a .taken- file again. *)
Kill(c) ==
    /\ rpc[c] \in {"read", "remove", "print"}
    /\ lost' = lost \cup Holds(c)
    /\ got' = [got EXCEPT ![c] = NoItem]
    /\ mine' = [mine EXCEPT ![c] = NoName]
    /\ listing' = [listing EXCEPT ![c] = <<>>]
    /\ rpc' = [rpc EXCEPT ![c] = "idle"]
    /\ UNCHANGED <<dir, ingests, accepted, emitted, claims, older, collided>>

Ingest(p) == Draw(p) \/ Write(p)
Drain(c) ==
    \/ List(c) \/ Claim(c) \/ LoseClaim(c)
    \/ Read(c) \/ Vanished(c) \/ RemoveClaimed(c) \/ Emit(c)
=============================================================================
