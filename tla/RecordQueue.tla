----------------------------- MODULE RecordQueue -----------------------------
(***************************************************************************)
(* What the agent journal promises the processes that share it, with no    *)
(* files, names, listings or renames: "a lexicographic directory sort IS   *)
(* FIFO order", with an "atomic exactly-once claim"                        *)
(* (internal/store/agentjournal.go:23-27).  Putting a record takes time,   *)
(* and another that begins before it is done has no order with it; taking  *)
(* is at once, and never passes over an older record; what one has taken,  *)
(* nobody else has, and it is printed once or lost.  AgentDelivery.tla is  *)
(* shown to implement it.                                                  *)
(*                                                                         *)
(* Records are named by time and by a counter of the process.  When two    *)
(* are given the same name, nothing more is promised.                      *)
(***************************************************************************)
EXTENDS Sequences

CONSTANTS Ingests, Frame, Callers

VARIABLES todo,      \* the items each process has still to put
          putting,   \* the processes that are putting one
          stored,    \* items that were put
          older,     \* <<a, b>>: a was put before b began to be
          waiting,   \* items put and not yet taken
          hand,      \* what each caller has taken, as a set of at most one
          printed, lost,
          void       \* two records have the same name

vars == <<todo, putting, stored, older, waiting, hand, printed, lost, void>>

Init ==
    /\ todo = Frame
    /\ putting = {} /\ stored = {} /\ older = {} /\ waiting = {}
    /\ hand = [c \in Callers |-> {}]
    /\ printed = {} /\ lost = {}
    /\ void = FALSE

Begin(p) ==
    /\ todo[p] # <<>> /\ p \notin putting
    /\ putting' = putting \cup {p}
    /\ older' = older \cup (stored \X {Head(todo[p])})
    /\ UNCHANGED <<todo, stored, waiting, hand, printed, lost, void>>

Put(p) ==
    /\ p \in putting
    /\ stored' = stored \cup {Head(todo[p])}
    /\ waiting' = waiting \cup {Head(todo[p])}
    /\ todo' = [todo EXCEPT ![p] = Tail(@)]
    /\ putting' = putting \ {p}
    /\ UNCHANGED <<older, hand, printed, lost, void>>

GiveUp(p) ==
    /\ p \in putting
    /\ todo' = [todo EXCEPT ![p] = <<>>]
    /\ putting' = putting \ {p}
    /\ UNCHANGED <<stored, older, waiting, hand, printed, lost, void>>

Take(c) ==
    /\ hand[c] = {}
    /\ \E i \in waiting :
          /\ \A j \in waiting : <<j, i>> \notin older
          /\ waiting' = waiting \ {i}
          /\ hand' = [hand EXCEPT ![c] = {i}]
    /\ UNCHANGED <<todo, putting, stored, older, printed, lost, void>>

PrintOut(c) ==
    /\ hand[c] # {} /\ hand[c] \cap (printed \cup lost) = {}
    /\ printed' = printed \cup hand[c]
    /\ hand' = [hand EXCEPT ![c] = {}]
    /\ UNCHANGED <<todo, putting, stored, older, waiting, lost, void>>

Lose(c) ==
    /\ hand[c] # {} /\ hand[c] \cap (printed \cup lost) = {}
    /\ lost' = lost \cup hand[c]
    /\ hand' = [hand EXCEPT ![c] = {}]
    /\ UNCHANGED <<todo, putting, stored, older, waiting, printed, void>>

NothingPromised == void'

Next ==
    \/ \E p \in Ingests : Begin(p) \/ Put(p) \/ GiveUp(p)
    \/ \E c \in Callers : Take(c) \/ PrintOut(c) \/ Lose(c)
    \/ NothingPromised

Spec == Init /\ [][Next]_vars
==============================================================================
