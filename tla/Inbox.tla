-------------------------------- MODULE Inbox --------------------------------
(***************************************************************************)
(* What the agent inbox promises its users, with no channel, lock or list  *)
(* of waiters: items are taken in the order they were put, each by one     *)
(* call; a call that finds nothing waits; a waiting call is served an item *)
(* or gives up with nothing.  The promise is the comment at                *)
(* store/waiters.go:10-14; AgentInbox.tla is shown to implement it.        *)
(***************************************************************************)
EXTENDS Naturals, Sequences

CONSTANTS Callers,   \* the recv calls that may be open at once
          Items,     \* agent items
          Batches,   \* the sequences of items one put may bring
          NoItem     \* the answer of a call that gave up

VARIABLES pending,   \* items put and not yet given to a call, oldest first
          call,      \* the state of each caller's current call
          answer     \* what an answered call holds

vars == <<pending, call, answer>>

Waiting == {c \in Callers : call[c] = "waiting"}

Init ==
    /\ pending = <<>>
    /\ call = [c \in Callers |-> "idle"]
    /\ answer = [c \in Callers |-> NoItem]

(***************************************************************************)
(* Items arrive and go to distinct waiting calls, one each, the oldest     *)
(* item first, until the items or the waiting calls run out.  Which of the *)
(* waiting calls are served, when there are too many, is not promised.     *)
(***************************************************************************)
Serve(batch, served) ==
    LET full     == pending \o batch
        Turn(c)  == {i \in DOMAIN served : served[i] = c}
    IN  /\ \A c \in Waiting : \A i, j \in Turn(c) : i = j
        /\ \/ Len(served) = Len(full)
           \/ \A c \in Waiting : Turn(c) # {}
        /\ pending' = SubSeq(full, Len(served) + 1, Len(full))
        /\ answer' = [c \in Callers |-> IF Turn(c) = {} THEN answer[c]
                                        ELSE full[CHOOSE i \in Turn(c) : TRUE]]
        /\ call' = [c \in Callers |-> IF Turn(c) = {} THEN call[c] ELSE "answered"]

Put ==
    \E batch \in Batches : \E n \in 0 .. Len(pending \o batch) :
        \E served \in [1 .. n -> Waiting] : Serve(batch, served)

(* A call takes the oldest item. *)
Take(c) ==
    /\ call[c] = "idle"
    /\ pending # <<>>
    /\ call' = [call EXCEPT ![c] = "answered"]
    /\ answer' = [answer EXCEPT ![c] = Head(pending)]
    /\ pending' = Tail(pending)

(* A call that finds nothing waits. *)
Wait(c) ==
    /\ call[c] = "idle"
    /\ pending = <<>>
    /\ call' = [call EXCEPT ![c] = "waiting"]
    /\ UNCHANGED <<pending, answer>>

(* A waiting call gives up; it takes nothing with it. *)
GiveUp(c) ==
    /\ call[c] = "waiting"
    /\ call' = [call EXCEPT ![c] = "answered"]
    /\ UNCHANGED <<pending, answer>>

(* The call returns its answer. *)
Return(c) ==
    /\ call[c] = "answered"
    /\ call' = [call EXCEPT ![c] = "idle"]
    /\ answer' = [answer EXCEPT ![c] = NoItem]
    /\ UNCHANGED pending

Next ==
    \/ Put
    \/ \E c \in Callers : Take(c) \/ Wait(c) \/ GiveUp(c) \/ Return(c)

Spec == Init /\ [][Next]_vars
=============================================================================
