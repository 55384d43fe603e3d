------------------------------- MODULE Directory -------------------------------
(***************************************************************************)
(* What saveStream promises of a directory that many processes save into   *)
(* (internal/store/concrete.go:150-155, 172-190, 208-212), with no lock,   *)
(* probe or retry: a save claims one name that it wants and that is free,  *)
(* at once; fills it, or gives it back; and meanwhile nobody touches it.   *)
(* Files of other programs appear where nothing is, and stay.              *)
(* SavePipeline.tla is shown to implement it.                              *)
(*                                                                         *)
(* The promise has one gap, which is part of it: a save may stray, and go  *)
(* on under a name that it has not claimed.  Whoever does, the others can  *)
(* no longer be sure of what they hold.                                    *)
(***************************************************************************)
CONSTANTS Savers,
          Names,
          Wanted,     \* the names that each save may take
          Absent, Empty, Foreign

VARIABLES under,      \* what is under each name; a save stands for its payload
          holds,      \* the name that a save has in hand, as a set of at most one
          over,       \* saves that have ended
          gone,       \* saves that were killed
          astray      \* saves that went on without a claim

vars == <<under, holds, over, gone, astray>>

Init ==
    /\ under \in [Names -> {Absent, Foreign}]
    /\ holds = [s \in Savers |-> {}]
    /\ over = {} /\ gone = {} /\ astray = {}

Fresh(s) == holds[s] = {} /\ s \notin over \cup gone
Own(n) == under[n] = Empty \/ astray # {}

Claim(s) ==
    /\ Fresh(s)
    /\ \E n \in Wanted[s] :
          /\ under[n] = Absent
          /\ under' = [under EXCEPT ![n] = Empty]
          /\ holds' = [holds EXCEPT ![s] = {n}]
    /\ UNCHANGED <<over, gone, astray>>

Stray(s) ==
    /\ Fresh(s)
    /\ \E n \in Wanted[s] :
          /\ under[n] # Absent
          /\ holds' = [holds EXCEPT ![s] = {n}]
    /\ astray' = astray \cup {s}
    /\ UNCHANGED <<under, over, gone>>

End(s, n, x) ==
    /\ n \in holds[s] /\ Own(n)
    /\ under' = [under EXCEPT ![n] = x]
    /\ holds' = [holds EXCEPT ![s] = {}]
    /\ over' = over \cup {s}
    /\ UNCHANGED <<gone, astray>>

Fill(s) == \E n \in Names : End(s, n, s)
GiveBack(s) == \E n \in Names : End(s, n, Absent)

(* Saves are killed together, with their process; what they claimed stays. *)
Die(dead) ==
    /\ dead \cap (over \cup gone) = {}
    /\ gone' = gone \cup dead
    /\ holds' = [s \in Savers |-> IF s \in dead THEN {} ELSE holds[s]]
    /\ UNCHANGED <<under, over, astray>>

Create(n) ==
    /\ under[n] = Absent
    /\ under' = [under EXCEPT ![n] = Foreign]
    /\ UNCHANGED <<holds, over, gone, astray>>

Next ==
    \/ \E s \in Savers : Claim(s) \/ Stray(s) \/ Fill(s) \/ GiveBack(s)
    \/ \E dead \in SUBSET Savers : Die(dead)
    \/ \E n \in Names : Create(n)

Spec == Init /\ [][Next]_vars
================================================================================
