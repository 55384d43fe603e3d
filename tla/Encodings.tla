------------------------------- MODULE Encodings -------------------------------
(***************************************************************************)
(* What is read from a body, a name or an answer: the three algorithms,    *)
(* each at work on its own.                                                *)
(***************************************************************************)
EXTENDS JsonValues, Names, RecvBody

CONSTANT Works   \* the value, the items and the delivery of each initial state

ASSUME WorksAssumption ==
    \A w \in Works : Readable(w.value) /\ Offerable(w.offered) /\ Deliverable(w.item)

encVars == <<jsonVars, namesVars, recvVars>>

EncInit == \E w \in Works : JsonInit(w.value) /\ NamesInit(w.offered) /\ RecvInit(w.item)

EncNext ==
    \/ ParseJson /\ UNCHANGED <<namesVars, recvVars>>
    \/ SaveNext /\ UNCHANGED <<jsonVars, recvVars>>
    \/ ParseLine /\ UNCHANGED <<jsonVars, namesVars>>

EncSpec == EncInit /\ [][EncNext]_encVars
================================================================================
