------------------------------ MODULE MCSending ------------------------------
(* Instances of Sending for TLC. *)
EXTENDS Sending

CONSTANTS d1, d2, w1

OneWorker == [d \in Dest |-> w1]

\* The first event belongs to a room of its own.
TwoRooms == [e \in Event |-> IF e = 1 THEN 1 ELSE 2]
OneRoom == [e \in Event |-> 1]

\* Every event is for every destination; or d2 gets the first one only.
ToAll == [d \in Dest |-> Event]
FirstToLast == [d \in Dest |-> IF d = d1 THEN Event ELSE {1}]

KeepAll == -1

=============================================================================
