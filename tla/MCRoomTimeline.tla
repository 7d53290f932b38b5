--------------------------- MODULE MCRoomTimeline ---------------------------
(* Instances of RoomTimeline for TLC. *)
EXTENDS RoomTimeline, TLC

CONSTANTS a, b, l1, member, create

\* a comes after the root, b after a.
Chain == [e \in Remote |-> IF e = a THEN {Root} ELSE {a}]

\* a is in the state before b; it may not be found when it is asked for.
StateIds == [e \in Remote |-> IF e = b THEN {{Root}, {Root, a}} ELSE {{Root}}]

\* The other server has come as far as a when it is asked for a join.
SendJoins == {[prevs |-> {a}, state |-> {Root, a}]}

\* The root is the create event; a invites the user whom l1 joins.
Slots == [e \in Event |-> CASE e = Root -> create
                            [] e \in {a, l1} -> member
                            [] OTHER -> NoSlot]

Symmetric == Permutations(Task)

=============================================================================
