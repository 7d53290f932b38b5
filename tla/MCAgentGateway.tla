--------------------------- MODULE MCAgentGateway ---------------------------
(* Instances of AgentGateway for TLC. *)
EXTENDS AgentGateway, TLC

CONSTANT x

SameTool == [c \in Call |-> x]

\* Grants of the one tool x: reviewed, automatic, limited in rate.
GrantOf(scope, action, limit) ==
    [scope |-> scope, action |-> (x :> action), limit |-> (x :> limit)]

Reviewed  == GrantOf(TRUE, "review", NoLimit)
Automatic == GrantOf(TRUE, "auto", NoLimit)
Limited   == GrantOf(TRUE, "auto", [max |-> 1, window_secs |-> 2])

Symmetric == Permutations(Task)

\* Concurrent requests and operators, over what the policy may say
Busy == [serial |-> FALSE, grants |-> {Reviewed, Automatic}, explicit |-> {1},
         unreadable |-> TRUE, maxUses |-> 2, maxVersion |-> 1, maxTime |-> 0]

\* One request after the other, for as long as a window and a half
Quiet == [serial |-> TRUE, grants |-> {Limited}, explicit |-> {},
          unreadable |-> FALSE, maxUses |-> 2, maxVersion |-> 2, maxTime |-> 2]

\* One request after the other, with a window of no length
Instant == [Quiet EXCEPT !.grants = {GrantOf(TRUE, "auto", [max |-> 1, window_secs |-> 0])},
                         !.maxVersion = 1, !.maxTime = 1]

\* Concurrent requests for calls that need approval
Review == [serial |-> FALSE, grants |-> {Reviewed}, explicit |-> {},
           unreadable |-> FALSE, maxUses |-> 1, maxVersion |-> 1, maxTime |-> 0]

BusyOrQuiet == {Busy, Quiet, Instant}
OnlyReview  == {Review}

=============================================================================
