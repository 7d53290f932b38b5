-------------------------------- MODULE Outbox --------------------------------
(***************************************************************************)
(* What the sending service promises its clients: an event accepted for a  *)
(* destination stays pending until it was delivered, or until the server   *)
(* gives it up on purpose (its pusher or appservice was removed, or the    *)
(* startup limit was exceeded).  Delivery may be repeated.  A crash undoes *)
(* the acceptance of events that were not safe yet, and nothing else.      *)
(***************************************************************************)
EXTENDS Integers

CONSTANTS Dest, Event

VARIABLES
    accepted,  \* [Dest -> SUBSET Event]  events handed over for delivery
    delivered, \* [Dest -> SUBSET Event]  events delivered at least once
    forfeited, \* [Dest -> SUBSET Event]  events given up
    pending,   \* [Dest -> SUBSET Event]  events still to be delivered
    safe       \* [Dest -> SUBSET Event]  events that a crash cannot undo

vars == <<accepted, delivered, forfeited, pending, safe>>

Init ==
    /\ accepted = [d \in Dest |-> {}]
    /\ delivered = [d \in Dest |-> {}]
    /\ forfeited = [d \in Dest |-> {}]
    /\ pending = [d \in Dest |-> {}]
    /\ safe = [d \in Dest |-> {}]

Accept(d, e) ==
    /\ e \notin accepted[d]
    /\ accepted' = [accepted EXCEPT ![d] = @ \cup {e}]
    /\ pending' = [pending EXCEPT ![d] = @ \cup {e}]
    /\ UNCHANGED <<delivered, forfeited, safe>>

Deliver(d, events) ==
    /\ events \subseteq accepted[d]
    /\ delivered' = [delivered EXCEPT ![d] = @ \cup events]
    /\ pending' = [pending EXCEPT ![d] = @ \ events]
    /\ UNCHANGED <<accepted, forfeited, safe>>

\* Several destinations may lose events in one step.
Forfeit(lost) ==
    /\ \A d \in Dest : lost[d] \subseteq accepted[d]
    /\ forfeited' = [d \in Dest |-> forfeited[d] \cup lost[d]]
    /\ pending' = [d \in Dest |-> pending[d] \ lost[d]]
    /\ UNCHANGED <<accepted, delivered, safe>>

\* What was accepted becomes safe.
Settle ==
    /\ safe' = accepted
    /\ UNCHANGED <<accepted, delivered, forfeited, pending>>

\* What is not safe is as if it had never been accepted.
Undo ==
    /\ accepted' = safe
    /\ delivered' = [d \in Dest |-> delivered[d] \cap safe[d]]
    /\ forfeited' = [d \in Dest |-> forfeited[d] \cap safe[d]]
    /\ pending' = [d \in Dest |-> pending[d] \cap safe[d]]
    /\ UNCHANGED safe

Next ==
    \/ \E d \in Dest : \/ \E e \in Event : Accept(d, e)
                       \/ \E events \in SUBSET Event : Deliver(d, events)
    \/ \E lost \in [Dest -> SUBSET Event] : Forfeit(lost)
    \/ Settle
    \/ Undo

Spec == Init /\ [][Next]_vars

=============================================================================
