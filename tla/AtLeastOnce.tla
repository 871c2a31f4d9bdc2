---------------------------- MODULE AtLeastOnce ----------------------------
(***************************************************************************)
(* What the outbox promises to the consumers of its events: an event that  *)
(* was sent is delivered before it is retired, and is retired in the end.  *)
(* It may be delivered more than once, even after it was retired.          *)
(***************************************************************************)
CONSTANT Events

VARIABLES
    sent,       \* events handed to the outbox
    received,   \* events that reached the consumers at least once
    retired     \* events that will not be sent again on purpose

vars == <<sent, received, retired>>

Init == sent = {} /\ received = {} /\ retired = {}

Send(e) ==
    /\ sent' = sent \cup {e}
    /\ UNCHANGED <<received, retired>>

Deliver(e) ==
    /\ e \in sent
    /\ received' = received \cup {e}
    /\ UNCHANGED <<sent, retired>>

Retire(e) ==
    /\ e \in received
    /\ retired' = retired \cup {e}
    /\ UNCHANGED <<sent, received>>

Next == \E e \in Events : Send(e) \/ Deliver(e) \/ Retire(e)

Spec == Init /\ [][Next]_vars

FairSpec ==
    /\ Spec
    /\ \A e \in Events : WF_vars(Deliver(e)) /\ WF_vars(Retire(e))
=============================================================================
