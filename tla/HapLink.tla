------------------------------ MODULE HapLink ------------------------------
(***************************************************************************)
(* What a HAP session promises the callers of hap_session_send on one chip *)
(* and the on_frame handler of the other: an accepted frame is delivered   *)
(* at most once, and one that is confirmed to its sender was delivered.    *)
(* A frame dropped by the sender (link dead, link reset) may still be      *)
(* delivered, and one delivered may be dropped: the sender cannot know.    *)
(***************************************************************************)
EXTENDS Naturals

CONSTANT Frame

VARIABLES accepted, delivered, confirmed, dropped

vars == <<accepted, delivered, confirmed, dropped>>

Init ==
    /\ accepted = {}
    /\ delivered = [f \in Frame |-> 0]
    /\ confirmed = {} /\ dropped = {}

InFlight == accepted \ (confirmed \cup dropped)

Accept(f) ==
    /\ f \notin accepted
    /\ accepted' = accepted \cup {f}
    /\ UNCHANGED <<delivered, confirmed, dropped>>

Deliver(f) ==
    /\ f \in accepted /\ delivered[f] = 0
    /\ delivered' = [delivered EXCEPT ![f] = 1]
    /\ UNCHANGED <<accepted, confirmed, dropped>>

Confirm(f) ==
    /\ f \in InFlight /\ delivered[f] = 1
    /\ confirmed' = confirmed \cup {f}
    /\ UNCHANGED <<accepted, delivered, dropped>>

\* One frame after its last retry, or all of them in a link reset.
Drop(D) ==
    /\ D \subseteq InFlight
    /\ dropped' = dropped \cup D
    /\ UNCHANGED <<accepted, delivered, confirmed>>

Next ==
    \/ \E f \in Frame : Accept(f) \/ Deliver(f) \/ Confirm(f)
    \/ \E D \in SUBSET InFlight : Drop(D)

Spec == Init /\ [][Next]_vars
=============================================================================
