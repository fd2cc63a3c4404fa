------------------------------ MODULE Mailbox ------------------------------
(***************************************************************************)
(* What a recipient may rely on: a message that was posted for it is        *)
(* received sooner or later, unless it fell among those at risk.  It may    *)
(* be received again, and one at risk may be received, too.                *)
(***************************************************************************)
CONSTANT Ids        \* message ids

VARIABLES
  posted,     \* the messages in the table
  received,   \* the messages the recipient has got
  atRisk      \* the messages it may never get

vars == <<posted, received, atRisk>>

Init == posted = {} /\ received = {} /\ atRisk = {}

Post(m) ==
  /\ m \notin posted
  /\ posted' = posted \cup {m}
  /\ atRisk' \in {atRisk, atRisk \cup {m}}
  /\ UNCHANGED received

Receive(ms) ==
  /\ ms \subseteq posted
  /\ received' = received \cup ms
  /\ UNCHANGED <<posted, atRisk>>

Risk(ms) ==
  /\ ms \subseteq posted \ received
  /\ atRisk' = atRisk \cup ms
  /\ UNCHANGED <<posted, received>>

Next ==
  \/ \E m \in Ids : Post(m)
  \/ \E ms \in SUBSET Ids : Receive(ms) \/ Risk(ms)

Delivery == \A m \in Ids : m \in posted ~> m \in received \cup atRisk

Safe == Init /\ [][Next]_vars

Spec == Safe /\ Delivery
=============================================================================
