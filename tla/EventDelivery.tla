--------------------------- MODULE EventDelivery ---------------------------
(***************************************************************************)
(* What the transactional outbox promises the code that writes to it:      *)
(* at-least-once publication.  An event that was stored with its business  *)
(* transaction can be delivered any number of times, and it is settled -   *)
(* never looked at again - only after it was delivered, unless no handler  *)
(* publishes it.                                                           *)
(***************************************************************************)
CONSTANTS
    Events,         \* the events the services write
    MustPublish     \* those among them whose handler sends to Kafka

VARIABLES
    stored,         \* events whose writing transaction committed
    delivered,      \* events a Kafka topic holds at least once
    settled         \* events marked as processed

vars == <<stored, delivered, settled>>

Init == stored = {} /\ delivered = {} /\ settled = {}

Store == \E S \in SUBSET (Events \ stored) :
            /\ stored' = stored \cup S
            /\ UNCHANGED <<delivered, settled>>

Deliver == \E e \in stored \cap MustPublish :
            /\ delivered' = delivered \cup {e}
            /\ UNCHANGED <<stored, settled>>

Settle == \E S \in SUBSET stored :
            /\ S \cap MustPublish \subseteq delivered
            /\ settled' = settled \cup S
            /\ UNCHANGED <<stored, delivered>>

Next == Store \/ Deliver \/ Settle

Spec == Init /\ [][Next]_vars
=============================================================================
