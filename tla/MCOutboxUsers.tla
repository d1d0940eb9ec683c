--------------------------- MODULE MCOutboxUsers ---------------------------
(* The outbox of the user service: one process, producer started first.    *)
EXTENDS Outbox

CONSTANTS created, blocked, unblocked

MCEvents    == {created, blocked, unblocked}
MCCreatedAt == [e \in MCEvents |-> IF e = created THEN 1 ELSE IF e = blocked THEN 2 ELSE 3]
MCKind      == [e \in MCEvents |-> CASE e = created -> "USER_CREATED"
                                     [] e = blocked -> "USER_BLOCKED"
                                     [] OTHER       -> "USER_UNBLOCKED"]
=============================================================================
