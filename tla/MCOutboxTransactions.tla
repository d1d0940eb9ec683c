------------------------ MODULE MCOutboxTransactions ------------------------
(* The outbox of the transaction service: a creation stores two events     *)
(* with the same created_at, and several processes work on the table.      *)
EXTENDS Outbox

CONSTANTS created1, balance1

MCEvents    == {created1, balance1}
MCCreatedAt == [e \in MCEvents |-> 1]
MCKind      == [e \in MCEvents |-> IF e = created1 THEN "TRANSACTION_CREATED"
                                                   ELSE "BALANCE_UPDATED"]
=============================================================================
