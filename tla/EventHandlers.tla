--------------------------- MODULE EventHandlers ---------------------------
(***************************************************************************)
(* Which handler of a service takes an outbox event, and what it publishes *)
(* (app/users/events, app/transactions/events, app/outbox).                *)
(*                                                                         *)
(* A handler is a record: the kinds of event its supports() accepts, and   *)
(* for the kinds its handle() sends to Kafka, the topic it sends them to.  *)
(* A USER_STATUS_CHANGED event is two kinds here, by its new status,       *)
(* because only a blocking is published.                                   *)
(***************************************************************************)
EXTENDS Naturals, Sequences

UserStatusChanged == {"USER_BLOCKED", "USER_UNBLOCKED"}

Kinds == {"USER_CREATED", "TRANSACTION_CREATED", "TRANSACTION_ROLLBACKED",
          "BALANCE_UPDATED"} \cup UserStatusChanged

UserEventHandler ==
    [supports |-> {"USER_CREATED", "BALANCE_UPDATED"} \cup UserStatusChanged,
     topic    |-> [k \in {"USER_CREATED", "USER_BLOCKED"} |->
                      IF k = "USER_CREATED" THEN "user.created" ELSE "user.blocked"]]

BalanceEventHandler ==
    [supports |-> {"BALANCE_UPDATED"},
     topic    |-> [k \in {"BALANCE_UPDATED"} |-> "balance.updated"]]

\* It only writes a log line: its events reach no topic.
TransactionEventHandler ==
    [supports |-> {"TRANSACTION_CREATED", "TRANSACTION_ROLLBACKED"},
     topic    |-> [k \in {} |-> "balance.updated"]]

UsersHandlers        == <<UserEventHandler, BalanceEventHandler>>
TransactionsHandlers == <<TransactionEventHandler, BalanceEventHandler>>

Supporting(handlers, kind) == {i \in DOMAIN handlers : kind \in handlers[i].supports}

\* _find_handler: the first of the registered handlers that supports the kind.
FindHandler(handlers, kind) ==
    handlers[CHOOSE i \in Supporting(handlers, kind) :
                \A j \in Supporting(handlers, kind) : i <= j]

\* The topics an event of this kind is sent to: none or one.
TopicsOf(handlers, kind) ==
    IF Supporting(handlers, kind) = {}
        THEN {}
        ELSE LET h == FindHandler(handlers, kind)
             IN  {h.topic[k] : k \in DOMAIN h.topic \cap {kind}}
=============================================================================
