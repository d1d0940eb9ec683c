-------------------------- MODULE MCBalanceUpdates --------------------------
(* Two accounts, one of them without a row; deposits and a withdrawal.     *)
EXTENDS BalanceUpdates

CONSTANTS alice, rowless

MCAccounts == {alice, rowless}
MCWithRow  == {alice}
MCOpening  == [a \in MCAccounts |-> IF a = alice THEN 5 ELSE 0]
MCMessages == {[account |-> alice, amount |-> 1], [account |-> alice, amount |-> -2],
               [account |-> rowless, amount |-> 1]}
MCMessagesOne == {[account |-> alice, amount |-> 1]}
=============================================================================
