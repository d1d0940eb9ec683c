----------------------------- MODULE MCPayments -----------------------------
(* Two payments of users with and without a balance row, which covers one *)
(* withdrawal.                                                             *)
EXTENDS Payments

CONSTANTS alice, bob, usd

MCWithRow  == {<<alice, usd>>}
MCOpening  == [a \in Accounts |-> IF a \in MCWithRow THEN 20 ELSE 0]
MCAmounts  == {-15, 0}
=============================================================================
