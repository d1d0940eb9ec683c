--------------------------- MODULE MCTransactions ---------------------------
(* Two users, the second without a balance row; deposits and withdrawals,  *)
(* among them amounts that are not whole cents.                            *)
EXTENDS Transactions, TLC

CONSTANTS alice, bob, usd

MCWithRow  == {<<alice, usd>>}
MCOpening  == [a \in Accounts |-> IF a \in MCWithRow THEN 20 ELSE 0]
MCAmounts  == {-15, 0, 14, 16, 30}
MCWithdrawals == {-15}
MCDeposits == {30}
MCSymmetry == Permutations(Ids)
=============================================================================
