------------------------------ MODULE MCAccess ------------------------------
(* Two users, the second with the uuid of the first for an e-mail; a       *)
(* spelling of an e-mail that nobody is stored with; and the audience of   *)
(* user tokens among the services a client can ask for.                    *)
EXTENDS Access

CONSTANTS alice, bob, alice_at, spelling, empty

MCUsers    == {alice, bob}
MCEmails   == {alice_at, alice, spelling, empty}
MCEmailOf  == [u \in MCUsers |-> IF u = alice THEN alice_at ELSE alice]
MCServices == {"transactions", "client"}
=============================================================================
