---------------------------- MODULE MCAnalytics ----------------------------
(* Three users with eight transactions on the first and the last days of   *)
(* two weeks, before them and after midnight; pages of two rows.           *)
EXTENDS Analytics

MCRows   == 1 .. 8
MCUserOf == <<1, 2, 2, 2, 3, 1, 2, 1>>
\* The task starts on day 20: the weeks are 14 .. 20 and 7 .. 13.
MCDay    == <<14, 20, 19, 20, 20, 13, 7, 21>>
=============================================================================
