---------------------------- MODULE MCDailyPush ----------------------------
(* Small instances of DailyPush. *)
EXTENDS DailyPush, TLC
=============================================================================
