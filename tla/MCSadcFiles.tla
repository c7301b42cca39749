----------------------------- MODULE MCSadcFiles ----------------------------
(***************************************************************************)
(* Instances of SadcFiles for TLC: three locking processes that meet at    *)
(* the change of the day, two that both stay over it, and sar with its     *)
(* sadc.                                                                   *)
(***************************************************************************)
EXTENDS SadcFiles

ThreeCrews == {<<"hourly", "cron", "boot">>, <<"hourly", "hourly", "none">>,
               <<"hourly", "note", "none">>, <<"note", "boot", "cron">>,
               <<"report", "none", "none">>}

=============================================================================
