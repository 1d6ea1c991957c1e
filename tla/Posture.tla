------------------------------- MODULE Posture -------------------------------
(***************************************************************************)
(* The daemon's stop-time decision table (native/warrend/src/posture.rs):  *)
(* what every stop path does with the network block that is installed.     *)
(***************************************************************************)

StopTrigger == {"UserDisconnect", "DaemonShutdown", "OwnerConnectionLost"}

StopAction == {"RestoreNetwork", "HoldBlock"}

(* A table that reads a lost owner as a wish to disconnect. *)
stop_action_opens_on_lost_owner(trigger, lockdown) ==
    IF lockdown THEN "HoldBlock" ELSE "RestoreNetwork"

(* The single decision table. *)
stop_action(trigger, lockdown) ==
    IF trigger # "OwnerConnectionLost" /\ ~lockdown
    THEN "RestoreNetwork"
    ELSE "HoldBlock"

=============================================================================
