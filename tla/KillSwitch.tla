------------------------------ MODULE KillSwitch -----------------------------
(***************************************************************************)
(* What the kill switch promises, whatever process lives or dies: the      *)
(* posture of the host and who may open it.  The daemon, with its tables,  *)
(* handlers and crashes, implements it (module Warrend).                   *)
(***************************************************************************)
VARIABLES
    posture,    \* "open", "blocked", or "tunnelled": a session is in force
                \* and the host is blocked off its tunnel
    lockdown,   \* lockdown mode is configured
    release     \* who asks for the network back: "none", "owner", "operator"

vars == <<posture, lockdown, release>>

Init ==
    /\ posture = "open"
    /\ lockdown = FALSE
    /\ release = "none"

(* The host may be blocked at any time, a lost session included. *)
Block == posture' = "blocked"

(* A session comes into force on a host that is already blocked. *)
Establish ==
    /\ posture = "blocked"
    /\ posture' = "tunnelled"

(* The owner's wish opens the host unless lockdown is on, the operator's   *)
(* always does.                                                            *)
Open ==
    /\ release = "operator" \/ (release = "owner" /\ ~lockdown)
    /\ posture' = "open"

(* Wishes and the mode change at will, also together with the posture. *)
Wishes ==
    /\ lockdown' \in BOOLEAN
    /\ release' \in {"none", "owner", "operator"}

Next == Wishes /\ (Block \/ Establish \/ Open \/ UNCHANGED posture)

Spec == Init /\ [][Next]_vars

=============================================================================
