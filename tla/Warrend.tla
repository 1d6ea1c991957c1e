------------------------------- MODULE Warrend -------------------------------
(***************************************************************************)
(* The privileged daemon (native/warrend/src/main.rs) and the host network *)
(* it guards: one process that serves one owner connection, the shutdown   *)
(* task that races it, the `warrend revert` command, and crashes.          *)
(*                                                                         *)
(* The owner task handles one request at a time, but it is asynchronous:   *)
(* every await is a point where the shutdown task or another process runs, *)
(* so each command of a handler is a step of its own.  hpc is the owner    *)
(* task's place in its handler:                                            *)
(*                                                                         *)
(*   none        no owner yet          idle       waiting for a request    *)
(*   detect      a dead session's rules installed?                         *)
(*   guard       connecting guard      prior      drop the prior session   *)
(*   clearStale  clear the dead session's rules                            *)
(*   dialing     bring_up in flight    installed  its rules are installed  *)
(*   unguard     drop the guard        failed     clean up a failed dial   *)
(*   block       lockdown block before the teardown                        *)
(*   drop        drop the session      sweep      clear leftover rules     *)
(*   revert      revert_network runs   reply      send the answer          *)
(*   ended       the connection is over, the process about to exit         *)
(***************************************************************************)
EXTENDS Netblock, Posture

CONSTANT LockdownRequests    \* what owners ask for: lockdown on, off, or both

ASSUME LockdownRequestsAssumption == LockdownRequests \subseteq BOOLEAN

VARIABLES
    daemon,      \* "down", "starting" (before the bind) or "serving"
    hpc,         \* the owner task's place
    tunnel,      \* the shared slot: "live" holds the session's handle
    lockdown,    \* the shared lockdown flag
    client,      \* whether this connection configured a client
    dial,        \* why a connect needs a guard: "plain" (it does not),
                 \* "reconnect" (replaces a session), "held" (stale rules)
    reply,       \* the event the handler is about to send
    sd,          \* the shutdown task: "none" until a signal, then "taken",
                 \* and "restoring" or "leaving" once it has decided
    sdHeld,      \* the handle the shutdown task took from the slot
    sweep,       \* per runner of revert_network, the command it runs next
    escaped,     \* history: `warrend revert` ran, and no connect has taken
                 \* the host's protection in hand since
    reconciled   \* history: "yes" once this daemon's startup reconcile has
                 \* passed nothing over, "crossed" when a `warrend revert`
                 \* was running at its start or has run since, else "no"

ownerVars == <<hpc, client, dial, reply>>
shutdownVars == <<sd, sdHeld>>
vars == <<netVars, daemon, hpc, tunnel, lockdown, client, dial, reply, sd,
          sdHeld, sweep, escaped, reconciled>>

Runners == {"owner", "shutdown", "cli"}

ConnectPlaces == {"detect", "guard", "prior", "clearStale", "dialing",
                  "installed", "unguard", "failed"}
DisconnectPlaces == {"block", "drop", "sweep"}
Places == {"none", "idle", "revert", "reply", "ended"}
          \cup ConnectPlaces \cup DisconnectPlaces

TypeOK ==
    /\ NetTypeOK
    /\ daemon \in {"down", "starting", "serving"}
    /\ hpc \in Places
    /\ tunnel \in {"none", "live"}
    /\ lockdown \in BOOLEAN
    /\ client \in BOOLEAN
    /\ dial \in {"plain", "reconnect", "held"}
    /\ reply \in {"none", "connected", "disconnected", "error"}
    /\ sd \in {"none", "taken", "restoring", "leaving"}
    /\ sdHeld \in {"none", "live"}
    /\ sweep \in [Runners -> {"idle", "engine", "lockdown", "dns"}]
    /\ escaped \in BOOLEAN
    /\ reconciled \in {"no", "yes", "crossed"}
    /\ sweep["owner"] # "idle" => hpc = "revert"

Init ==
    /\ engineTable = "absent"
    /\ lockdownTable = "absent"
    /\ dns = "host"
    /\ daemon = "down"
    /\ hpc = "none"
    /\ tunnel = "none"
    /\ lockdown = FALSE
    /\ client = FALSE
    /\ dial = "plain"
    /\ reply = "none"
    /\ sd = "none"
    /\ sdHeld = "none"
    /\ sweep = [r \in Runners |-> "idle"]
    /\ escaped = FALSE
    /\ reconciled = "no"

(* Another hand may be at the resolver beside the handler: `warrend revert` *)
(* or, once a signal came, the shutdown task.                              *)
Disturbed == reconciled = "crossed" \/ sd # "none"

(* A connect that must keep the host blocked while it dials. *)
Guarded == dial # "plain" \/ lockdown

(***************************************************************************)
(* The process ends: by exit(0), which runs no destructor, or by a crash   *)
(* (SIGKILL, or a panic, which aborts).  Its memory is gone, its kernel    *)
(* artifacts stay, and a handle nobody dropped is never dropped.           *)
(***************************************************************************)
ProcessGone ==
    /\ daemon' = "down"
    /\ hpc' = "none"
    /\ tunnel' = "none"
    /\ lockdown' = FALSE
    /\ client' = FALSE
    /\ dial' = "plain"
    /\ reply' = "none"
    /\ sd' = "none"
    /\ sdHeld' = "none"
    /\ sweep' = [sweep EXCEPT !["owner"] = "idle", !["shutdown"] = "idle"]
    /\ reconciled' = IF sweep["cli"] = "idle" THEN "no" ELSE "crossed"
    /\ UNCHANGED escaped

(* A reconcile the end of its process cuts short may leave anything. *)
ReconcileCut ==
    IF daemon = "starting" \/ sweep["owner"] = "dns" \/ sweep["shutdown"] = "dns"
    THEN reconcile_dns("failed", Disturbed)
    ELSE UNCHANGED dns

Crash ==
    /\ daemon # "down"
    /\ ReconcileCut
    /\ ProcessGone
    /\ UNCHANGED <<engineTable, lockdownTable>>

(***************************************************************************)
(* Startup: the daemon holds every block it finds and reconciles DNS.      *)
(* A detection that fails ends the reconcile before its DNS part, and the  *)
(* daemon serves anyway.                                                   *)
(***************************************************************************)
Start ==
    /\ daemon = "down"
    /\ daemon' = "starting"
    /\ reconciled' = IF sweep["cli"] = "idle" THEN "no" ELSE "crossed"
    /\ UNCHANGED <<netVars, ownerVars, tunnel, lockdown, shutdownVars, sweep,
                   escaped>>

(* A startup that holds the blocks and forgets the resolver. *)
startup_without_dns ==
    /\ daemon = "starting"
    /\ reconciled' = IF reconciled = "no" THEN "yes" ELSE reconciled
    /\ daemon' = "serving"
    /\ UNCHANGED <<netVars, ownerVars, tunnel, lockdown, shutdownVars, sweep,
                   escaped>>

startup_reconcile ==
    /\ daemon = "starting"
    /\ \E end \in DnsEnds :
         /\ reconcile_dns(end, Disturbed)
         /\ reconciled' = IF end = "done" /\ reconciled = "no" THEN "yes" ELSE reconciled
    /\ daemon' = "serving"
    /\ UNCHANGED <<engineTable, lockdownTable, ownerVars, tunnel, lockdown,
                   shutdownVars, sweep, escaped>>

(***************************************************************************)
(* revert_network: engine rules, lockdown block, DNS, in that order; the   *)
(* first command that fails ends it.  Three runners share it: a handler,   *)
(* the shutdown task, and `warrend revert`, a process of its own.          *)
(***************************************************************************)
RevertStep(r) ==
    /\ sweep[r] # "idle"
    /\ \E ok \in Outcomes :
         \/ /\ sweep[r] = "engine"
            /\ clear_engine_block(ok)
            /\ sweep' = [sweep EXCEPT ![r] = IF ok THEN "lockdown" ELSE "idle"]
            /\ UNCHANGED <<lockdownTable, dns>>
         \/ /\ sweep[r] = "lockdown"
            /\ clear_lockdown(ok)
            /\ sweep' = [sweep EXCEPT ![r] = IF ok THEN "dns" ELSE "idle"]
            /\ UNCHANGED <<engineTable, dns>>
         \/ /\ sweep[r] = "dns"
            /\ \E end \in DnsEnds : reconcile_dns(end, Disturbed)
            /\ sweep' = [sweep EXCEPT ![r] = "idle"]
            /\ UNCHANGED <<engineTable, lockdownTable>>
    /\ UNCHANGED <<daemon, ownerVars, tunnel, lockdown, shutdownVars, escaped,
                   reconciled>>

run_revert ==
    /\ sweep["cli"] = "idle"
    /\ sweep' = [sweep EXCEPT !["cli"] = "engine"]
    /\ escaped' = TRUE
    /\ reconciled' = IF daemon = "down" THEN reconciled ELSE "crossed"
    /\ UNCHANGED <<netVars, daemon, ownerVars, tunnel, lockdown, shutdownVars>>

-----------------------------------------------------------------------------
(* The owner connection, up to a request. *)

OwnerConnects ==
    /\ daemon = "serving"
    /\ hpc = "none"
    /\ hpc' = "idle"
    /\ UNCHANGED <<netVars, daemon, tunnel, lockdown, client, dial, reply,
                   shutdownVars, sweep, escaped, reconciled>>

(* End of file, a read error or an oversized frame. *)
OwnerCloses ==
    /\ hpc = "idle"
    /\ hpc' = "ended"
    /\ UNCHANGED <<netVars, daemon, tunnel, lockdown, client, dial, reply,
                   shutdownVars, sweep, escaped, reconciled>>

Answer(event) ==
    /\ hpc' = "reply"
    /\ reply' = event

(* The answer is written, or its write fails and the connection is over. *)
Reply ==
    /\ hpc = "reply"
    /\ hpc' \in {"idle", "ended"}
    /\ reply' = "none"
    /\ UNCHANGED <<netVars, daemon, tunnel, lockdown, client, dial,
                   shutdownVars, sweep, escaped, reconciled>>

(* A malformed request, or one a handler refuses with no change. *)
RefuseRequest ==
    /\ hpc = "idle"
    /\ Answer("error")
    /\ UNCHANGED <<netVars, daemon, tunnel, lockdown, client, dial,
                   shutdownVars, sweep, escaped, reconciled>>

Configure(lockdown_requested) ==
    /\ hpc = "idle"
    /\ client' = TRUE
    /\ lockdown' = lockdown_requested
    /\ UNCHANGED <<netVars, daemon, hpc, tunnel, dial, reply, shutdownVars,
                   sweep, escaped, reconciled>>

-----------------------------------------------------------------------------
(* Connect: connect_orchestrated. *)

Connect ==
    /\ hpc = "idle"
    /\ client
    /\ IF tunnel = "live"
       THEN dial' = "reconnect" /\ hpc' = "guard"
       ELSE dial' = "plain" /\ hpc' = "detect"
    /\ UNCHANGED <<netVars, daemon, tunnel, lockdown, client, reply,
                   shutdownVars, sweep, escaped, reconciled>>

DetectStale ==
    /\ hpc = "detect"
    /\ \E answer \in {"absent", "rules", "error"} :
         /\ engine_block_present(answer)
         /\ dial' = IF answer = "rules" THEN "held" ELSE "plain"
         /\ CASE answer = "error" -> Answer("error")
              [] answer = "rules" \/ (answer = "absent" /\ lockdown) ->
                   hpc' = "guard" /\ UNCHANGED reply
              [] OTHER -> hpc' = "dialing" /\ UNCHANGED reply
    /\ escaped' = (escaped /\ sweep["cli"] # "idle")
    /\ UNCHANGED <<netVars, daemon, tunnel, lockdown, client, shutdownVars,
                   sweep, reconciled>>

(* The guard's failure is logged and the connect goes on. *)
InstallGuardIgnoresFailure ==
    /\ hpc = "guard"
    /\ \E ok \in Outcomes : install_connecting_guard(ok)
    /\ hpc' = CASE dial = "reconnect" -> "prior"
                 [] dial = "held" -> "clearStale"
                 [] OTHER -> "dialing"
    /\ UNCHANGED <<engineTable, dns, daemon, tunnel, lockdown, client, dial,
                   reply, shutdownVars, sweep, escaped, reconciled>>

InstallGuard ==
    /\ hpc = "guard"
    /\ \E ok \in Outcomes :
         /\ install_connecting_guard(ok)
         /\ IF ~ok
            THEN Answer("error")
            ELSE /\ hpc' = CASE dial = "reconnect" -> "prior"
                             [] dial = "held" -> "clearStale"
                             [] OTHER -> "dialing"
                 /\ UNCHANGED reply
    /\ UNCHANGED <<engineTable, dns, daemon, tunnel, lockdown, client, dial,
                   shutdownVars, sweep, escaped, reconciled>>

(* The replaced session is left for the new handle's store to drop. *)
PriorOutlivesDial ==
    /\ hpc = "prior"
    /\ hpc' = "dialing"
    /\ UNCHANGED <<netVars, daemon, tunnel, lockdown, client, dial, reply,
                   shutdownVars, sweep, escaped, reconciled>>

(* The shutdown task may have taken the session since the slot was read. *)
DropPrior ==
    /\ hpc = "prior"
    /\ EngineDrop(tunnel = "live", Disturbed)
    /\ tunnel' = "none"
    /\ hpc' = "dialing"
    /\ escaped' = (escaped /\ (sweep["cli"] # "idle" \/ lockdownTable = "absent"))
    /\ UNCHANGED <<lockdownTable, daemon, lockdown, client, dial, reply,
                   shutdownVars, sweep, reconciled>>

ClearStale ==
    /\ hpc = "clearStale"
    /\ \E ok \in Outcomes :
         /\ clear_engine_block(ok)
         /\ IF ok
            THEN hpc' = "dialing" /\ UNCHANGED reply
            ELSE Answer("error")
    /\ UNCHANGED <<lockdownTable, dns, daemon, tunnel, lockdown, client, dial,
                   shutdownVars, sweep, escaped, reconciled>>

(* The dial reaches the exit and its datapath installs the kill-switch. *)
DialInstalls ==
    /\ hpc = "dialing"
    /\ DialEgress(tunnel = "live" \/ sdHeld = "live")
    /\ EngineInstall(Disturbed)
    /\ hpc' = "installed"
    /\ UNCHANGED <<lockdownTable, daemon, tunnel, lockdown, client, dial,
                   reply, shutdownVars, sweep, escaped, reconciled>>

(* A dial that fails is tried again, without a bound. *)
DialRetries ==
    /\ hpc \in {"dialing", "installed"}
    /\ EngineDrop(hpc = "installed", Disturbed)
    /\ hpc' = "dialing"
    /\ UNCHANGED <<lockdownTable, daemon, tunnel, lockdown, client, dial, reply,
                   shutdownVars, sweep, escaped, reconciled>>

(* bring_up returns an error; what it had installed is dropped with it. *)
DialFails ==
    /\ hpc \in {"dialing", "installed"}
    /\ EngineDrop(hpc = "installed", Disturbed)
    /\ IF Guarded
       THEN hpc' = "failed" /\ UNCHANGED reply
       ELSE Answer("error")
    /\ UNCHANGED <<lockdownTable, daemon, tunnel, lockdown, client, dial,
                   shutdownVars, sweep, escaped, reconciled>>

(* The connect answers and forgets to store the handle. *)
DialReturnsUnstored ==
    /\ hpc = "installed"
    /\ IF Guarded
       THEN hpc' = "unguard" /\ UNCHANGED reply
       ELSE Answer("connected")
    /\ UNCHANGED <<netVars, daemon, tunnel, lockdown, client, dial,
                   shutdownVars, sweep, escaped, reconciled>>

(* The handle is stored; a handle still in the slot is dropped by that. *)
DialReturns ==
    /\ hpc = "installed"
    /\ EngineDrop(tunnel = "live", Disturbed)
    /\ tunnel' = "live"
    /\ IF Guarded
       THEN hpc' = "unguard" /\ UNCHANGED reply
       ELSE Answer("connected")
    /\ UNCHANGED <<lockdownTable, daemon, lockdown, client, dial, shutdownVars,
                   sweep, escaped, reconciled>>

(* Best effort: a guard that cannot be cleared only blocks more. *)
ClearGuard ==
    /\ hpc = "unguard"
    /\ \E ok \in Outcomes : clear_lockdown(ok)
    /\ Answer("connected")
    /\ UNCHANGED <<engineTable, dns, daemon, tunnel, lockdown, client, dial,
                   shutdownVars, sweep, escaped, reconciled>>

HoldAfterFailure ==
    /\ hpc = "failed"
    /\ lockdown \/ dial = "held"
    /\ \E ok \in Outcomes : install_lockdown(ok)
    /\ Answer("error")
    /\ UNCHANGED <<engineTable, dns, daemon, tunnel, lockdown, client, dial,
                   shutdownVars, sweep, escaped, reconciled>>

(* A failed reconnect restores the network whatever the mode. *)
RestoreDespiteLockdown ==
    /\ hpc = "failed"
    /\ dial = "reconnect"
    /\ hpc' = "revert"
    /\ reply' = "error"
    /\ sweep' = [sweep EXCEPT !["owner"] = "engine"]
    /\ UNCHANGED <<netVars, daemon, tunnel, lockdown, client, dial,
                   shutdownVars, escaped, reconciled>>

(* The restore is started and the answer does not wait for it. *)
RestoreUnawaited ==
    /\ hpc = "failed"
    /\ ~lockdown /\ dial = "reconnect"
    /\ Answer("error")
    /\ sweep' = [sweep EXCEPT !["owner"] = "engine"]
    /\ UNCHANGED <<netVars, daemon, tunnel, lockdown, client, dial,
                   shutdownVars, escaped, reconciled>>

RestoreAfterFailure ==
    /\ hpc = "failed"
    /\ ~lockdown /\ dial = "reconnect"
    /\ hpc' = "revert"
    /\ reply' = "error"
    /\ sweep' = [sweep EXCEPT !["owner"] = "engine"]
    /\ UNCHANGED <<netVars, daemon, tunnel, lockdown, client, dial,
                   shutdownVars, escaped, reconciled>>

(* revert_network returned, whatever it reported. *)
RevertReturns ==
    /\ hpc = "revert"
    /\ sweep["owner"] = "idle"
    /\ hpc' = "reply"
    /\ UNCHANGED <<netVars, daemon, tunnel, lockdown, client, dial, reply,
                   shutdownVars, sweep, escaped, reconciled>>

-----------------------------------------------------------------------------
(* Disconnect. *)

(* The draining event goes first; when its write fails the connection is   *)
(* over and the request is never handled.                                  *)
Disconnect ==
    /\ hpc = "idle"
    /\ \/ hpc' = "ended"
       \/ hpc' = IF stop_action("UserDisconnect", lockdown) = "HoldBlock"
                 THEN "block" ELSE "drop"
    /\ UNCHANGED <<netVars, daemon, tunnel, lockdown, client, dial, reply,
                   shutdownVars, sweep, escaped, reconciled>>

(* The block's failure does not keep the session. *)
BlockIgnoresFailure ==
    /\ hpc = "block"
    /\ \E ok \in Outcomes : install_lockdown(ok)
    /\ hpc' = "drop"
    /\ UNCHANGED <<engineTable, dns, daemon, tunnel, lockdown, client, dial,
                   reply, shutdownVars, sweep, escaped, reconciled>>

(* The lockdown block goes up before the teardown; without it the session  *)
(* is kept.                                                                *)
BlockBeforeDrop ==
    /\ hpc = "block"
    /\ \E ok \in Outcomes :
         /\ install_lockdown(ok)
         /\ IF ok
            THEN hpc' = "drop" /\ UNCHANGED reply
            ELSE Answer("error")
    /\ UNCHANGED <<engineTable, dns, daemon, tunnel, lockdown, client, dial,
                   shutdownVars, sweep, escaped, reconciled>>

(* The teardown relies on the handle's drop and sweeps nothing after it. *)
DropWithoutSweep ==
    /\ hpc = "drop"
    /\ EngineDrop(tunnel = "live", Disturbed)
    /\ tunnel' = "none"
    /\ Answer("disconnected")
    /\ UNCHANGED <<lockdownTable, daemon, lockdown, client, dial,
                   shutdownVars, sweep, escaped, reconciled>>

DropTunnel ==
    /\ hpc = "drop"
    /\ EngineDrop(tunnel = "live", Disturbed)
    /\ tunnel' = "none"
    /\ reply' = "disconnected"
    /\ IF stop_action("UserDisconnect", lockdown) = "HoldBlock"
       THEN hpc' = "sweep" /\ UNCHANGED sweep
       ELSE hpc' = "revert" /\ sweep' = [sweep EXCEPT !["owner"] = "engine"]
    /\ UNCHANGED <<lockdownTable, daemon, lockdown, client, dial,
                   shutdownVars, escaped, reconciled>>

SweepEngine ==
    /\ hpc = "sweep"
    /\ \E ok \in Outcomes : clear_engine_block(ok)
    /\ hpc' = "reply"
    /\ UNCHANGED <<lockdownTable, dns, daemon, tunnel, lockdown, client, dial,
                   reply, shutdownVars, sweep, escaped, reconciled>>

-----------------------------------------------------------------------------
(* The ends of the process. *)

(* The owner task takes what is left in the slot, holds it, and exits. *)
OwnerExit ==
    /\ hpc = "ended"
    /\ EngineDrop(/\ tunnel = "live"
                  /\ stop_action("OwnerConnectionLost", lockdown) = "RestoreNetwork",
                  Disturbed)
    /\ ProcessGone
    /\ UNCHANGED lockdownTable

(* SIGTERM or SIGINT: the shutdown task takes the session first ... *)
ShutdownTakes ==
    /\ daemon = "serving"
    /\ sd = "none"
    /\ sd' = "taken"
    /\ sdHeld' = tunnel
    /\ tunnel' = "none"
    /\ UNCHANGED <<netVars, daemon, ownerVars, lockdown, sweep, escaped,
                   reconciled>>

(* ... then reads the lockdown flag and drops or forgets the session. *)
ShutdownDecides ==
    /\ sd = "taken"
    /\ sdHeld' = "none"
    /\ IF stop_action("DaemonShutdown", lockdown) = "RestoreNetwork"
       THEN /\ EngineDrop(sdHeld = "live", Disturbed)
            /\ sd' = "restoring"
            /\ sweep' = [sweep EXCEPT !["shutdown"] = "engine"]
       ELSE /\ sd' = "leaving"
            /\ UNCHANGED <<engineTable, dns, sweep>>
    /\ UNCHANGED <<lockdownTable, daemon, ownerVars, tunnel, lockdown,
                   escaped, reconciled>>

(* The exit waits for the handler to be between requests. *)
ShutdownAwaitsOwner ==
    /\ hpc \in {"none", "idle"}
    /\ \/ sd = "restoring" /\ sweep["shutdown"] = "idle"
       \/ sd = "leaving"
    /\ ReconcileCut
    /\ ProcessGone
    /\ UNCHANGED <<engineTable, lockdownTable>>

ShutdownExits ==
    /\ \/ sd = "restoring" /\ sweep["shutdown"] = "idle"
       \/ sd = "leaving"
    /\ ReconcileCut
    /\ ProcessGone
    /\ UNCHANGED <<engineTable, lockdownTable>>

-----------------------------------------------------------------------------
(* Requests, connections, signals, crashes and the operator's commands come *)
(* when they come. *)
Environment ==
    \/ Start \/ Crash \/ run_revert
    \/ OwnerConnects \/ OwnerCloses \/ RefuseRequest
    \/ \E on \in LockdownRequests : Configure(on)
    \/ Connect \/ Disconnect
    \/ ShutdownTakes

(* What a handler does between its request and its answer. *)
HandlerStep ==
    \/ DetectStale \/ InstallGuard \/ DropPrior \/ ClearStale
    \/ DialInstalls \/ DialFails \/ DialReturns \/ ClearGuard
    \/ HoldAfterFailure \/ RestoreAfterFailure \/ RevertReturns
    \/ BlockBeforeDrop \/ DropTunnel \/ SweepEngine

(* What the owner task does once it has a request, or has lost its owner. *)
OwnerStep == HandlerStep \/ Reply \/ OwnerExit

ShutdownStep == ShutdownDecides \/ ShutdownExits

Next ==
    \/ Environment
    \/ startup_reconcile
    \/ OwnerStep
    \/ ShutdownStep
    \/ \E r \in Runners : RevertStep(r)

Spec == Init /\ [][Next]_vars

(***************************************************************************)
(* The runtime polls every ready task.  That a command ends is assumed of  *)
(* the host, and that a dial ends of the engine: warrend waits for both    *)
(* without a timeout of its own.  Nobody promises another request,         *)
(* connection, signal or start.                                            *)
(***************************************************************************)
Fairness ==
    /\ WF_vars(OwnerStep)
    /\ WF_vars(ShutdownStep)
    /\ \A r \in Runners : WF_vars(RevertStep(r))

FairSpec == Spec /\ Fairness

-----------------------------------------------------------------------------
(* What may open the network. *)

(* The operator asked for it: `warrend revert`, or a signal with lockdown   *)
(* off, whose decision stands even if lockdown is configured after it.     *)
OperatorReleases ==
    escaped \/ sd = "restoring" \/ (sd = "taken" /\ ~lockdown)

(* The owner asked for it: a disconnect, a reconnect that failed, or a plain *)
(* connect that failed, none of them under lockdown. *)
UserReleases ==
    /\ ~lockdown
    /\ \/ hpc \in {"drop", "revert"}
       \/ hpc = "installed" /\ dial = "plain"

(* A revert in progress may take any protection away until its end. *)
Overridden == escaped \/ sd = "restoring"

(* The daemon and its host as a kill switch. *)
HostPosture ==
    CASE ~Blocked -> "open"
      [] tunnel = "live" /\ engineTable = "rules" -> "tunnelled"
      [] OTHER -> "blocked"

Release ==
    CASE OperatorReleases -> "operator"
      [] ~OperatorReleases /\ UserReleases -> "owner"
      [] OTHER -> "none"

KS == INSTANCE KillSwitch WITH posture <- HostPosture, release <- Release

-----------------------------------------------------------------------------
(* Properties. *)

(* A session in the slot is protected by the engine's rules whatever       *)
(* happened before it: a replaced session's teardown, a dead session's     *)
(* rules cleared for its dial, failed commands, crashes (the shared engine *)
(* table in connect_orchestrated).                                         *)
SessionProtected ==
    tunnel = "live" /\ ~Overridden => engineTable = "rules"

(* From the guard's installation to the end of a guarded connect,          *)
(* warrend's own table blocks the host (connect_orchestrated's fail-closed *)
(* ordering).                                                              *)
GuardHolds ==
    /\ hpc \in {"prior", "clearStale", "dialing", "installed", "unguard", "failed"}
    /\ Guarded /\ ~Overridden
    => lockdownTable # "absent"

(* Under lockdown the app reads `disconnected` only with the session gone  *)
(* and the strict block in force, and without lockdown only with the       *)
(* session gone (handle, the Disconnect branch).                           *)
DisconnectedHolds ==
    reply = "disconnected" =>
        /\ tunnel = "none"
        /\ lockdown /\ ~Overridden => lockdownTable = "block"

(* No dial goes through the resolver of an earlier session, dead, replaced  *)
(* or failed, that the program could have undone (startup_reconcile,       *)
(* EngineDrop).  It may when the startup reconcile failed or passed        *)
(* something over, which is Ok to the daemon, or when a `warrend revert`   *)
(* or a shutdown worked beside it; and an override whose backup one of     *)
(* those has lost is nothing a later reconcile knows of.                   *)
DialResolvesNames ==
    hpc = "dialing" /\ reconciled = "yes" /\ sd = "none" => dns # "override"

(* Nothing opens a blocked host but its owner's or the operator's release: *)
(* not a crash, a restart, a lost owner, a failed command, a reconnect or  *)
(* the swap from one table to the other.                                   *)
FailClosed ==
    [][Blocked /\ ~Blocked' => OperatorReleases \/ UserReleases]_vars

(* FailClosed under lockdown: only the operator's release opens the host,  *)
(* whatever the owner does and whatever fails.                             *)
LockdownHolds ==
    [][lockdown /\ Blocked /\ ~Blocked' => Overridden]_vars

(* The daemon implements the kill switch it promises. *)
ImplementsKillSwitch == KS!Spec

(* A request is answered or its connection ends; the handler waits for no  *)
(* one for ever.                                                           *)
RequestEnds ==
    hpc \notin {"none", "idle"} ~> hpc \in {"none", "idle"}

(* A signal ends the process, whatever the handler is doing. *)
StopEnds == sd # "none" ~> daemon = "down"

-----------------------------------------------------------------------------
(* What the program's own texts say of it, and the code does not do. *)

(* main.rs, HELP: "A clean stop (disconnect, SIGINT/SIGTERM) restores the  *)
(* network unless lockdown mode is configured on."                         *)
CleanStopRestores ==
    [][ShutdownExits /\ ~lockdown => ~Blocked']_vars

(* main.rs, HELP: "To get the network back: reconnect (the next daemon     *)
(* start adopts or replaces the stale rules)": a dial meets no block that  *)
(* stops it.                                                               *)
DialMeetsNoBlock ==
    hpc = "dialing" /\ sd = "none" => engineTable = "absent" /\ lockdownTable # "block"

=============================================================================
