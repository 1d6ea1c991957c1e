---------------------------- MODULE WarrendProofs ----------------------------
(***************************************************************************)
(* What holds of the daemon whether or not commands fail and whatever its  *)
(* owners ask for.                                                         *)
(***************************************************************************)
EXTENDS Warrend, Integers, TLAPS

-----------------------------------------------------------------------------
(* The inductive invariant: where the pieces of the daemon's state may be  *)
(* together.                                                               *)

(* Only a serving daemon has an owner, a session or a shutdown, and only   *)
(* its owner's Configure turns lockdown on.                                *)
Lifetime ==
    /\ daemon # "serving" => sd = "none" /\ hpc = "none"
    /\ hpc = "none" => tunnel = "none" /\ ~lockdown /\ reply = "none"
    /\ sd # "taken" => sdHeld = "none"

(* Who runs revert_network, and on whose behalf. *)
SweepOwners ==
    /\ sweep["owner"] # "idle" => hpc = "revert"
    /\ sweep["shutdown"] # "idle" => sd = "restoring"
    /\ sweep["cli"] # "idle" => escaped
    /\ hpc = "revert" => ~lockdown

(* What a place in the handlers says of the request it serves. *)
HandlerPlaces ==
    /\ hpc = "prior" => dial = "reconnect"
    /\ hpc = "clearStale" => dial = "held"
    /\ hpc \in {"failed", "unguard"} => Guarded
    /\ reply # "none" => hpc \in {"sweep", "revert", "reply"}
    /\ hpc = "sweep" => lockdown /\ reply = "disconnected"

(* From the drop of the old session to the store of the new one, and after *)
(* a disconnect, the slot is empty.                                        *)
SlotEmpty ==
    /\ hpc \in {"detect", "clearStale", "dialing", "installed", "failed",
               "sweep", "revert"} => tunnel = "none"
    /\ hpc = "guard" /\ dial # "reconnect" => tunnel = "none"
    /\ reply = "disconnected" => tunnel = "none"

(* The engine's rules are in force from the moment a dial has installed    *)
(* them, stored or not.                                                    *)
RulesInForce ==
    /\ hpc \in {"installed", "unguard"} \/ tunnel = "live"
    /\ ~Overridden
    => engineTable = "rules"

(* Under lockdown the strict block is up before the session goes. *)
BlockInForce ==
    hpc \in {"drop", "sweep"} /\ lockdown /\ ~Overridden => lockdownTable = "block"

(* A daemon whose startup reconcile left nothing, and that has been alone   *)
(* at the resolver since, has an override that can be undone only with its *)
(* own session.                                                            *)
ResolverFollowsSession ==
    /\ daemon # "serving" => reconciled # "yes"
    /\ daemon # "down" /\ sweep["cli"] # "idle" => reconciled = "crossed"
    /\ reconciled = "yes" /\ sd = "none" /\ dns = "override"
          => tunnel = "live" \/ hpc = "installed"

Inv ==
    /\ TypeOK
    /\ Lifetime
    /\ SweepOwners
    /\ HandlerPlaces
    /\ SlotEmpty
    /\ RulesInForce
    /\ GuardHolds
    /\ BlockInForce
    /\ DisconnectedHolds
    /\ ResolverFollowsSession

-----------------------------------------------------------------------------
(* Every step keeps the invariant. *)

LEMMA OutcomesAreBoolean == Outcomes \subseteq BOOLEAN
BY DEF Outcomes

LEMMA InvInit == Init => Inv
BY DEF Init, Inv, TypeOK, NetTypeOK, Resolvers, Places, Runners, Lifetime, SweepOwners,
       HandlerPlaces, SlotEmpty, RulesInForce, GuardHolds, BlockInForce,
       DisconnectedHolds, ResolverFollowsSession

(* One case per action: each command, handler step and crash.              *)
LEMMA InvStep == Inv /\ [Next]_vars => Inv'
<1> SUFFICES ASSUME Inv, [Next]_vars
             PROVE  Inv'
  OBVIOUS
<1> USE OutcomesAreBoolean
    DEF Inv, TypeOK, Lifetime, SweepOwners, HandlerPlaces, SlotEmpty, RulesInForce,
        GuardHolds, BlockInForce, DisconnectedHolds, ResolverFollowsSession,
        Guarded, Overridden, stop_action, NetTypeOK, Resolvers, Disturbed, Runners, Places,
        ConnectPlaces, DisconnectPlaces, netVars, ownerVars, shutdownVars, Answer
<1>1. CASE Environment
  <2>1. CASE Start
    BY <2>1 DEF Start
  <2>2. CASE Crash
    BY <2>2 DEF Crash, ProcessGone, ReconcileCut, reconcile_dns
  <2>3. CASE run_revert
    BY <2>3 DEF run_revert
  <2>4. CASE OwnerConnects \/ OwnerCloses \/ RefuseRequest
    BY <2>4 DEF OwnerConnects, OwnerCloses, RefuseRequest
  <2>5. ASSUME NEW on \in LockdownRequests, Configure(on)
        PROVE  Inv'
    BY <2>5, LockdownRequestsAssumption DEF Configure
  <2>6. CASE Connect \/ Disconnect
    BY <2>6 DEF Connect, Disconnect
  <2>7. CASE ShutdownTakes
    BY <2>7 DEF ShutdownTakes
  <2> QED
    BY <1>1, <2>1, <2>2, <2>3, <2>4, <2>5, <2>6, <2>7 DEF Environment
<1>2. CASE startup_reconcile
  BY <1>2 DEF startup_reconcile, reconcile_dns, DnsEnds
<1>3. CASE OwnerStep
  <2>1. CASE DetectStale
    BY <2>1 DEF DetectStale
  <2>2. CASE InstallGuard
    BY <2>2 DEF InstallGuard, install_connecting_guard
  <2>3. CASE DropPrior
    BY <2>3 DEF DropPrior, EngineDrop
  <2>4. CASE ClearStale
    BY <2>4 DEF ClearStale, clear_engine_block
  <2>5. CASE DialInstalls
    BY <2>5 DEF DialInstalls, EngineInstall
  <2>6. CASE DialFails
    BY <2>6 DEF DialFails, EngineDrop
  <2>7. CASE DialReturns
    BY <2>7 DEF DialReturns, EngineDrop
  <2>8. CASE ClearGuard
    BY <2>8 DEF ClearGuard, clear_lockdown
  <2>9. CASE HoldAfterFailure
    BY <2>9 DEF HoldAfterFailure, install_lockdown
  <2>10. CASE RestoreAfterFailure
    BY <2>10 DEF RestoreAfterFailure
  <2>11. CASE BlockBeforeDrop
    BY <2>11 DEF BlockBeforeDrop, install_lockdown
  <2>12. CASE DropTunnel
    BY <2>12 DEF DropTunnel, EngineDrop
  <2>13. CASE SweepEngine
    BY <2>13 DEF SweepEngine, clear_engine_block
  <2>14. CASE RevertReturns \/ Reply
    BY <2>14 DEF RevertReturns, Reply
  <2>15. CASE OwnerExit
    BY <2>15 DEF OwnerExit, EngineDrop, ProcessGone
  <2> QED
    BY <1>3, <2>1, <2>2, <2>3, <2>4, <2>5, <2>6, <2>7, <2>8, <2>9, <2>10,
       <2>11, <2>12, <2>13, <2>14, <2>15 DEF OwnerStep, HandlerStep
<1>4. CASE ShutdownStep
  <2>1. CASE ShutdownDecides
    BY <2>1 DEF ShutdownDecides, EngineDrop
  <2>2. CASE ShutdownExits
    BY <2>2 DEF ShutdownExits, ProcessGone, ReconcileCut, reconcile_dns
  <2> QED
    BY <1>4, <2>1, <2>2 DEF ShutdownStep
<1>5. ASSUME NEW r \in Runners, RevertStep(r)
      PROVE  Inv'
  BY <1>5 DEF RevertStep, clear_engine_block, clear_lockdown, reconcile_dns
<1>6. CASE UNCHANGED vars
  BY <1>6 DEF vars
<1> QED
  BY <1>1, <1>2, <1>3, <1>4, <1>5, <1>6 DEF Next

(* The invariant is one: the parts hold together in every reachable state. *)
THEOREM Invariance == Spec => []Inv
BY InvInit, InvStep, PTL DEF Spec

(* Every variable of the daemon and of its host keeps its type.            *)
THEOREM TypeCorrect == Spec => []TypeOK
<1>1. Inv => TypeOK
  BY DEF Inv
<1> QED
  BY <1>1, Invariance, PTL

(* A session in the slot never lacks the engine's rules, unless a revert   *)
(* the operator asked for takes them away.                                 *)
THEOREM SessionsProtected == Spec => []SessionProtected
<1>1. Inv => SessionProtected
  BY DEF Inv, RulesInForce, SessionProtected
<1> QED
  BY <1>1, Invariance, PTL

(* The connecting guard bridges every guarded connect.                     *)
THEOREM GuardsHold == Spec => []GuardHolds
<1>1. Inv => GuardHolds
  BY DEF Inv
<1> QED
  BY <1>1, Invariance, PTL

(* `disconnected` is never reported over a session that is still there or, *)
(* under lockdown, over a host that the strict block does not hold.        *)
THEOREM DisconnectsHold == Spec => []DisconnectedHolds
<1>1. Inv => DisconnectedHolds
  BY DEF Inv
<1> QED
  BY <1>1, Invariance, PTL

(* No dial resolves its names through a session that is gone.              *)
THEOREM DialsResolve == Spec => []DialResolvesNames
<1>1. Inv => DialResolvesNames
  BY DEF Inv, TypeOK, NetTypeOK, SlotEmpty, ResolverFollowsSession, DialResolvesNames
<1> QED
  BY <1>1, Invariance, PTL

-----------------------------------------------------------------------------
(* Who opens the network. *)

(* A step that takes the last block away is a release: the handlers' own   *)
(* clears happen behind the guard or behind the engine's rules.            *)
LEMMA OpeningIsRelease ==
    ASSUME Inv, [Next]_vars, Blocked, ~Blocked'
    PROVE  OperatorReleases \/ UserReleases
<1> USE OutcomesAreBoolean
    DEF Inv, TypeOK, NetTypeOK, Blocked, OperatorReleases, UserReleases,
        Overridden, Guarded, netVars
<1>1. CASE Environment
  BY <1>1 DEF Environment, Start, Crash, run_revert, OwnerConnects, OwnerCloses,
     RefuseRequest, Configure, Connect, Disconnect, ShutdownTakes
<1>2. CASE startup_reconcile
  BY <1>2 DEF startup_reconcile
<1>3. CASE OwnerStep
  <2>1. CASE DropPrior \/ ClearStale
    BY <2>1, <1>3 DEF DropPrior, ClearStale, HandlerPlaces, GuardHolds,
       EngineDrop, clear_engine_block
  <2>2. CASE DialFails
    BY <2>2 DEF DialFails, EngineDrop, GuardHolds, SlotEmpty
  <2>3. CASE DialReturns
    BY <2>3 DEF DialReturns, EngineDrop, SlotEmpty
  <2>4. CASE ClearGuard
    BY <2>4 DEF ClearGuard, RulesInForce
  <2>5. CASE DropTunnel
    BY <2>5 DEF DropTunnel, BlockInForce
  <2>6. CASE SweepEngine
    BY <2>6 DEF SweepEngine, BlockInForce, HandlerPlaces
  <2>7. CASE OwnerExit
    BY <2>7 DEF OwnerExit, EngineDrop, stop_action
  <2>8. CASE DetectStale \/ RestoreAfterFailure \/ RevertReturns \/ Reply
    BY <2>8 DEF DetectStale, RestoreAfterFailure, RevertReturns, Reply
  <2>9. CASE InstallGuard \/ DialInstalls \/ HoldAfterFailure \/ BlockBeforeDrop
    BY <2>9 DEF InstallGuard, DialInstalls, HoldAfterFailure, BlockBeforeDrop,
       install_connecting_guard, install_lockdown, EngineInstall
  <2> QED
    BY <1>3, <2>1, <2>2, <2>3, <2>4, <2>5, <2>6, <2>7, <2>8, <2>9 DEF OwnerStep, HandlerStep
<1>4. CASE ShutdownStep
  BY <1>4 DEF ShutdownStep, ShutdownDecides, ShutdownExits, EngineDrop, stop_action
<1>5. ASSUME NEW r \in Runners, RevertStep(r)
      PROVE  OperatorReleases \/ UserReleases
  BY <1>5 DEF RevertStep, Runners, SweepOwners
<1>6. CASE UNCHANGED vars
  BY <1>6 DEF vars
<1> QED
  BY <1>1, <1>2, <1>3, <1>4, <1>5, <1>6 DEF Next

(* The daemon fails closed: no crash, restart, lost owner or failed command *)
(* opens a blocked host.                                                   *)
THEOREM DaemonFailsClosed == Spec => FailClosed
<1>1. Inv /\ [Next]_vars
      => (Blocked /\ ~Blocked' => OperatorReleases \/ UserReleases)
  BY OpeningIsRelease
<1> QED
  BY <1>1, Invariance, PTL DEF Spec, FailClosed

(* Under lockdown the owner's own requests do not open it either.          *)
THEOREM LockdownNeverOpens == Spec => LockdownHolds
<1>1. Inv /\ [Next]_vars => (lockdown /\ Blocked /\ ~Blocked' => Overridden)
  BY OpeningIsRelease DEF OperatorReleases, UserReleases, Overridden
<1> QED
  BY <1>1, Invariance, PTL DEF Spec, LockdownHolds

-----------------------------------------------------------------------------
(* The kill switch. *)

(* A host that is open does not become tunnelled in one step: a dial's     *)
(* rules are in force before its session is in the slot.                   *)
LEMMA NoSessionOnAnOpenHost ==
    ASSUME Inv, [Next]_vars, ~Blocked
    PROVE  ~(tunnel' = "live" /\ engineTable' = "rules")
<1> SUFFICES ASSUME tunnel' = "live", engineTable' = "rules"
             PROVE  FALSE
  OBVIOUS
<1>1. engineTable = "absent"
  BY DEF Inv, TypeOK, NetTypeOK, Blocked
<1>2. DialInstalls
  BY <1>1, OutcomesAreBoolean DEF Next, vars, netVars, Environment, Start, Crash, run_revert,
     OwnerConnects, OwnerCloses, RefuseRequest, Configure, Connect, Disconnect,
     ShutdownTakes, startup_reconcile, OwnerStep, HandlerStep, DetectStale, InstallGuard,
     DropPrior, ClearStale, DialFails, DialReturns, ClearGuard,
     HoldAfterFailure, RestoreAfterFailure, RevertReturns, BlockBeforeDrop,
     DropTunnel, SweepEngine, Reply, OwnerExit, EngineDrop, clear_engine_block,
     ShutdownStep, ShutdownDecides, ShutdownExits, RevertStep
<1> QED
  BY <1>2 DEF DialInstalls, Inv, SlotEmpty

(* The daemon, its tables and its crashes implement the abstract kill      *)
(* switch: each step is a step of it or leaves it as it is.                *)
THEOREM RefinesKillSwitch == Spec => ImplementsKillSwitch
<1>1. Init => KS!Init
  BY DEF Init, KS!Init, HostPosture, Release, Blocked, OperatorReleases, UserReleases
<1>2. Inv /\ Inv' /\ [Next]_vars => [KS!Next]_(KS!vars)
  <2> SUFFICES ASSUME Inv, Inv', [Next]_vars
               PROVE  KS!Next
    BY DEF KS!vars
  <2>1. KS!Wishes
    BY DEF KS!Wishes, Inv, TypeOK, Release
  <2>2. CASE HostPosture' = "blocked"
    BY <2>1, <2>2 DEF KS!Next, KS!Block
  <2>3. CASE HostPosture' = "tunnelled"
    <3>1. Blocked
      BY <2>3, NoSessionOnAnOpenHost DEF HostPosture
    <3> QED
      BY <2>1, <2>3, <3>1 DEF KS!Next, KS!Establish, HostPosture
  <2>4. CASE HostPosture' = "open"
    <3>1. ~Blocked'
      BY <2>4 DEF HostPosture
    <3>2. CASE Blocked
      <4>1. OperatorReleases \/ (UserReleases /\ ~lockdown)
        BY <3>1, <3>2, OpeningIsRelease DEF UserReleases
      <4> QED
        BY <2>1, <2>4, <4>1 DEF KS!Next, KS!Open, Release
    <3>3. CASE ~Blocked
      <4>1. HostPosture = "open"
        BY <3>3 DEF HostPosture, Blocked
      <4> QED
        BY <2>1, <2>4, <4>1 DEF KS!Next
    <3> QED
      BY <3>2, <3>3
  <2> QED
    BY <2>2, <2>3, <2>4 DEF HostPosture
<1> QED
  BY <1>1, <1>2, Invariance, PTL DEF Spec, ImplementsKillSwitch, KS!Spec

-----------------------------------------------------------------------------
(* How far the handlers and the shutdown task are from their ends.         *)

(* The commands a run of revert_network has still to issue. *)
SweepLeft == [engine |-> 3, lockdown |-> 2, dns |-> 1, idle |-> 0]

(* The steps from a place to the end of its request, along the longest     *)
(* path that leaves it; revert_network's own commands come on top.         *)
PlaceLeft ==
    [none       |-> 0,  idle   |-> 0,  ended     |-> 1,  reply   |-> 2,
     sweep      |-> 3,  revert |-> 3,  unguard   |-> 3,  drop    |-> 7,
     failed     |-> 7,  block  |-> 8,  installed |-> 8,  dialing |-> 9,
     clearStale |-> 10, prior  |-> 10, guard     |-> 11, detect  |-> 12]

HandlerWork == PlaceLeft[hpc] + SweepLeft[sweep["owner"]]

ShutdownLeft == [none |-> 0, leaving |-> 1, restoring |-> 1, taken |-> 5]

ShutdownWork == ShutdownLeft[sd] + SweepLeft[sweep["shutdown"]]

(* No request is more than twelve steps from its end, no shutdown more     *)
(* than five.                                                              *)
WorkBounded == HandlerWork \in 0..12 /\ ShutdownWork \in 0..5

(* A step of a handler, or of its revert, brings the request closer to its *)
(* end, and no step of anyone puts it back; likewise the shutdown.         *)
HandlersAdvance ==
    [][/\ OwnerStep \/ RevertStep("owner") => HandlerWork' < HandlerWork
       /\ hpc \notin {"none", "idle"} => HandlerWork' <= HandlerWork]_vars

ShutdownAdvances ==
    [][/\ ShutdownStep \/ RevertStep("shutdown") => ShutdownWork' < ShutdownWork
       /\ sd # "none" => ShutdownWork' <= ShutdownWork]_vars

LEMMA WorkIsBounded == Inv => WorkBounded
<1> SUFFICES ASSUME Inv
             PROVE  WorkBounded
  OBVIOUS
<1>1. HandlerWork \in 0..12
  <2>1. CASE hpc = "revert"
    BY <2>1 DEF Inv, TypeOK, Runners, HandlerWork, PlaceLeft, SweepLeft
  <2>2. CASE hpc # "revert"
    <3>1. sweep["owner"] = "idle"
      BY <2>2 DEF Inv, SweepOwners
    <3>2. PlaceLeft[hpc] \in 0..12
      BY DEF Inv, TypeOK, Places, ConnectPlaces, DisconnectPlaces, PlaceLeft
    <3> QED
      BY <3>1, <3>2 DEF HandlerWork, SweepLeft
  <2> QED
    BY <2>1, <2>2
<1>2. ShutdownWork \in 0..5
  BY DEF Inv, TypeOK, Runners, SweepOwners, ShutdownWork, ShutdownLeft, SweepLeft
<1> QED
  BY <1>1, <1>2 DEF WorkBounded

LEMMA WorkStaysBounded == Inv /\ [Next]_vars => WorkBounded'
  BY InvStep, WorkIsBounded, PTL

(* The owner task's own steps take a request forward. *)
LEMMA OwnerStepAdvances ==
    ASSUME Inv, OwnerStep
    PROVE  HandlerWork' < HandlerWork
<1> USE OutcomesAreBoolean
    DEF Inv, TypeOK, SweepOwners, Runners, Answer, HandlerWork, PlaceLeft, SweepLeft
<1>1. CASE DetectStale \/ InstallGuard \/ DropPrior \/ ClearStale
  BY <1>1 DEF DetectStale, InstallGuard, DropPrior, ClearStale
<1>2. CASE DialInstalls \/ DialFails \/ DialReturns \/ ClearGuard
  BY <1>2 DEF DialInstalls, DialFails, DialReturns, ClearGuard
<1>3. CASE HoldAfterFailure \/ RestoreAfterFailure \/ RevertReturns
  BY <1>3 DEF HoldAfterFailure, RestoreAfterFailure, RevertReturns
<1>4. CASE BlockBeforeDrop \/ DropTunnel \/ SweepEngine
  BY <1>4 DEF BlockBeforeDrop, DropTunnel, SweepEngine
<1>5. CASE Reply
  BY <1>5 DEF Reply
<1>6. CASE OwnerExit
  BY <1>6 DEF OwnerExit, ProcessGone
<1> QED
  BY <1>1, <1>2, <1>3, <1>4, <1>5, <1>6 DEF OwnerStep, HandlerStep

(* The next command of a revert, whoever runs it, is one command less, and *)
(* its runner's place stays.                                               *)
LEMMA RevertStepAdvances ==
    ASSUME Inv, NEW r \in Runners, RevertStep(r)
    PROVE  /\ SweepLeft[sweep[r]]' < SweepLeft[sweep[r]]
           /\ \A q \in Runners \ {r} : sweep'[q] = sweep[q]
           /\ UNCHANGED <<hpc, sd>>
  BY OutcomesAreBoolean
     DEF Inv, TypeOK, RevertStep, SweepLeft, ownerVars, shutdownVars

(* The end of the process ends its requests and its shutdown. *)
LEMMA ProcessGoneEndsWork ==
    ASSUME Inv, ProcessGone
    PROVE  HandlerWork' = 0 /\ ShutdownWork' = 0
  BY DEF Inv, TypeOK, ProcessGone, Runners, HandlerWork, PlaceLeft, SweepLeft,
     ShutdownWork, ShutdownLeft

(* A request under way is taken forward, ended with the process, or left   *)
(* where it is while others run.                                           *)
LEMMA RequestsGoForward ==
    ASSUME Inv, [Next]_vars
    PROVE  /\ OwnerStep \/ RevertStep("owner") => HandlerWork' < HandlerWork
           /\ hpc \notin {"none", "idle"} => HandlerWork' <= HandlerWork
<1>1. HandlerWork \in 0..12 /\ HandlerWork' \in 0..12
  BY WorkIsBounded, WorkStaysBounded DEF WorkBounded
<1>2. ASSUME RevertStep("owner")
      PROVE  HandlerWork' < HandlerWork
  <2>1. hpc = "revert" /\ hpc' = "revert"
    BY <1>2 DEF Inv, SweepOwners, RevertStep, ownerVars
  <2>2. sweep["owner"] \in DOMAIN SweepLeft /\ sweep'["owner"] \in DOMAIN SweepLeft
    BY <1>2, OutcomesAreBoolean DEF Inv, TypeOK, RevertStep, Runners, SweepLeft
  <2>3. SweepLeft[sweep'["owner"]] < SweepLeft[sweep["owner"]]
    BY <1>2, RevertStepAdvances DEF Runners
  <2> QED
    BY <2>1, <2>2, <2>3 DEF HandlerWork, PlaceLeft, SweepLeft
<1>3. ASSUME hpc \notin {"none", "idle"}
      PROVE  HandlerWork' <= HandlerWork
  <2>1. CASE hpc' = hpc /\ sweep'["owner"] = sweep["owner"]
    BY <2>1, <1>1 DEF HandlerWork
  <2>2. CASE ProcessGone
    BY <2>2, <1>1, ProcessGoneEndsWork
  <2>3. CASE OwnerStep
    BY <2>3, <1>1, OwnerStepAdvances
  <2>4. CASE Environment
    BY <2>1, <2>2, <2>4, <1>3
       DEF Environment, Start, Crash, run_revert, OwnerConnects, OwnerCloses, RefuseRequest,
           Configure, Connect, Disconnect, ShutdownTakes, ownerVars, Inv, TypeOK, Runners
  <2>5. CASE startup_reconcile
    BY <2>1, <2>5 DEF startup_reconcile, ownerVars
  <2>6. CASE ShutdownStep
    BY <2>1, <2>2, <2>6 DEF ShutdownStep, ShutdownDecides, ShutdownExits, ownerVars,
       Inv, TypeOK, Runners
  <2>7. ASSUME NEW r \in Runners, RevertStep(r)
        PROVE  HandlerWork' <= HandlerWork
    BY <1>1, <1>2, <2>1, <2>7, RevertStepAdvances DEF Runners
  <2>8. CASE UNCHANGED vars
    BY <2>1, <2>8 DEF vars
  <2> QED
    BY <2>3, <2>4, <2>5, <2>6, <2>7, <2>8 DEF Next
<1> QED
  BY <1>2, <1>3, OwnerStepAdvances

(* The shutdown task goes forward in the same way. *)
LEMMA ShutdownGoesForward ==
    ASSUME Inv, [Next]_vars
    PROVE  /\ ShutdownStep \/ RevertStep("shutdown") => ShutdownWork' < ShutdownWork
           /\ sd # "none" => ShutdownWork' <= ShutdownWork
<1>1. ShutdownWork \in 0..5 /\ ShutdownWork' \in 0..5
  BY WorkIsBounded, WorkStaysBounded DEF WorkBounded
<1>2. ASSUME RevertStep("shutdown")
      PROVE  ShutdownWork' < ShutdownWork
  <2>1. sd = "restoring" /\ sd' = "restoring"
    BY <1>2 DEF Inv, SweepOwners, RevertStep, shutdownVars
  <2>2. sweep["shutdown"] \in DOMAIN SweepLeft /\ sweep'["shutdown"] \in DOMAIN SweepLeft
    BY <1>2, OutcomesAreBoolean DEF Inv, TypeOK, RevertStep, Runners, SweepLeft
  <2>3. SweepLeft[sweep'["shutdown"]] < SweepLeft[sweep["shutdown"]]
    BY <1>2, RevertStepAdvances DEF Runners
  <2> QED
    BY <2>1, <2>2, <2>3 DEF ShutdownWork, ShutdownLeft, SweepLeft
<1>3. ASSUME ShutdownStep
      PROVE  ShutdownWork' < ShutdownWork
  <2>1. CASE ShutdownDecides
    <3>1. sweep["shutdown"] = "idle"
      BY <2>1 DEF ShutdownDecides, Inv, SweepOwners
    <3> QED
      BY <2>1, <3>1 DEF ShutdownDecides, Inv, TypeOK, Runners, ShutdownWork, ShutdownLeft,
         SweepLeft
  <2>2. CASE ShutdownExits
    <3>1. sd \in {"restoring", "leaving"}
      BY <2>2 DEF ShutdownExits
    <3>2. ShutdownWork > 0
      BY <3>1 DEF Inv, TypeOK, Runners, ShutdownWork, ShutdownLeft, SweepLeft
    <3> QED
      BY <2>2, <3>2, ProcessGoneEndsWork DEF ShutdownExits
  <2> QED
    BY <1>3, <2>1, <2>2 DEF ShutdownStep
<1>4. ASSUME sd # "none"
      PROVE  ShutdownWork' <= ShutdownWork
  <2>1. CASE sd' = sd /\ sweep'["shutdown"] = sweep["shutdown"]
    BY <2>1, <1>1 DEF ShutdownWork
  <2>2. CASE ProcessGone
    BY <2>2, <1>1, ProcessGoneEndsWork
  <2>3. CASE ShutdownStep
    BY <2>3, <1>1, <1>3
  <2>4. CASE Environment
    BY <2>1, <2>2, <2>4, <1>4
       DEF Environment, Start, Crash, run_revert, OwnerConnects, OwnerCloses, RefuseRequest,
           Configure, Connect, Disconnect, ShutdownTakes, shutdownVars, Inv, TypeOK, Runners
  <2>5. CASE startup_reconcile
    BY <2>1, <2>5 DEF startup_reconcile, shutdownVars
  <2>6. CASE OwnerStep
    BY <2>1, <2>2, <2>6
       DEF OwnerStep, HandlerStep, DetectStale, InstallGuard, DropPrior, ClearStale,
           DialInstalls, DialFails, DialReturns, ClearGuard, HoldAfterFailure,
           RestoreAfterFailure, RevertReturns, BlockBeforeDrop, DropTunnel, SweepEngine,
           Reply, OwnerExit, shutdownVars, Inv, TypeOK, Runners
  <2>7. ASSUME NEW r \in Runners, RevertStep(r)
        PROVE  ShutdownWork' <= ShutdownWork
    BY <1>1, <1>2, <2>1, <2>7, RevertStepAdvances DEF Runners
  <2>8. CASE UNCHANGED vars
    BY <2>1, <2>8 DEF vars
  <2> QED
    BY <2>3, <2>4, <2>5, <2>6, <2>7, <2>8 DEF Next
<1> QED
  BY <1>2, <1>3, <1>4

(* Every request, and every shutdown, has a bounded number of its own      *)
(* steps to take, and no step of anyone else adds to them: nothing a       *)
(* concurrent shutdown, `warrend revert` or failed command does sends a    *)
(* handler back (RequestEnds and StopEnds, but for fairness).              *)
THEOREM WorkRunsOut ==
    Spec => /\ []WorkBounded
            /\ HandlersAdvance
            /\ ShutdownAdvances
<1>1. Inv /\ [Next]_vars
      => /\ OwnerStep \/ RevertStep("owner") => HandlerWork' < HandlerWork
         /\ hpc \notin {"none", "idle"} => HandlerWork' <= HandlerWork
  BY RequestsGoForward
<1>2. Inv /\ [Next]_vars
      => /\ ShutdownStep \/ RevertStep("shutdown") => ShutdownWork' < ShutdownWork
         /\ sd # "none" => ShutdownWork' <= ShutdownWork
  BY ShutdownGoesForward
<1> QED
  BY <1>1, <1>2, WorkIsBounded, Invariance, PTL DEF Spec, HandlersAdvance, ShutdownAdvances

=============================================================================
