--------------------------- MODULE DesktopVpnProofs ---------------------------
(***************************************************************************)
(* The app and the daemon together: every step of the composition is a     *)
(* step of the daemon's own specification or none, so what module          *)
(* WarrendProofs proves of the daemon holds with the app driving it; and   *)
(* what the app holds as a connected session, the daemon holds.            *)
(***************************************************************************)
EXTENDS DesktopVpn, WarrendProofs

-----------------------------------------------------------------------------
(* The composition implements the daemon. *)

(* A queued configure asks for what this connection's app wants. *)
WantedIsRequested ==
    app # "idle" \/ toDaemon # <<>> => wanted \in LockdownRequests

LEMMA WantedInit == DesktopInit => WantedIsRequested
BY DEF DesktopInit, WantedIsRequested

LEMMA WantedStep == WantedIsRequested /\ [DesktopNext]_desktopVars => WantedIsRequested'
<1> SUFFICES ASSUME WantedIsRequested, [DesktopNext]_desktopVars
             PROVE  WantedIsRequested'
    OBVIOUS
<1> USE DEF WantedIsRequested
<1>1. CASE AppStep \/ AppWhim
    BY <1>1 DEF AppStep, AppWhim, AppReceives, AppSeesEnd, AppConnects, AppTimesOut,
                AppDisconnects, AppDies, Close, Note
<1>2. CASE OwnerTask
    BY <1>2 DEF OwnerTask, ReadConfigure, ReadConnect, ReadDisconnect, ReadEnd, Read,
                HandlerWorks, WriteReply, OwnerEnds, HangsUp, appVars
<1>3. CASE RevocationTick \/ ShutdownWorks \/ DaemonWhim
    BY <1>3 DEF RevocationTick, ShutdownWorks, DaemonWhim, HangsUp, appVars
<1>4. ASSUME NEW r \in Runners, RevertWorks(r) PROVE WantedIsRequested'
    BY <1>4 DEF RevertWorks, appVars
<1>5. CASE UNCHANGED desktopVars
    BY <1>5 DEF desktopVars, appVars
<1> QED
    BY <1>1, <1>2, <1>3, <1>4, <1>5 DEF DesktopNext

LEMMA StepIsWarrendStep ==
    WantedIsRequested /\ [DesktopNext]_desktopVars => [Next]_vars
<1> SUFFICES ASSUME WantedIsRequested, DesktopNext PROVE [Next]_vars
    BY DEF desktopVars
<1> USE DEF Next, Environment
<1>1. CASE AppStep
    BY <1>1 DEF AppStep, AppReceives, AppSeesEnd
<1>2. CASE AppWhim
    BY <1>2 DEF AppWhim, AppConnects, AppTimesOut, AppDisconnects, AppDies
<1>3. CASE OwnerTask
    <2>1. CASE ReadConfigure
        BY <2>1 DEF ReadConfigure, Read, WantedIsRequested
    <2>2. CASE ReadConnect \/ ReadDisconnect \/ ReadEnd
        BY <2>2 DEF ReadConnect, ReadDisconnect, ReadEnd
    <2>3. CASE HandlerWorks \/ WriteReply \/ OwnerEnds
        BY <2>3 DEF HandlerWorks, WriteReply, OwnerEnds, OwnerStep
    <2> QED
        BY <1>3, <2>1, <2>2, <2>3 DEF OwnerTask
<1>4. CASE RevocationTick
    BY <1>4 DEF RevocationTick
<1>5. CASE ShutdownWorks
    BY <1>5 DEF ShutdownWorks, ShutdownStep
<1>6. CASE DaemonWhim
    BY <1>6 DEF DaemonWhim
<1>7. ASSUME NEW r \in Runners, RevertWorks(r) PROVE Next
    BY <1>7 DEF RevertWorks
<1> QED
    BY <1>1, <1>2, <1>3, <1>4, <1>5, <1>6, <1>7 DEF DesktopNext

LEMMA WantedAlways == DesktopSpec => []WantedIsRequested
<1>1. DesktopInit => WantedIsRequested
    BY WantedInit
<1>2. WantedIsRequested /\ [DesktopNext]_desktopVars => WantedIsRequested'
    BY WantedStep
<1> QED
    BY <1>1, <1>2, PTL DEF DesktopSpec

(* Driven by the app, with requests queued, timed out and cut off, the     *)
(* daemon behaves as its own specification allows.                         *)
LEMMA DesktopImplementsWarrend == DesktopSpec => Spec
<1>1. DesktopInit => Init
    BY DEF DesktopInit
<1>2. WantedIsRequested /\ [DesktopNext]_desktopVars => [Next]_vars
    BY StepIsWarrendStep
<1> QED
    BY <1>1, <1>2, WantedAlways, PTL DEF DesktopSpec, Spec

(* So the app cannot make the daemon open a blocked host. *)
THEOREM DesktopFailsClosed == DesktopSpec => FailClosed /\ LockdownHolds
BY DesktopImplementsWarrend, DaemonFailsClosed, LockdownNeverOpens, PTL

-----------------------------------------------------------------------------
(* The app's session is the daemon's. *)

AppTypes ==
    /\ app \in {"idle", "connecting", "session", "disconnecting"}
    /\ conn \in {"none", "open", "closed", "dead"}
    /\ toApp \in Seq(Events)
    /\ app = "idle" => toApp = <<>> /\ conn # "open"

(* An open connection is being served. *)
OpenIsServed == conn = "open" => daemon = "serving" /\ hpc \notin {"none", "ended"}

(* A connect's two requests are read in order, one at a time: while one is *)
(* queued nothing has come up.                                             *)
RequestsInOrder ==
    conn = "open" /\ app = "connecting" =>
        /\ toDaemon \in {<<"configure", "connect">>, <<"connect">>, <<>>}
        /\ toDaemon # <<>> => /\ hpc = "idle" \/ (hpc = "reply" /\ reply = "error")
                              /\ ~Contains(toApp, "connected")

(* Connected is answered with the session in the slot, unless a shutdown   *)
(* took it.                                                                *)
AnsweredIsStored ==
    /\ hpc \in {"sweep", "revert"} => reply \in {"disconnected", "error"}
    /\ hpc = "reply" => reply \in Events
    /\ sd = "none" /\ (hpc = "unguard" \/ (hpc = "reply" /\ reply = "connected"))
       => tunnel = "live"

(* From the answer to the disconnect the daemon is idle with the session.  *)
SessionIsHeld ==
    /\ conn = "open" /\ sd = "none"
    /\ app = "session" \/ (app = "connecting" /\ Contains(toApp, "connected"))
    => hpc = "idle" /\ tunnel = "live" /\ toDaemon = <<>>

AppInv ==
    /\ AppTypes
    /\ OpenIsServed
    /\ RequestsInOrder
    /\ AnsweredIsStored
    /\ SessionIsHeld

LEMMA AppInvInit == DesktopInit => AppInv
BY DEF DesktopInit, Init, AppInv, AppTypes, OpenIsServed, RequestsInOrder,
       AnsweredIsStored, SessionIsHeld

LEMMA TailKeeps ==
    ASSUME NEW S, NEW s \in Seq(S), s # <<>>, NEW e
    PROVE  /\ Tail(s) \in Seq(S)
           /\ Contains(Tail(s), e) => Contains(s, e)
BY DEF Contains

LEMMA AppendAdds ==
    ASSUME NEW S, NEW s \in Seq(S), NEW x \in S, NEW e
    PROVE  /\ Append(s, x) \in Seq(S)
           /\ Contains(Append(s, x), e) <=> Contains(s, e) \/ x = e
BY DEF Contains

LEMMA HeadIsContained ==
    ASSUME NEW S, NEW s \in Seq(S), s # <<>>
    PROVE  Head(s) \in S /\ Contains(s, Head(s))
BY DEF Contains

LEMMA EmptyContainsNothing ==
    ASSUME NEW S, NEW e
    PROVE  << >> \in Seq(S) /\ ~Contains(<< >>, e)
BY DEF Contains

LEMMA QueueOfRequests ==
    /\ Head(<<"configure", "connect">>) = "configure"
    /\ Tail(<<"configure", "connect">>) = <<"connect">>
    /\ Head(<<"connect">>) = "connect"
    /\ Tail(<<"connect">>) = << >>
OBVIOUS

(* An answer is written as it is, or an error with its fatal cause.        *)
LEMMA AnswerWritten ==
    ASSUME WriteReply, reply \in Events
    PROVE  \E event \in Events :
             /\ event = reply \/ (event = "fatal" /\ reply = "error")
             /\ toApp' = IF conn = "open" THEN Append(toApp, event) ELSE toApp
BY DEF WriteReply, Written, Events

LEMMA AppInvStep == Inv /\ AppInv /\ [DesktopNext]_desktopVars => AppInv'
<1> SUFFICES ASSUME Inv, AppInv, [DesktopNext]_desktopVars PROVE AppInv'
    OBVIOUS
<1> USE DEF AppInv, AppTypes, OpenIsServed, RequestsInOrder, AnsweredIsStored, SessionIsHeld
<1>1. CASE AppReceives
    <2> DEFINE event == Head(toApp)
    <2>1. /\ event \in Events /\ Contains(toApp, event)
          /\ Tail(toApp) \in Seq(Events)
          /\ Contains(Tail(toApp), "connected") => Contains(toApp, "connected")
        BY <1>1, HeadIsContained, TailKeeps DEF AppReceives
    <2>2. CASE app = "connecting" /\ event = "connected" /\ app' = "session"
        BY <1>1, <2>1, <2>2 DEF AppReceives, vars, shutdownVars
    <2>3. CASE Close
        BY <1>1, <2>3 DEF AppReceives, Close, vars
    <2>4. CASE Note(event) /\ app # "connecting"
        BY <1>1, <2>1, <2>4 DEF AppReceives, Note, vars
    <2>5. CASE Note(event) /\ app = "connecting"
        BY <1>1, <2>1, <2>5 DEF AppReceives, Note, vars
    <2> QED
        BY <1>1, <2>2, <2>3, <2>4, <2>5 DEF AppReceives
<1>2. CASE AppSeesEnd \/ AppTimesOut \/ AppDies
    <2>1. app' = "idle" /\ toApp' = <<>> /\ conn' \in {"none", "closed"} /\ UNCHANGED vars
        BY <1>2 DEF AppSeesEnd, AppTimesOut, AppDies, Close
    <2> QED
        BY <2>1, EmptyContainsNothing DEF vars
<1>3. CASE AppConnects
    <2>1. UNCHANGED <<toApp, tunnel, reply, sd>> /\ daemon' = "serving" /\ hpc' = "idle"
        BY <1>3 DEF AppConnects, OwnerConnects, shutdownVars
    <2>2. toApp = <<>>
        BY <1>3 DEF AppConnects
    <2>3. app' = "connecting" /\ toDaemon' = <<"configure", "connect">> /\ conn' = "open"
        BY <1>3 DEF AppConnects
    <2> QED
        BY <2>1, <2>2, <2>3, EmptyContainsNothing
<1>4. CASE AppDisconnects
    BY <1>4 DEF AppDisconnects, vars
<1>5. CASE ReadConfigure
    <2>1. hpc = "idle" /\ sd' = sd /\ tunnel' = tunnel /\ daemon' = daemon
        BY <1>5 DEF ReadConfigure, Configure, RefuseRequest, shutdownVars
    <2>2. hpc' = "idle" \/ (hpc' = "reply" /\ reply' = "error")
        BY <1>5 DEF ReadConfigure, Configure, RefuseRequest, Answer
    <2>3. conn = "open" /\ app = "connecting"
          => toDaemon = <<"configure", "connect">> /\ toDaemon' = <<"connect">>
        BY <1>5, QueueOfRequests DEF ReadConfigure, Read
    <2>4. UNCHANGED <<app, conn, toApp>> /\ toDaemon # <<>>
        BY <1>5 DEF ReadConfigure, Read
    <2> QED
        BY <2>1, <2>2, <2>3, <2>4 DEF Events
<1>6. CASE ReadConnect
    <2>1. hpc = "idle" /\ sd' = sd /\ tunnel' = tunnel /\ daemon' = daemon
        BY <1>6 DEF ReadConnect, Connect, RefuseRequest, shutdownVars
    <2>2. hpc' \in {"guard", "detect"} \/ (hpc' = "reply" /\ reply' = "error")
        BY <1>6 DEF ReadConnect, Connect, RefuseRequest, Answer
    <2>3. conn = "open" /\ app = "connecting" => toDaemon = <<"connect">> /\ toDaemon' = <<>>
        BY <1>6, QueueOfRequests DEF ReadConnect, Read
    <2>4. UNCHANGED <<app, conn, toApp>> /\ toDaemon # <<>>
        BY <1>6 DEF ReadConnect, Read
    <2>5. conn = "open" /\ app = "connecting" => ~Contains(toApp, "connected")
        BY <2>3
    <2> QED
        BY <2>1, <2>2, <2>3, <2>4, <2>5 DEF Events
<1>7. CASE ReadDisconnect
    BY <1>7, AppendAdds DEF ReadDisconnect, Disconnect, Read, Written, Events, shutdownVars
<1>8. CASE ReadEnd
    BY <1>8 DEF ReadEnd, OwnerCloses, appVars, shutdownVars, Contains
<1>9. CASE WriteReply
    <2>1. reply \in Events
        BY <1>9 DEF WriteReply, Reply
    <2> QED
        <3>1. PICK event \in Events :
                /\ event = reply \/ (event = "fatal" /\ reply = "error")
                /\ toApp' = IF conn = "open" THEN Append(toApp, event) ELSE toApp
            BY <1>9, <2>1, AnswerWritten
        <3>2. /\ UNCHANGED <<app, conn, toDaemon, daemon, tunnel, client, sd>>
              /\ hpc = "reply" /\ reply' = "none" /\ hpc' \in {"idle", "ended"}
              /\ conn = "open" => hpc' = "idle"
            BY <1>9 DEF WriteReply, Reply, shutdownVars
        <3>3. /\ toApp' \in Seq(Events)
              /\ conn = "open" => (Contains(toApp', "connected")
                                   <=> Contains(toApp, "connected") \/ reply = "connected")
            BY <3>1, AppendAdds
        <3> QED
            BY <3>1, <3>2, <3>3
<1>10. CASE HandlerWorks
    <2>1. hpc \notin {"idle", "none", "ended"} /\ (hpc = "reply" => FALSE)
        BY <1>10 DEF HandlerWorks, HandlerStep, DetectStale, InstallGuard, DropPrior,
           ClearStale, DialInstalls, DialFails, DialReturns, ClearGuard, HoldAfterFailure,
           RestoreAfterFailure, RevertReturns, BlockBeforeDrop, DropTunnel, SweepEngine
    <2>2. hpc' \notin {"idle", "none", "ended"} /\ daemon' = daemon /\ sd' = sd
        BY <1>10 DEF HandlerWorks, HandlerStep, DetectStale, InstallGuard, DropPrior,
           ClearStale, DialInstalls, DialFails, DialReturns, ClearGuard, HoldAfterFailure,
           RestoreAfterFailure, RevertReturns, BlockBeforeDrop, DropTunnel, SweepEngine,
           Answer, shutdownVars
    <2>3. AnsweredIsStored'
        BY <1>10 DEF HandlerWorks, HandlerStep, DetectStale, InstallGuard, DropPrior,
           ClearStale, DialInstalls, DialFails, DialReturns, ClearGuard, HoldAfterFailure,
           RestoreAfterFailure, RevertReturns, BlockBeforeDrop, DropTunnel, SweepEngine,
           Answer, shutdownVars, Events
    <2> QED
        BY <1>10, <2>1, <2>2, <2>3 DEF HandlerWorks, appVars
<1>11. CASE OwnerEnds
    BY <1>11 DEF OwnerEnds, OwnerExit, ProcessGone, HangsUp
<1>12. CASE RevocationTick
    <2>1. /\ UNCHANGED <<tunnel, reply, sd, daemon, app, conn, toDaemon>>
          /\ hpc = "idle"
          /\ IF conn = "open" THEN hpc' = "idle" ELSE hpc' = "ended"
        BY <1>12 DEF RevocationTick, OwnerCloses, vars, shutdownVars
    <2>2. /\ toApp' \in Seq(Events)
          /\ Contains(toApp', "connected") <=> Contains(toApp, "connected")
          /\ app = "idle" => toApp' = toApp
        BY <1>12, AppendAdds DEF RevocationTick, Written, Events
    <2> QED
        BY <2>1, <2>2
<1>13. CASE ShutdownWorks
    <2>1. CASE ShutdownDecides /\ UNCHANGED appVars
        BY <2>1 DEF ShutdownDecides, appVars, ownerVars
    <2>2. CASE ShutdownExits /\ HangsUp
        BY <2>2 DEF ShutdownExits, ProcessGone, HangsUp
    <2> QED
        BY <1>13, <2>1, <2>2 DEF ShutdownWorks
<1>14. CASE DaemonWhim
    <2>1. CASE (Start \/ startup_reconcile \/ run_revert) /\ UNCHANGED appVars
        BY <2>1 DEF Start, startup_reconcile, run_revert, appVars, ownerVars, shutdownVars
    <2>2. CASE ShutdownTakes /\ UNCHANGED appVars
        BY <2>2 DEF ShutdownTakes, appVars, ownerVars
    <2>3. CASE Crash /\ HangsUp
        BY <2>3 DEF Crash, ProcessGone, HangsUp
    <2> QED
        BY <1>14, <2>1, <2>2, <2>3 DEF DaemonWhim
<1>15. ASSUME NEW r \in Runners, RevertWorks(r) PROVE AppInv'
    BY <1>15 DEF RevertWorks, RevertStep, appVars, ownerVars, shutdownVars
<1>16. CASE UNCHANGED desktopVars
    BY <1>16 DEF desktopVars, appVars, vars, shutdownVars
<1> QED
    BY <1>1, <1>2, <1>3, <1>4, <1>5, <1>6, <1>7, <1>8, <1>9, <1>10, <1>11, <1>12,
       <1>13, <1>14, <1>15, <1>16 DEF DesktopNext, AppStep, AppWhim, OwnerTask

LEMMA AppInvariance == DesktopSpec => []AppInv
<1>1. DesktopInit => AppInv
    BY AppInvInit
<1>2. Inv /\ AppInv /\ [DesktopNext]_desktopVars => AppInv'
    BY AppInvStep
<1>3. DesktopSpec => []Inv
    BY DesktopImplementsWarrend, Invariance, PTL
<1> QED
    BY <1>1, <1>2, <1>3, PTL DEF DesktopSpec

(* The app holds a connected session only while the daemon holds it and    *)
(* the engine's rules are in force.                                        *)
THEOREM SessionsAreLive == DesktopSpec => []SessionIsLive
<1>1. AppInv /\ SessionProtected => SessionIsLive
    BY DEF AppInv, SessionIsHeld, SessionProtected, SessionIsLive, Overridden
<1>2. DesktopSpec => []SessionProtected
    BY DesktopImplementsWarrend, SessionsProtected, PTL
<1> QED
    BY <1>1, <1>2, AppInvariance, PTL

-----------------------------------------------------------------------------
(* The app's disconnected event is the truth, where commands succeed.      *)

(* The app asks for nothing after its disconnect, and the answer to that   *)
(* is the last thing the daemon says.                                      *)
DisconnectComesLast ==
    /\ hpc = "none" => ~client
    /\ conn = "open" =>
         /\ latest # "disconnected"
         /\ app = "session" => hpc = "idle" /\ toDaemon = <<>>
         /\ app = "connecting" /\ Contains(toApp, "connected") => hpc = "idle"
         /\ app = "disconnecting" => toDaemon \in {<<"disconnect">>, <<>>}
         /\ app = "disconnecting" /\ toDaemon # <<>> => hpc = "idle"
         /\ app # "disconnecting" =>
              /\ hpc \notin DisconnectPlaces
              /\ reply # "disconnected"
              /\ ~Contains(toApp, "disconnected")
         /\ Contains(toApp, "disconnected") => hpc = "idle" /\ toDaemon = <<>>

(* A configured client has the lockdown its app wants, and what has none   *)
(* is refused.                                                             *)
ConfiguredAsWanted ==
    conn = "open" =>
        /\ client => lockdown = wanted
        /\ ~client => /\ app = "connecting"
                      /\ hpc = "idle" \/ (hpc = "reply" /\ reply = "error")
                      /\ ~Contains(toApp, "connected")

(* The revert has cleared what it is past, and nobody puts it back.        *)
RevertCleared ==
    /\ hpc = "revert" /\ sweep["owner"] # "engine" => engineTable = "absent"
    /\ hpc = "revert" /\ sweep["owner"] \notin {"engine", "lockdown"} => lockdownTable = "absent"
    /\ hpc = "reply" /\ reply = "disconnected" /\ ~lockdown => ~Blocked

(* What a disconnected event says of the host.                             *)
Released ==
    /\ tunnel = "none"
    /\ IF lockdown THEN Overridden \/ lockdownTable = "block" ELSE ~Blocked

ToldIsTrue == conn = "open" /\ Contains(toApp, "disconnected") => Released

LEMMA DisconnectLastInit == DesktopInit => DisconnectComesLast /\ ConfiguredAsWanted
BY DEF DesktopInit, Init, DisconnectComesLast, ConfiguredAsWanted

LEMMA RestoredInit == DesktopInit => RevertCleared /\ ToldIsTrue
BY DEF DesktopInit, Init, RevertCleared, ToldIsTrue

LEMMA EventAdded ==
    ASSUME toApp \in Seq(Events), NEW x \in Events, toApp' = Append(toApp, x), NEW e
    PROVE  Contains(toApp', e) <=> Contains(toApp, e) \/ x = e
<1>1. Contains(Append(toApp, x), e) <=> Contains(toApp, e) \/ x = e
    BY AppendAdds
<1> QED
    BY <1>1

(* What a handler's own step may do to where it is and what it answers.    *)
LEMMA HandlerGoesOn ==
    ASSUME Inv, HandlerStep
    PROVE  /\ hpc \notin {"idle", "none", "ended", "reply"}
           /\ hpc' \notin {"idle", "none", "ended"}
           /\ UNCHANGED <<client, lockdown>>
           /\ hpc \in ConnectPlaces => hpc' \notin DisconnectPlaces /\ reply' # "disconnected"
           /\ hpc = "revert" => hpc' = "reply" /\ reply' = reply
<1> USE DEF HandlerStep, Inv, TypeOK, HandlerPlaces, ConnectPlaces, DisconnectPlaces, Places, Answer
<1>1. CASE DetectStale \/ InstallGuard \/ DropPrior \/ ClearStale \/ DialInstalls
    BY <1>1 DEF DetectStale, InstallGuard, DropPrior, ClearStale, DialInstalls
<1>2. CASE DialFails \/ DialReturns \/ ClearGuard \/ HoldAfterFailure \/ RestoreAfterFailure
    BY <1>2 DEF DialFails, DialReturns, ClearGuard, HoldAfterFailure, RestoreAfterFailure
<1>3. CASE RevertReturns \/ BlockBeforeDrop \/ DropTunnel \/ SweepEngine
    BY <1>3 DEF RevertReturns, BlockBeforeDrop, DropTunnel, SweepEngine
<1> QED
    BY <1>1, <1>2, <1>3

LEMMA DisconnectLastStep ==
    Inv /\ AppInv /\ DisconnectComesLast /\ ConfiguredAsWanted /\ [DesktopNext]_desktopVars
    => DisconnectComesLast' /\ ConfiguredAsWanted'
<1> SUFFICES ASSUME Inv, AppInv, DisconnectComesLast, ConfiguredAsWanted,
                    [DesktopNext]_desktopVars
             PROVE  DisconnectComesLast' /\ ConfiguredAsWanted'
    OBVIOUS
<1> USE DEF DisconnectComesLast, ConfiguredAsWanted
<1>0. /\ AppTypes /\ OpenIsServed /\ RequestsInOrder /\ AnsweredIsStored
      /\ toApp \in Seq(Events)
    BY DEF AppInv, AppTypes
<1>1. CASE AppReceives
    <2> DEFINE event == Head(toApp)
    <2>1. /\ event \in Events /\ Contains(toApp, event)
          /\ Contains(Tail(toApp), "connected") => Contains(toApp, "connected")
          /\ Contains(Tail(toApp), "disconnected") => Contains(toApp, "disconnected")
        BY <1>0, <1>1, HeadIsContained, TailKeeps DEF AppReceives
    <2>2. CASE app = "connecting" /\ event = "connected" /\ app' = "session"
        BY <1>0, <1>1, <2>1, <2>2 DEF AppReceives, RequestsInOrder, vars
    <2>3. CASE Close
        <3>1. conn' # "open"
            BY <2>3 DEF Close
        <3> QED
            BY <1>1, <3>1 DEF AppReceives, vars
    <2>4. CASE Note(event) /\ (app = "session" \/ event \in {"draining", "fatal"})
        BY <1>0, <1>1, <2>1, <2>4 DEF AppReceives, Note, StateOf, Events, vars
    <2> QED
        BY <1>1, <2>2, <2>3, <2>4 DEF AppReceives
<1>2. CASE AppSeesEnd \/ AppTimesOut \/ AppDies
    BY <1>2 DEF AppSeesEnd, AppTimesOut, AppDies, Close, vars
<1>3. CASE AppConnects
    <2>1. toApp' = <<>> /\ ~Contains(<<>>, "connected") /\ ~Contains(<<>>, "disconnected")
        BY <1>0, <1>3, EmptyContainsNothing DEF AppConnects, AppTypes
    <2> QED
        BY <1>3, <2>1 DEF AppConnects, OwnerConnects, Inv, Lifetime, DisconnectPlaces
<1>4. CASE AppDisconnects
    <2>1. conn = "open" => toDaemon' = <<"disconnect">>
        BY <1>4 DEF AppDisconnects
    <2> QED
        BY <1>4, <2>1 DEF AppDisconnects, vars
<1>5. CASE ReadConfigure \/ ReadConnect
    <2>1. conn = "open" => app = "connecting" /\ toDaemon # <<>>
        BY <1>0, <1>5, QueueOfRequests DEF ReadConfigure, ReadConnect, Read, AppTypes
    <2>2. UNCHANGED <<app, conn, toApp, latest, wanted>> /\ hpc = "idle"
        BY <1>5 DEF ReadConfigure, ReadConnect, Read, Configure, RefuseRequest, Connect
    <2>3. /\ hpc' \in {"idle", "guard", "detect"} \/ (hpc' = "reply" /\ reply' = "error")
          /\ reply' \in {reply, "error"}
          /\ client' => (lockdown' = lockdown /\ client) \/ lockdown' = wanted
          /\ ~client' => hpc' = "idle" \/ (hpc' = "reply" /\ reply' = "error")
        BY <1>5 DEF ReadConfigure, ReadConnect, Configure, RefuseRequest, Connect, Answer
    <2>4. conn = "open" => ~Contains(toApp, "connected") /\ ~Contains(toApp, "disconnected")
        BY <1>0, <2>1 DEF RequestsInOrder
    <2> QED
        BY <2>1, <2>2, <2>3, <2>4 DEF DisconnectPlaces
<1>6. CASE ReadDisconnect
    <2>1. conn = "open" => app = "disconnecting" /\ toDaemon = <<"disconnect">> /\ toDaemon' = <<>>
        BY <1>0, <1>6, QueueOfRequests DEF ReadDisconnect, Read, AppTypes, RequestsInOrder
    <2>2. conn = "open" => toApp' = Append(toApp, "draining")
        BY <1>6 DEF ReadDisconnect, Written
    <2>3. conn = "open" => (Contains(toApp', "disconnected") <=> Contains(toApp, "disconnected"))
        BY <1>0, <2>2, EventAdded DEF Events
    <2> QED
        BY <1>6, <2>1, <2>3 DEF ReadDisconnect, Disconnect, Read
<1>7. CASE ReadEnd
    BY <1>7 DEF ReadEnd, OwnerCloses, appVars
<1>8. CASE WriteReply
    <2>1. reply \in Events
        BY <1>0, <1>8 DEF WriteReply, Reply, AnsweredIsStored
    <2>2. /\ UNCHANGED <<client, lockdown, app, conn, toDaemon, latest, wanted>>
          /\ hpc = "reply" /\ reply' = "none" /\ hpc' \in {"idle", "ended"}
          /\ conn = "open" => hpc' = "idle"
        BY <1>8 DEF WriteReply, Reply
    <2>4. PICK event \in Events :
            /\ event = reply \/ (event = "fatal" /\ reply = "error")
            /\ toApp' = IF conn = "open" THEN Append(toApp, event) ELSE toApp
        BY <1>8, <2>1, AnswerWritten
    <2>3. conn = "open" =>
            /\ Contains(toApp', "connected") <=> Contains(toApp, "connected") \/ reply = "connected"
            /\ Contains(toApp', "disconnected")
                 <=> Contains(toApp, "disconnected") \/ reply = "disconnected"
        BY <1>0, <2>4, EventAdded
    <2> QED
        BY <2>2, <2>3 DEF DisconnectPlaces
<1>9. CASE HandlerWorks
    <2>1. UNCHANGED appVars /\ HandlerStep
        BY <1>9 DEF HandlerWorks
    <2>2. /\ hpc \notin {"idle", "none", "ended", "reply"}
          /\ hpc' \notin {"idle", "none", "ended"}
          /\ UNCHANGED <<client, lockdown>>
          /\ hpc \in ConnectPlaces => hpc' \notin DisconnectPlaces /\ reply' # "disconnected"
          /\ hpc = "revert" => hpc' = "reply" /\ reply' = reply
        BY <2>1, HandlerGoesOn
    <2>3. hpc \in ConnectPlaces \cup DisconnectPlaces \cup {"revert"}
        BY <2>2 DEF Inv, TypeOK, Places
    <2> QED
        BY <2>1, <2>2, <2>3 DEF appVars, DisconnectPlaces
<1>10. CASE OwnerEnds
    BY <1>10 DEF OwnerEnds, OwnerExit, ProcessGone, HangsUp
<1>11. CASE RevocationTick
    <2>1. conn = "open" => UNCHANGED vars /\ toApp' = Append(toApp, "fatal")
        BY <1>11 DEF RevocationTick, Written
    <2>2. conn = "open" =>
            /\ Contains(toApp', "connected") <=> Contains(toApp, "connected")
            /\ Contains(toApp', "disconnected") <=> Contains(toApp, "disconnected")
        BY <1>0, <2>1, EventAdded DEF Events
    <2>3. /\ UNCHANGED <<app, conn, toDaemon, latest, wanted>>
          /\ conn # "open" => hpc' = "ended"
        BY <1>11 DEF RevocationTick, OwnerCloses
    <2> QED
        BY <2>1, <2>2, <2>3 DEF vars
<1>12. CASE ShutdownWorks
    BY <1>12 DEF ShutdownWorks, ShutdownDecides, ShutdownExits, ProcessGone, HangsUp, appVars,
       ownerVars
<1>13. CASE DaemonWhim
    BY <1>13 DEF DaemonWhim, Start, startup_reconcile, run_revert, ShutdownTakes, Crash,
       ProcessGone, HangsUp, appVars, ownerVars
<1>14. ASSUME NEW r \in Runners, RevertWorks(r) PROVE DisconnectComesLast' /\ ConfiguredAsWanted'
    BY <1>14 DEF RevertWorks, RevertStep, appVars, ownerVars
<1>15. CASE UNCHANGED desktopVars
    BY <1>15 DEF desktopVars, appVars, vars
<1> QED
    BY <1>1, <1>2, <1>3, <1>4, <1>5, <1>6, <1>7, <1>8, <1>9, <1>10, <1>11, <1>12, <1>13,
       <1>14, <1>15 DEF DesktopNext, AppStep, AppWhim, OwnerTask

(* The owner's revert, beside every other actor of the daemon's.           *)
LEMMA RevertClears ==
    ASSUME CommandsFail = FALSE, Inv, RevertCleared, [Next]_vars
    PROVE  RevertCleared'
<1> USE DEF RevertCleared, Blocked
<1>0. /\ Outcomes = {TRUE}
      /\ TypeOK /\ Lifetime /\ SweepOwners /\ HandlerPlaces /\ SlotEmpty
    BY DEF Outcomes, Inv
<1>1. CASE Environment \/ startup_reconcile
    <2>1. CASE Start \/ startup_reconcile \/ Crash \/ OwnerConnects \/ OwnerCloses
        BY <1>0, <2>1 DEF Start, startup_reconcile, Crash, ProcessGone, OwnerConnects, OwnerCloses,
           ownerVars, netVars, Lifetime
    <2>2. CASE run_revert \/ ShutdownTakes
        BY <1>0, <2>2 DEF run_revert, ShutdownTakes, ownerVars, netVars, TypeOK, Runners
    <2>3. CASE RefuseRequest \/ Connect \/ Disconnect
        BY <1>0, <2>3 DEF RefuseRequest, Connect, Disconnect, Answer, netVars
    <2>4. ASSUME NEW on \in LockdownRequests, Configure(on) PROVE RevertCleared'
        BY <2>4 DEF Configure
    <2> QED
        BY <1>1, <2>1, <2>2, <2>3, <2>4 DEF Environment
<1>2. CASE DetectStale \/ InstallGuard \/ DropPrior \/ ClearStale \/ DialInstalls \/ DialFails
    BY <1>0, <1>2 DEF DetectStale, InstallGuard, DropPrior, ClearStale, DialInstalls, DialFails,
       Answer, HandlerPlaces
<1>3. CASE DialReturns \/ ClearGuard \/ HoldAfterFailure \/ RestoreAfterFailure \/ BlockBeforeDrop
    BY <1>0, <1>3 DEF DialReturns, ClearGuard, HoldAfterFailure, RestoreAfterFailure,
       BlockBeforeDrop, Answer, TypeOK, Runners
<1>4. CASE DropTunnel
    BY <1>0, <1>4 DEF DropTunnel, TypeOK, Runners
<1>5. CASE SweepEngine \/ RevertReturns
    BY <1>0, <1>5 DEF SweepEngine, RevertReturns, HandlerPlaces, netVars
<1>6. CASE Reply \/ OwnerExit
    BY <1>0, <1>6 DEF Reply, OwnerExit, ProcessGone
<1>7. CASE ShutdownStep
    BY <1>0, <1>7 DEF ShutdownStep, ShutdownDecides, ShutdownExits, ProcessGone, EngineDrop,
       ownerVars, TypeOK, Runners
<1>8. ASSUME NEW r \in Runners, RevertStep(r) PROVE RevertCleared'
    BY <1>0, <1>8 DEF RevertStep, clear_engine_block, clear_lockdown, reconcile_dns, ownerVars,
       TypeOK, Runners
<1>9. CASE UNCHANGED vars
    BY <1>9 DEF vars, netVars, shutdownVars
<1> QED
    BY <1>1, <1>2, <1>3, <1>4, <1>5, <1>6, <1>7, <1>8, <1>9 DEF Next, OwnerStep, HandlerStep

(* Between requests nothing of the daemon's undoes what was told.          *)
LEMMA ReleasedStays ==
    ASSUME CommandsFail = FALSE, Inv, [Next]_vars,
           hpc = "idle", hpc' = "idle", UNCHANGED lockdown, Released
    PROVE  Released'
<1> USE DEF Released, Blocked, Overridden
<1>0. Outcomes = {TRUE} /\ TypeOK /\ Lifetime /\ SweepOwners
    BY DEF Outcomes, Inv
<1>1. CASE Environment \/ startup_reconcile
    <2>1. CASE Start \/ startup_reconcile \/ Crash \/ OwnerConnects \/ OwnerCloses
        BY <1>0, <2>1 DEF Start, startup_reconcile, Crash, ProcessGone, OwnerConnects, OwnerCloses,
           Lifetime
    <2>2. CASE run_revert \/ ShutdownTakes
        BY <1>0, <2>2 DEF run_revert, ShutdownTakes, netVars, shutdownVars, TypeOK
    <2>3. CASE RefuseRequest \/ Connect \/ Disconnect
        BY <2>3 DEF RefuseRequest, Connect, Disconnect, Answer
    <2>4. ASSUME NEW on \in LockdownRequests, Configure(on) PROVE Released'
        BY <2>4 DEF Configure, netVars, shutdownVars
    <2> QED
        BY <1>1, <2>1, <2>2, <2>3, <2>4 DEF Environment
<1>2. CASE HandlerStep \/ Reply \/ OwnerExit
    BY <1>2, HandlerGoesOn DEF Reply, OwnerExit
<1>3. CASE ShutdownStep
    BY <1>0, <1>3 DEF ShutdownStep, ShutdownDecides, ShutdownExits, ProcessGone, EngineDrop,
       ownerVars, TypeOK
<1>4. ASSUME NEW r \in Runners, RevertStep(r) PROVE Released'
    <2>1. r # "owner" /\ Overridden /\ UNCHANGED <<tunnel, sd, escaped>>
        BY <1>0, <1>4 DEF SweepOwners, Runners, RevertStep, shutdownVars
    <2>2. engineTable' \in {engineTable, "absent"} /\ lockdownTable' \in {lockdownTable, "absent"}
        BY <1>0, <1>4 DEF RevertStep, clear_engine_block, clear_lockdown
    <2> QED
        BY <2>1, <2>2
<1>5. CASE UNCHANGED vars
    BY <1>5 DEF vars, netVars, shutdownVars
<1> QED
    BY <1>1, <1>2, <1>3, <1>4, <1>5 DEF Next, OwnerStep

(* The event is written at the end of the revert, and read or lost before  *)
(* the app asks for anything else.                                         *)
LEMMA ToldStaysTrue ==
    ASSUME CommandsFail = FALSE, Inv, AppInv, WantedIsRequested, DisconnectComesLast,
           DisconnectComesLast', RevertCleared, ToldIsTrue, [DesktopNext]_desktopVars
    PROVE  ToldIsTrue'
<1> SUFFICES ASSUME conn' = "open", Contains(toApp', "disconnected") PROVE Released'
    BY DEF ToldIsTrue
<1>1. hpc' = "idle" /\ toDaemon' = <<>> /\ app' = "disconnecting"
    BY DEF DisconnectComesLast
<1>2. toApp \in Seq(Events) /\ [Next]_vars
    BY StepIsWarrendStep DEF AppInv, AppTypes
<1>3. CASE conn = "open" /\ Contains(toApp, "disconnected")
    <2>1. hpc = "idle" /\ toDaemon = <<>> /\ Released
        BY <1>3 DEF DisconnectComesLast, ToldIsTrue
    <2>2. UNCHANGED lockdown
        <3>1. CASE AppStep \/ AppWhim \/ UNCHANGED desktopVars
            BY <1>1, <3>1 DEF AppStep, AppWhim, AppReceives, AppSeesEnd, AppConnects, AppTimesOut,
               AppDisconnects, AppDies, desktopVars, vars
        <3>2. CASE OwnerTask
            BY <2>1, <3>2, HandlerGoesOn DEF OwnerTask, ReadConfigure, ReadConnect, ReadDisconnect,
               Read, ReadEnd, OwnerCloses, HandlerWorks, WriteReply, Reply, OwnerEnds, OwnerExit
        <3>3. CASE RevocationTick
            BY <3>3 DEF RevocationTick, OwnerCloses, vars
        <3>4. CASE ShutdownWorks \/ DaemonWhim
            BY <1>1, <3>4 DEF ShutdownWorks, ShutdownDecides, ShutdownExits, DaemonWhim, Start,
               startup_reconcile, run_revert, ShutdownTakes, Crash, ProcessGone
        <3>5. ASSUME NEW r \in Runners, RevertWorks(r) PROVE UNCHANGED lockdown
            BY <3>5 DEF RevertWorks, RevertStep
        <3> QED
            BY <3>1, <3>2, <3>3, <3>4, <3>5 DEF DesktopNext
    <2> QED
        BY <1>1, <1>2, <2>1, <2>2, ReleasedStays
<1>4. CASE ~(conn = "open" /\ Contains(toApp, "disconnected"))
    <2>1. CASE WriteReply
        <3>0. hpc = "reply" /\ reply \in Events /\ conn = "open"
            BY <2>1 DEF WriteReply, Reply, AppInv, AnsweredIsStored
        <3>1. PICK event \in Events :
                /\ event = reply \/ (event = "fatal" /\ reply = "error")
                /\ toApp' = IF conn = "open" THEN Append(toApp, event) ELSE toApp
            BY <2>1, <3>0, AnswerWritten
        <3>2. reply = "disconnected"
            <4>1. toApp' = Append(toApp, event)
                BY <3>0, <3>1
            <4> QED
                BY <1>2, <1>4, <3>0, <3>1, <4>1, EventAdded
        <3>3. UNCHANGED <<netVars, tunnel, lockdown, sd, escaped>>
            BY <2>1 DEF WriteReply, Reply, shutdownVars
        <3> QED
            BY <3>0, <3>2, <3>3 DEF Inv, DisconnectedHolds, RevertCleared, Released, Blocked,
               Overridden, netVars
    <2>2. CASE ~WriteReply
        <3>1. \/ toApp' = toApp /\ (conn = "open" \/ toApp = <<>>)
              \/ toApp # <<>> /\ toApp' = Tail(toApp) /\ conn = "open"
              \/ \E event \in {"draining", "fatal"} :
                   toApp' = Append(toApp, event) /\ conn = "open"
            <4>1. CASE AppConnects
                BY <4>1 DEF AppConnects, AppInv, AppTypes
            <4>2. CASE AppStep \/ AppTimesOut \/ AppDisconnects \/ AppDies
                BY <1>1, <4>2 DEF AppStep, AppReceives, AppSeesEnd, AppTimesOut, AppDisconnects,
                   AppDies, Close, Note
            <4>3. CASE OwnerTask \/ RevocationTick
                BY <2>2, <4>3 DEF OwnerTask, ReadConfigure, ReadConnect, ReadDisconnect, Read,
                   ReadEnd, HandlerWorks, OwnerEnds, HangsUp, RevocationTick, Written, appVars
            <4>4. CASE ShutdownWorks \/ DaemonWhim
                BY <4>4 DEF ShutdownWorks, DaemonWhim, HangsUp, appVars
            <4>5. ASSUME NEW r \in Runners, RevertWorks(r)
                  PROVE  UNCHANGED <<toApp, conn>>
                BY <4>5 DEF RevertWorks, appVars
            <4>6. CASE UNCHANGED desktopVars
                BY <4>6 DEF desktopVars, appVars
            <4> QED
                BY <4>1, <4>2, <4>3, <4>4, <4>5, <4>6 DEF DesktopNext, AppWhim
        <3>2. ~Contains(<<>>, "disconnected")
            BY EmptyContainsNothing
        <3>3. conn = "open"
            BY <3>1, <3>2
        <3>4. toApp # <<>> /\ toApp' = Tail(toApp) => FALSE
            BY <1>2, <1>4, <3>3, TailKeeps
        <3>5. ASSUME NEW event \in {"draining", "fatal"}, toApp' = Append(toApp, event)
              PROVE  FALSE
            BY <1>2, <1>4, <3>3, <3>5, EventAdded DEF Events
        <3> QED
            BY <1>4, <3>1, <3>3, <3>4, <3>5
    <2> QED
        BY <2>1, <2>2
<1> QED
    BY <1>3, <1>4

(* With commands that succeed, an app that reads disconnected, or is about *)
(* to, has its network as it asked for it.                                 *)
THEOREM DisconnectsReadTrue ==
    ASSUME CommandsFail = FALSE
    PROVE  DesktopSpec => []DisconnectedReadsTrue
<1> DEFINE Order == DisconnectComesLast /\ ConfiguredAsWanted
           Truth == RevertCleared /\ ToldIsTrue
<1>1. DesktopInit => Order /\ Truth
    BY DisconnectLastInit, RestoredInit
<1>2. Inv /\ AppInv /\ Order /\ [DesktopNext]_desktopVars => Order'
    BY DisconnectLastStep
<1>3. Inv /\ AppInv /\ WantedIsRequested /\ Order /\ Order' /\ Truth /\ [DesktopNext]_desktopVars
      => Truth'
    BY RevertClears, ToldStaysTrue, StepIsWarrendStep
<1>4. AppInv /\ Order /\ Truth => DisconnectedReadsTrue
    <2> SUFFICES ASSUME AppInv, Order, Truth, conn = "open",
                        latest = "disconnected" \/ Contains(toApp, "disconnected")
                 PROVE  /\ tunnel = "none"
                        /\ IF wanted THEN Overridden \/ lockdownTable = "block" ELSE ~Blocked
        BY DEF DisconnectedReadsTrue
    <2>1. Contains(toApp, "disconnected") /\ client /\ lockdown = wanted
        BY DEF DisconnectComesLast, ConfiguredAsWanted
    <2> QED
        BY <2>1 DEF ToldIsTrue, Released
<1>5. DesktopSpec => []Inv
    BY DesktopImplementsWarrend, Invariance, PTL
<1> HIDE DEF Order, Truth
<1> QED
    BY <1>1, <1>2, <1>3, <1>4, <1>5, AppInvariance, WantedAlways, PTL DEF DesktopSpec

-----------------------------------------------------------------------------
(* An error of a configured connection is the last thing it says, and no   *)
(* error of an earlier request waits for a session's app.                  *)
ErrorComesLast ==
    conn = "open" =>
        /\ toDaemon = <<"configure", "connect">> =>
             hpc = "idle" /\ ~client /\ ~Contains(toApp, "error")
        /\ client /\ app = "connecting" /\ toDaemon # <<>> => hpc = "idle"
        /\ Contains(toApp, "error") =>
             /\ app # "session"
             /\ app = "connecting" => ~Contains(toApp, "connected")
             /\ client => hpc = "idle" /\ toDaemon = <<>>

LEMMA QueuesDiffer ==
    /\ <<>> # <<"configure", "connect">> /\ <<"connect">> # <<"configure", "connect">>
    /\ <<"disconnect">> # <<"configure", "connect">> /\ <<>> # <<"connect">>
    /\ Tail(<<"disconnect">>) = <<>>
OBVIOUS

LEMMA ErrorComesLastStep ==
    ASSUME Inv, AppInv, DisconnectComesLast, ConfiguredAsWanted, ErrorComesLast,
           [DesktopNext]_desktopVars
    PROVE  ErrorComesLast'
<1> SUFFICES ASSUME conn' = "open" PROVE ErrorComesLast'
    BY DEF ErrorComesLast
<1> USE DEF ErrorComesLast
<1>0. /\ toApp \in Seq(Events)
      /\ AppTypes /\ RequestsInOrder /\ AnsweredIsStored
    BY DEF AppInv, AppTypes
<1>1. CASE AppReceives
    <2> DEFINE event == Head(toApp)
    <2>1. /\ event \in Events /\ Contains(toApp, event)
          /\ \A e : Contains(Tail(toApp), e) => Contains(toApp, e)
        BY <1>0, <1>1, HeadIsContained, TailKeeps DEF AppReceives
    <2>2. ~Close
        BY <1>1 DEF Close
    <2>3. /\ UNCHANGED <<vars, conn, toDaemon>> /\ toApp' = Tail(toApp)
          /\ \/ app' = app
             \/ app = "connecting" /\ app' = "session" /\ event = "connected"
        BY <1>1, <2>2 DEF AppReceives, Note
    <2>4. UNCHANGED <<client, hpc>>
        BY <2>3 DEF vars
    <2>5. CASE app' = app
        BY <2>1, <2>3, <2>4, <2>5
    <2>6. CASE app = "connecting" /\ app' = "session" /\ event = "connected"
        <3>1. Contains(toApp, "connected") /\ ~Contains(toApp, "error")
            BY <2>1, <2>3, <2>6
        <3>2. ~Contains(toApp', "error")
            BY <2>1, <2>3, <3>1
        <3> QED
            BY <2>3, <2>4, <2>6, <3>2
    <2> QED
        BY <2>3, <2>5, <2>6
<1>2. CASE AppSeesEnd \/ AppTimesOut \/ AppDies
    BY <1>2 DEF AppSeesEnd, AppTimesOut, AppDies, Close
<1>3. CASE AppConnects
    <2>1. toApp' = <<>> /\ ~Contains(<<>>, "error")
        BY <1>0, <1>3, EmptyContainsNothing DEF AppConnects, AppTypes
    <2> QED
        BY <1>3, <2>1 DEF AppConnects, OwnerConnects, DisconnectComesLast
<1>4. CASE AppDisconnects
    <2>1. app = "session" /\ conn = "open" /\ UNCHANGED toApp
        BY <1>4 DEF AppDisconnects
    <2>2. toDaemon' = <<"disconnect">>
        BY <1>4, <2>1 DEF AppDisconnects, DisconnectComesLast
    <2> QED
        BY <1>4, <2>1, <2>2, QueuesDiffer DEF AppDisconnects
<1>5. CASE ReadConfigure \/ ReadConnect
    <2>1. /\ UNCHANGED <<app, conn, toApp>> /\ hpc = "idle" /\ conn = "open"
          /\ toDaemon # <<>> /\ toDaemon' = Tail(toDaemon)
        BY <1>5 DEF ReadConfigure, ReadConnect, Read, Configure, RefuseRequest, Connect
    <2>2. app = "connecting" /\ toDaemon \in {<<"configure", "connect">>, <<"connect">>}
        BY <1>0, <1>5, <2>1, QueueOfRequests
           DEF ReadConfigure, ReadConnect, Read, AppTypes, DisconnectComesLast, RequestsInOrder
    <2>3. toDaemon' # <<"configure", "connect">> /\ ~Contains(toApp, "connected")
        BY <1>0, <2>1, <2>2, QueueOfRequests, QueuesDiffer DEF RequestsInOrder
    <2>4. CASE toDaemon = <<"configure", "connect">>
        <3>1. ReadConfigure
            BY <1>5, <2>4, QueueOfRequests DEF ReadConnect, Read
        <3>2. client' => hpc' = "idle"
            BY <2>1, <2>4, <3>1 DEF ReadConfigure, Configure, RefuseRequest
        <3> QED
            BY <2>1, <2>3, <2>4, <3>2
    <2>5. CASE toDaemon = <<"connect">>
        <3>1. ReadConnect
            BY <1>5, <2>5, QueueOfRequests DEF ReadConfigure, Read
        <3>2. Contains(toApp, "error") => ~client /\ ~client'
            BY <2>1, <2>5, <3>1 DEF ReadConnect, RefuseRequest
        <3>3. toDaemon' = <<>>
            BY <2>1, <2>5, QueueOfRequests
        <3> QED
            BY <2>1, <2>2, <2>3, <3>2, <3>3
    <2> QED
        BY <2>2, <2>4, <2>5
<1>6. CASE ReadDisconnect
    <2>0. /\ conn = "open" /\ toDaemon # <<>> /\ Head(toDaemon) = "disconnect"
          /\ toDaemon' = Tail(toDaemon) /\ UNCHANGED <<app, conn, client>>
          /\ toApp' = Append(toApp, "draining")
        BY <1>6 DEF ReadDisconnect, Disconnect, Read, Written
    <2>1. toDaemon = <<"disconnect">> /\ toDaemon' = <<>> /\ app = "disconnecting"
        BY <1>0, <2>0, QueueOfRequests, QueuesDiffer
           DEF AppTypes, RequestsInOrder, DisconnectComesLast
    <2>2. client /\ ~Contains(toApp, "error")
        BY <2>0, <2>1 DEF ConfiguredAsWanted
    <2> QED
        BY <1>0, <2>0, <2>1, <2>2, QueuesDiffer, EventAdded DEF Events
<1>7. CASE WriteReply
    <2>1. /\ UNCHANGED <<client, app, conn, toDaemon>> /\ hpc = "reply" /\ hpc' = "idle"
          /\ conn = "open"
          /\ reply \in Events
        BY <1>0, <1>7 DEF WriteReply, Reply, AnsweredIsStored
    <2>2. PICK event \in Events :
            /\ event = reply \/ (event = "fatal" /\ reply = "error")
            /\ toApp' = IF conn = "open" THEN Append(toApp, event) ELSE toApp
        BY <1>7, <2>1, AnswerWritten
    <2>3. \A e : Contains(toApp', e) <=> Contains(toApp, e) \/ event = e
        BY <1>0, <2>1, <2>2, EventAdded
    <2>4. app # "session"
        BY <2>1 DEF DisconnectComesLast
    <2>5. CASE client
        <3>1. ~Contains(toApp, "error") /\ toDaemon # <<"configure", "connect">>
            BY <2>1, <2>5
        <3>2. toDaemon = <<>>
            BY <1>0, <2>1, <2>4, <2>5 DEF AppTypes, DisconnectComesLast
        <3>3. ~(app = "connecting" /\ Contains(toApp, "connected"))
            BY <2>1, <2>4, <2>5 DEF DisconnectComesLast, AppTypes
        <3> QED
            BY <2>1, <2>2, <2>3, <2>4, <2>5, <3>1, <3>2, <3>3
    <2>6. CASE ~client
        BY <2>1, <2>2, <2>3, <2>4, <2>6 DEF ConfiguredAsWanted
    <2> QED
        BY <2>5, <2>6
<1>8. CASE HandlerWorks
    <2>1. UNCHANGED appVars /\ hpc \notin {"idle", "none", "ended"} /\ UNCHANGED client
          /\ hpc # "reply"
        BY <1>8, HandlerGoesOn DEF HandlerWorks
    <2> QED
        BY <2>1 DEF appVars, ConfiguredAsWanted
<1>9. CASE RevocationTick
    <2>1. /\ UNCHANGED <<vars, app, conn, toDaemon>> /\ toApp' = Append(toApp, "fatal")
        BY <1>9 DEF RevocationTick, Written
    <2> QED
        BY <1>0, <2>1, EventAdded DEF Events, vars
<1>10. CASE ReadEnd \/ OwnerEnds
    BY <1>10 DEF ReadEnd, OwnerEnds, HangsUp, appVars
<1>11. CASE ShutdownWorks
    BY <1>11 DEF ShutdownWorks, ShutdownDecides, HangsUp, appVars, ownerVars
<1>12. CASE DaemonWhim
    BY <1>12 DEF DaemonWhim, Start, startup_reconcile, run_revert, ShutdownTakes, HangsUp, appVars,
       ownerVars
<1>13. ASSUME NEW r \in Runners, RevertWorks(r) PROVE ErrorComesLast'
    BY <1>13 DEF RevertWorks, RevertStep, appVars, ownerVars
<1>14. CASE UNCHANGED desktopVars
    BY <1>14 DEF desktopVars, appVars, vars
<1> QED
    BY <1>1, <1>2, <1>3, <1>4, <1>5, <1>6, <1>7, <1>8, <1>9, <1>10, <1>11, <1>12, <1>13, <1>14
       DEF DesktopNext, AppStep, AppWhim, OwnerTask

(* A call is ended by its own answer, whatever else the daemon has said.   *)
THEOREM AnswersAreOwn == DesktopSpec => []AnswerIsOwn
<1> DEFINE Order == DisconnectComesLast /\ ConfiguredAsWanted
<1>1. DesktopInit => Order /\ ErrorComesLast
    BY DisconnectLastInit DEF DesktopInit, ErrorComesLast
<1>2. Inv /\ AppInv /\ Order /\ [DesktopNext]_desktopVars => Order'
    BY DisconnectLastStep
<1>3. Inv /\ AppInv /\ Order /\ ErrorComesLast /\ [DesktopNext]_desktopVars => ErrorComesLast'
    BY ErrorComesLastStep
<1>4. AppInv /\ Order /\ ErrorComesLast => AnswerIsOwn
    <2> SUFFICES ASSUME AppInv, Order, ErrorComesLast, conn = "open", toApp # <<>>,
                        \/ app = "connecting" /\ Head(toApp) = "connected"
                        \/ app = "disconnecting" /\ Head(toApp) \in {"disconnected", "error"}
                 PROVE  hpc = "idle" /\ toDaemon = <<>>
        BY DEF AnswerIsOwn
    <2>1. Contains(toApp, Head(toApp))
        BY HeadIsContained DEF AppInv, AppTypes
    <2> QED
        BY <2>1 DEF ErrorComesLast, DisconnectComesLast, ConfiguredAsWanted, AppInv, RequestsInOrder
<1>5. DesktopSpec => []Inv
    BY DesktopImplementsWarrend, Invariance, PTL
<1> HIDE DEF Order
<1> QED
    BY <1>1, <1>2, <1>3, <1>4, <1>5, AppInvariance, PTL DEF DesktopSpec

-----------------------------------------------------------------------------
(* The queues are short: a connection carries two requests and then one    *)
(* more, each answered by an event (a disconnect by two), and one event of *)
(* a revoked device.                                                       *)

AppTypesToo ==
    /\ latest \in {"none"} \cup States
    /\ wanted \in BOOLEAN /\ asked \in BOOLEAN /\ told \in BOOLEAN
    /\ app = "idle" <=> conn \in {"none", "closed"}

(* What a connection may hold of requests; a daemon that is gone left none. *)
RequestsQueued ==
    /\ toDaemon \in {<<"configure", "connect">>, <<"connect">>, <<"disconnect">>, <<>>}
    /\ conn \in {"none", "dead"} => toDaemon = <<>>

InHandler == IF hpc = "idle" THEN 0 ELSE 1

Untold == IF told THEN 0 ELSE 1

(* The events that are queued and those that may yet come.                 *)
EventBudget ==
    /\ conn = "open" /\ app = "connecting" =>
         Len(toApp) + Len(toDaemon) + InHandler + Untold <= IF client THEN 2 ELSE 3
    /\ conn = "open" /\ app = "session" => Len(toApp) + Untold <= 1
    /\ conn = "open" /\ app = "disconnecting" =>
         Len(toApp) + Len(toDaemon) + Len(toDaemon) + InHandler + Untold <= 3
    /\ Len(toApp) <= 3

QueueInv == AppTypesToo /\ RequestsQueued /\ EventBudget

LEMMA QueueLengths ==
    /\ Len(<<"configure", "connect">>) = 2 /\ Len(<<"connect">>) = 1
    /\ Len(<<"disconnect">>) = 1 /\ Len(<<>>) = 0
    /\ Head(<<"disconnect">>) = "disconnect" /\ Tail(<<"disconnect">>) = <<>>
OBVIOUS

LEMMA EventLengths ==
    ASSUME NEW s \in Seq(Events), NEW x \in Events
    PROVE  /\ Len(s) \in Nat
           /\ Len(Append(s, x)) = Len(s) + 1
           /\ s # <<>> => Len(Tail(s)) = Len(s) - 1
OBVIOUS

LEMMA QueueInvInit == DesktopInit => QueueInv
<1> SUFFICES ASSUME DesktopInit PROVE AppTypesToo /\ RequestsQueued /\ EventBudget
    BY DEF QueueInv
<1>1. AppTypesToo /\ RequestsQueued
    BY DEF DesktopInit, AppTypesToo, RequestsQueued
<1>2. EventBudget
    BY QueueLengths DEF DesktopInit, EventBudget
<1> QED
    BY <1>1, <1>2

LEMMA CountsAreSmall ==
    /\ InHandler \in 0 .. 1 /\ Untold \in 0 .. 1
    /\ hpc = "idle" <=> InHandler = 0
    /\ hpc' = "idle" <=> InHandler' = 0
    /\ InHandler' \in 0 .. 1 /\ Untold' \in 0 .. 1
    /\ UNCHANGED told => UNCHANGED Untold
    /\ told = FALSE /\ told' = TRUE => Untold = 1 /\ Untold' = 0
<1>1. UNCHANGED told => UNCHANGED Untold
    BY DEF Untold
<1>2. told = FALSE /\ told' = TRUE => Untold = 1 /\ Untold' = 0
    BY DEF Untold
<1> QED
    BY <1>1, <1>2 DEF InHandler, Untold

(* The app's steps: an event read is one less, a disconnect two more.      *)
LEMMA QueueInvApp ==
    ASSUME AppInv, DisconnectComesLast, ConfiguredAsWanted, QueueInv,
           \/ AppReceives \/ AppSeesEnd \/ AppTimesOut \/ AppDies \/ AppDisconnects
    PROVE  QueueInv'
<1>0. /\ AppTypes /\ OpenIsServed /\ RequestsInOrder /\ toApp \in Seq(Events)
      /\ AppTypesToo /\ RequestsQueued
    BY DEF AppInv, AppTypes, QueueInv
<1>a. EventBudget /\ Len(toApp) \in Nat /\ Len(toDaemon) \in Nat
    BY <1>0, EventLengths, QueueLengths DEF QueueInv, RequestsQueued
<1>1. CASE AppReceives
    <2> DEFINE event == Head(toApp)
    <2>1. /\ event \in Events /\ Contains(toApp, event)
          /\ Len(Tail(toApp)) = Len(toApp) - 1
          /\ app # "idle" /\ UNCHANGED <<hpc, client, toDaemon, wanted, asked, told>>
        BY <1>0, <1>1, HeadIsContained, EventLengths DEF AppReceives, vars, Close, Note
    <2> HIDE DEF event
    <2>2. CASE /\ app = "connecting" /\ event = "connected" /\ app' = "session"
               /\ toApp' = Tail(toApp) /\ conn' = conn /\ latest' = "connected"
        <3>1. conn = "open" => client /\ hpc = "idle" /\ toDaemon = <<>>
            BY <1>0, <2>1, <2>2 DEF RequestsInOrder, DisconnectComesLast, ConfiguredAsWanted
        <3>2. AppTypesToo' /\ RequestsQueued'
            BY <1>0, <2>1, <2>2 DEF AppTypesToo, RequestsQueued, States
        <3>3. /\ Len(toApp') = Len(toApp) - 1 /\ conn' = conn /\ app = "connecting"
              /\ app' = "session" /\ UNCHANGED told
              /\ conn = "open" => client /\ hpc = "idle" /\ Len(toDaemon) = 0
            BY <2>1, <2>2, <3>1, QueueLengths
        <3>4. EventBudget'
            BY <1>a, <3>3, CountsAreSmall DEF EventBudget
        <3> QED
            BY <3>2, <3>4 DEF QueueInv
    <2>3. CASE Close /\ latest' = IF event = "error" THEN latest ELSE StateOf(event)
        <3>1. AppTypesToo' /\ RequestsQueued'
            BY <1>0, <2>1, <2>3 DEF AppTypes, AppTypesToo, RequestsQueued, Close, StateOf, Events,
               States
        <3>2. EventBudget'
            BY <2>3, QueueLengths DEF EventBudget, Close
        <3> QED
            BY <3>1, <3>2 DEF QueueInv
    <2>4. CASE Note(event)
        <3>1. AppTypesToo' /\ RequestsQueued'
            BY <1>0, <2>1, <2>4 DEF AppTypesToo, RequestsQueued, Note, StateOf, Events, States
        <3>2. /\ Len(toApp') = Len(toApp) - 1
              /\ UNCHANGED <<app, conn, hpc, client, toDaemon, told>>
            BY <2>1, <2>4 DEF Note
        <3>3. EventBudget'
            BY <1>a, <3>2, CountsAreSmall DEF EventBudget, InHandler
        <3> QED
            BY <3>1, <3>3 DEF QueueInv
    <2> QED
        BY <1>1, <2>2, <2>3, <2>4 DEF AppReceives, event
<1>2. CASE AppSeesEnd \/ AppTimesOut \/ AppDies
    <2>1. Close /\ latest' = latest
        BY <1>2 DEF AppSeesEnd, AppTimesOut, AppDies
    <2>2. AppTypesToo' /\ RequestsQueued'
        <3>1. app # "idle"
            BY <1>2 DEF AppSeesEnd, AppTimesOut, AppDies
        <3> QED
            BY <1>0, <2>1, <3>1 DEF AppTypes, AppTypesToo, RequestsQueued, Close
    <2>3. EventBudget'
        BY <2>1, QueueLengths DEF EventBudget, Close
    <2> QED
        BY <2>2, <2>3 DEF QueueInv
<1>3. CASE AppDisconnects
    <2>1. conn = "open" => hpc = "idle" /\ toDaemon' = <<"disconnect">>
        BY <1>3 DEF AppDisconnects, DisconnectComesLast
    <2>2. /\ app = "session" /\ app' = "disconnecting" /\ UNCHANGED <<conn, toApp, told, hpc, latest, wanted>>
          /\ asked' = TRUE /\ (conn # "open" => toDaemon' = toDaemon)
        BY <1>3 DEF AppDisconnects, vars
    <2>3. AppTypesToo' /\ RequestsQueued'
        BY <1>0, <2>1, <2>2 DEF AppTypes, AppTypesToo, RequestsQueued
    <2>4. /\ conn = "open" => Len(toDaemon') = 1 /\ hpc = "idle"
          /\ app = "session" /\ app' = "disconnecting" /\ UNCHANGED <<conn, told, hpc>>
          /\ Len(toApp') = Len(toApp)
        BY <2>1, <2>2, QueueLengths
    <2>5. EventBudget'
        <3>1. CASE conn = "open"
            <4>1. Len(toApp) + Untold <= 1 /\ InHandler' = 0 /\ Untold' = Untold
                BY <1>a, <2>4, <3>1, CountsAreSmall DEF EventBudget
            <4>2. /\ Len(toApp') = Len(toApp) /\ Len(toDaemon') = 1
                  /\ app' = "disconnecting" /\ conn' = "open"
                BY <2>4, <3>1
            <4>3. Len(toApp') + Len(toDaemon') + Len(toDaemon') + InHandler' + Untold' <= 3
                BY <1>a, <4>1, <4>2, CountsAreSmall
            <4>4. Len(toApp') <= 3
                BY <1>a, <4>2 DEF EventBudget
            <4> QED
                BY <4>2, <4>3, <4>4 DEF EventBudget
        <3>2. CASE conn # "open"
            BY <1>a, <2>4, <3>2 DEF EventBudget
        <3> QED
            BY <3>1, <3>2
    <2> QED
        BY <2>3, <2>5 DEF QueueInv
<1> QED
    BY <1>1, <1>2, <1>3

(* The daemon's: a request read is a handler at work, whose answer ends it. *)
LEMMA QueueInvDaemon ==
    ASSUME Inv, AppInv, DisconnectComesLast, ConfiguredAsWanted, QueueInv,
           OwnerTask \/ RevocationTick
    PROVE  QueueInv'
<1>0. /\ AppTypes /\ OpenIsServed /\ RequestsInOrder /\ AnsweredIsStored
      /\ AppTypesToo /\ RequestsQueued /\ toApp \in Seq(Events)
    BY DEF AppInv, AppTypes, QueueInv
<1>a. EventBudget /\ Len(toApp) \in Nat /\ Len(toDaemon) \in Nat
    BY <1>0, EventLengths, QueueLengths DEF QueueInv, RequestsQueued
<1>1. CASE ReadConfigure \/ ReadConnect
    <2>1. UNCHANGED <<app, conn, toApp, latest, wanted, asked, told>> /\ hpc = "idle"
        BY <1>1 DEF ReadConfigure, ReadConnect, Read, Configure, RefuseRequest, Connect
    <2>2. \/ toDaemon = <<"configure", "connect">> /\ toDaemon' = <<"connect">>
          \/ toDaemon = <<"connect">> /\ toDaemon' = <<>>
        <3>1. toDaemon' = Tail(toDaemon) /\ toDaemon # <<>>
              /\ Head(toDaemon) \in {"configure", "connect"}
            BY <1>1 DEF ReadConfigure, ReadConnect, Read
        <3> QED
            BY <1>0, <3>1, QueueOfRequests, QueueLengths DEF RequestsQueued
    <2>3. client' = client \/ (client' /\ hpc' = "idle")
        BY <1>1 DEF ReadConfigure, ReadConnect, Configure, RefuseRequest, Connect
    <2>4. conn = "open" => app = "connecting"
        BY <1>0, <2>2, QueueLengths DEF AppTypes, DisconnectComesLast
    <2>5. AppTypesToo' /\ RequestsQueued'
        <3>1. conn \notin {"none", "dead"}
            <4>1. Len(toDaemon) # 0
                BY <2>2, QueueLengths
            <4> QED
                BY <1>0, <4>1, QueueLengths DEF RequestsQueued
        <3> QED
            BY <1>0, <2>1, <2>2, <3>1 DEF AppTypesToo, RequestsQueued
    <2>6. Len(toDaemon') = Len(toDaemon) - 1
        <3>1. CASE toDaemon = <<"configure", "connect">> /\ toDaemon' = <<"connect">>
            BY <3>1, QueueLengths
        <3>2. CASE toDaemon = <<"connect">> /\ toDaemon' = <<>>
            BY <3>2, QueueLengths
        <3> QED
            BY <2>2, <3>1, <3>2
    <2>7. EventBudget'
        BY <1>a, <2>1, <2>3, <2>4, <2>6, CountsAreSmall DEF EventBudget
    <2> QED
        BY <2>5, <2>7 DEF QueueInv
<1>2. CASE ReadDisconnect
    <2>1. /\ UNCHANGED <<app, conn, latest, wanted, asked, told, client>>
          /\ hpc = "idle" /\ toDaemon = <<"disconnect">> /\ toDaemon' = <<>>
          /\ toApp' = IF conn = "open" THEN Append(toApp, "draining") ELSE toApp
        BY <1>0, <1>2, QueueOfRequests, QueueLengths DEF ReadDisconnect, Disconnect, Read, Written,
           RequestsQueued
    <2>2. conn = "open" => app = "disconnecting"
        BY <1>0, <2>1, QueueOfRequests, QueueLengths DEF AppTypes, DisconnectComesLast,
           RequestsInOrder, AppTypesToo
    <2>3. Len(Append(toApp, "draining")) = Len(toApp) + 1
        BY <1>0, EventLengths DEF Events
    <2>4. AppTypesToo' /\ RequestsQueued'
        BY <1>0, <2>1 DEF AppTypesToo, RequestsQueued
    <2>5. /\ Len(toDaemon) = 1 /\ Len(toDaemon') = 0 /\ hpc = "idle"
          /\ UNCHANGED <<app, conn, told>>
          /\ Len(toApp') = IF conn = "open" THEN Len(toApp) + 1 ELSE Len(toApp)
        BY <2>1, <2>3, QueueLengths
    <2>6. EventBudget'
        BY <1>a, <2>2, <2>5, CountsAreSmall DEF EventBudget
    <2> QED
        BY <2>4, <2>6 DEF QueueInv
<1>3. CASE WriteReply
    <2>1. /\ UNCHANGED <<app, conn, toDaemon, latest, wanted, asked, told, client>>
          /\ hpc = "reply" /\ (conn = "open" => hpc' = "idle")
          /\ reply \in Events
        BY <1>0, <1>3 DEF WriteReply, Reply, AnsweredIsStored
    <2>2. Len(toApp') = IF conn = "open" THEN Len(toApp) + 1 ELSE Len(toApp)
        BY <1>0, <1>3, <2>1, AnswerWritten, EventLengths
    <2>3. conn = "open" => app \in {"connecting", "disconnecting"}
        BY <1>0, <2>1 DEF DisconnectComesLast, AppTypes
    <2>4. AppTypesToo' /\ RequestsQueued'
        BY <1>0, <2>1 DEF AppTypesToo, RequestsQueued
    <2>5. /\ UNCHANGED <<app, conn, toDaemon, told, client>>
          /\ hpc = "reply" /\ (conn = "open" => hpc' = "idle")
          /\ Len(toApp') = IF conn = "open" THEN Len(toApp) + 1 ELSE Len(toApp)
        BY <2>1, <2>2
    <2>6. EventBudget'
        BY <1>a, <2>3, <2>5, CountsAreSmall DEF EventBudget
    <2> QED
        BY <2>4, <2>6 DEF QueueInv
<1>4. CASE HandlerWorks
    <2>1. UNCHANGED appVars /\ hpc # "idle" /\ hpc' # "idle" /\ client' = client
        BY <1>4, HandlerGoesOn DEF HandlerWorks
    <2> QED
        BY <1>0, <1>a, <2>1 DEF appVars, QueueInv, AppTypesToo, RequestsQueued, EventBudget,
           InHandler, Untold
<1>5. CASE ReadEnd \/ OwnerEnds
    <2>1. /\ UNCHANGED <<app, toApp, latest, wanted, asked, told>> /\ conn' # "open"
          /\ \/ UNCHANGED <<conn, toDaemon>>
             \/ toDaemon' = <<>> /\ conn' = CASE conn = "open" -> "dead"
                                              [] conn = "closed" -> "none" [] OTHER -> conn
        BY <1>5 DEF ReadEnd, OwnerEnds, HangsUp, appVars
    <2>2. AppTypesToo' /\ RequestsQueued'
        BY <1>0, <2>1 DEF AppTypes, AppTypesToo, RequestsQueued
    <2> QED
        BY <1>a, <2>1, <2>2 DEF QueueInv, EventBudget
<1>6. CASE RevocationTick
    <2>1. /\ UNCHANGED <<app, conn, toDaemon, latest, wanted, asked, client>>
          /\ client /\ told = FALSE /\ told' = TRUE /\ hpc = "idle"
          /\ conn = "open" => hpc' = "idle"
          /\ toApp' = IF conn = "open" THEN Append(toApp, "fatal") ELSE toApp
        BY <1>0, <1>6 DEF RevocationTick, OwnerCloses, Written, vars, AppTypesToo
    <2>2. Len(Append(toApp, "fatal")) = Len(toApp) + 1
        BY <1>0, EventLengths DEF Events
    <2>3. AppTypesToo' /\ RequestsQueued'
        BY <1>0, <2>1 DEF AppTypesToo, RequestsQueued
    <2>4. EventBudget'
        <3>1. CASE conn = "open"
            BY <1>0, <1>a, <2>1, <2>2, <3>1, CountsAreSmall DEF EventBudget, AppTypes
        <3>2. CASE conn # "open"
            BY <1>a, <2>1, <3>2 DEF EventBudget
        <3> QED
            BY <3>1, <3>2
    <2> QED
        BY <2>3, <2>4 DEF QueueInv
<1> QED
    BY <1>1, <1>2, <1>3, <1>4, <1>5, <1>6 DEF OwnerTask

LEMMA QueueInvStep ==
    Inv /\ AppInv /\ DisconnectComesLast /\ ConfiguredAsWanted /\ QueueInv
    /\ [DesktopNext]_desktopVars => QueueInv'
<1> SUFFICES ASSUME Inv, AppInv, DisconnectComesLast, ConfiguredAsWanted, QueueInv,
                    [DesktopNext]_desktopVars
             PROVE  QueueInv'
    OBVIOUS
<1> USE DEF QueueInv, AppTypesToo, RequestsQueued, EventBudget, InHandler, Untold
<1>1. CASE AppConnects
    <2>1. toApp = <<>> /\ hpc' = "idle" /\ ~client' /\ LockdownRequests \subseteq BOOLEAN
        BY <1>1, LockdownRequestsAssumption DEF AppConnects, OwnerConnects, DisconnectComesLast,
           AppInv, AppTypes
    <2>2. /\ app' = "connecting" /\ conn' = "open" /\ toApp' = toApp
          /\ toDaemon' = <<"configure", "connect">> /\ latest' = "none" /\ asked' = FALSE
          /\ wanted' \in LockdownRequests /\ told' = FALSE
        BY <1>1 DEF AppConnects
    <2>3. Len(toApp') = 0 /\ Len(toDaemon') = 2
        BY <2>1, <2>2, QueueLengths
    <2>4. EventBudget'
        BY <2>1, <2>2, <2>3
    <2> QED
        BY <2>1, <2>2, <2>4
<1>2. CASE ShutdownWorks
    <2>1. CASE ShutdownDecides /\ UNCHANGED appVars
        BY <2>1 DEF ShutdownDecides, appVars, ownerVars
    <2>2. CASE ShutdownExits /\ HangsUp
        BY <2>2, QueueLengths DEF HangsUp
    <2> QED
        BY <1>2, <2>1, <2>2 DEF ShutdownWorks
<1>3. CASE DaemonWhim
    <2>1. CASE (Start \/ startup_reconcile \/ run_revert \/ ShutdownTakes) /\ UNCHANGED appVars
        BY <2>1 DEF Start, startup_reconcile, run_revert, ShutdownTakes, appVars, ownerVars
    <2>2. CASE Crash /\ HangsUp
        BY <2>2, QueueLengths DEF HangsUp
    <2> QED
        BY <1>3, <2>1, <2>2 DEF DaemonWhim
<1>4. ASSUME NEW r \in Runners, RevertWorks(r) PROVE QueueInv'
    BY <1>4 DEF RevertWorks, RevertStep, appVars, ownerVars
<1>5. CASE UNCHANGED desktopVars
    BY <1>5 DEF desktopVars, appVars, vars
<1> QED
    BY <1>1, <1>2, <1>3, <1>4, <1>5, QueueInvApp, QueueInvDaemon
       DEF DesktopNext, AppStep, AppWhim

LEMMA ShortIsBounded ==
    ASSUME NEW S, NEW s \in Seq(S), NEW n \in Nat, Len(s) <= n
    PROVE  s \in BoundedSeq(S, n)
<1>1. s \in [1 .. Len(s) -> S] /\ Len(s) \in 0 .. n
    OBVIOUS
<1> QED
    BY <1>1 DEF BoundedSeq, SeqOf

(* However an app calls, gives up and dies, at most two requests and three *)
(* events are ever under way.                                              *)
THEOREM DesktopTypes == DesktopSpec => []DesktopTypeOK
<1> DEFINE Order == DisconnectComesLast /\ ConfiguredAsWanted
<1>1. DesktopInit => Order /\ QueueInv
    BY DisconnectLastInit, QueueInvInit
<1>2. Inv /\ AppInv /\ Order /\ [DesktopNext]_desktopVars => Order'
    BY DisconnectLastStep
<1>3. Inv /\ AppInv /\ Order /\ QueueInv /\ [DesktopNext]_desktopVars => QueueInv'
    BY QueueInvStep
<1>4. AppInv /\ QueueInv => DesktopTypeOK
    <2> SUFFICES ASSUME AppInv, QueueInv PROVE DesktopTypeOK
        OBVIOUS
    <2>1. toDaemon \in Seq(Requests) /\ Len(toDaemon) <= 2
        <3>1. /\ <<"configure", "connect">> \in Seq(Requests) /\ <<"connect">> \in Seq(Requests)
              /\ <<"disconnect">> \in Seq(Requests) /\ <<>> \in Seq(Requests)
            BY DEF Requests
        <3>2. CASE toDaemon = <<"configure", "connect">>
            BY <3>1, <3>2, QueueLengths
        <3>3. CASE toDaemon = <<"connect">>
            BY <3>1, <3>3, QueueLengths
        <3>4. CASE toDaemon = <<"disconnect">>
            BY <3>1, <3>4, QueueLengths
        <3>5. CASE toDaemon = <<>>
            BY <3>1, <3>5, QueueLengths
        <3> QED
            BY <3>2, <3>3, <3>4, <3>5 DEF QueueInv, RequestsQueued
    <2>2. toApp \in Seq(Events) /\ Len(toApp) <= 3
        BY DEF AppInv, AppTypes, QueueInv, EventBudget
    <2>3. toDaemon \in BoundedSeq(Requests, 2) /\ toApp \in BoundedSeq(Events, 3)
        BY <2>1, <2>2, ShortIsBounded
    <2> QED
        BY <2>3 DEF DesktopTypeOK, AppInv, AppTypes, QueueInv, AppTypesToo, RequestsQueued
<1>5. DesktopSpec => []Inv
    BY DesktopImplementsWarrend, Invariance, PTL
<1> HIDE DEF Order
<1> QED
    BY <1>1, <1>2, <1>3, <1>4, <1>5, AppInvariance, PTL DEF DesktopSpec

=============================================================================
