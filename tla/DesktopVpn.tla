------------------------------ MODULE DesktopVpn ------------------------------
(***************************************************************************)
(* Mode B end to end: an app's DesktopClientHandle and DaemonSessionHandle *)
(* (packages/warren_sdk_desktop/lib/src/desktop_platform.dart), the        *)
(* connection's two byte streams, and the daemon of module Warrend, whose  *)
(* requests and answers are now the frames on those streams.               *)
(*                                                                         *)
(* The app (app): idle, connecting (`connect` awaits a settled state),     *)
(* session (it returned a handle), disconnecting (`disconnect` awaits the  *)
(* terminal state).  One app uses the daemon; a connection made while the  *)
(* daemon still has an owner is refused and changes nothing, so it has no  *)
(* action here.                                                            *)
(***************************************************************************)
EXTENDS Warrend, Sequences, SequencesExt

VARIABLES
    app,        \* the app's place
    conn,       \* "none", "open", "closed" by the app with the daemon not
                \* gone yet, "dead": the daemon is gone, the app has not closed
    toDaemon,   \* request frames the daemon has not read
    toApp,      \* event frames the app has not read
    latest,     \* the state a listener reads (LatestBroadcast): "none" before
                \* the first, else the last one received
    wanted,     \* the lockdown setting this connection configures
    asked,      \* history: the app called disconnect on this connection
    told        \* the daemon told this connection of a revoked device

appVars == <<app, conn, toDaemon, toApp, latest, wanted, asked, told>>
desktopVars == <<vars, appVars>>

Requests == {"configure", "connect", "disconnect"}
States == {"connected", "draining", "disconnected", "failed"}
Events == {"connected", "draining", "disconnected", "error", "fatal"}

DesktopTypeOK ==
    /\ app \in {"idle", "connecting", "session", "disconnecting"}
    /\ conn \in {"none", "open", "closed", "dead"}
    /\ toDaemon \in BoundedSeq(Requests, 2)
    /\ toApp \in BoundedSeq(Events, 3)
    /\ latest \in {"none"} \cup States
    /\ wanted \in BOOLEAN
    /\ asked \in BOOLEAN
    /\ told \in BOOLEAN
    /\ conn = "none" => toDaemon = <<>> /\ toApp = <<>>
    /\ app = "idle" <=> conn \in {"none", "closed"}

DesktopInit ==
    /\ Init
    /\ app = "idle"
    /\ conn = "none"
    /\ toDaemon = <<>>
    /\ toApp = <<>>
    /\ latest = "none"
    /\ wanted = FALSE
    /\ asked = FALSE
    /\ told = FALSE

-----------------------------------------------------------------------------
(* The app. *)

(* connect: the socket is accepted, and both requests are sent at once. *)
AppConnects ==
    /\ app = "idle"
    /\ conn = "none"
    /\ OwnerConnects
    /\ app' = "connecting"
    /\ conn' = "open"
    /\ toDaemon' = <<"configure", "connect">>
    /\ latest' = "none"
    /\ wanted' \in LockdownRequests
    /\ asked' = FALSE
    /\ told' = FALSE
    /\ UNCHANGED toApp

(* DaemonClient.close: the subscription and the socket go, unread events   *)
(* with them; what was sent stays readable for the daemon.                 *)
Close ==
    /\ app' = "idle"
    /\ conn' = IF conn = "open" THEN "closed" ELSE "none"
    /\ toApp' = <<>>
    /\ UNCHANGED <<toDaemon, wanted, asked, told>>

(* An error with a fatal cause is a state for the app, any other an error   *)
(* of its stream.                                                          *)
StateOf(event) == IF event = "fatal" THEN "failed" ELSE event

(* A frame that leaves the app where it is: a state, kept as the latest. *)
Note(event) ==
    /\ toApp' = Tail(toApp)
    /\ latest' = IF event = "error" THEN latest ELSE StateOf(event)
    /\ UNCHANGED <<app, conn, toDaemon, wanted, asked, told>>

(* An event arrives.  A connect settles on connected and closes on an      *)
(* error or a failed state; a disconnect ends on disconnected or on an     *)
(* error, which it swallows; everything else only updates the latest.      *)
AppReceives ==
    /\ app # "idle"
    /\ toApp # <<>>
    /\ LET event == Head(toApp) IN
         \/ /\ app = "connecting"
            /\ event = "connected"
            /\ app' = "session"
            /\ toApp' = Tail(toApp)
            /\ latest' = "connected"
            /\ UNCHANGED <<conn, toDaemon, wanted, asked, told>>
         \/ /\ \/ app = "connecting" /\ event \in {"error", "fatal"}
               \/ app = "disconnecting" /\ event \in {"error", "disconnected"}
            /\ Close
            /\ latest' = IF event = "error" THEN latest ELSE StateOf(event)
         \/ /\ app = "session" \/ event \in {"draining", "fatal"}
            /\ ~(app = "connecting" /\ event = "fatal")
            /\ Note(event)
    /\ UNCHANGED vars

(* A close that is not noticed by a connect in progress. *)
AppIgnoresEnd ==
    /\ app = "disconnecting"
    /\ conn = "dead"
    /\ toApp = <<>>
    /\ Close
    /\ UNCHANGED <<vars, latest>>

(* The daemon is gone and its last event was read: the stream ends, or ends *)
(* in a reset, which fails a connect and completes a disconnect.  A reset   *)
(* leaves connect as a bare SocketException with no close after it, of a   *)
(* client whose socket is gone already.                                    *)
AppSeesEnd ==
    /\ app \in {"connecting", "disconnecting"}
    /\ conn = "dead"
    /\ toApp = <<>>
    /\ Close
    /\ UNCHANGED <<vars, latest>>

(* 60 s without a settled state, 10 s without a terminal one. *)
AppTimesOut ==
    /\ app \in {"connecting", "disconnecting"}
    /\ Close
    /\ UNCHANGED <<vars, latest>>

AppDisconnects ==
    /\ app = "session"
    /\ app' = "disconnecting"
    /\ asked' = TRUE
    /\ toDaemon' = IF conn = "open" THEN Append(toDaemon, "disconnect") ELSE toDaemon
    /\ UNCHANGED <<vars, conn, toApp, latest, wanted, told>>

(* The app process dies; the kernel closes its end. *)
AppDies ==
    /\ app # "idle"
    /\ Close
    /\ UNCHANGED <<vars, latest>>

-----------------------------------------------------------------------------
(* The daemon's end of the connection: each action of module Warrend that  *)
(* reads or writes a frame, with the frame.                                *)

Read(request) ==
    /\ toDaemon # <<>>
    /\ Head(toDaemon) = request
    /\ toDaemon' = Tail(toDaemon)
    /\ UNCHANGED <<app, conn, latest, wanted, asked, told>>

(* A write reaches an open connection; the peer's close fails it. *)
Written(event) == toApp' = IF conn = "open" THEN Append(toApp, event) ELSE toApp

(* Also the configure that is refused: a wrong mnemonic, device or setup. *)
ReadConfigure ==
    /\ Configure(wanted) \/ RefuseRequest
    /\ Read("configure")
    /\ UNCHANGED toApp

(* Not configured, the connect is refused. *)
ReadConnect ==
    /\ IF client THEN Connect ELSE RefuseRequest
    /\ Read("connect")
    /\ UNCHANGED toApp

(* Draining is written first. *)
ReadDisconnect ==
    /\ Disconnect
    /\ hpc' = "ended" <=> conn # "open"
    /\ Read("disconnect")
    /\ Written("draining")

(* What the engine says of a dial may carry a fatal cause; an error of a    *)
(* disconnect carries none.                                                *)
WriteReply ==
    /\ Reply
    /\ hpc' = "ended" <=> conn # "open"
    /\ Written(reply) \/ (reply = "error" /\ ~asked /\ Written("fatal"))
    /\ UNCHANGED <<app, conn, toDaemon, latest, wanted, asked, told>>

(* The end of an owner that has no session goes unnoticed. *)
ReadEndWithSession ==
    /\ conn = "closed"
    /\ toDaemon = <<>>
    /\ tunnel = "live"
    /\ OwnerCloses
    /\ UNCHANGED appVars

ReadEnd ==
    /\ conn = "closed"
    /\ toDaemon = <<>>
    /\ OwnerCloses
    /\ UNCHANGED appVars

(* The tick told again and again. *)
RevocationTickRepeats ==
    /\ hpc = "idle"
    /\ client
    /\ IF conn = "open" THEN UNCHANGED vars ELSE OwnerCloses
    /\ told' = TRUE
    /\ Written("fatal")
    /\ UNCHANGED <<app, conn, toDaemon, latest, wanted, asked>>

(* The verdict told with no cause, which the app takes for any error. *)
RevocationTickUncaused ==
    /\ hpc = "idle"
    /\ client
    /\ ~told
    /\ IF conn = "open" THEN UNCHANGED vars ELSE OwnerCloses
    /\ told' = TRUE
    /\ Written("error")
    /\ UNCHANGED <<app, conn, toDaemon, latest, wanted, asked>>

(* Between requests the configured device is found revoked: told once per  *)
(* connection, and a failed write ends it.                                 *)
RevocationTick ==
    /\ hpc = "idle"
    /\ client
    /\ ~told
    /\ IF conn = "open" THEN UNCHANGED vars ELSE OwnerCloses
    /\ told' = TRUE
    /\ Written("fatal")
    /\ UNCHANGED <<app, conn, toDaemon, latest, wanted, asked>>

(* The process is gone: its end of the socket closes. *)
HangsUp ==
    /\ conn' = CASE conn = "open" -> "dead" [] conn = "closed" -> "none" [] OTHER -> conn
    /\ toDaemon' = <<>>
    /\ UNCHANGED <<app, toApp, latest, wanted, asked, told>>

(* The owner task and the shutdown task at work on the host. *)
HandlerWorks == HandlerStep /\ UNCHANGED appVars
OwnerEnds == OwnerExit /\ HangsUp
ShutdownWorks ==
    \/ ShutdownDecides /\ UNCHANGED appVars
    \/ ShutdownExits /\ HangsUp
RevertWorks(r) == RevertStep(r) /\ UNCHANGED appVars

(* Starts, signals, crashes and the operator's command. *)
DaemonWhim ==
    \/ (Start \/ startup_reconcile \/ run_revert \/ ShutdownTakes) /\ UNCHANGED appVars
    \/ Crash /\ HangsUp

AppStep == AppReceives \/ AppSeesEnd
AppWhim == AppConnects \/ AppTimesOut \/ AppDisconnects \/ AppDies

OwnerTask ==
    \/ ReadConfigure \/ ReadConnect \/ ReadDisconnect \/ ReadEnd
    \/ HandlerWorks \/ WriteReply \/ OwnerEnds

DesktopNext ==
    \/ AppStep \/ AppWhim
    \/ OwnerTask \/ RevocationTick \/ ShutdownWorks \/ DaemonWhim
    \/ \E r \in Runners : RevertWorks(r)

DesktopSpec == DesktopInit /\ [][DesktopNext]_desktopVars

(***************************************************************************)
(* The app's event loop and the daemon's runtime run what is ready.  As in  *)
(* Warrend, that a command and a dial end is assumed of the host and the    *)
(* engine; no timeout, call, signal, crash or death is promised.           *)
(***************************************************************************)
DesktopFairness ==
    /\ WF_desktopVars(AppStep)
    /\ WF_desktopVars(OwnerTask)
    /\ WF_desktopVars(ShutdownWorks)
    /\ \A r \in Runners : WF_desktopVars(RevertWorks(r))

DesktopFairSpec == DesktopSpec /\ DesktopFairness

-----------------------------------------------------------------------------
(* Properties. *)

(* A session handle the app holds as connected is a session the daemon     *)
(* holds, with the engine's rules in force (DesktopClientHandle.connect    *)
(* returns on Connected only).                                             *)
SessionIsLive ==
    app = "session" /\ latest = "connected" /\ conn = "open" /\ sd = "none"
    => tunnel = "live" /\ (escaped \/ engineTable = "rules")

(* With commands that succeed, a disconnected event on its way to the app  *)
(* tells the truth: no session, and the network restored or, under         *)
(* lockdown, strictly blocked (DaemonSessionHandle.disconnect waits for it *)
(* so no caller takes a captured network for a restored one).              *)
DisconnectedReadsTrue ==
    conn = "open" /\ (latest = "disconnected" \/ Contains(toApp, "disconnected")) =>
        /\ tunnel = "none"
        /\ IF wanted THEN Overridden \/ lockdownTable = "block" ELSE ~Blocked

(* What settles a call is its own answer: when the app is about to take a   *)
(* connected for its connect, or a disconnected or an error for the end of *)
(* its disconnect, the daemon has read and done all it was asked.  Nothing *)
(* the daemon says of its own accord, and no answer to an earlier request, *)
(* ends a disconnect that has not run (DaemonSessionHandle.disconnect      *)
(* swallows whatever error comes first).                                   *)
AnswerIsOwn ==
    /\ conn = "open" /\ toApp # <<>>
    /\ \/ app = "connecting" /\ Head(toApp) = "connected"
       \/ app = "disconnecting" /\ Head(toApp) \in {"disconnected", "error"}
    => hpc = "idle" /\ toDaemon = <<>>

(* A connect settles and a disconnect completes without their timeouts:    *)
(* the daemon answers every request or dies, and its death is seen.        *)
CallsReturn == app \in {"connecting", "disconnecting"} ~> app \in {"idle", "session"}

(* A daemon whose app closed, gave up or died ends, whatever it was doing, *)
(* so it does not refuse the next connection for ever (has_owner is never  *)
(* reset).                                                                 *)
LostOwnerEndsDaemon == conn = "closed" ~> conn = "none"

-----------------------------------------------------------------------------
(* desktop_platform.dart, DaemonSessionHandle.disconnect: "bounded, so a   *)
(* wedged daemon cannot hang the app; the close below still tears down".   *)
CloseTearsDown ==
    [][OwnerExit /\ asked /\ ~wanted => ~Blocked']_desktopVars

=============================================================================
