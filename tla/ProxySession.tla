----------------------------- MODULE ProxySession ----------------------------
(***************************************************************************)
(* Mode A: an in-process client and its proxy session, from the engine's   *)
(* state channel to what a listener of the app reads, with the revocation  *)
(* watch that ends the session.  The hops a state crosses:                 *)
(*                                                                         *)
(*   engine   the supervisor's watch channel, which conflates (external)   *)
(*   feed     the bridge task of datapath.rs `states`                      *)
(*   wire     what it sent to the Dart isolate and nobody has read         *)
(*   mapping  FfiSessionHandle._mapStates, awaiting a failure's cause      *)
(*   latest   LatestBroadcast's cached state, which every listener reads   *)
(*                                                                         *)
(* A failure is read as its cause, or as "exhausted" when there is none;   *)
(* "revoked" is the failure withDeviceRevocation ends a session on.        *)
(***************************************************************************)
EXTENDS Naturals, Sequences

CONSTANTS
    Live,           \* the states of a supervisor that has not given up
    Causes,         \* the engine's definitive causes of a failure
    MaxAsks,        \* bound: revocation checks in flight at once
    MaxInFlight     \* bound: states sent and not read

ASSUME ProxyAssumption ==
    /\ MaxAsks \in Nat \ {0}
    /\ MaxInFlight \in Nat \ {0}
    /\ Live \cap Causes = {}
    /\ {"none", "failed", "exhausted", "revoked"} \cap (Live \cup Causes) = {}
    /\ "connecting" \in Live

VARIABLES
    engine,     \* the state the supervisor published last
    cause,      \* the cause it latched, "exhausted" while there is none
    revoked,    \* the engine's sticky flag: this device was revoked
    session,    \* "none", "opening" (connect awaits) or "live"
    open,       \* the session's state stream is not over
    feed,       \* the bridge task: "first", "waiting", "reading" or "ended"
    unseen,     \* its receiver has not seen the channel's value
    wire,       \* states sent to the isolate and not read
    mapping,    \* a failure was read and its cause is awaited
    latest,     \* the state a listener reads, "none" before the first
    disposed,   \* the client is disposed, and its watch closed
    watchers,   \* who listens to the revocation watch
    timer,      \* its period is running
    asks,       \* checks in flight: not read by the engine yet ("sent"), or
                \* on their way back with their answer
    answer      \* the watch's latest answer, "none" before the first

engineVars == <<engine, cause>>
streamVars == <<open, feed, unseen, wire, mapping, latest>>
watchVars == <<watchers, timer, asks, answer>>
vars == <<engineVars, revoked, session, streamVars, disposed, watchVars>>

EngineStates == Live \cup {"failed"}
Answers == {"clear", "revoked"}

EngineTypeOK ==
    /\ engine \in EngineStates
    /\ cause \in Causes \cup {"exhausted"}
    /\ revoked \in BOOLEAN
    /\ session \in {"none", "opening", "live"}
    /\ disposed \in BOOLEAN

StreamTypeOK ==
    /\ open \in BOOLEAN
    /\ feed \in {"first", "waiting", "reading", "ended"}
    /\ unseen \in BOOLEAN
    /\ wire \in Seq(EngineStates) /\ Len(wire) <= MaxInFlight
    /\ mapping \in BOOLEAN
    /\ latest \in {"none", "exhausted", "revoked"} \cup Live \cup Causes

WatchTypeOK ==
    /\ watchers \subseteq {"app", "session"}
    /\ timer \in BOOLEAN
    /\ asks \in [{"sent"} \cup Answers -> 0 .. MaxAsks]
    /\ answer \in {"none"} \cup Answers

ProxyTypeOK == EngineTypeOK /\ StreamTypeOK /\ WatchTypeOK

Init ==
    /\ engine = "connecting"
    /\ cause = "exhausted"
    /\ revoked = FALSE
    /\ session = "none"
    /\ open = FALSE
    /\ feed = "ended"
    /\ unseen = FALSE
    /\ wire = <<>>
    /\ mapping = FALSE
    /\ latest = "none"
    /\ disposed = FALSE
    /\ watchers = {}
    /\ timer = FALSE
    /\ asks = [a \in {"sent"} \cup Answers |-> 0]
    /\ answer = "none"

-----------------------------------------------------------------------------
(* The engine's supervisor and credential refresh (external). *)

(* The cause is latched before the terminal state is published. *)
EngineLatches ==
    /\ session # "none"
    /\ engine # "failed"
    /\ cause = "exhausted"
    /\ cause' \in Causes
    /\ UNCHANGED <<engine, revoked, session, streamVars, disposed, watchVars>>

EngineMoves ==
    /\ session # "none"
    /\ engine # "failed"
    /\ engine' \in (IF cause = "exhausted" THEN EngineStates \ {engine} ELSE {"failed"})
    /\ unseen' = TRUE
    /\ UNCHANGED <<cause, revoked, session, open, feed, wire, mapping, latest,
                   disposed, watchVars>>

DeviceRevoked ==
    /\ ~revoked
    /\ revoked' = TRUE
    /\ UNCHANGED <<engineVars, session, streamVars, disposed, watchVars>>

-----------------------------------------------------------------------------
(* The bridge task: the current state first, then one per change noticed.  *)
(* A change between `changed` and `borrow` is read with the earlier one,   *)
(* and noticed again.                                                      *)

Send == wire' = Append(wire, engine)

FeedFirst ==
    /\ feed = "first"
    /\ Len(wire) < MaxInFlight
    /\ Send
    /\ feed' = "waiting"
    /\ UNCHANGED <<engineVars, revoked, session, open, unseen, mapping, latest,
                   disposed, watchVars>>

FeedNotices ==
    /\ feed = "waiting"
    /\ unseen
    /\ unseen' = FALSE
    /\ feed' = "reading"
    /\ UNCHANGED <<engineVars, revoked, session, open, wire, mapping, latest,
                   disposed, watchVars>>

FeedSends ==
    /\ feed = "reading"
    /\ Len(wire) < MaxInFlight
    /\ Send
    /\ feed' = "waiting"
    /\ UNCHANGED <<engineVars, revoked, session, open, unseen, mapping, latest,
                   disposed, watchVars>>

(* A closed channel ends the task with its last value unread. *)
FeedEndsUnread ==
    /\ feed = "waiting"
    /\ engine = "failed"
    /\ feed' = "ended"
    /\ UNCHANGED <<engineVars, revoked, session, open, unseen, wire, mapping,
                   latest, disposed, watchVars>>

(* The supervisor that gave up drops its channel. *)
FeedEnds ==
    /\ feed = "waiting"
    /\ ~unseen
    /\ engine = "failed"
    /\ feed' = "ended"
    /\ UNCHANGED <<engineVars, revoked, session, open, unseen, wire, mapping,
                   latest, disposed, watchVars>>

-----------------------------------------------------------------------------
(* The revocation watch. *)

(* A listener that leaves the period running behind it. *)
LeaveRunning(who) ==
    /\ watchers' = watchers \ {who}
    /\ UNCHANGED timer

Leave(who) ==
    /\ watchers' = watchers \ {who}
    /\ timer' = (timer /\ watchers' # {})

InFlight == asks["sent"] + asks["clear"] + asks["revoked"]

Ask ==
    /\ InFlight < MaxAsks
    /\ asks' = [asks EXCEPT !["sent"] = @ + 1]

(* The first listener asks and starts no period. *)
ListenAskingOnce(who) ==
    IF disposed
    THEN UNCHANGED <<watchers, timer, asks>>
    ELSE /\ watchers' = watchers \cup {who}
         /\ UNCHANGED timer
         /\ IF watchers = {} /\ answer # "revoked" THEN Ask ELSE UNCHANGED asks

(* The first listener starts the period and asks at once, unless the        *)
(* device is known to be revoked; a closed watch only replays.              *)
Listen(who) ==
    IF disposed
    THEN UNCHANGED <<watchers, timer, asks>>
    ELSE /\ watchers' = watchers \cup {who}
         /\ IF watchers = {} /\ answer # "revoked"
            THEN Ask /\ timer' = TRUE
            ELSE UNCHANGED <<timer, asks>>

AppListens ==
    /\ "app" \notin watchers
    /\ ~disposed
    /\ Listen("app")
    /\ UNCHANGED <<engineVars, revoked, session, streamVars, disposed, answer>>

AppLeaves ==
    /\ "app" \in watchers
    /\ Leave("app")
    /\ UNCHANGED <<engineVars, revoked, session, streamVars, disposed, asks, answer>>

Tick ==
    /\ timer
    /\ Ask
    /\ UNCHANGED <<engineVars, revoked, session, streamVars, disposed,
                   watchers, timer, answer>>

(* Each check is a bridge call on a thread of its own: it reads the flag,   *)
(* or fails, and its answer comes back in any order.                        *)
CheckReads ==
    /\ asks["sent"] > 0
    /\ asks' = [asks EXCEPT !["sent"] = @ - 1,
                            ![IF revoked THEN "revoked" ELSE "clear"] = @ + 1]
    /\ UNCHANGED <<engineVars, revoked, session, streamVars, disposed,
                   watchers, timer, answer>>

CheckFails ==
    /\ asks["sent"] > 0
    /\ asks' = [asks EXCEPT !["sent"] = @ - 1]
    /\ UNCHANGED <<engineVars, revoked, session, streamVars, disposed,
                   watchers, timer, answer>>

-----------------------------------------------------------------------------
(* The session's stream. *)

(* Nothing of what was on its way is delivered any more. *)
StreamOver ==
    /\ open' = FALSE
    /\ feed' = "ended"
    /\ unseen' = FALSE
    /\ wire' = <<>>
    /\ mapping' = FALSE

(* The revocation is reported and the states go on. *)
EndWithoutCancel ==
    /\ latest' = "revoked"
    /\ UNCHANGED <<open, feed, unseen, wire, mapping>>

(* withDeviceRevocation's end, and the broadcast with it. *)
EndRevoked ==
    /\ latest' = "revoked"
    /\ StreamOver

(* An answer: news only.  A revocation stops the period, and the session's *)
(* listener ends its stream and leaves.                                    *)
CheckAnswers(said) ==
    /\ asks[said] > 0
    /\ asks' = [asks EXCEPT ![said] = @ - 1]
    /\ IF disposed \/ said = answer
       THEN UNCHANGED <<streamVars, watchers, timer, answer>>
       ELSE /\ answer' = said
            /\ IF said = "clear"
               THEN UNCHANGED <<streamVars, watchers, timer>>
               ELSE /\ timer' = FALSE
                    /\ watchers' = watchers \ {"session"}
                    /\ IF "session" \in watchers THEN EndRevoked ELSE UNCHANGED streamVars
    /\ UNCHANGED <<engineVars, revoked, session, disposed>>

(* connect: its several awaits, and the new supervisor behind them. *)
Connect ==
    /\ session = "none"
    /\ ~disposed
    /\ session' = "opening"
    /\ engine' = "connecting"
    /\ cause' = "exhausted"
    /\ UNCHANGED <<revoked, streamVars, disposed, watchVars>>

ConnectFails ==
    /\ session = "opening"
    /\ session' = "none"
    /\ UNCHANGED <<engineVars, revoked, streamVars, disposed, watchVars>>

(* The handle is built, its states listened to at once, the client perhaps *)
(* disposed meanwhile; a revocation already known ends it there.           *)
ConnectReturns ==
    /\ session = "opening"
    /\ session' = "live"
    /\ IF answer = "revoked"
       THEN EndRevoked /\ UNCHANGED <<watchers, timer, asks>>
       ELSE /\ open' = TRUE
            /\ feed' = "first"
            /\ unseen' \in BOOLEAN
            /\ latest' = "none"
            /\ Listen("session")
            /\ UNCHANGED <<wire, mapping>>
    /\ UNCHANGED <<engineVars, revoked, disposed, answer>>

(* A failure passed on as the engine's bare state. *)
TakeStateUnmapped ==
    /\ open
    /\ ~mapping
    /\ wire # <<>>
    /\ wire' = Tail(wire)
    /\ latest' = Head(wire)
    /\ UNCHANGED <<engineVars, revoked, session, open, feed, unseen, mapping,
                   disposed, watchVars>>

(* The next state is read; a failure asks the engine for its cause first,   *)
(* and the stream is paused until it is told.                              *)
TakeState ==
    /\ open
    /\ ~mapping
    /\ wire # <<>>
    /\ wire' = Tail(wire)
    /\ IF Head(wire) = "failed"
       THEN mapping' = TRUE /\ UNCHANGED latest
       ELSE latest' = Head(wire) /\ UNCHANGED mapping
    /\ UNCHANGED <<engineVars, revoked, session, open, feed, unseen, disposed,
                   watchVars>>

(* The failure is reported with no cause. *)
CauseForgotten ==
    /\ mapping
    /\ mapping' = FALSE
    /\ latest' = "exhausted"
    /\ UNCHANGED <<engineVars, revoked, session, open, feed, unseen, wire,
                   disposed, watchVars>>

CauseTold ==
    /\ mapping
    /\ mapping' = FALSE
    /\ latest' = cause
    /\ UNCHANGED <<engineVars, revoked, session, open, feed, unseen, wire,
                   disposed, watchVars>>

(* The bridge task ended and all it sent was read. *)
StreamEnds ==
    /\ open
    /\ feed = "ended" /\ wire = <<>> /\ ~mapping
    /\ open' = FALSE
    /\ Leave("session")
    /\ UNCHANGED <<engineVars, revoked, session, feed, unseen, wire, mapping,
                   latest, disposed, asks, answer>>

(* The stream is closed first, then the supervisor is shut down. *)
SessionDisconnects ==
    /\ session = "live"
    /\ session' = "none"
    /\ StreamOver
    /\ Leave("session")
    /\ UNCHANGED <<engineVars, revoked, latest, disposed, asks, answer>>

(* The watch is closed, which its listeners see; a session goes on. *)
ClientDisposes ==
    /\ ~disposed
    /\ disposed' = TRUE
    /\ watchers' = {}
    /\ timer' = FALSE
    /\ UNCHANGED <<engineVars, revoked, session, streamVars, asks, answer>>

(* The app signs in again: another client, for a device not revoked. *)
NextClient ==
    /\ disposed
    /\ session = "none"
    /\ disposed' = FALSE
    /\ revoked' = FALSE
    /\ asks' = [a \in {"sent"} \cup Answers |-> 0]
    /\ answer' = "none"
    /\ UNCHANGED <<engineVars, session, streamVars, watchers, timer>>

-----------------------------------------------------------------------------
BridgeTask == FeedFirst \/ FeedNotices \/ FeedSends
Isolate == TakeState \/ CauseTold \/ StreamEnds
Calls ==
    \/ Connect \/ ConnectFails \/ ConnectReturns \/ SessionDisconnects
    \/ AppListens \/ AppLeaves \/ ClientDisposes \/ NextClient
Engine == EngineLatches \/ EngineMoves \/ DeviceRevoked \/ FeedEnds

Next ==
    \/ Engine \/ BridgeTask \/ Isolate \/ Calls
    \/ Tick \/ CheckReads \/ CheckFails
    \/ \E said \in Answers : CheckAnswers(said)

ProxySpec == Init /\ [][Next]_vars

(***************************************************************************)
(* The runtimes run what is ready, and timers fire; no state, revocation   *)
(* or call is promised.  A bridge fault does not last for ever.            *)
(***************************************************************************)
Fairness ==
    /\ WF_vars(BridgeTask)
    /\ WF_vars(Isolate)
    /\ WF_vars(Tick)
    /\ SF_vars(CheckReads)
    /\ \A said \in Answers : WF_vars(CheckAnswers(said))

ProxyFairSpec == ProxySpec /\ Fairness

-----------------------------------------------------------------------------
(* Properties. *)

(* A failure is read with the cause the engine stopped on, however late it *)
(* is read: never as retry exhaustion when there is a cause, and never     *)
(* before the engine gave up (_mapStates, fatal_cause).                    *)
FailureNamesCause ==
    open /\ latest \in Causes \cup {"exhausted"} => engine = "failed" /\ latest = cause

(* The watch asks only while someone listens, the client lives and the     *)
(* device is not known to be revoked; a session whose stream is over does  *)
(* not keep it asking (DeviceRevocationWatch, withDeviceRevocation).       *)
AskingIsWatched ==
    /\ timer => watchers # {} /\ answer # "revoked" /\ ~disposed
    /\ "session" \in watchers => open

(* After the revocation a session reports nothing else, whatever its       *)
(* engine still does (withDeviceRevocation).                               *)
RevocationIsLast ==
    [][latest = "revoked" /\ latest' # "revoked" => session = "opening"]_vars

(* What the engine settles on is read in the end: no change is lost to the *)
(* conflating channel, the queue, the pause for a cause or the channel's   *)
(* end (states, LatestBroadcast).                                          *)
Shown == IF engine = "failed" THEN latest = cause ELSE latest = engine

ReadsCatchUp ==
    \A s \in EngineStates :
        session = "live" /\ engine = s ~>
            Shown \/ engine # s \/ latest = "revoked" \/ session # "live"

(* A session that is live when its device is revoked ends on it, unless    *)
(* its own end or the client's comes first (FfiSessionHandle).             *)
RevocationEndsSession ==
    session = "live" /\ open /\ ~revoked /\ ~disposed ~>
        []~revoked \/ latest = "revoked" \/ ~open \/ disposed

-----------------------------------------------------------------------------
(* warren_devices.dart, revoked: "Broadcast, latest on listen; once `true`, *)
(* it stays `true`."                                                       *)
RevocationStays ==
    [][answer = "revoked" /\ answer' # "revoked" => NextClient]_vars

=============================================================================
