-------------------------- MODULE ProxySessionProofs -------------------------
(***************************************************************************)
(* Proofs about module ProxySession, for all causes, queues and numbers of *)
(* overlapping checks.  What a listener reads is true because a failure on *)
(* its way means the engine has given up (FailuresAreReal), nothing is on  *)
(* its way outside an open stream (StreamClosed), and a revoked stream is  *)
(* a closed one (RevokedIsOver).                                           *)
(***************************************************************************)
EXTENDS ProxySession, TLAPS

USE DEF EngineStates, Answers

FailuresAreReal ==
    /\ \A i \in 1 .. Len(wire) : wire[i] = "failed" => engine = "failed"
    /\ mapping => engine = "failed"

StreamClosed ==
    /\ ~open => feed = "ended" /\ wire = <<>> /\ ~mapping
    /\ open => session = "live"

RevokedIsOver == latest = "revoked" => ~open

AsksBounded == InFlight <= MaxAsks

StreamInv ==
    /\ StreamTypeOK
    /\ FailuresAreReal /\ StreamClosed /\ RevokedIsOver /\ FailureNamesCause

WatchInv ==
    /\ WatchTypeOK
    /\ AsksBounded /\ AskingIsWatched

IInv == EngineTypeOK /\ StreamInv /\ WatchInv

-----------------------------------------------------------------------------
(* The queue: a state sent, a state read. *)

LEMMA Sent ==
    ASSUME EngineTypeOK, StreamTypeOK, FailuresAreReal, Len(wire) < MaxInFlight, Send,
           UNCHANGED <<engine, mapping>>
    PROVE  /\ wire' \in Seq(EngineStates) /\ Len(wire') <= MaxInFlight
           /\ FailuresAreReal'
  <1>1. /\ wire \in Seq(EngineStates) /\ engine \in EngineStates
        /\ MaxInFlight \in Nat
    BY ProxyAssumption DEF EngineTypeOK, StreamTypeOK
  <1>2. /\ wire' \in Seq(EngineStates) /\ Len(wire') = Len(wire) + 1
        /\ \A i \in 1 .. Len(wire') :
             wire'[i] = IF i <= Len(wire) THEN wire[i] ELSE engine
    BY <1>1 DEF Send
  <1>3. \A i \in 1 .. Len(wire') : wire'[i] = "failed" => engine = "failed"
    BY <1>1, <1>2 DEF FailuresAreReal
  <1> QED
    BY <1>1, <1>2, <1>3 DEF FailuresAreReal

LEMMA Taken ==
    ASSUME StreamTypeOK, FailuresAreReal, wire # <<>>
    PROVE  /\ Tail(wire) \in Seq(EngineStates) /\ Len(Tail(wire)) <= MaxInFlight
           /\ Head(wire) \in EngineStates
           /\ Head(wire) = "failed" => engine = "failed"
           /\ \A i \in 1 .. Len(Tail(wire)) : Tail(wire)[i] = "failed" => engine = "failed"
  <1>1. /\ wire \in Seq(EngineStates) /\ Len(wire) \in Nat /\ Len(wire) > 0
        /\ MaxInFlight \in Nat /\ Len(wire) <= MaxInFlight
    BY ProxyAssumption DEF EngineTypeOK, StreamTypeOK
  <1>2. /\ Tail(wire) \in Seq(EngineStates) /\ Len(Tail(wire)) = Len(wire) - 1
        /\ \A i \in 1 .. Len(Tail(wire)) : Tail(wire)[i] = wire[i + 1]
        /\ Head(wire) = wire[1] /\ wire[1] \in EngineStates
    BY <1>1
  <1> QED
    BY <1>1, <1>2 DEF FailuresAreReal

(* The counters of the checks in flight: one asked, one read, one dropped. *)

LEMMA Asked ==
    ASSUME WatchTypeOK, AsksBounded, Ask
    PROVE  asks' \in [{"sent"} \cup Answers -> 0 .. MaxAsks] /\ AsksBounded'
  <1>1. /\ MaxAsks \in Nat
        /\ asks \in [{"sent", "clear", "revoked"} -> 0 .. MaxAsks]
        /\ asks["sent"] + asks["clear"] + asks["revoked"] < MaxAsks
    BY ProxyAssumption DEF WatchTypeOK, Ask, InFlight
  <1>2. asks' = [asks EXCEPT !["sent"] = asks["sent"] + 1]
    BY DEF Ask
  <1>3. /\ asks["sent"] \in Nat /\ asks["clear"] \in Nat /\ asks["revoked"] \in Nat
    BY <1>1
  <1>4. asks["sent"] + 1 \in 0 .. MaxAsks
    BY <1>1, <1>3
  <1>5. asks' \in [{"sent", "clear", "revoked"} -> 0 .. MaxAsks]
    BY <1>1, <1>2, <1>4
  <1>6. /\ asks'["sent"] = asks["sent"] + 1
        /\ asks'["clear"] = asks["clear"] /\ asks'["revoked"] = asks["revoked"]
    BY <1>1, <1>2
  <1> QED
    BY <1>1, <1>3, <1>5, <1>6 DEF AsksBounded, InFlight

LEMMA Read ==
    ASSUME WatchTypeOK, AsksBounded, CheckReads
    PROVE  asks' \in [{"sent"} \cup Answers -> 0 .. MaxAsks] /\ AsksBounded'
  <1> DEFINE a == IF revoked THEN "revoked" ELSE "clear"
  <1>1. /\ MaxAsks \in Nat
        /\ asks \in [{"sent", "clear", "revoked"} -> 0 .. MaxAsks]
        /\ asks["sent"] > 0
        /\ asks["sent"] + asks["clear"] + asks["revoked"] <= MaxAsks
    BY ProxyAssumption DEF WatchTypeOK, CheckReads, AsksBounded, InFlight
  <1>2. /\ asks["sent"] \in Nat /\ asks["clear"] \in Nat /\ asks["revoked"] \in Nat
    BY <1>1
  <1>3. asks' = [asks EXCEPT !["sent"] = asks["sent"] - 1, ![a] = asks[a] + 1]
    BY <1>1 DEF CheckReads
  <1>4. CASE revoked
    <2>1. /\ asks'["sent"] = asks["sent"] - 1
          /\ asks'["clear"] = asks["clear"] /\ asks'["revoked"] = asks["revoked"] + 1
      BY <1>1, <1>3, <1>4
    <2>2. asks' \in [{"sent", "clear", "revoked"} -> 0 .. MaxAsks]
      BY <1>1, <1>2, <1>3, <1>4
    <2> QED
      BY <1>1, <1>2, <2>1, <2>2 DEF AsksBounded, InFlight
  <1>5. CASE ~revoked
    <2>1. /\ asks'["sent"] = asks["sent"] - 1
          /\ asks'["revoked"] = asks["revoked"] /\ asks'["clear"] = asks["clear"] + 1
      BY <1>1, <1>3, <1>5
    <2>2. asks' \in [{"sent", "clear", "revoked"} -> 0 .. MaxAsks]
      BY <1>1, <1>2, <1>3, <1>5
    <2> QED
      BY <1>1, <1>2, <2>1, <2>2 DEF AsksBounded, InFlight
  <1> QED
    BY <1>4, <1>5

LEMMA Dropped ==
    ASSUME WatchTypeOK, AsksBounded,
           NEW k \in {"sent", "clear", "revoked"}, asks[k] > 0,
           asks' = [asks EXCEPT ![k] = @ - 1]
    PROVE  asks' \in [{"sent"} \cup Answers -> 0 .. MaxAsks] /\ AsksBounded'
  <1>1. /\ MaxAsks \in Nat
        /\ asks \in [{"sent", "clear", "revoked"} -> 0 .. MaxAsks]
        /\ asks["sent"] + asks["clear"] + asks["revoked"] <= MaxAsks
    BY ProxyAssumption DEF WatchTypeOK, AsksBounded, InFlight
  <1>2. /\ asks["sent"] \in Nat /\ asks["clear"] \in Nat /\ asks["revoked"] \in Nat
        /\ asks[k] - 1 \in 0 .. MaxAsks
    BY <1>1
  <1>3. asks' \in [{"sent", "clear", "revoked"} -> 0 .. MaxAsks]
    BY <1>1, <1>2
  <1>4. \A j \in {"sent", "clear", "revoked"} : asks'[j] <= asks[j] /\ asks'[j] \in Nat
    BY <1>1, <1>2
  <1> QED
    BY <1>1, <1>2, <1>3, <1>4 DEF AsksBounded, InFlight

-----------------------------------------------------------------------------
(* What a step leaves alone. *)

LEMMA StreamSame ==
    ASSUME StreamInv, UNCHANGED <<streamVars, engineVars, session>>
    PROVE  StreamInv'
  <1>1. StreamTypeOK'
    BY DEF StreamInv, StreamTypeOK, streamVars
  <1> QED
    BY <1>1 DEF StreamInv, FailuresAreReal, StreamClosed, RevokedIsOver, FailureNamesCause,
                streamVars, engineVars

LEMMA WatchSame ==
    ASSUME WatchInv, UNCHANGED <<watchVars, disposed>>, open => open'
    PROVE  WatchInv'
  <1>1. WatchTypeOK' /\ AsksBounded'
    BY DEF WatchInv, WatchTypeOK, AsksBounded, InFlight, watchVars
  <1> QED
    BY <1>1 DEF WatchInv, AskingIsWatched, watchVars

(* The stream's end leaves a closed stream, whatever was on its way. *)
LEMMA Over ==
    ASSUME StreamInv, StreamOver, latest' \in {latest, "revoked"}
    PROVE  StreamInv'
  <1>1. wire' = <<>> /\ Len(wire') = 0 /\ MaxInFlight \in Nat /\ wire' \in Seq(EngineStates)
    BY ProxyAssumption DEF StreamOver
  <1>2. open' = FALSE /\ feed' = "ended" /\ unseen' = FALSE /\ mapping' = FALSE
    BY DEF StreamOver
  <1>3. StreamTypeOK'
    <2>1. latest' \in {"none", "exhausted", "revoked"} \cup Live \cup Causes
      BY DEF StreamInv, StreamTypeOK
    <2>2. wire' \in Seq(EngineStates) /\ Len(wire') <= MaxInFlight
      BY <1>1
    <2> QED
      BY <1>2, <2>1, <2>2 DEF StreamTypeOK
  <1>4. FailuresAreReal'
    BY <1>1, <1>2 DEF FailuresAreReal
  <1>5. StreamClosed'
    BY <1>1, <1>2 DEF StreamClosed
  <1>6. RevokedIsOver'
    BY <1>2 DEF RevokedIsOver
  <1>7. FailureNamesCause'
    BY <1>2 DEF FailureNamesCause
  <1> QED
    BY <1>3, <1>4, <1>5, <1>6, <1>7 DEF StreamInv

-----------------------------------------------------------------------------
LEMMA InitIInv == Init => IInv
  <1> SUFFICES ASSUME Init PROVE IInv
    OBVIOUS
  <1>1. /\ MaxAsks \in Nat /\ MaxInFlight \in Nat /\ "connecting" \in Live
    BY ProxyAssumption
  <1>2. EngineTypeOK
    BY <1>1 DEF Init, EngineTypeOK
  <1>3. StreamInv
    <2>1. wire = <<>> /\ Len(wire) = 0 /\ wire \in Seq(EngineStates) /\ ~mapping
      BY DEF Init
    <2>2. StreamTypeOK
      <3>1. wire \in Seq(EngineStates) /\ Len(wire) <= MaxInFlight
        BY <1>1, <2>1
      <3> QED
        BY <3>1 DEF Init, StreamTypeOK
    <2>3. FailuresAreReal
      <3>1. 1 .. Len(wire) = {} /\ ~mapping
        BY <2>1
      <3> QED
        BY <3>1 DEF FailuresAreReal
    <2>4. StreamClosed
      BY DEF Init, StreamClosed
    <2>5. RevokedIsOver
      BY DEF Init, RevokedIsOver
    <2>6. FailureNamesCause
      BY DEF Init, FailureNamesCause
    <2> QED
      BY <2>2, <2>3, <2>4, <2>5, <2>6 DEF StreamInv
  <1>4. WatchInv
    <2>1. WatchTypeOK
      <3>1. asks \in [{"sent"} \cup Answers -> 0 .. MaxAsks]
        BY <1>1 DEF Init
      <3> QED
        BY <3>1 DEF Init, WatchTypeOK
    <2>2. AsksBounded
      BY <1>1 DEF Init, AsksBounded, InFlight
    <2>3. AskingIsWatched
      BY DEF Init, AskingIsWatched
    <2> QED
      BY <2>1, <2>2, <2>3 DEF WatchInv
  <1> QED
    BY <1>2, <1>3, <1>4 DEF IInv

LEMMA EngineKeeps ==
    ASSUME IInv, EngineLatches \/ EngineMoves \/ DeviceRevoked
    PROVE  IInv'
  <1> USE DEF IInv
  <1>1. EngineTypeOK'
    BY DEF EngineLatches, EngineMoves, DeviceRevoked, EngineTypeOK, engineVars
  <1>2. StreamTypeOK'
    BY DEF EngineLatches, EngineMoves, DeviceRevoked, StreamInv, StreamTypeOK, streamVars
  <1>3. StreamInv'
    BY <1>2
    DEF EngineLatches, EngineMoves, DeviceRevoked, StreamInv, FailuresAreReal, StreamClosed,
        RevokedIsOver, FailureNamesCause, engineVars, streamVars
  <1>4. WatchInv'
    BY WatchSame DEF EngineLatches, EngineMoves, DeviceRevoked, streamVars
  <1> QED
    BY <1>1, <1>3, <1>4

LEMMA BridgeKeeps ==
    ASSUME IInv, BridgeTask \/ FeedEnds
    PROVE  IInv'
  <1> USE DEF IInv
  <1>1. EngineTypeOK'
    BY DEF BridgeTask, FeedFirst, FeedNotices, FeedSends, FeedEnds, EngineTypeOK, engineVars
  <1>2. WatchInv'
    BY WatchSame DEF BridgeTask, FeedFirst, FeedNotices, FeedSends, FeedEnds
  <1>3. open
    BY DEF BridgeTask, FeedFirst, FeedNotices, FeedSends, FeedEnds, StreamInv, StreamClosed
  <1>4. CASE FeedFirst \/ FeedSends
    <2>1. /\ wire' \in Seq(EngineStates) /\ Len(wire') <= MaxInFlight
          /\ FailuresAreReal'
      BY <1>4, Sent DEF FeedFirst, FeedSends, engineVars, StreamInv
    <2>2. StreamTypeOK'
      BY <1>4, <2>1 DEF FeedFirst, FeedSends, StreamInv, StreamTypeOK
    <2>3. StreamInv'
      BY <1>3, <1>4, <2>1, <2>2
      DEF FeedFirst, FeedSends, StreamInv, StreamClosed, RevokedIsOver, FailureNamesCause,
          engineVars
    <2> QED
      BY <1>1, <1>2, <2>3
  <1>5. CASE FeedNotices \/ FeedEnds
    <2>1. StreamTypeOK'
      BY <1>5 DEF FeedNotices, FeedEnds, StreamInv, StreamTypeOK
    <2>2. FailuresAreReal'
      BY <1>5 DEF FeedNotices, FeedEnds, StreamInv, FailuresAreReal, engineVars
    <2>3. StreamClosed' /\ RevokedIsOver' /\ FailureNamesCause'
      BY <1>3, <1>5
      DEF FeedNotices, FeedEnds, StreamInv, StreamClosed, RevokedIsOver, FailureNamesCause,
          engineVars
    <2> QED
      BY <1>1, <1>2, <2>1, <2>2, <2>3 DEF StreamInv
  <1> QED
    BY <1>4, <1>5 DEF BridgeTask

LEMMA IsolateKeeps ==
    ASSUME IInv, Isolate
    PROVE  IInv'
  <1> USE DEF IInv
  <1>1. /\ {"none", "failed", "exhausted", "revoked"} \cap (Live \cup Causes) = {}
        /\ Live \cap Causes = {}
    BY ProxyAssumption
  <1>2. EngineTypeOK'
    BY DEF Isolate, TakeState, CauseTold, StreamEnds, EngineTypeOK, engineVars
  <1>3. CASE TakeState
    <2>1. /\ Tail(wire) \in Seq(EngineStates) /\ Len(Tail(wire)) <= MaxInFlight
          /\ Head(wire) \in EngineStates
          /\ Head(wire) = "failed" => engine = "failed"
          /\ \A i \in 1 .. Len(Tail(wire)) : Tail(wire)[i] = "failed" => engine = "failed"
      BY <1>3, Taken DEF TakeState, StreamInv
    <2>2. StreamTypeOK'
      BY <1>3, <2>1 DEF TakeState, StreamInv, StreamTypeOK
    <2>3. FailuresAreReal' /\ StreamClosed'
      BY <1>3, <2>1 DEF TakeState, StreamInv, FailuresAreReal, StreamClosed, engineVars
    <2>4. RevokedIsOver' /\ FailureNamesCause'
      BY <1>1, <1>3, <2>1 DEF TakeState, StreamInv, RevokedIsOver, FailureNamesCause, engineVars
    <2>5. WatchInv'
      BY <1>3, WatchSame DEF TakeState
    <2> QED
      BY <1>2, <2>2, <2>3, <2>4, <2>5 DEF StreamInv
  <1>4. CASE CauseTold
    <2>1. open /\ engine = "failed"
      BY <1>4 DEF CauseTold, StreamInv, StreamClosed, FailuresAreReal
    <2>2. StreamTypeOK'
      BY <1>4 DEF CauseTold, EngineTypeOK, StreamInv, StreamTypeOK
    <2>3. StreamInv'
      BY <1>1, <1>4, <2>1, <2>2
      DEF CauseTold, EngineTypeOK, StreamInv, FailuresAreReal, StreamClosed, RevokedIsOver,
          FailureNamesCause, engineVars
    <2>4. WatchInv'
      BY <1>4, WatchSame DEF CauseTold
    <2> QED
      BY <1>2, <2>3, <2>4
  <1>5. CASE StreamEnds
    <2>1. StreamTypeOK'
      BY <1>5 DEF StreamEnds, StreamInv, StreamTypeOK
    <2>2. StreamInv'
      BY <1>5, <2>1
      DEF StreamEnds, StreamInv, FailuresAreReal, StreamClosed, RevokedIsOver,
          FailureNamesCause, engineVars
    <2>3. WatchTypeOK' /\ AsksBounded'
      BY <1>5 DEF StreamEnds, Leave, WatchInv, WatchTypeOK, AsksBounded, InFlight
    <2>4. AskingIsWatched'
      BY <1>5 DEF StreamEnds, Leave, WatchInv, AskingIsWatched
    <2> QED
      BY <1>2, <2>2, <2>3, <2>4 DEF WatchInv
  <1> QED
    BY <1>3, <1>4, <1>5 DEF Isolate

LEMMA CallsKeep ==
    ASSUME IInv, Calls
    PROVE  IInv'
  <1> USE DEF IInv
  <1>1. EngineTypeOK'
    BY ProxyAssumption
    DEF Calls, Connect, ConnectFails, ConnectReturns, SessionDisconnects, AppListens,
        AppLeaves, ClientDisposes, NextClient, EngineTypeOK, engineVars
  <1>2. CASE Connect \/ ConnectFails
    <2>1. ~open
      BY <1>2 DEF Connect, ConnectFails, StreamInv, StreamClosed
    <2>2. StreamTypeOK'
      BY <1>2 DEF Connect, ConnectFails, StreamInv, StreamTypeOK, streamVars
    <2>3. wire = <<>> /\ Len(wire) = 0 /\ ~mapping
      BY <2>1 DEF StreamInv, StreamClosed
    <2>4. FailuresAreReal'
      BY <1>2, <2>3 DEF Connect, ConnectFails, FailuresAreReal, streamVars
    <2>5. StreamInv'
      BY <1>2, <2>1, <2>2, <2>4
      DEF Connect, ConnectFails, StreamInv, StreamClosed, RevokedIsOver, FailureNamesCause,
          streamVars
    <2>6. WatchInv'
      BY <1>2, WatchSame DEF Connect, ConnectFails, streamVars
    <2> QED
      BY <1>1, <2>5, <2>6
  <1>3. CASE ConnectReturns /\ answer = "revoked"
    <2>1. StreamInv'
      BY <1>3, Over DEF ConnectReturns, EndRevoked
    <2>2. ~open
      BY <1>3 DEF ConnectReturns, StreamInv, StreamClosed
    <2>3. WatchInv'
      BY <1>3, <2>2, WatchSame DEF ConnectReturns, watchVars
    <2> QED
      BY <1>1, <2>1, <2>3
  <1>4. CASE ConnectReturns /\ answer # "revoked"
    <2>1. /\ session = "opening" /\ session' = "live" /\ open' = TRUE /\ feed' = "first"
          /\ unseen' \in BOOLEAN /\ latest' = "none" /\ Listen("session")
          /\ UNCHANGED <<wire, mapping, engineVars, revoked, disposed, answer>>
      BY <1>4 DEF ConnectReturns
    <2>2. StreamTypeOK'
      BY <2>1 DEF StreamInv, StreamTypeOK
    <2>3. "none" \notin Causes
      BY ProxyAssumption
    <2>4. StreamInv'
      BY <2>1, <2>2, <2>3
      DEF StreamInv, FailuresAreReal, StreamClosed, RevokedIsOver, FailureNamesCause, engineVars
    <2>5. /\ asks' \in [{"sent"} \cup Answers -> 0 .. MaxAsks] /\ AsksBounded'
      BY <2>1, Asked DEF Listen, WatchInv, WatchTypeOK, AsksBounded, InFlight
    <2>6. WatchTypeOK'
      BY <2>1, <2>5 DEF Listen, WatchInv, WatchTypeOK
    <2>7. AskingIsWatched'
      BY <1>4, <2>1 DEF Listen, WatchInv, AskingIsWatched
    <2> QED
      BY <1>1, <2>4, <2>5, <2>6, <2>7 DEF WatchInv
  <1>5. CASE SessionDisconnects
    <2>1. StreamInv'
      BY <1>5, Over DEF SessionDisconnects
    <2>2. WatchTypeOK' /\ AsksBounded'
      BY <1>5 DEF SessionDisconnects, Leave, WatchInv, WatchTypeOK, AsksBounded, InFlight
    <2>3. AskingIsWatched'
      BY <1>5 DEF SessionDisconnects, Leave, WatchInv, AskingIsWatched
    <2> QED
      BY <1>1, <2>1, <2>2, <2>3 DEF WatchInv
  <1>6. CASE AppListens \/ AppLeaves
    <2>1. StreamInv'
      BY <1>6, StreamSame DEF AppListens, AppLeaves
    <2>2. /\ asks' \in [{"sent"} \cup Answers -> 0 .. MaxAsks] /\ AsksBounded'
      BY <1>6, Asked
      DEF AppListens, AppLeaves, Listen, WatchInv, WatchTypeOK, AsksBounded, InFlight
    <2>3. WatchTypeOK'
      BY <1>6, <2>2 DEF AppListens, AppLeaves, Listen, Leave, WatchInv, WatchTypeOK
    <2>4. AskingIsWatched'
      <3>1. CASE AppListens
        BY <3>1 DEF AppListens, Listen, WatchInv, AskingIsWatched, streamVars
      <3>2. CASE AppLeaves
        BY <3>2 DEF AppLeaves, Leave, WatchInv, AskingIsWatched, streamVars
      <3> QED
        BY <1>6, <3>1, <3>2
    <2> QED
      BY <1>1, <2>1, <2>2, <2>3, <2>4 DEF WatchInv
  <1>7. CASE ClientDisposes
    <2>1. StreamInv'
      BY <1>7, StreamSame DEF ClientDisposes
    <2>2. WatchTypeOK' /\ AsksBounded' /\ AskingIsWatched'
      BY <1>7 DEF ClientDisposes, WatchInv, WatchTypeOK, AsksBounded, InFlight, AskingIsWatched
    <2> QED
      BY <1>1, <2>1, <2>2 DEF WatchInv
  <1>8. CASE NextClient
    <2>1. StreamInv'
      BY <1>8, StreamSame DEF NextClient
    <2>2. MaxAsks \in Nat
      BY ProxyAssumption
    <2>3. WatchTypeOK' /\ AsksBounded' /\ AskingIsWatched'
      BY <1>8, <2>2
      DEF NextClient, WatchInv, WatchTypeOK, AsksBounded, InFlight, AskingIsWatched, streamVars
    <2> QED
      BY <1>1, <2>1, <2>3 DEF WatchInv
  <1> QED
    BY <1>2, <1>3, <1>4, <1>5, <1>6, <1>7, <1>8 DEF Calls

LEMMA WatchKeeps ==
    ASSUME IInv, Tick \/ CheckReads \/ CheckFails \/ \E said \in Answers : CheckAnswers(said)
    PROVE  IInv'
  <1> USE DEF IInv
  <1>1. EngineTypeOK'
    BY DEF Tick, CheckReads, CheckFails, CheckAnswers, EngineTypeOK, engineVars
  <1>2. CASE Tick \/ CheckReads \/ CheckFails
    <2>1. StreamInv'
      BY <1>2, StreamSame DEF Tick, CheckReads, CheckFails
    <2>2. /\ asks' \in [{"sent"} \cup Answers -> 0 .. MaxAsks] /\ AsksBounded'
      BY <1>2, Asked, Read, Dropped DEF Tick, CheckFails, WatchInv
    <2>3. WatchTypeOK'
      BY <1>2, <2>2 DEF Tick, CheckReads, CheckFails, WatchInv, WatchTypeOK
    <2>4. AskingIsWatched'
      BY <1>2 DEF Tick, CheckReads, CheckFails, WatchInv, AskingIsWatched, streamVars
    <2> QED
      BY <1>1, <2>1, <2>2, <2>3, <2>4 DEF WatchInv
  <1>3. ASSUME NEW said \in Answers, CheckAnswers(said) PROVE IInv'
    <2>1. /\ asks' \in [{"sent"} \cup Answers -> 0 .. MaxAsks] /\ AsksBounded'
      BY <1>3, Dropped DEF CheckAnswers, WatchInv
    <2>2. CASE "session" \in watchers /\ said = "revoked" /\ ~disposed /\ said # answer
      <3>1. EndRevoked /\ timer' = FALSE /\ watchers' = watchers \ {"session"}
            /\ answer' = "revoked" /\ disposed' = disposed
        BY <1>3, <2>2 DEF CheckAnswers
      <3>2. StreamInv'
        BY <3>1, Over DEF EndRevoked
      <3>3. WatchTypeOK' /\ AskingIsWatched'
        BY <2>1, <3>1 DEF WatchInv, WatchTypeOK, AskingIsWatched
      <3> QED
        BY <1>1, <2>1, <3>2, <3>3 DEF WatchInv
    <2>3. CASE ~("session" \in watchers /\ said = "revoked" /\ ~disposed /\ said # answer)
      <3>1. UNCHANGED <<streamVars, engineVars, session, disposed>>
        BY <1>3, <2>3 DEF CheckAnswers
      <3>2. \/ UNCHANGED <<watchers, timer, answer>>
            \/ answer' = "clear" /\ UNCHANGED <<watchers, timer>>
            \/ answer' = "revoked" /\ timer' = FALSE /\ watchers' = watchers \ {"session"}
        BY <1>3, <2>3 DEF CheckAnswers
      <3>3. StreamInv'
        BY <3>1, StreamSame
      <3>4. WatchTypeOK'
        BY <2>1, <3>2 DEF WatchInv, WatchTypeOK
      <3>5. AskingIsWatched'
        BY <3>1, <3>2 DEF WatchInv, AskingIsWatched, streamVars
      <3> QED
        BY <1>1, <2>1, <3>3, <3>4, <3>5 DEF WatchInv
    <2> QED
      BY <2>2, <2>3
  <1> QED
    BY <1>2, <1>3

LEMMA NextIInv == IInv /\ [Next]_vars => IInv'
  <1> SUFFICES ASSUME IInv, [Next]_vars PROVE IInv'
    OBVIOUS
  <1>1. CASE Next
    BY <1>1, EngineKeeps, BridgeKeeps, IsolateKeeps, CallsKeep, WatchKeeps DEF Next, Engine
  <1>2. CASE UNCHANGED vars
    <2>1. EngineTypeOK'
      BY <1>2 DEF vars, IInv, EngineTypeOK, engineVars
    <2>2. StreamInv' /\ WatchInv'
      BY <1>2, StreamSame, WatchSame DEF vars, IInv, streamVars
    <2> QED
      BY <2>1, <2>2 DEF IInv
  <1> QED
    BY <1>1, <1>2

-----------------------------------------------------------------------------
(* The inductive invariant holds of every behaviour of the proxy session.  *)
THEOREM ProxyInvariance == ProxySpec => []IInv
  BY InitIInv, NextIInv, PTL DEF ProxySpec

(* Type correctness, with the bounds on the queue and the checks.          *)
THEOREM ProxyTypes == ProxySpec => []ProxyTypeOK
  <1>1. IInv => ProxyTypeOK
    BY DEF IInv, StreamInv, WatchInv, ProxyTypeOK
  <1> QED
    BY <1>1, ProxyInvariance, PTL

(* Whatever the order of the engine's moves, the queue and the bridge      *)
(* calls, a failure is read with the cause the engine stopped on.          *)
THEOREM FailuresNameCauses == ProxySpec => []FailureNamesCause
  <1>1. IInv => FailureNamesCause
    BY DEF IInv, StreamInv
  <1> QED
    BY <1>1, ProxyInvariance, PTL

(* However checks overlap and listeners come and go, the watch asks only   *)
(* for a listener, and a session that is over is none.                     *)
THEOREM AskingWatched == ProxySpec => []AskingIsWatched
  <1>1. IInv => AskingIsWatched
    BY DEF IInv, WatchInv
  <1> QED
    BY <1>1, ProxyInvariance, PTL

(* After a revocation is read nothing else is, until the next session.     *)
THEOREM RevocationsLast == ProxySpec => RevocationIsLast
  <1>1. ASSUME IInv, [Next]_vars
        PROVE  [latest = "revoked" /\ latest' # "revoked" => session = "opening"]_vars
    <2> SUFFICES ASSUME Next, latest = "revoked", latest' # "revoked"
                 PROVE  session = "opening"
      BY <1>1
    <2>1. ~open /\ ~mapping
      BY <1>1 DEF IInv, StreamInv, RevokedIsOver, StreamClosed
    <2>2. CASE Isolate
      BY <2>1, <2>2 DEF Isolate, TakeState, CauseTold, StreamEnds
    <2>3. CASE Calls
      BY <2>3 DEF Calls, Connect, ConnectFails, ConnectReturns, SessionDisconnects,
                  AppListens, AppLeaves, ClientDisposes, NextClient, streamVars
    <2>4. CASE Engine \/ BridgeTask
      BY <2>4 DEF Engine, BridgeTask, EngineLatches, EngineMoves, DeviceRevoked, FeedEnds,
                  FeedFirst, FeedNotices, FeedSends, streamVars
    <2>5. CASE Tick \/ CheckReads \/ CheckFails \/ \E said \in Answers : CheckAnswers(said)
      BY <2>5 DEF Tick, CheckReads, CheckFails, CheckAnswers, EndRevoked, streamVars
    <2> QED
      BY <2>2, <2>3, <2>4, <2>5 DEF Next
  <1> QED
    BY <1>1, ProxyInvariance, PTL DEF ProxySpec, RevocationIsLast

=============================================================================
