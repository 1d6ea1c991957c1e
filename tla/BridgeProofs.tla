------------------------------ MODULE BridgeProofs ------------------------------
(***************************************************************************)
(* For any calls: the handle's lock makes the take and the shutdown, and   *)
(* the check and the forward, one; a stream's receiver is never ahead of   *)
(* its channel, and a channel that has ended stays ended; and the name     *)
(* kept is the registry's once a rename that ran alone is confirmed.       *)
(***************************************************************************)
EXTENDS Bridge, TLAPS

(* The session's object comes with its engine and is there for every call  *)
(* made on it, the port's with its mapping.                                *)
ObjectsExist ==
    /\ (session = "open") <=> (engine # "none")
    /\ (session = "open") <=> (handle # "none")
    /\ (session = "open") <=> (probe # "none")
    /\ (port = "none") <=> (mapping = "none")
    /\ session # "none" => client = "built"
    /\ port # "none" => session = "open"
    /\ \A c \in Calls :
         /\ (at[c] = "unused") <=> (op[c] = "none")
         /\ op[c] # "none" => client = "built"
         /\ op[c] \in SessionStreams \cup {"disconnect", "forward_port"} => session = "open"
         /\ op[c] \in PortStreams \cup {"shutdown"} => port # "none"

(* What the lock covers: who holds it, and what the others then find.      *)
LockCovers ==
    /\ \A c \in Calls :
         handleLock = c <=> At(c, "disconnect", "shutting") \/ At(c, "forward_port", "asking")
    /\ handle = "held" => engine \in {"running", "down"}
    /\ \A c \in Calls :
         At(c, "disconnect", "shutting") => handle = "taken" /\ engine \in {"running", "down"}
    /\ \A c \in Calls : At(c, "forward_port", "asking") => handle = "held" /\ mapping = "none"
    /\ handle = "taken" =>
         engine \in {"stopping", "down"} \/ \E c \in Calls : At(c, "disconnect", "shutting")

(* How far a disconnect has come, and what it has done by then.            *)
DisconnectDone ==
    \A c \in Calls :
        /\ op[c] = "disconnect" => at[c] \in {"issued", "handle", "shutting", "returned"}
        /\ op[c] = "disconnect" /\ at[c] # "issued" => probe \in {"aborting", "over"}
        /\ At(c, "disconnect", "returned") => engine \in {"stopping", "down"} /\ handle = "taken"

(* One port is asked for, once. *)
OneForward ==
    /\ \A b, c \in Calls : op[b] = "forward_port" /\ op[c] = "forward_port" => b = c
    /\ \A c \in Calls : At(c, "forward_port", "issued") => mapping = "none"
    /\ (\A c \in Calls : op[c] # "forward_port") => mapping = "none"

Heard(c) ==
    \/ got[c] = value[op[c]]
    \/ op[c] \in Skipping /\ value[op[c]] = 0

(* What a stream has delivered at each of its places. *)
StreamsFollow ==
    \A c \in Calls :
        /\ at[c] = "unused" => seen[c] = 0
        /\ op[c] \in Streams =>
            /\ at[c] \in {"issued", "waiting", "emitting", "returned"}
            /\ seen[c] <= value[op[c]]
            /\ at[c] = "issued" => seen[c] = 0
            /\ at[c] = "waiting" /\ seen[c] = value[op[c]] => Heard(c)
            /\ at[c] = "returned" /\ c \in listening => Closed(op[c]) /\ Heard(c)

Served(c) == Renaming(c) /\ at[c] = "applied"

(* The registry has the name of a rename that nothing has come between,    *)
(* and while the names have not parted, of the one that is served.         *)
RenamesFollow ==
    /\ \A c \in Calls : Own(c) => op[c] = "account" /\ at[c] \notin {"unused", "returned"}
    /\ \A b, c \in Calls : alone = c /\ Renaming(b) /\ Renaming(c) => b = c
    /\ \A c \in Calls : alone = c /\ Served(c) => registry = Trim(target[c])
    /\ ~parted =>
         /\ \A b, c \in Calls : Served(b) /\ Served(c) => b = c
         /\ \A c \in Calls : Served(c) => registry = Trim(target[c])
         /\ (\A c \in Calls : ~Served(c)) => Trim(device_name) = registry

BridgeInv ==
    /\ BridgeTypeOK
    /\ ObjectsExist
    /\ LockCovers
    /\ DisconnectDone
    /\ OneForward
    /\ StreamsFollow
    /\ RenamesFollow

USE BridgeAssumption

(* No call is made yet. *)
LEMMA BridgeInvInit == Init => BridgeInv
<1> SUFFICES ASSUME Init PROVE BridgeInv
    OBVIOUS
<1> USE DEF Init, Streams, SessionStreams, PortStreams, At
<1>1. registry \in Names
    OBVIOUS
<1>2. BridgeTypeOK
    <2>1. got \in [Calls -> -1 .. MaxChanges]
        OBVIOUS
    <2>2. /\ value \in [Streams -> 0 .. MaxChanges]
          /\ op \in [Calls -> Streams \cup Requests \cup {"none"}]
          /\ at \in [Calls -> Places]
          /\ seen \in [Calls -> 0 .. MaxChanges]
        BY DEF Places
    <2> QED
        BY <1>1, <2>1, <2>2 DEF BridgeTypeOK, Written
<1>3. ObjectsExist
    BY DEF ObjectsExist
<1>4. LockCovers /\ DisconnectDone /\ OneForward
    BY DEF LockCovers, DisconnectDone, OneForward
<1>5. StreamsFollow
    BY DEF StreamsFollow
<1>6. RenamesFollow
    BY DEF RenamesFollow, Renaming, Served, Own, Trim
<1> QED
    BY <1>2, <1>3, <1>4, <1>5, <1>6 DEF BridgeInv

-----------------------------------------------------------------------------
(* What a call that is handed over changes, but for the renames. *)
Wire(c, o) ==
    /\ at[c] = "unused"
    /\ Callable(o)
    /\ op' = [op EXCEPT ![c] = o]
    /\ Move(c, "issued")
    /\ listening' = IF o \in Streams THEN listening \cup {c} ELSE listening
    /\ UNCHANGED <<client, sessionVars, portVars, value, seen, got, registry, device_name, parted>>
    /\ \/ UNCHANGED <<target, alone>>
       \/ /\ o = "account"
          /\ \E name \in Written : target' = [target EXCEPT ![c] = name]
          /\ alone' = IF \E b \in Calls : Renaming(b) THEN "none" ELSE c

LEMMA WireCalls ==
    ASSUME NEW c \in Calls, WireCall(c)
    PROVE  \E o \in Streams \cup Requests : Wire(c, o)
BY DEF WireCall, Wire

(* Every step of the bridge is one of these. *)
LEMMA Steps ==
    ASSUME [Next]_vars
    PROVE  \/ create \/ connect_proxy \/ new
           \/ \E c \in Calls, o \in Streams \cup Requests : Wire(c, o)
           \/ \E c \in Calls : abort_probe(c) \/ take_handle(c) \/ shutdown_handle(c)
           \/ \E c \in Calls : see_handle(c) \/ forward_port(c) \/ shutdown(c)
           \/ \E c \in Calls : emit_first(c) \/ changed(c) \/ emit(c) \/ Cancel(c)
           \/ \E c \in Calls : send(c) \/ ServerServes(c) \/ ServerRefuses(c)
           \/ \E c \in Calls : AnswerLost(c) \/ keep_name(c)
           \/ OtherInstallRenames
           \/ Publish \/ EngineUnmaps
           \/ EngineGoesDown("stopping") \/ EngineGoesDown("running")
           \/ ProbeEndsFrom("aborting") \/ ProbeEndsFrom("running")
           \/ UNCHANGED vars
BY WireCalls DEF Next, CallStep, Disconnect, Forward, StreamStep, Request, Engine, EngineStops,
   EngineGivesUp, ProbeAborts, ProbeSeesEnd

(* Each step keeps each variable in its range. *)
LEMMA TypesKept ==
    ASSUME BridgeInv, [Next]_vars
    PROVE  BridgeTypeOK'
<1> USE DEF BridgeInv, BridgeTypeOK, sessionVars, portVars, callVars, nameVars, Move, Places
<1>1. CASE create \/ connect_proxy \/ new
    <2>1. parted' \in BOOLEAN
        BY <1>1 DEF create, connect_proxy, new
    <2> QED
        BY <1>1, <2>1 DEF create, connect_proxy, new
<1>2. ASSUME NEW c \in Calls, NEW o \in Streams \cup Requests, Wire(c, o)
      PROVE BridgeTypeOK'
    BY <1>2 DEF Wire, Callable, Own, Requests
<1>3. CASE OtherInstallRenames
    BY <1>3 DEF OtherInstallRenames
<1>4. ASSUME NEW c \in Calls, abort_probe(c) \/ take_handle(c) \/ shutdown_handle(c)
      PROVE BridgeTypeOK'
    BY <1>4 DEF abort_probe, take_handle, shutdown_handle
<1>5. ASSUME NEW c \in Calls, see_handle(c) \/ forward_port(c) \/ shutdown(c)
      PROVE BridgeTypeOK'
    BY <1>5 DEF see_handle, forward_port, shutdown, ObjectsExist, At
<1>6. ASSUME NEW c \in Calls, emit_first(c) \/ changed(c) \/ emit(c) \/ Cancel(c)
      PROVE BridgeTypeOK'
    BY <1>6 DEF emit_first, changed, emit, InStream, Emit, Cancel
<1>7. ASSUME NEW c \in Calls, send(c) \/ ServerServes(c) \/ ServerRefuses(c)
      PROVE BridgeTypeOK'
    <2>1. parted' \in BOOLEAN
        BY <1>7 DEF send, ServerServes, ServerRefuses
    <2>2. \A w \in Written : Trim(w) \in Names
        BY DEF Written, Trim
    <2>3. registry' \in Names
        BY <1>7, <2>2 DEF send, ServerServes, ServerRefuses, Own
    <2> QED
        BY <1>7, <2>1, <2>3 DEF send, ServerServes, ServerRefuses, InRequest, EndRequest
<1>8. ASSUME NEW c \in Calls, AnswerLost(c) \/ keep_name(c) PROVE BridgeTypeOK'
    <2>1. parted' \in BOOLEAN
        BY <1>8 DEF AnswerLost, keep_name, InRequest, EndRequest
    <2>2. device_name' \in Written
        BY <1>8 DEF AnswerLost, keep_name, InRequest, Own
    <2> QED
        BY <1>8, <2>1, <2>2 DEF AnswerLost, keep_name, InRequest, EndRequest
<1>9. CASE Publish \/ EngineUnmaps
    BY <1>9 DEF Publish, Publishes, EngineUnmaps
<1>10. CASE \/ EngineGoesDown("stopping") \/ EngineGoesDown("running")
            \/ ProbeEndsFrom("aborting") \/ ProbeEndsFrom("running")
    BY <1>10 DEF EngineGoesDown, ProbeEndsFrom
<1>11. CASE UNCHANGED vars
    BY <1>11 DEF vars
<1> QED
    BY Steps, <1>1, <1>2, <1>3, <1>4, <1>5, <1>6, <1>7, <1>8, <1>9, <1>10, <1>11

(* Nothing that a call was made on goes away. *)
LEMMA ObjectsKept ==
    ASSUME BridgeInv, [Next]_vars
    PROVE  ObjectsExist'
<1> USE DEF BridgeInv, BridgeTypeOK, ObjectsExist, Streams, SessionStreams, PortStreams,
        Requests, sessionVars, portVars, callVars, nameVars, Move, At
<1>1. CASE create \/ connect_proxy \/ new
    BY <1>1 DEF create, connect_proxy, new
<1>2. ASSUME NEW c \in Calls, NEW o \in Streams \cup Requests, Wire(c, o)
      PROVE ObjectsExist'
    BY <1>2 DEF Wire, Callable, Own
<1>3. CASE OtherInstallRenames
    BY <1>3 DEF OtherInstallRenames
<1>4. ASSUME NEW c \in Calls, abort_probe(c) \/ take_handle(c) \/ shutdown_handle(c)
      PROVE ObjectsExist'
    BY <1>4 DEF abort_probe, take_handle, shutdown_handle
<1>5. ASSUME NEW c \in Calls, see_handle(c) \/ forward_port(c) \/ shutdown(c)
      PROVE ObjectsExist'
    BY <1>5 DEF see_handle, forward_port, shutdown
<1>6. ASSUME NEW c \in Calls, emit_first(c) \/ changed(c) \/ emit(c) \/ Cancel(c)
      PROVE ObjectsExist'
    BY <1>6 DEF emit_first, changed, emit, InStream, Emit, Cancel
<1>7. ASSUME NEW c \in Calls, send(c) \/ ServerServes(c) \/ ServerRefuses(c)
      PROVE ObjectsExist'
    BY <1>7 DEF send, ServerServes, ServerRefuses, InRequest, EndRequest
<1>8. ASSUME NEW c \in Calls, AnswerLost(c) \/ keep_name(c) PROVE ObjectsExist'
    BY <1>8 DEF AnswerLost, keep_name, InRequest, EndRequest
<1>9. CASE Publish \/ EngineUnmaps
    BY <1>9 DEF Publish, Publishes, EngineUnmaps
<1>10. CASE \/ EngineGoesDown("stopping") \/ EngineGoesDown("running")
            \/ ProbeEndsFrom("aborting") \/ ProbeEndsFrom("running")
    BY <1>10 DEF EngineGoesDown, ProbeEndsFrom
<1>11. CASE UNCHANGED vars
    BY <1>11 DEF vars
<1> QED
    BY Steps, <1>1, <1>2, <1>3, <1>4, <1>5, <1>6, <1>7, <1>8, <1>9, <1>10, <1>11

(* The handle changes hands under its lock. *)
LEMMA LockKept ==
    ASSUME BridgeInv, [Next]_vars
    PROVE  LockCovers'
<1> USE DEF BridgeInv, BridgeTypeOK, ObjectsExist, LockCovers, OneForward, sessionVars,
        portVars, callVars, nameVars, Move, At
<1>1. CASE create \/ connect_proxy \/ new
    BY <1>1 DEF create, connect_proxy, new
<1>2. ASSUME NEW c \in Calls, NEW o \in Streams \cup Requests, Wire(c, o)
      PROVE LockCovers'
    BY <1>2 DEF Wire, Callable, Own
<1>3. CASE OtherInstallRenames
    BY <1>3 DEF OtherInstallRenames
<1>4. ASSUME NEW c \in Calls, abort_probe(c) \/ take_handle(c) \/ shutdown_handle(c)
      PROVE LockCovers'
    BY <1>4 DEF abort_probe, take_handle, shutdown_handle
<1>5. ASSUME NEW c \in Calls, see_handle(c) \/ forward_port(c) \/ shutdown(c)
      PROVE LockCovers'
    BY <1>5 DEF see_handle, forward_port, shutdown
<1>6. ASSUME NEW c \in Calls, emit_first(c) \/ changed(c) \/ emit(c) \/ Cancel(c)
      PROVE LockCovers'
    BY <1>6 DEF emit_first, changed, emit, InStream, Emit, Cancel
<1>7. ASSUME NEW c \in Calls, send(c) \/ ServerServes(c) \/ ServerRefuses(c)
      PROVE LockCovers'
    BY <1>7 DEF send, ServerServes, ServerRefuses, InRequest, EndRequest
<1>8. ASSUME NEW c \in Calls, AnswerLost(c) \/ keep_name(c) PROVE LockCovers'
    BY <1>8 DEF AnswerLost, keep_name, InRequest, EndRequest
<1>9. CASE Publish \/ EngineUnmaps
    BY <1>9 DEF Publish, Publishes, EngineUnmaps
<1>10. CASE \/ EngineGoesDown("stopping") \/ EngineGoesDown("running")
            \/ ProbeEndsFrom("aborting") \/ ProbeEndsFrom("running")
    BY <1>10 DEF EngineGoesDown, ProbeEndsFrom
<1>11. CASE UNCHANGED vars
    BY <1>11 DEF vars
<1> QED
    BY Steps, <1>1, <1>2, <1>3, <1>4, <1>5, <1>6, <1>7, <1>8, <1>9, <1>10, <1>11

(* A disconnect does its steps in order, the second one waits for the first. *)
LEMMA DisconnectKept ==
    ASSUME BridgeInv, [Next]_vars
    PROVE  DisconnectDone'
<1> USE DEF BridgeInv, BridgeTypeOK, ObjectsExist, LockCovers, DisconnectDone, Streams,
        SessionStreams, PortStreams, Requests, sessionVars, portVars, callVars,
        nameVars, Move, At
<1>1. CASE create \/ connect_proxy \/ new
    BY <1>1 DEF create, connect_proxy, new
<1>2. ASSUME NEW c \in Calls, NEW o \in Streams \cup Requests, Wire(c, o)
      PROVE DisconnectDone'
    BY <1>2 DEF Wire, Callable, Own
<1>3. CASE OtherInstallRenames
    BY <1>3 DEF OtherInstallRenames
<1>4. ASSUME NEW c \in Calls, abort_probe(c) \/ take_handle(c) \/ shutdown_handle(c)
      PROVE DisconnectDone'
    BY <1>4 DEF abort_probe, take_handle, shutdown_handle
<1>5. ASSUME NEW c \in Calls, see_handle(c) \/ forward_port(c) \/ shutdown(c)
      PROVE DisconnectDone'
    BY <1>5 DEF see_handle, forward_port, shutdown
<1>6. ASSUME NEW c \in Calls, emit_first(c) \/ changed(c) \/ emit(c) \/ Cancel(c)
      PROVE DisconnectDone'
    BY <1>6 DEF emit_first, changed, emit, InStream, Emit, Cancel
<1>7. ASSUME NEW c \in Calls, send(c) \/ ServerServes(c) \/ ServerRefuses(c)
      PROVE DisconnectDone'
    BY <1>7 DEF send, ServerServes, ServerRefuses, InRequest, EndRequest
<1>8. ASSUME NEW c \in Calls, AnswerLost(c) \/ keep_name(c) PROVE DisconnectDone'
    BY <1>8 DEF AnswerLost, keep_name, InRequest, EndRequest
<1>9. CASE Publish \/ EngineUnmaps
    BY <1>9 DEF Publish, Publishes, EngineUnmaps
<1>10. CASE \/ EngineGoesDown("stopping") \/ EngineGoesDown("running")
            \/ ProbeEndsFrom("aborting") \/ ProbeEndsFrom("running")
    BY <1>10 DEF EngineGoesDown, ProbeEndsFrom
<1>11. CASE UNCHANGED vars
    BY <1>11 DEF vars
<1> QED
    BY Steps, <1>1, <1>2, <1>3, <1>4, <1>5, <1>6, <1>7, <1>8, <1>9, <1>10, <1>11

(* The bound on ports, as the other lemmas use it. *)
LEMMA ForwardKept ==
    ASSUME BridgeInv, [Next]_vars
    PROVE  OneForward'
<1> USE DEF BridgeInv, BridgeTypeOK, ObjectsExist, LockCovers, OneForward, Streams,
        SessionStreams, PortStreams, Requests, sessionVars, portVars, callVars,
        nameVars, Move, At
<1>1. CASE create \/ connect_proxy \/ new
    BY <1>1 DEF create, connect_proxy, new
<1>2. ASSUME NEW c \in Calls, NEW o \in Streams \cup Requests, Wire(c, o)
      PROVE OneForward'
    BY <1>2 DEF Wire, Callable, Own
<1>3. CASE OtherInstallRenames
    BY <1>3 DEF OtherInstallRenames
<1>4. ASSUME NEW c \in Calls, abort_probe(c) \/ take_handle(c) \/ shutdown_handle(c)
      PROVE OneForward'
    BY <1>4 DEF abort_probe, take_handle, shutdown_handle
<1>5. ASSUME NEW c \in Calls, see_handle(c) \/ forward_port(c) \/ shutdown(c)
      PROVE OneForward'
    BY <1>5 DEF see_handle, forward_port, shutdown
<1>6. ASSUME NEW c \in Calls, emit_first(c) \/ changed(c) \/ emit(c) \/ Cancel(c)
      PROVE OneForward'
    BY <1>6 DEF emit_first, changed, emit, InStream, Emit, Cancel
<1>7. ASSUME NEW c \in Calls, send(c) \/ ServerServes(c) \/ ServerRefuses(c)
      PROVE OneForward'
    BY <1>7 DEF send, ServerServes, ServerRefuses, InRequest, EndRequest
<1>8. ASSUME NEW c \in Calls, AnswerLost(c) \/ keep_name(c) PROVE OneForward'
    BY <1>8 DEF AnswerLost, keep_name, InRequest, EndRequest
<1>9. CASE Publish \/ EngineUnmaps
    BY <1>9 DEF Publish, Publishes, EngineUnmaps
<1>10. CASE \/ EngineGoesDown("stopping") \/ EngineGoesDown("running")
            \/ ProbeEndsFrom("aborting") \/ ProbeEndsFrom("running")
    BY <1>10 DEF EngineGoesDown, ProbeEndsFrom
<1>11. CASE UNCHANGED vars
    BY <1>11 DEF vars
<1> QED
    BY Steps, <1>1, <1>2, <1>3, <1>4, <1>5, <1>6, <1>7, <1>8, <1>9, <1>10, <1>11

(* A channel that has ended stays ended. *)
LEMMA ClosedStays ==
    ASSUME BridgeInv, [Next]_vars, NEW c \in Calls, op[c] \in Streams
    PROVE  op'[c] = op[c] /\ (Closed(op[c]) => Closed(op[c])')
<1> USE DEF BridgeInv, ObjectsExist, LockCovers, At, create, connect_proxy, new, Wire,
        OtherInstallRenames, abort_probe, take_handle, shutdown_handle, see_handle,
        forward_port, shutdown, emit_first, changed, emit, InStream, Cancel, send,
        ServerServes, ServerRefuses, InRequest, AnswerLost, keep_name, Publish,
        EngineUnmaps, EngineGoesDown, ProbeEndsFrom, vars, sessionVars, portVars, callVars,
        nameVars
<1>1. op'[c] = op[c]
    <2>1. at[c] # "unused"
        BY DEF Streams, SessionStreams, PortStreams
    <2> QED
        BY <2>1, Steps DEF BridgeTypeOK
<1>2. mapping = "gone" => mapping' = "gone"
    BY Steps
<1>3. probe = "over" => probe' = "over"
    BY Steps
<1>4. engine = "down" => engine' = "down"
    BY Steps
<1> QED
    BY <1>1, <1>2, <1>3, <1>4 DEF Closed

(* A step that leaves the streams and their channels where they are. *)
LEMMA StreamsUntouched ==
    ASSUME BridgeInv, [Next]_vars, UNCHANGED <<value, seen, got>>, listening' \subseteq listening,
           \A c \in Calls : at'[c] = "unused" => at[c] = "unused",
           \A c \in Calls : op'[c] \in Streams => op[c] = op'[c] /\ at'[c] = at[c]
    PROVE  StreamsFollow'
BY ClosedStays DEF BridgeInv, StreamsFollow, Heard

(* Only a stream's own steps and the engine's publishing move a stream. *)
LEMMA StreamsKept ==
    ASSUME BridgeInv, [Next]_vars
    PROVE  StreamsFollow'
<1> USE DEF BridgeInv, BridgeTypeOK, sessionVars, portVars, callVars, nameVars, Move, At
<1>1. CASE create \/ connect_proxy \/ new
    BY <1>1, StreamsUntouched DEF create, connect_proxy, new
<1>2. ASSUME NEW c \in Calls, NEW o \in Streams \cup Requests, Wire(c, o)
      PROVE StreamsFollow'
    <2>1. CASE o \in Requests
        BY <1>2, <2>1, StreamsUntouched DEF Wire, Requests, Streams, SessionStreams, PortStreams
    <2>2. CASE o \in Streams
        BY <1>2, <2>2, ClosedStays DEF Wire, StreamsFollow, Heard, ObjectsExist
    <2> QED
        BY <2>1, <2>2
<1>3. CASE OtherInstallRenames
    BY <1>3, StreamsUntouched DEF OtherInstallRenames
<1>4. ASSUME NEW c \in Calls, abort_probe(c) \/ take_handle(c) \/ shutdown_handle(c)
      PROVE StreamsFollow'
    BY <1>4, StreamsUntouched DEF abort_probe, take_handle, shutdown_handle, Streams,
       SessionStreams, PortStreams
<1>5. ASSUME NEW c \in Calls, see_handle(c) \/ forward_port(c) \/ shutdown(c)
      PROVE StreamsFollow'
    BY <1>5, StreamsUntouched DEF see_handle, forward_port, shutdown, Streams,
       SessionStreams, PortStreams
<1>6. ASSUME NEW c \in Calls, emit_first(c) \/ changed(c) \/ emit(c) \/ Cancel(c)
      PROVE StreamsFollow'
    <2>1. CASE emit_first(c)
        BY <2>1, ClosedStays DEF emit_first, InStream, Emit, StreamsFollow, Heard
    <2>2. CASE changed(c)
        BY <2>2, ClosedStays DEF changed, InStream, StreamsFollow, Heard
    <2>3. CASE emit(c)
        BY <2>3, ClosedStays DEF emit, InStream, Emit, StreamsFollow, Heard
    <2>4. CASE Cancel(c)
        BY <2>4, StreamsUntouched DEF Cancel
    <2> QED
        BY <1>6, <2>1, <2>2, <2>3, <2>4
<1>7. ASSUME NEW c \in Calls, send(c) \/ ServerServes(c) \/ ServerRefuses(c)
      PROVE StreamsFollow'
    BY <1>7, StreamsUntouched DEF send, ServerServes, ServerRefuses, InRequest,
       EndRequest, Streams, SessionStreams, PortStreams
<1>8. ASSUME NEW c \in Calls, AnswerLost(c) \/ keep_name(c) PROVE StreamsFollow'
    BY <1>8, StreamsUntouched DEF AnswerLost, keep_name, InRequest, EndRequest,
       Streams, SessionStreams, PortStreams
<1>9. CASE Publish \/ EngineUnmaps
    <2>1. CASE Publish
        BY <2>1, ClosedStays DEF Publish, Publishes, StreamsFollow, Heard, Closed, Streams,
           SessionStreams, PortStreams
    <2>2. CASE EngineUnmaps
        BY <2>2, StreamsUntouched DEF EngineUnmaps
    <2> QED
        BY <1>9, <2>1, <2>2
<1>10. CASE \/ EngineGoesDown("stopping") \/ EngineGoesDown("running")
            \/ ProbeEndsFrom("aborting") \/ ProbeEndsFrom("running")
    BY <1>10, StreamsUntouched DEF EngineGoesDown, ProbeEndsFrom
<1>11. CASE UNCHANGED vars
    BY <1>11, StreamsUntouched DEF vars
<1> QED
    BY Steps, <1>1, <1>2, <1>3, <1>4, <1>5, <1>6, <1>7, <1>8, <1>9, <1>10, <1>11

(* A step that leaves the renames and the names where they are. *)
LEMMA RenamesUntouched ==
    ASSUME BridgeInv, UNCHANGED <<target, nameVars>>,
           \A c \in Calls : Own(c) => op'[c] = op[c] /\ at'[c] = at[c]
    PROVE  RenamesFollow'
<1>1. \A c \in Calls : Own(c)' <=> Own(c)
    BY DEF Own
<1>2. \A c \in Calls : /\ Renaming(c)' <=> Renaming(c)
                       /\ Served(c)' <=> Served(c)
    BY <1>1 DEF Renaming, Served
<1> QED
    BY <1>1, <1>2 DEF BridgeInv, RenamesFollow, nameVars, Trim

(* Only a rename's own steps and the registry move a name. *)
LEMMA RenamesKept ==
    ASSUME BridgeInv, [Next]_vars
    PROVE  RenamesFollow'
<1> USE DEF BridgeInv, BridgeTypeOK, sessionVars, portVars, callVars, nameVars, Move, At
<1>0. /\ \A c \in Calls : Own(c) => op[c] = "account" /\ at[c] \notin {"unused", "returned"}
      /\ "account" \notin Streams
    BY DEF RenamesFollow, Streams, SessionStreams, PortStreams
<1>1. CASE create
    <2>1. \A c \in Calls : op[c] = "none"
        BY <1>1 DEF create, ObjectsExist, Callable
    <2> QED
        BY <1>0, <1>1, <2>1 DEF create, RenamesFollow, Renaming, Served, Own
<1>2. CASE connect_proxy \/ new
    BY <1>2, RenamesUntouched DEF connect_proxy, new
<1>3. ASSUME NEW c \in Calls, NEW o \in Streams \cup Requests, Wire(c, o)
      PROVE  RenamesFollow'
    <2>1. /\ ~Own(c) /\ op'[c] = o /\ at'[c] = "issued"
          /\ \A b \in Calls \ {c} : op'[b] = op[b] /\ at'[b] = at[b]
          /\ UNCHANGED <<registry, device_name, parted>>
        BY <1>0, <1>3 DEF Wire
    <2>2. CASE UNCHANGED <<target, alone>>
        BY <1>0, <2>1, <2>2, RenamesUntouched
    <2>3. ASSUME NEW name \in Written, o = "account", target' = [target EXCEPT ![c] = name],
                 alone' = IF \E b \in Calls : Renaming(b) THEN "none" ELSE c
          PROVE  RenamesFollow'
        <3>1. /\ \A b \in Calls \ {c} : target'[b] = target[b]
              /\ target'[c] = name
            BY <2>3
        <3>2. /\ \A b \in Calls \ {c} : (Renaming(b)' <=> Renaming(b)) /\ (Served(b)' <=> Served(b))
              /\ ~Served(c) /\ ~Served(c)'
            BY <2>1, <3>1 DEF Renaming, Served, Own
        <3>3. \A b \in Calls : Own(b)' => op'[b] = "account" /\ at'[b] \notin {"unused", "returned"}
            BY <1>0, <2>1, <2>3, <3>1 DEF Own
        <3>4. \A d \in Calls : alone' = d => d = c /\ \A b \in Calls : ~Renaming(b)
            BY <2>3, BridgeAssumption
        <3> QED
            BY <2>1, <3>1, <3>2, <3>3, <3>4 DEF RenamesFollow, Trim
    <2> QED
        BY <1>3, <2>2, <2>3 DEF Wire
<1>4. CASE OtherInstallRenames
    <2>1. \A c \in Calls : (Own(c)' <=> Own(c)) /\ at'[c] = at[c] /\ op'[c] = op[c]
        BY <1>4 DEF OtherInstallRenames, Own
    <2> QED
        BY <1>0, <1>4, <2>1, BridgeAssumption DEF OtherInstallRenames, RenamesFollow
<1>5. ASSUME NEW c \in Calls, abort_probe(c) \/ take_handle(c) \/ shutdown_handle(c)
      PROVE RenamesFollow'
    BY <1>0, <1>5, RenamesUntouched DEF abort_probe, take_handle, shutdown_handle
<1>6. ASSUME NEW c \in Calls, see_handle(c) \/ forward_port(c) \/ shutdown(c)
      PROVE RenamesFollow'
    BY <1>0, <1>6, RenamesUntouched DEF see_handle, forward_port, shutdown
<1>7. ASSUME NEW c \in Calls, emit_first(c) \/ changed(c) \/ emit(c) \/ Cancel(c)
      PROVE RenamesFollow'
    BY <1>0, <1>7, RenamesUntouched DEF emit_first, changed, emit, InStream, Emit, Cancel
<1>8. ASSUME NEW c \in Calls, send(c), UNCHANGED target
      PROVE RenamesFollow'
    <2>1. \A b \in Calls : /\ Renaming(b)' <=> Renaming(b)
                           /\ Served(b)' <=> Served(b)
                           /\ Own(b)' <=> Own(b)
        BY <1>8 DEF send, InRequest, EndRequest, Renaming, Served, Own
    <2>2. \A b \in Calls : Own(b) => op'[b] = "account" /\ at'[b] \notin {"unused", "returned"}
        BY <1>0, <1>8 DEF send, InRequest, EndRequest, Own
    <2> QED
        BY <1>8, <2>1, <2>2 DEF send, InRequest, RenamesFollow, Trim
<1>9. ASSUME NEW c \in Calls, ServerServes(c) PROVE RenamesFollow'
    <2>1. /\ at[c] = "sent" /\ at'[c] = "applied" /\ UNCHANGED <<op, target, device_name, alone>>
          /\ \A b \in Calls \ {c} : at'[b] = at[b]
        BY <1>9 DEF ServerServes, InRequest
    <2>2. \A b \in Calls : (Own(b)' <=> Own(b)) /\ (Renaming(b)' <=> Renaming(b))
        BY <2>1 DEF Own, Renaming
    <2>3. \A b \in Calls \ {c} : Served(b)' <=> Served(b)
        BY <2>1, <2>2 DEF Served
    <2>4. CASE ~Own(c)
        <3>1. UNCHANGED <<registry, parted>> /\ ~Served(c) /\ ~Served(c)'
            BY <1>9, <2>2, <2>4 DEF ServerServes, Served, Renaming
        <3> QED
            BY <1>0, <2>1, <2>2, <2>3, <3>1 DEF RenamesFollow, Trim
    <2>5. CASE Own(c)
        <3>1. /\ registry' = Trim(target[c]) /\ parted' = (parted \/ alone # c)
              /\ Renaming(c) /\ Served(c)'
            BY <1>9, <2>1, <2>2, <2>5 DEF ServerServes, Served, Renaming
        <3>2. alone = c => \A b \in Calls \ {c} : ~Renaming(b) /\ ~Served(b)
            BY <3>1 DEF RenamesFollow, Served
        <3> QED
            BY <1>0, <2>1, <2>2, <2>3, <3>1, <3>2 DEF RenamesFollow, Trim, Served
    <2> QED
        BY <2>4, <2>5
<1>10. ASSUME NEW c \in Calls, InRequest(c, at[c]), EndRequest(c),
              \/ at[c] \in {"issued", "sent"} /\ UNCHANGED nameVars
              \/ at[c] = "applied" /\ (AnswerLost(c) \/ keep_name(c))
       PROVE  RenamesFollow'
    <2>1. /\ at'[c] = "returned" /\ target'[c] = Other
          /\ \A b \in Calls : op'[b] = op[b]
          /\ \A b \in Calls \ {c} : at'[b] = at[b] /\ target'[b] = target[b]
          /\ registry' = registry /\ alone' = alone
        BY <1>10 DEF AnswerLost, keep_name, InRequest, EndRequest
    <2>2. /\ \A b \in Calls \ {c} : /\ Renaming(b)' <=> Renaming(b)
                                    /\ Served(b)' <=> Served(b)
                                    /\ Own(b)' <=> Own(b)
          /\ ~Renaming(c)' /\ ~Served(c)' /\ ~Own(c)'
        BY <2>1 DEF Renaming, Served, Own
    <2>3. /\ \A b \in Calls : Own(b)' => op'[b] = "account" /\ at'[b] \notin {"unused", "returned"}
          /\ \A b, d \in Calls : alone' = d /\ Renaming(b)' /\ Renaming(d)' => b = d
          /\ \A d \in Calls : alone' = d /\ Served(d)' => registry' = Trim(target'[d])
        BY <1>0, <2>1, <2>2 DEF RenamesFollow
    <2>4. CASE ~Served(c)
        <3>1. device_name' = device_name /\ parted' = parted
            <4>1. CASE at[c] \in {"issued", "sent"} /\ UNCHANGED nameVars
                BY <4>1
            <4>2. CASE at[c] = "applied" /\ (AnswerLost(c) \/ keep_name(c))
                <5>1. ~Own(c)
                    BY <2>4, <4>2 DEF Served, Renaming
                <5> QED
                    BY <4>2, <5>1 DEF AnswerLost, keep_name
            <4> QED
                BY <1>10, <4>1, <4>2
        <3> QED
            BY <2>1, <2>2, <2>3, <2>4, <3>1 DEF RenamesFollow, Trim
    <2>5. CASE Served(c)
        <3>1. Own(c) /\ Renaming(c) /\ at[c] = "applied"
            BY <2>5 DEF Served, Renaming
        <3>2. CASE AnswerLost(c)
            BY <2>3, <3>1, <3>2 DEF AnswerLost, RenamesFollow
        <3>3. CASE keep_name(c)
            <4>1. device_name' = target[c] /\ parted' = (parted /\ alone # c)
                BY <3>1, <3>3 DEF keep_name
            <4>2. ~parted' => /\ registry = Trim(target[c])
                              /\ \A b \in Calls \ {c} : ~Served(b)
                BY <2>5, <3>1, <4>1 DEF RenamesFollow, Served
            <4> QED
                BY <2>1, <2>2, <2>3, <4>1, <4>2 DEF RenamesFollow
        <3> QED
            BY <1>10, <3>1, <3>2, <3>3
    <2> QED
        BY <2>4, <2>5
<1>11. CASE Publish \/ EngineUnmaps
    BY <1>11, RenamesUntouched DEF Publish, EngineUnmaps
<1>12. CASE \/ EngineGoesDown("stopping") \/ EngineGoesDown("running")
            \/ ProbeEndsFrom("aborting") \/ ProbeEndsFrom("running")
    BY <1>12, RenamesUntouched DEF EngineGoesDown, ProbeEndsFrom
<1>13. CASE UNCHANGED vars
    BY <1>13, RenamesUntouched DEF vars
<1>14. ASSUME NEW c \in Calls, send(c) \/ ServerRefuses(c) PROVE RenamesFollow'
    <2>1. \/ send(c) /\ UNCHANGED target
          \/ InRequest(c, at[c]) /\ EndRequest(c) /\ at[c] \in {"issued", "sent"} /\ UNCHANGED nameVars
        BY <1>14 DEF send, ServerRefuses, InRequest
    <2> QED
        BY <1>8, <1>10, <2>1
<1>15. ASSUME NEW c \in Calls, AnswerLost(c) \/ keep_name(c) PROVE RenamesFollow'
    <2>1. InRequest(c, at[c]) /\ EndRequest(c) /\ at[c] = "applied"
        BY <1>15 DEF AnswerLost, keep_name, InRequest
    <2> QED
        BY <1>10, <1>15, <2>1
<1> QED
    BY Steps, <1>1, <1>2, <1>3, <1>4, <1>5, <1>6, <1>7, <1>9, <1>11, <1>12, <1>13, <1>14,
       <1>15

(* All of it together. *)
LEMMA BridgeInvStep == BridgeInv /\ [Next]_vars => BridgeInv'
BY TypesKept, ObjectsKept, LockKept, DisconnectKept, ForwardKept, StreamsKept,
   RenamesKept DEF BridgeInv

(* The inductive invariant holds of every run. *)
THEOREM BridgeInvariance == BridgeSpec => []BridgeInv
BY BridgeInvInit, BridgeInvStep, PTL DEF BridgeSpec

(* Types, versions within what the engine published. *)
THEOREM BridgeTypes == BridgeSpec => []BridgeTypeOK
<1>1. BridgeInv => BridgeTypeOK
    BY DEF BridgeInv
<1> QED
    BY <1>1, BridgeInvariance, PTL

(* No disconnect returns before the session it names is being stopped.     *)
THEOREM DisconnectsMeanDown == BridgeSpec => []DisconnectedMeansDown
<1>1. BridgeInv => DisconnectedMeansDown
    BY DEF BridgeInv, DisconnectDone, DisconnectedMeansDown, Disconnected, At
<1> QED
    BY <1>1, BridgeInvariance, PTL

(* No port is asked for of a session that a disconnect shuts down. *)
THEOREM ForwardsComeBefore == BridgeSpec => ForwardsBeforeShutdown
<1> DEFINE Before == mapping = "none" /\ mapping' # "none" =>
                         handle = "held" /\ engine # "stopping" /\ ~Disconnected
<1>1. BridgeInv /\ [Next]_vars => [Before]_vars
    <2> SUFFICES ASSUME BridgeInv, [Next]_vars, mapping = "none", mapping' # "none"
                 PROVE  handle = "held" /\ engine # "stopping" /\ ~Disconnected
        OBVIOUS
    <2>1. PICK c \in Calls : forward_port(c)
        BY Steps DEF create, connect_proxy, new, Wire, OtherInstallRenames, abort_probe, take_handle,
           shutdown_handle, see_handle, shutdown, emit_first, changed, emit, InStream, Cancel, send,
           ServerServes, ServerRefuses, InRequest, AnswerLost, keep_name, Publish, EngineUnmaps,
           EngineGoesDown, ProbeEndsFrom, vars, portVars
    <2>2. handle = "held" /\ engine \in {"running", "down"} /\ handleLock = c
        BY <2>1 DEF BridgeInv, LockCovers, forward_port
    <2>3. \A b \in Calls : ~At(b, "disconnect", "returned")
        BY <2>2 DEF BridgeInv, DisconnectDone, At
    <2> QED
        BY <2>2, <2>3 DEF Disconnected
<1> QED
    BY <1>1, BridgeInvariance, PTL DEF BridgeSpec, ForwardsBeforeShutdown

(* No listener that stays misses its channel's last value. *)
THEOREM ListenersHearTheLast == BridgeSpec => []ListenersCatchUp
<1>1. BridgeInv => ListenersCatchUp
    BY DEF BridgeInv, BridgeTypeOK, StreamsFollow, Heard, ListenersCatchUp
<1> QED
    BY <1>1, BridgeInvariance, PTL

(* The name kept is the registry's. *)
THEOREM KeptNamesAgree == BridgeSpec => []KeptNameAgrees
<1>1. BridgeInv => KeptNameAgrees
    BY DEF BridgeInv, RenamesFollow, KeptNameAgrees, Served
<1> QED
    BY <1>1, BridgeInvariance, PTL

=================================================================================
