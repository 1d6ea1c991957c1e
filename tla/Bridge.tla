-------------------------------- MODULE Bridge --------------------------------
(***************************************************************************)
(* The in-process client's bridge (native/warren_sdk_frb): Dart calls that *)
(* run on Rust threads, the session and forwarded port objects they share, *)
(* and the client's kept device name.                                      *)
(*                                                                         *)
(* A call is handed over on Dart's thread, where it takes a reference to   *)
(* its object, and runs on a thread of the pool or as a task, each under a *)
(* shared lock of the object: the calls of one object run in any order and *)
(* at the same time.  A call's place (at):                                 *)
(*   unused     not made                issued     handed over             *)
(*   handle     a disconnect about to take the handle                      *)
(*   shutting   it holds the lock and the handle                           *)
(*   asking     a forward holds the lock and has seen the handle           *)
(*   waiting    a stream waits for a change                                *)
(*   emitting   it has seen one                                            *)
(*   sent       a request is on its way to the account's server            *)
(*   applied    it is served, the answer is on the way                     *)
(*   returned   the call is over                                           *)
(***************************************************************************)
EXTENDS Integers

CONSTANTS
    Calls,        \* the calls the app makes, each once
    Names,        \* names a device can have, as the registry has them
    Padded,       \* those that are written with blanks around them
    MaxChanges    \* bound: how often the engine publishes

ASSUME BridgeAssumption ==
    /\ "free" \notin Calls /\ "none" \notin Calls
    /\ Names # {} /\ Padded \subseteq Names /\ "other" \notin Names
    /\ MaxChanges \in Nat

VARIABLES
    client,      \* "none" or "built"
    session,     \* the app's connect: "none", "fetching" the directory,
                 \* "starting" the engine, or "open"
    engine,      \* the engine's session: "none", "running", "stopping"
                 \* once it is told to shut down, "down" then or once
                 \* its supervisor gave up
    handle,      \* the session's Mutex<Option>: "none", "held", "taken"
    handleLock,  \* the call that holds its lock, or "free"
    probe,       \* the egress probe: "none", "running", "aborting" once
                 \* its task is told to end, "over"
    port,        \* the forwarded port's Mutex<Option>
    mapping,     \* its mapping: "none", "mapped", "closing", "gone"
    value,       \* per stream, the version of the engine's channel
    op,          \* what each call is
    at,          \* each call's place
    seen,        \* per stream call, the version its receiver has seen
    got,         \* per stream call, the last version delivered, or -1
    listening,   \* the stream calls the app has not cancelled
    target,      \* per rename under way, the name for this install's
                 \* device as the app writes it, or Other
    registry,    \* the registry's name of this device
    device_name, \* the one the client keeps
    alone,       \* history: the rename of this device that nothing has
                 \* come between, or "none"
    parted       \* history: the two names were found or made to differ
                 \* and no rename that ran alone was confirmed since

sessionVars == <<session, engine, handle, handleLock, probe>>
portVars == <<port, mapping>>
callVars == <<op, at, seen, got, listening, target>>
nameVars == <<registry, device_name, alone, parted>>
vars == <<client, sessionVars, portVars, value, callVars, nameVars>>

(* The last two skip a channel's initial None. *)
SessionStreams == {"states", "egress_health", "migration_events"}
PortStreams == {"external_ports", "outcomes"}
Streams == SessionStreams \cup PortStreams
Skipping == {"migration_events", "outcomes"}
Requests == {"disconnect", "forward_port", "shutdown", "account"}
Places == {"unused", "issued", "handle", "shutting", "asking", "waiting",
           "emitting", "sent", "applied", "returned"}

(* A name as it is written, with blanks around it or not. *)
Written == {[name |-> name, padded |-> name \in Padded] : name \in Names}
Trim(written) == written.name

(* What a request names that is not to rename this device. *)
Other == [name |-> "other", padded |-> FALSE]
Own(c) == target[c] # Other

BridgeTypeOK ==
    /\ client \in {"none", "built"}
    /\ session \in {"none", "fetching", "starting", "open"}
    /\ engine \in {"none", "running", "stopping", "down"}
    /\ handle \in {"none", "held", "taken"}
    /\ handleLock \in Calls \cup {"free"}
    /\ probe \in {"none", "running", "aborting", "over"}
    /\ port \in {"none", "held", "taken"}
    /\ mapping \in {"none", "mapped", "closing", "gone"}
    /\ engine # "none" <=> session = "open"
    /\ mapping # "none" <=> port # "none"
    /\ value \in [Streams -> 0 .. MaxChanges]
    /\ op \in [Calls -> Streams \cup Requests \cup {"none"}]
    /\ at \in [Calls -> Places]
    /\ seen \in [Calls -> 0 .. MaxChanges]
    /\ got \in [Calls -> -1 .. MaxChanges]
    /\ listening \subseteq Calls
    /\ target \in [Calls -> Written \cup {Other}]
    /\ registry \in Names
    /\ device_name \in Written
    /\ alone \in Calls \cup {"none"}
    /\ parted \in BOOLEAN

Init ==
    /\ client = "none"
    /\ session = "none"
    /\ engine = "none"
    /\ handle = "none"
    /\ handleLock = "free"
    /\ probe = "none"
    /\ port = "none"
    /\ mapping = "none"
    /\ value = [s \in Streams |-> 0]
    /\ op = [c \in Calls |-> "none"]
    /\ at = [c \in Calls |-> "unused"]
    /\ seen = [c \in Calls |-> 0]
    /\ got = [c \in Calls |-> -1]
    /\ listening = {}
    /\ target = [c \in Calls |-> Other]
    /\ registry = CHOOSE name \in Names : TRUE
    /\ device_name = [name |-> registry, padded |-> registry \in Padded]
    /\ alone = "none"
    /\ parted = FALSE

Move(c, place) == at' = [at EXCEPT ![c] = place]

At(c, o, place) == op[c] = o /\ at[c] = place

-----------------------------------------------------------------------------
(* The client and its session. *)

(* A client is built, and keeps the name its state directory holds, which  *)
(* the registry may no longer have; a refused build leaves none.           *)
create ==
    /\ client = "none"
    /\ client' = "built"
    /\ device_name' \in Written
    /\ parted' = (Trim(device_name') # registry)
    /\ UNCHANGED <<sessionVars, portVars, value, callVars, registry, alone>>

Untouched == ~parted /\ \A c \in Calls : op[c] = "none"

(* What is parsed last, after the engine's start: a mistake there leaves   *)
(* the engine with no session to shut it down.                             *)
connect_leaking ==
    /\ \/ client = "built" /\ Untouched /\ session = "none" /\ session' = "fetching"
          /\ UNCHANGED engine
       \/ session = "fetching" /\ session' \in {"starting", "none"}
          /\ UNCHANGED engine
       \/ session = "starting" /\ session' = "none"
          /\ engine' \in {engine, "running"}
    /\ UNCHANGED <<client, handle, handleLock, probe, portVars, value, callVars,
                   nameVars>>

(* Bound: the app opens one session, of a client it has made no request of *)
(* and whose name agrees.  The directory and the engine's start are         *)
(* awaited, and either may fail, as may what is parsed between them.       *)
connect_proxy ==
    /\ \/ client = "built" /\ Untouched /\ session = "none" /\ session' = "fetching"
       \/ session = "fetching" /\ session' \in {"starting", "none"}
       \/ session = "starting" /\ session' = "none"
    /\ UNCHANGED <<client, engine, handle, handleLock, probe, portVars, value,
                   callVars, nameVars>>

(* The session object: receivers of the engine's channels, the probe on a  *)
(* channel of its own, and the handle.                                     *)
new ==
    /\ session = "starting"
    /\ session' = "open"
    /\ engine' = "running"
    /\ handle' = "held"
    /\ probe' = "running"
    /\ UNCHANGED <<client, handleLock, portVars, value, callVars, nameVars>>

-----------------------------------------------------------------------------
(* Calls handed over.  Those that only read what their object holds, or    *)
(* its channels' values, and forget_device, which erases what another      *)
(* client would read, change nothing here and are left out.                *)

(* Bound: the app forwards one port, and makes no request of a client that *)
(* has a session: the two share nothing.                                   *)
Callable(o) ==
    \/ o = "account" /\ client = "built" /\ session = "none"
    \/ o \in SessionStreams \cup {"disconnect"} /\ session = "open"
    \/ o = "forward_port" /\ session = "open" /\ \A b \in Calls : op[b] # "forward_port"
    \/ o \in PortStreams \cup {"shutdown"} /\ port # "none"

Renaming(c) ==
    Own(c) /\ at[c] \notin {"unused", "returned"}

(* A call is made on its object; a request may be to rename this install's *)
(* device.                                                                 *)
WireCall(c) ==
    /\ at[c] = "unused"
    /\ \E o \in Streams \cup Requests :
         /\ Callable(o)
         /\ op' = [op EXCEPT ![c] = o]
         /\ listening' = IF o \in Streams THEN listening \cup {c} ELSE listening
         /\ \/ UNCHANGED <<target, alone>>
            \/ /\ o = "account"
               /\ \E name \in Written : target' = [target EXCEPT ![c] = name]
               /\ alone' = IF \E b \in Calls : Renaming(b) THEN "none" ELSE c
    /\ Move(c, "issued")
    /\ UNCHANGED <<client, sessionVars, portVars, value, seen, got, registry,
                   device_name, parted>>

-----------------------------------------------------------------------------
(* WarrenSessionFrb. *)

(* A disconnect that leaves the probe to the session's end. *)
abort_nothing(c) ==
    /\ At(c, "disconnect", "issued")
    /\ Move(c, "handle")
    /\ UNCHANGED <<client, sessionVars, portVars, value, op, seen, got, listening,
                   target, nameVars>>

(* disconnect takes the probe's task and aborts it, under its lock: the     *)
(* task ends at its next await.                                            *)
abort_probe(c) ==
    /\ At(c, "disconnect", "issued")
    /\ probe' = IF probe = "running" THEN "aborting" ELSE probe
    /\ Move(c, "handle")
    /\ UNCHANGED <<client, session, engine, handle, handleLock, portVars, value,
                   op, seen, got, listening, target, nameVars>>

(* The guard is let go before the shutdown: only the take is locked. *)
take_handle_unlocked(c) ==
    /\ At(c, "disconnect", "handle")
    /\ handleLock = "free"
    /\ handle' = "taken"
    /\ Move(c, IF handle = "held" THEN "shutting" ELSE "returned")
    /\ UNCHANGED <<client, session, engine, handleLock, probe, portVars, value,
                   op, seen, got, listening, target, nameVars>>

(* It takes the handle: the lock is held until the handle's shutdown is    *)
(* through, so that a second disconnect waits for it and finds nothing.    *)
take_handle(c) ==
    /\ At(c, "disconnect", "handle")
    /\ handleLock = "free"
    /\ \/ /\ handle = "held"
          /\ handle' = "taken"
          /\ handleLock' = c
          /\ Move(c, "shutting")
       \/ /\ handle # "held"
          /\ Move(c, "returned")
          /\ UNCHANGED <<handle, handleLock>>
    /\ UNCHANGED <<client, session, engine, probe, portVars, value, op, seen, got,
                   listening, target, nameVars>>

shutdown_handle(c) ==
    /\ At(c, "disconnect", "shutting")
    /\ engine' = IF engine = "running" THEN "stopping" ELSE engine
    /\ handleLock' = "free"
    /\ Move(c, "returned")
    /\ UNCHANGED <<client, session, handle, probe, portVars, value, op, seen, got,
                   listening, target, nameVars>>

(* A check whose lock is not kept for the engine's call. *)
see_handle_unlocked(c) ==
    /\ At(c, "forward_port", "issued")
    /\ handleLock = "free"
    /\ Move(c, IF handle = "held" THEN "asking" ELSE "returned")
    /\ UNCHANGED <<client, sessionVars, portVars, value, op, seen, got, listening,
                   target, nameVars>>

(* forward_port parses its target, and refuses it or a session that is     *)
(* disconnected; the lock is kept for the engine's call.                   *)
see_handle(c) ==
    /\ At(c, "forward_port", "issued")
    /\ \/ /\ handleLock = "free"
          /\ handle = "held"
          /\ handleLock' = c
          /\ Move(c, "asking")
       \/ /\ handleLock = "free" /\ handle # "held"
          /\ Move(c, "returned")
          /\ UNCHANGED handleLock
       \/ /\ Move(c, "returned")
          /\ UNCHANGED handleLock
    /\ UNCHANGED <<client, session, engine, handle, probe, portVars, value, op,
                   seen, got, listening, target, nameVars>>

(* The engine is asked, also one whose supervisor has given up. *)
forward_port(c) ==
    /\ At(c, "forward_port", "asking")
    /\ port' = "held"
    /\ mapping' = IF engine = "running" THEN "mapped" ELSE "gone"
    /\ handleLock' = "free"
    /\ Move(c, "returned")
    /\ UNCHANGED <<client, session, engine, handle, probe, value, op, seen, got,
                   listening, target, nameVars>>

(* WarrenForwardedPortFrb.shutdown, under its lock. *)
shutdown(c) ==
    /\ At(c, "shutdown", "issued")
    /\ port' = "taken"
    /\ mapping' = IF port = "held" /\ mapping = "mapped" THEN "closing" ELSE mapping
    /\ Move(c, "returned")
    /\ UNCHANGED <<client, sessionVars, value, op, seen, got, listening, target,
                   nameVars>>

-----------------------------------------------------------------------------
(* The streams: one loop each over a clone of the object's receiver, which *)
(* has seen the channel as it was when the object was made.  Emitting does *)
(* not mark a version as seen, so a value can be delivered twice.          *)

Closed(stream) ==
    CASE stream \in PortStreams -> mapping = "gone"
      [] stream = "egress_health" -> probe = "over"
      [] OTHER -> engine = "down"

InStream(c, place) ==
    /\ op[c] \in Streams
    /\ at[c] = place
    /\ UNCHANGED <<client, sessionVars, portVars, value, op, listening, target, nameVars>>

(* sink.add fails once the app has cancelled, and ends the loop. *)
Emit(c) ==
    IF c \in listening
    THEN /\ got' = [got EXCEPT ![c] = value[op[c]]]
         /\ Move(c, "waiting")
    ELSE Move(c, "returned") /\ UNCHANGED got

(* The current value first. *)
emit_first(c) ==
    /\ InStream(c, "issued")
    /\ IF op[c] \in Skipping /\ value[op[c]] = 0
       THEN Move(c, "waiting") /\ UNCHANGED got
       ELSE Emit(c)
    /\ UNCHANGED seen

(* A closed channel ends the loop, whatever was published before. *)
changed_or_closed(c) ==
    /\ InStream(c, "waiting")
    /\ \/ /\ Closed(op[c])
          /\ Move(c, "returned")
          /\ UNCHANGED seen
       \/ /\ ~Closed(op[c])
          /\ value[op[c]] # seen[c]
          /\ seen' = [seen EXCEPT ![c] = value[op[c]]]
          /\ Move(c, "emitting")
    /\ UNCHANGED got

(* rx.changed(): a version not seen yet comes before the channel's end. *)
changed(c) ==
    /\ InStream(c, "waiting")
    /\ \/ /\ value[op[c]] # seen[c]
          /\ seen' = [seen EXCEPT ![c] = value[op[c]]]
          /\ Move(c, "emitting")
       \/ /\ value[op[c]] = seen[c]
          /\ Closed(op[c])
          /\ Move(c, "returned")
          /\ UNCHANGED seen
    /\ UNCHANGED got

emit(c) ==
    /\ InStream(c, "emitting")
    /\ Emit(c)
    /\ UNCHANGED seen

Cancel(c) ==
    /\ c \in listening
    /\ at[c] # "returned"
    /\ listening' = listening \ {c}
    /\ UNCHANGED <<client, sessionVars, portVars, value, op, at, seen, got, target,
                   nameVars>>

-----------------------------------------------------------------------------
(* WarrenClientFrb's requests.  Of what they change on the server only the *)
(* name of this install's device matters to another call.                  *)

InRequest(c, place) ==
    /\ At(c, "account", place)
    /\ UNCHANGED <<client, sessionVars, portVars, value, op, seen, got, listening>>

EndRequest(c) ==
    /\ Move(c, "returned")
    /\ target' = [target EXCEPT ![c] = Other]

(* A malformed device identifier or address is refused here. *)
send(c) ==
    /\ InRequest(c, "issued")
    /\ \/ Move(c, "sent") /\ UNCHANGED target
       \/ EndRequest(c)
    /\ UNCHANGED nameVars

(* The registry has names trimmed. *)
ServerServes(c) ==
    /\ InRequest(c, "sent")
    /\ Move(c, "applied")
    /\ \/ ~Own(c) /\ UNCHANGED <<registry, parted>>
       \/ /\ Own(c)
          /\ registry' = Trim(target[c])
          /\ parted' = (parted \/ alone # c)
    /\ UNCHANGED <<target, device_name, alone>>

(* The server refuses, or the request never reaches it. *)
ServerRefuses(c) ==
    /\ InRequest(c, "sent")
    /\ EndRequest(c)
    /\ UNCHANGED nameVars

(* The request was served, and its caller is told it failed. *)
AnswerLost(c) ==
    /\ InRequest(c, "applied")
    /\ parted' = (parted \/ Own(c))
    /\ EndRequest(c)
    /\ UNCHANGED <<registry, device_name, alone>>

(* Bound: beside a rename of this one; what was renamed before is in what  *)
(* create finds.                                                           *)
OtherInstallRenames ==
    /\ \E c \in Calls : Renaming(c)
    /\ registry' \in Names
    /\ alone' = "none"
    /\ parted' = TRUE
    /\ UNCHANGED <<client, sessionVars, portVars, value, callVars, device_name>>

(* A name is kept whichever device it is for. *)
keep_any_name(c) ==
    /\ InRequest(c, "applied")
    /\ device_name' \in IF ~Own(c) THEN Written ELSE {target[c]}
    /\ parted' = (parted /\ ~(Own(c) /\ alone = c))
    /\ EndRequest(c)
    /\ UNCHANGED <<registry, alone>>

(* The answer arrives; a name is kept, as the app wrote it, when it is this *)
(* install's device's.                                                     *)
keep_name(c) ==
    /\ InRequest(c, "applied")
    /\ \/ ~Own(c) /\ UNCHANGED <<device_name, parted>>
       \/ /\ Own(c)
          /\ device_name' = target[c]
          /\ parted' = (parted /\ alone # c)
    /\ EndRequest(c)
    /\ UNCHANGED <<registry, alone>>

-----------------------------------------------------------------------------
(* The engine (external). *)

Publishes(stream) ==
    /\ value[stream] < MaxChanges
    /\ ~Closed(stream)
    /\ IF stream \in PortStreams THEN mapping # "none" ELSE engine # "none"

(* Bound: the channels that are open change together; no stream reads more *)
(* than one.                                                               *)
Publish ==
    /\ \E stream \in Streams : Publishes(stream)
    /\ value' = [s \in Streams |-> IF Publishes(s) THEN value[s] + 1 ELSE value[s]]
    /\ UNCHANGED <<client, sessionVars, portVars, callVars, nameVars>>

EngineUnmaps ==
    /\ mapping = "closing"
    /\ mapping' = "gone"
    /\ UNCHANGED <<client, sessionVars, port, value, callVars, nameVars>>

EngineGoesDown(from) ==
    /\ engine = from
    /\ engine' = "down"
    /\ mapping' = IF mapping = "none" THEN "none" ELSE "gone"
    /\ UNCHANGED <<client, session, handle, handleLock, probe, port, value,
                   callVars, nameVars>>

EngineStops == EngineGoesDown("stopping")

(* The supervisor gives up by itself, its handle still held. *)
EngineGivesUp == EngineGoesDown("running")

ProbeEndsFrom(place) ==
    /\ probe = place
    /\ probe' = "over"
    /\ UNCHANGED <<client, session, engine, handle, handleLock, portVars, value,
                   callVars, nameVars>>

ProbeAborts == ProbeEndsFrom("aborting")

(* The probe watches the engine's state. *)
ProbeSeesEnd == engine = "down" /\ ProbeEndsFrom("running")

-----------------------------------------------------------------------------
Disconnect(c) == abort_probe(c) \/ take_handle(c) \/ shutdown_handle(c)
Forward(c) == see_handle(c) \/ forward_port(c)
StreamStep(c) == emit_first(c) \/ changed(c) \/ emit(c)
Request(c) ==
    \/ send(c) \/ ServerServes(c) \/ ServerRefuses(c)
    \/ AnswerLost(c) \/ keep_name(c)

CallStep(c) ==
    Disconnect(c) \/ Forward(c) \/ shutdown(c) \/ StreamStep(c) \/ Request(c)

Engine == EngineUnmaps \/ EngineStops \/ ProbeAborts

Next ==
    \/ create \/ connect_proxy \/ new
    \/ \E c \in Calls : WireCall(c) \/ CallStep(c) \/ Cancel(c)
    \/ Publish \/ Engine \/ EngineGivesUp \/ ProbeSeesEnd
    \/ OtherInstallRenames

BridgeSpec == Init /\ [][Next]_vars

(* The threads of the pool and the runtime's tasks run, requests time out, *)
(* and the engine and the probe's task complete what they are told; that   *)
(* the engine gives up, or that the probe sees it, is never owed.          *)
BridgeFairSpec ==
    /\ BridgeSpec
    /\ \A c \in Calls : WF_vars(CallStep(c))
    /\ WF_vars(Engine)

-----------------------------------------------------------------------------
(* Properties. *)

Disconnected == \E c \in Calls : At(c, "disconnect", "returned")

(* When a disconnect returns, any disconnect, the engine has been told to   *)
(* shut down, or has gone down by itself, and the probe's task to end: a    *)
(* second one that finds the handle taken does not outrun the first one's   *)
(* shutdown (disconnect: "Tears the connection down and releases its        *)
(* datapath resources").                                                    *)
DisconnectedMeansDown ==
    Disconnected => engine \in {"stopping", "down"} /\ probe \in {"aborting", "over"}

(* The engine is asked for a port only before a disconnect tells it to shut *)
(* down, however forward_port and disconnect interleave (the handle's       *)
(* lock); a session whose supervisor gave up is still asked.                *)
ForwardsBeforeShutdown ==
    [][mapping = "none" /\ mapping' # "none" =>
         handle = "held" /\ engine # "stopping" /\ ~Disconnected]_vars

(* A listener that stays hears the last value of its channel before its     *)
(* stream ends, whatever was published around its start and while it was    *)
(* emitting ("a late listener is never left without one").                  *)
ListenersCatchUp ==
    \A c \in listening :
        op[c] \in Streams /\ at[c] = "returned" =>
            \/ got[c] = value[op[c]]
            \/ op[c] \in Skipping /\ value[op[c]] = 0

(* The client keeps the name of its own device that the registry has, but  *)
(* for blanks around it: no refused or unsent rename and no rename of       *)
(* another device moves it away, and a rename of it that ran alone and was  *)
(* confirmed brings it back when a file, another install, overlapping       *)
(* renames or a lost answer had parted the two (rename_device).             *)
KeptNameAgrees ==
    ~parted /\ (\A c \in Calls : ~Renaming(c)) => Trim(device_name) = registry

(* Every call returns: no lock is waited for in a circle, and once a        *)
(* disconnect has returned every stream of the session and its port ends,   *)
(* those that are opened later too (the calls are finitely many, so all of  *)
(* them are over for good in the end).                                      *)
CallsReturn ==
    <>[](\A c \in Calls :
           at[c] # "unused" /\ (op[c] \in Streams => Disconnected) => at[c] = "returned")

=============================================================================
