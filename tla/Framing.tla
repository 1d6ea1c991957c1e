------------------------------- MODULE Framing -------------------------------
(***************************************************************************)
(* The control socket byte by byte.  Each message is a frame, a length of  *)
(* Header bytes and that many bytes of payload; the socket keeps the bytes *)
(* in order and splits them where it likes.                                *)
(*                                                                         *)
(*   requests  the app writes a frame; the daemon's read loop reads the    *)
(*             length, then the payload, as the bytes come, and hands      *)
(*             the frame over a channel of one; the serve loop takes it,   *)
(*             or is woken by the revocation tick instead                  *)
(*   events    the daemon writes frames; the app's FrameReader is fed the  *)
(*             chunks that come and DaemonClient takes the frames it cuts  *)
(*                                                                         *)
(* A byte is <<message, position>>: what a reader makes of its bytes       *)
(* depends on which they are, and only a whole frame reads as its message. *)
(* Neither program sends a frame over the readers' limit of 16 MiB, so the *)
(* refusals of one are left out.                                           *)
(***************************************************************************)
EXTENDS Naturals, Sequences

CONSTANTS
    Header,         \* the length's bytes, 4 in the code
    Sizes,          \* of the payloads
    Malformed,      \* the sizes whose payload is no message
    MaxRequests,    \* bound: requests of one connection
    MaxEvents       \* bound: events of one connection

ASSUME FramingAssumption ==
    /\ Header \in Nat \ {0}
    /\ Sizes \subseteq Nat
    /\ Malformed \subseteq Sizes
    /\ MaxRequests \in Nat
    /\ MaxEvents \in Nat

VARIABLES
    asked,      \* requests sent, in the order they were
    toDaemon,   \* bytes of theirs in the socket
    held,       \* bytes the read loop holds of the frame it reads
    handed,     \* the channel between the read loop and the serve loop
    served,     \* requests the serve loop has taken
    owed,       \* events the serve loop is about to send
    ticked,     \* the revocation was told
    told,       \* events sent, in the order they were
    toApp,      \* bytes of theirs in the socket
    pending,    \* FrameReader's unfinished frame
    got         \* what the app's listeners were given

requestVars == <<asked, toDaemon, held, handed, served>>
eventVars == <<told, toApp, pending, got>>
vars == <<requestVars, owed, ticked, eventVars>>

MessagesUpTo(n) == [id : 1 .. n, size : Sizes]

(* The next to be sent after some messages. *)
NextAfter(sent, s) == [id |-> Len(sent) + 1, size |-> s]

Bytes(m) == [i \in 1 .. Header + m.size |-> <<m, i>>]

(* Bytes out of step with their frames read as some length and no message. *)
Garbage == [id |-> 0, size |-> 0]

Message(frame) ==
    IF frame # <<>> /\ frame = Bytes(frame[1][1]) THEN frame[1][1] ELSE Garbage

(* The length in the Header bytes at offset o. *)
Length(bytes, o) ==
    IF \A i \in 1 .. Header : bytes[o + i] = <<bytes[o + 1][1], i>>
    THEN bytes[o + 1][1].size
    ELSE 0

FramingTypeOK ==
    /\ asked \in Seq(MessagesUpTo(MaxRequests))
    /\ told \in Seq(MessagesUpTo(MaxEvents))
    /\ Len(held) < Header \/ Len(held) <= Header + Length(held, 0)
    /\ Len(pending) < Header \/ Len(pending) < Header + Length(pending, 0)
    /\ Len(handed) <= 1
    /\ served \in Seq(MessagesUpTo(MaxRequests))
    /\ owed \in 0 .. 2
    /\ ticked \in BOOLEAN
    /\ got \in Seq(MessagesUpTo(MaxEvents))

Init ==
    /\ asked = <<>> /\ told = <<>> /\ owed = 0
    /\ toDaemon = <<>> /\ held = <<>> /\ handed = <<>> /\ served = <<>>
    /\ ticked = FALSE
    /\ toApp = <<>> /\ pending = <<>> /\ got = <<>>

-----------------------------------------------------------------------------
(* Requests. *)

AppSends ==
    /\ Len(asked) < MaxRequests
    /\ \E s \in Sizes :
         /\ asked' = Append(asked, NextAfter(asked, s))
         /\ toDaemon' = toDaemon \o Bytes(NextAfter(asked, s))
    /\ UNCHANGED <<held, handed, served, owed, ticked, eventVars>>

(* What read_exact still waits for: the length, or the payload it gives. *)
Missing ==
    IF Len(held) < Header
    THEN Header - Len(held)
    ELSE Header + Length(held, 0) - Len(held)

ReadBytes ==
    /\ \E n \in 1 .. Missing :
         /\ n <= Len(toDaemon)
         /\ held' = held \o SubSeq(toDaemon, 1, n)
         /\ toDaemon' = SubSeq(toDaemon, n + 1, Len(toDaemon))
    /\ UNCHANGED <<asked, handed, served, owed, ticked, eventVars>>

(* A frame is handed over without waiting for the last to be taken. *)
HandOverUnbounded ==
    /\ Missing = 0
    /\ handed' = Append(handed, Message(held))
    /\ held' = <<>>
    /\ UNCHANGED <<asked, toDaemon, served, owed, ticked, eventVars>>

HandOver ==
    /\ Missing = 0
    /\ handed = <<>>
    /\ handed' = <<Message(held)>>
    /\ held' = <<>>
    /\ UNCHANGED <<asked, toDaemon, served, owed, ticked, eventVars>>

(* The serve loop takes a frame once it has sent all it owes; a request, or *)
(* one it cannot parse, is answered by at most two events.                 *)
Serve ==
    /\ owed = 0
    /\ handed # <<>>
    /\ served' = Append(served, Head(handed))
    /\ handed' = Tail(handed)
    /\ owed' \in 0 .. 2
    /\ Len(told) + owed' <= MaxEvents
    /\ UNCHANGED <<asked, toDaemon, held, ticked, eventVars>>

(* The tick drops a read the serve loop would make itself. *)
TickCancelsRead ==
    /\ owed = 0
    /\ ~ticked
    /\ ticked' = TRUE
    /\ Len(told) < MaxEvents
    /\ owed' = 1
    /\ held' = <<>>
    /\ UNCHANGED <<asked, toDaemon, handed, served, eventVars>>

(* The revocation tick drops the wait for a frame, which loses nothing. *)
Tick ==
    /\ owed = 0
    /\ ~ticked
    /\ ticked' = TRUE
    /\ Len(told) < MaxEvents
    /\ owed' = 1
    /\ UNCHANGED <<requestVars, eventVars>>

-----------------------------------------------------------------------------
(* Events. *)

(* Length, payload and flush of one event; only the serve loop writes. *)
Write ==
    /\ owed > 0
    /\ owed' = owed - 1
    /\ \E s \in Sizes :
         /\ told' = Append(told, NextAfter(told, s))
         /\ toApp' = toApp \o Bytes(NextAfter(told, s))
    /\ UNCHANGED <<requestVars, ticked, pending, got>>

(* Only the first frame of a chunk is looked for. *)
CutOne(bytes) ==
    IF Len(bytes) >= Header /\ Header + Length(bytes, 0) <= Len(bytes)
    THEN <<0, Header + Length(bytes, 0)>>
    ELSE <<0>>

NextFrame(bytes, o) == o + Header + Length(bytes, o)

WholeFrame(bytes, o) == o + Header <= Len(bytes) /\ NextFrame(bytes, o) <= Len(bytes)

(* From each offset, where the frames behind it begin and the remainder    *)
(* last.                                                                   *)
CutsFrom(bytes) ==
    LET from[o \in 0 .. Len(bytes)] ==
            IF WholeFrame(bytes, o) THEN <<o>> \o from[NextFrame(bytes, o)] ELSE <<o>>
    IN  from

Cut(bytes) == CutsFrom(bytes)[0]

(* The unfinished frame comes before the chunk. *)
AddChunk(chunk) == pending \o chunk

(* The frames are taken in order up to one that is no message, which is    *)
(* told as an error and drops those behind it.                             *)
Taken(frames) ==
    LET bad == {i \in 1 .. Len(frames) : frames[i].size \in Malformed}
    IN  IF bad = {} THEN frames
        ELSE SubSeq(frames, 1, CHOOSE i \in bad : \A j \in bad : i <= j)

OnChunk ==
    /\ \E n \in 1 .. Len(toApp) :
         LET bytes == AddChunk(SubSeq(toApp, 1, n))
             cut == Cut(bytes)
             frames == [i \in 1 .. Len(cut) - 1 |->
                            Message(SubSeq(bytes, cut[i] + 1, cut[i + 1]))]
         IN  /\ toApp' = SubSeq(toApp, n + 1, Len(toApp))
             /\ pending' = SubSeq(bytes, cut[Len(cut)] + 1, Len(bytes))
             /\ got' = got \o Taken(frames)
    /\ UNCHANGED <<requestVars, owed, ticked, told>>

-----------------------------------------------------------------------------
ReadLoop == ReadBytes \/ HandOver
ServeLoop == Serve \/ Write

FramingNext == AppSends \/ ReadLoop \/ ServeLoop \/ Tick \/ OnChunk

FramingSpec == Init /\ [][FramingNext]_vars

(* Both runtimes run what is ready and the socket delivers what it holds. *)
FramingFairSpec ==
    FramingSpec /\ WF_vars(ReadLoop) /\ WF_vars(ServeLoop) /\ WF_vars(OnChunk)

-----------------------------------------------------------------------------
(* Properties. *)

(* The messages behind the n-th. *)
After(sent, n) == SubSeq(sent, n + 1, Len(sent))

(* Events are taken by the app with their bytes: those before the first    *)
(* byte it has not cut from its stream.                                    *)
Cutoff ==
    LET bytes == pending \o toApp
    IN  IF bytes = <<>> THEN Len(told) ELSE bytes[1][1].id - 1

RequestChannel == INSTANCE Channel WITH
    Messages <- MessagesUpTo(MaxRequests), Breaking <- {},
    queue <- After(asked, Len(served)), got <- served

EventChannel == INSTANCE Channel WITH
    Messages <- MessagesUpTo(MaxEvents),
    Breaking <- {m \in MessagesUpTo(MaxEvents) : m.size \in Malformed},
    queue <- After(told, Cutoff)

(* However the socket splits the bytes and whenever the revocation tick    *)
(* wakes the serve loop, every request is read once, whole and in order    *)
(* (serve_connection's read loop: a read cut short would lose its bytes),  *)
(* and so is every event; one the app cannot understand is told, and costs *)
(* those behind it in the same chunk only (FrameReader.addChunk,           *)
(* DaemonClient._onChunk).                                                 *)
FramesArriveWhole == RequestChannel!Spec /\ EventChannel!Spec

(* No request waits for the bytes of another or for a tick, and no event   *)
(* in the reader for the one behind it.                                    *)
FramesServed ==
    /\ \A k \in 1 .. MaxRequests : Len(asked) >= k ~> Len(served) >= k
    /\ \A k \in 1 .. MaxEvents :
         Len(told) >= k ~> Len(got) >= k \/ \E i \in DOMAIN got : got[i].size \in Malformed

=============================================================================
