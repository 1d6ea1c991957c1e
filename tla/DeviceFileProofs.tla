---------------------------- MODULE DeviceFileProofs ----------------------------
(***************************************************************************)
(* For any daemons, names and identities: the sessions run beside the      *)
(* control socket without touching it, so what is proved of the socket     *)
(* holds here; and since a directory is made only under a free name and    *)
(* dropped only by the session that holds it, each directory of a live     *)
(* daemon has exactly one holder, and an engine client never loses its.    *)
(***************************************************************************)
EXTENDS DeviceFile, ControlSocketProofs

(* A process that has not bound, or is gone, holds nothing. *)
NothingHeld ==
    \A d \in Daemons :
        ~Alive(d) => at[d] = "none" /\ fresh[d] = "absent" /\ device[d] = "absent"

(* What a session holds it made, and holds once. *)
HoldsItsOwn ==
    \A d \in Daemons :
        /\ fresh[d] # "absent" => maker[fresh[d]] = d /\ fresh[d] # device[d]
        /\ device[d] # "absent" => maker[device[d]] = d

(* What a live daemon made is held. *)
MadeIsHeld ==
    \A n \in Names :
        maker[n] \in Daemons => Alive(maker[n]) /\ n \in {fresh[maker[n]], device[maker[n]]}

(* Where a session has a directory it just made, and where none. *)
FreshByPlace ==
    \A d \in Daemons :
        /\ at[d] \in {"none", "idle", "drawing", "closing", "closed"} => fresh[d] = "absent"
        /\ at[d] \in {"writing", "discarding"} => fresh[d] # "absent"
        /\ at[d] \in {"none", "closed"} => device[d] = "absent"

(* Which directory the engine client has, and what it read there. *)
EngineByPlace ==
    \A d \in Daemons :
        /\ at[d] \in {"none", "closing", "closed"} => engine[d] = "absent"
        /\ at[d] = "swapping" => engine[d] = fresh[d]
        /\ at[d] \in {"idle", "drawing", "writing", "building", "discarding"} =>
             engine[d] = device[d]
        /\ engine[d] # "absent" => kept[engine[d]] = registered[d]

DeviceInv ==
    /\ Inv
    /\ DeviceTypeOK
    /\ NothingHeld
    /\ HoldsItsOwn
    /\ MadeIsHeld
    /\ FreshByPlace
    /\ EngineByPlace

USE DeviceAssumption

(* No process runs yet. *)
LEMMA DeviceInvInit == DeviceInit => DeviceInv
<1> SUFFICES ASSUME DeviceInit PROVE DeviceInv
    OBVIOUS
<1>1. Inv
    BY InvInit DEF DeviceInit
<1>2. \A d \in Daemons : ~Alive(d)
    BY DEF DeviceInit, Init, Alive
<1> QED
    BY <1>1, <1>2 DEF DeviceInit, DeviceInv, Inv, DeviceTypeOK, NothingHeld, HoldsItsOwn,
       MadeIsHeld, FreshByPlace, EngineByPlace, NoSession, Places

(* No step of a session touches the socket, and a process that goes takes  *)
(* its session along.                                                      *)
LEMMA SocketSteps == DeviceNext => [Next]_vars
BY DEF DeviceNext, ProcessStep, Next

(* A step of a process is its own, and a bound one stays so until it ends. *)
LEMMA ProcessLives ==
    ASSUME Inv, NEW d \in Daemons, DaemonStep(d) \/ Crash(d)
    PROVE  /\ \A b \in Daemons \ {d} : pc'[b] = pc[b]
           /\ pc'[d] # "down" => (Alive(d)' <=> Alive(d) \/ pc'[d] = "serving")
           /\ pc'[d] = "down" \/ pc[d] # "down" \/ ~Alive(d)'
           /\ pc'[d] # "down" /\ Alive(d) => Alive(d)'
<1> USE DEF Inv, TypeOK, Holding, Alive, Goto, Gone
<1>1. CASE Crash(d)
    BY <1>1 DEF Crash
<1>2. CASE claim(d) \/ take_lock(d) \/ inspect(d) \/ clear_stale(d)
    BY <1>2 DEF claim, take_lock, inspect, clear_stale
<1>3. CASE bind(d) \/ remove(d) \/ exit(d)
    BY <1>3 DEF bind, remove, exit
<1> QED
    BY <1>1, <1>2, <1>3 DEF DaemonStep

(* A process that ends leaves its directories to nobody, and holds none. *)
LEMMA ProcessKeeps ==
    ASSUME DeviceInv, NEW d \in Daemons, ProcessStep(d)
    PROVE  DeviceInv'
<1>1. Inv'
    BY SocketSteps, InvStep DEF DeviceInv, DeviceNext
<1>2. /\ \A b \in Daemons \ {d} : Alive(b)' <=> Alive(b)
      /\ pc'[d] # "down" /\ Alive(d) => Alive(d)'
      /\ pc'[d] = "down" => ~Alive(d)'
    BY ProcessLives DEF ProcessStep, DeviceInv, Alive
<1>3. CASE pc'[d] # "down"
    BY <1>1, <1>2, <1>3 DEF DeviceInv, ProcessStep, deviceVars, dirs, sessionVars, DeviceTypeOK, Inv,
       NothingHeld, HoldsItsOwn, MadeIsHeld, FreshByPlace, EngineByPlace
<1>4. CASE pc'[d] = "down"
    <2> USE DEF DeviceInv, ProcessEnds, Move, Places, DeviceTypeOK
    <2>0. ProcessEnds(d)
        BY <1>4 DEF ProcessStep
    <2>1. DeviceTypeOK'
        BY <1>1, <2>0 DEF Inv
    <2>2. NothingHeld'
        BY <1>2, <2>0 DEF NothingHeld
    <2>3. HoldsItsOwn'
        BY <2>0 DEF HoldsItsOwn
    <2>4. MadeIsHeld'
        BY <1>2, <2>0 DEF MadeIsHeld
    <2>5. FreshByPlace'
        BY <2>0 DEF FreshByPlace
    <2>6. EngineByPlace'
        BY <2>0 DEF EngineByPlace
    <2> QED
        BY <1>1, <2>1, <2>2, <2>3, <2>4, <2>5, <2>6
<1> QED
    BY <1>3, <1>4

(* A directory that is dropped was its session's alone. *)
LEMMA SessionKeeps ==
    ASSUME DeviceInv, NEW d \in Daemons, SessionStep(d), UNCHANGED vars
    PROVE  DeviceInv'
<1>1. Inv' /\ TypeOK' /\ (\A b \in Daemons : Alive(b)' <=> Alive(b))
    BY DEF DeviceInv, Inv, TypeOK, LockExcludes, PathKnown, vars, Alive
<1> USE DEF DeviceInv, DeviceTypeOK, NothingHeld, HoldsItsOwn, MadeIsHeld, FreshByPlace,
            EngineByPlace, At, Move, Places, dirs
<1>2. CASE Accept(d)
    BY <1>1, <1>2 DEF Accept
<1>3. CASE Configure(d)
    BY <1>1, <1>3 DEF Configure
<1>4. CASE private_dir(d)
    BY <1>1, <1>4 DEF private_dir
<1>5. CASE create(d)
    BY <1>1, <1>5 DEF create
<1>6. CASE build(d)
    BY <1>1, <1>6 DEF build
<1>7. CASE Replace(d)
    BY <1>1, <1>7 DEF Replace, Drop
<1>8. CASE Discard(d)
    BY <1>1, <1>8 DEF Discard, Drop
<1>9. CASE close(d)
    BY <1>1, <1>9 DEF close
<1>10. CASE close_device(d)
    BY <1>1, <1>10 DEF close_device, Drop
<1> QED
    BY <1>2, <1>3, <1>4, <1>5, <1>6, <1>7, <1>8, <1>9, <1>10 DEF SessionStep

(* All of it together. *)
LEMMA DeviceInvStep == DeviceInv /\ [DeviceNext]_<<vars, deviceVars>> => DeviceInv'
<1> SUFFICES ASSUME DeviceInv, [DeviceNext]_<<vars, deviceVars>> PROVE DeviceInv'
    OBVIOUS
<1> USE DEF DeviceInv, DeviceTypeOK, NothingHeld, HoldsItsOwn, MadeIsHeld, FreshByPlace,
            EngineByPlace
<1>1. ASSUME NEW d \in Daemons, ProcessStep(d) PROVE DeviceInv'
    BY <1>1, ProcessKeeps
<1>2. CASE OtherFile /\ UNCHANGED deviceVars
    <2>1. Inv'
        BY <1>2, InvStep DEF Next
    <2>2. \A b \in Daemons : Alive(b)' <=> Alive(b)
        BY <1>2 DEF OtherFile, Alive
    <2> QED
        BY <1>2, <2>1, <2>2 DEF deviceVars, dirs, sessionVars, Inv
<1>3. ASSUME NEW d \in Daemons, SessionStep(d), UNCHANGED vars PROVE DeviceInv'
    BY <1>3, SessionKeeps
<1>4. ASSUME NEW n \in Names, OtherEntry(n), UNCHANGED vars PROVE DeviceInv'
    <2>1. Inv' /\ TypeOK' /\ (\A b \in Daemons : Alive(b)' <=> Alive(b))
        BY <1>4 DEF Inv, TypeOK, LockExcludes, PathKnown, vars, Alive
    <2>2. \A m \in Names : maker[m] \in Daemons => m # n
        BY <1>4 DEF OtherEntry
    <2>3. \A m \in Names \ {n} : maker'[m] = maker[m] /\ kept'[m] = kept[m]
        BY <1>4 DEF OtherEntry
    <2>4. DeviceTypeOK'
        BY <1>4, <2>1 DEF OtherEntry, sessionVars
    <2>5. NothingHeld' /\ FreshByPlace'
        BY <1>4, <2>1 DEF OtherEntry, sessionVars
    <2>6. HoldsItsOwn'
        BY <1>4, <2>2, <2>3 DEF OtherEntry, sessionVars
    <2>7. MadeIsHeld'
        BY <1>4, <2>1, <2>2, <2>3 DEF OtherEntry, sessionVars
    <2>8. EngineByPlace'
        <3>1. \A d \in Daemons : engine[d] # "absent" => engine[d] \in Names \ {n}
            BY <2>2 DEF Places
        <3> QED
            BY <1>4, <2>3, <3>1 DEF OtherEntry, sessionVars
    <2> QED
        BY <2>1, <2>4, <2>5, <2>6, <2>7, <2>8
<1>5. CASE UNCHANGED <<vars, deviceVars>>
    <2>1. Inv' /\ TypeOK' /\ (\A b \in Daemons : Alive(b)' <=> Alive(b))
        BY <1>5 DEF Inv, TypeOK, LockExcludes, PathKnown, vars, Alive
    <2> QED
        BY <1>5, <2>1 DEF deviceVars, dirs, sessionVars
<1> QED
    BY <1>1, <1>2, <1>3, <1>4, <1>5 DEF DeviceNext

(* The inductive invariant holds of every run. *)
THEOREM DeviceInvariance == DeviceSpec => []DeviceInv
BY DeviceInvInit, DeviceInvStep, PTL DEF DeviceSpec

(* The sessions run beside the control socket: no step of theirs, and no   *)
(* end of a process that had one, leaves the specification of the socket.  *)
THEOREM DaemonsImplementSocket == DeviceSpec => Spec
<1>1. DeviceInit => Init
    BY DEF DeviceInit
<1>2. [DeviceNext]_<<vars, deviceVars>> => [Next]_vars
    BY SocketSteps DEF vars
<1> QED
    BY <1>1, <1>2, PTL DEF DeviceSpec, Spec

(* Types, tries within their bound. *)
THEOREM DeviceTypes == DeviceSpec => []DeviceTypeOK
<1>1. DeviceInv => DeviceTypeOK
    BY DEF DeviceInv
<1> QED
    BY <1>1, DeviceInvariance, PTL

(* One daemon serves and is reached, whatever the sessions do. *)
THEOREM ServingOwnsWithSessions == DeviceSpec => []ServingOwnsPath
BY DaemonsImplementSocket, ServingOwns, PTL

(* Its socket goes by its own step, whatever the sessions do. *)
THEOREM LiveSocketsStayWithSessions == DeviceSpec => LiveSocketStays
BY DaemonsImplementSocket, LiveSocketsStay, PTL

(* A configured client has its identity where it reads and writes it. *)
THEOREM EnginesHaveTheirFiles == DeviceSpec => []EngineHasItsFile
<1>1. DeviceInv => EngineHasItsFile
    BY DEF DeviceInv, DeviceTypeOK, HoldsItsOwn, FreshByPlace, EngineByPlace,
           EngineHasItsFile, Places
<1> QED
    BY <1>1, DeviceInvariance, PTL

(* Nothing a live daemon made is left without its session, and no two live *)
(* daemons have made anything.                                             *)
THEOREM OnlyEndsLeave == DeviceSpec => []OnlyEndsLeak
<1>1. DeviceInv => OnlyEndsLeak
    BY DEF DeviceInv, DeviceTypeOK, Inv, LockExcludes, MadeIsHeld, OnlyEndsLeak, Alive, Holding
<1> QED
    BY <1>1, DeviceInvariance, PTL

=================================================================================
