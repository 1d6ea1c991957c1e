-------------------------- MODULE ControlSocketProofs -------------------------
(***************************************************************************)
(* For any set of daemons: the lock makes a daemon's hold on the path      *)
(* exclusive, so none of its unlinks can take another daemon's socket or a *)
(* file that is not a socket.                                              *)
(***************************************************************************)
EXTENDS ControlSocket, TLAPS

(* Whoever is past the lock holds it, and nobody else does. *)
LockExcludes == \A d \in Daemons : pc[d] \in Holding <=> lock = d

(* What the holder knows of the path at each of its places. *)
PathKnown ==
    \A d \in Daemons :
        /\ path = d <=> pc[d] = "serving"
        /\ pc[d] = "unlinking" => path = "stale"

Inv == TypeOK /\ LockExcludes /\ PathKnown

USE DaemonsAssumption

LEMMA InvInit == Init => Inv
BY DEF Init, Inv, TypeOK, LockExcludes, PathKnown, Holding

LEMMA InvStep == Inv /\ [Next]_vars => Inv'
<1> SUFFICES ASSUME Inv, [Next]_vars PROVE Inv'
    OBVIOUS
<1> USE DEF Inv, TypeOK, LockExcludes, PathKnown, Holding
<1>1. CASE OtherFile
    BY <1>1 DEF OtherFile
<1>2. ASSUME NEW d \in Daemons, DaemonStep(d) PROVE Inv'
    <2> USE DEF Goto
    <2>1. CASE claim(d)
        BY <2>1 DEF claim
    <2>2. CASE take_lock(d)
        BY <2>2 DEF take_lock
    <2>3. CASE inspect(d)
        BY <2>3 DEF inspect, Gone
    <2>4. CASE clear_stale(d)
        BY <2>4 DEF clear_stale
    <2>5. CASE bind(d)
        BY <2>5 DEF bind, Gone
    <2>6. CASE remove(d)
        BY <2>6 DEF remove
    <2>7. CASE exit(d)
        BY <2>7 DEF exit, Gone
    <2> QED
        BY <1>2, <2>1, <2>2, <2>3, <2>4, <2>5, <2>6, <2>7 DEF DaemonStep
<1>3. ASSUME NEW d \in Daemons, Crash(d) PROVE Inv'
    BY <1>3 DEF Crash, Gone, Goto
<1>4. CASE UNCHANGED vars
    BY <1>4 DEF vars
<1> QED
    BY <1>1, <1>2, <1>3, <1>4 DEF Next

THEOREM Invariance == Spec => []Inv
<1>1. Init => Inv
    BY InvInit
<1>2. Inv /\ [Next]_vars => Inv'
    BY InvStep
<1> QED
    BY <1>1, <1>2, PTL DEF Spec

(* A daemon that serves is reached at the path, and one serves at a time. *)
THEOREM ServingOwns == Spec => []ServingOwnsPath
<1>1. Inv => ServingOwnsPath
    BY DEF Inv, PathKnown, ServingOwnsPath
<1> QED
    BY <1>1, Invariance, PTL

(* A served socket leaves the path only by a step of the daemon behind it. *)
THEOREM LiveSocketsStay == Spec => LiveSocketStays
<1> DEFINE Stays == \A d \in Daemons :
                       path = d /\ path' # d => pc[d] = "serving" /\ pc'[d] # "serving"
<1>1. Inv /\ [Next]_vars => [Stays]_vars
    <2> SUFFICES ASSUME Inv, [Next]_vars PROVE Stays
        OBVIOUS
    <2>1. Inv'
        BY InvStep
    <2> QED
        BY <2>1 DEF Inv, PathKnown
<1> QED
    BY <1>1, Invariance, PTL DEF Spec, LiveSocketStays

(* No start removes a file that is not a socket. *)
THEOREM NonSocketsStay == Spec => NonSocketStays
<1> DEFINE Stays == path = "other" /\ path' # "other" =>
                       OtherFile \/ \E d \in Daemons : pc[d] = "removed"
<1>1. Inv /\ [Next]_vars => [Stays]_vars
    <2> SUFFICES ASSUME Inv, [Next]_vars, path = "other", path' # "other", ~OtherFile
                 PROVE  \E d \in Daemons : pc[d] = "removed"
        OBVIOUS
    <2> USE DEF Inv, TypeOK, PathKnown
    <2>1. PICK d \in Daemons : DaemonStep(d) \/ Crash(d)
        BY DEF Next, vars
    <2>2. remove(d)
        BY <2>1 DEF DaemonStep, Crash, Gone, Goto, claim, take_lock, inspect,
                    clear_stale, bind, exit
    <2> QED
        BY <2>2 DEF remove
<1> QED
    BY <1>1, Invariance, PTL DEF Spec, NonSocketStays

=============================================================================
