------------------------------ MODULE DeviceFile ------------------------------
(***************************************************************************)
(* The device identity a daemon registers under (native/warrend/src/       *)
(* device.rs, and the Session of main.rs that owns it): each configure     *)
(* writes the identity the app sent into a new private directory under the *)
(* shared temporary directory, the engine client keeps it there, and the   *)
(* directory goes with its session.  Beside the daemons on one socket      *)
(* (ControlSocket), whose exits run no destructor.                         *)
(*                                                                         *)
(* A session's place (at):                                                 *)
(*   none        no connection served yet                                  *)
(*   idle        between requests                                          *)
(*   drawing     a name for the directory is drawn                         *)
(*   writing     the directory is made, its file is not                    *)
(*   building    the engine client is built                                *)
(*   swapping    the new client has replaced the old one                   *)
(*   discarding  the configure failed with a directory made                *)
(*   closing     the connection ended, its client is dropped               *)
(*   closed      its directory is too                                      *)
(***************************************************************************)
EXTENDS ControlSocket, Naturals

CONSTANTS
    Names,    \* what a directory can be called
    Ids,      \* device identities an app sends
    Tries     \* names drawn before a configure is refused

ASSUME DeviceAssumption ==
    /\ "absent" \notin Names
    /\ "absent" \notin Ids
    /\ "planted" \notin Daemons
    /\ "orphan" \notin Daemons
    /\ "absent" \notin Daemons
    /\ Tries \in Nat \ {0}

VARIABLES
    maker,      \* who made the entry of each name: a live daemon, an ended
                \* one ("orphan"), another program ("planted"), or "absent"
    kept,       \* the identity in the directory of each name
    at,         \* each daemon's place in its session
    asked,      \* the identity of the configure at work
    tries,      \* names it has drawn in vain
    fresh,      \* the directory it made
    device,     \* the directory the session holds
    engine,     \* the directory its client keeps its identity in
    registered  \* the identity its client read there

dirs == <<maker, kept>>
sessionVars == <<at, asked, tries, fresh, device, engine, registered>>
deviceVars == <<dirs, sessionVars>>

Places == {"none", "idle", "drawing", "writing", "building", "swapping",
           "discarding", "closing", "closed"}

DeviceTypeOK ==
    /\ TypeOK
    /\ maker \in [Names -> Daemons \cup {"orphan", "planted", "absent"}]
    /\ kept \in [Names -> Ids \cup {"absent"}]
    /\ at \in [Daemons -> Places]
    /\ asked \in [Daemons -> Ids \cup {"absent"}]
    /\ tries \in [Daemons -> 0 .. Tries - 1]
    /\ \A holds \in {fresh, device, engine} : holds \in [Daemons -> Names \cup {"absent"}]
    /\ registered \in [Daemons -> Ids \cup {"absent"}]

NoSession == [d \in Daemons |-> "absent"]

DeviceInit ==
    /\ Init
    /\ maker = [n \in Names |-> "absent"]
    /\ kept = [n \in Names |-> "absent"]
    /\ at = [d \in Daemons |-> "none"]
    /\ asked = NoSession
    /\ tries = [d \in Daemons |-> 0]
    /\ fresh = NoSession
    /\ device = NoSession
    /\ engine = NoSession
    /\ registered = NoSession

-----------------------------------------------------------------------------
(* What a session does runs in its process: after the bind, until the end. *)
Alive(d) == pc[d] \in {"serving", "removed", "removed2"}

At(d, place) == Alive(d) /\ at[d] = place

Move(d, place) == at' = [at EXCEPT ![d] = place]

(* The first authorized connection is the owner; there is never another. *)
Accept(d) ==
    /\ At(d, "none")
    /\ Move(d, "idle")
    /\ UNCHANGED <<dirs, asked, tries, fresh, device, engine, registered>>

(* A configure with a well-formed identity, or with none at all; any other *)
(* is refused before anything is made.                                     *)
Configure(d) ==
    /\ At(d, "idle")
    /\ \E id \in Ids \cup {"absent"} :
         /\ asked' = [asked EXCEPT ![d] = id]
         /\ Move(d, IF id = "absent" THEN "building" ELSE "drawing")
    /\ tries' = [tries EXCEPT ![d] = 0]
    /\ UNCHANGED <<dirs, fresh, device, engine, registered>>

(* A mkdir -p: what is at the name already is taken as it is. *)
private_dir_adopting(d) ==
    /\ At(d, "drawing")
    /\ \E n \in Names :
         /\ maker' = [maker EXCEPT ![n] = IF @ = "absent" THEN d ELSE @]
         /\ fresh' = [fresh EXCEPT ![d] = n]
    /\ Move(d, "writing")
    /\ UNCHANGED <<kept, asked, tries, device, engine, registered>>

(* A loop that draws once more than it may. *)
private_dir_once_more(d) ==
    /\ At(d, "drawing")
    /\ \/ \E n \in Names :
            /\ maker[n] = "absent"
            /\ maker' = [maker EXCEPT ![n] = d]
            /\ fresh' = [fresh EXCEPT ![d] = n]
            /\ Move(d, "writing")
            /\ UNCHANGED tries
       \/ /\ \E n \in Names : maker[n] # "absent"
          /\ IF tries[d] = Tries
             THEN Move(d, "idle") /\ UNCHANGED tries
             ELSE tries' = [tries EXCEPT ![d] = @ + 1] /\ UNCHANGED at
          /\ UNCHANGED <<maker, fresh>>
    /\ UNCHANGED <<kept, asked, device, engine, registered>>

(* mkdir, which refuses a name that is taken, by whatever: the next one is *)
(* drawn, until the tries run out.                                         *)
private_dir(d) ==
    /\ At(d, "drawing")
    /\ \/ \E n \in Names :
            /\ maker[n] = "absent"
            /\ maker' = [maker EXCEPT ![n] = d]
            /\ fresh' = [fresh EXCEPT ![d] = n]
            /\ Move(d, "writing")
            /\ UNCHANGED tries
       \/ /\ \E n \in Names : maker[n] # "absent"
          /\ IF tries[d] + 1 = Tries
             THEN Move(d, "idle") /\ UNCHANGED tries
             ELSE tries' = [tries EXCEPT ![d] = @ + 1] /\ UNCHANGED at
          /\ UNCHANGED <<maker, fresh>>
       \/ Move(d, "idle") /\ UNCHANGED <<maker, fresh, tries>>
    /\ UNCHANGED <<kept, asked, device, engine, registered>>

(* The identity is written into the directory. *)
create(d) ==
    /\ At(d, "writing")
    /\ \/ kept' = [kept EXCEPT ![fresh[d]] = asked[d]] /\ Move(d, "building")
       \/ UNCHANGED kept /\ Move(d, "discarding")
    /\ UNCHANGED <<maker, asked, tries, fresh, device, engine, registered>>

(* A build that fails only answers with its error. *)
build_leaking(d) ==
    /\ At(d, "building")
    /\ \/ /\ engine' = [engine EXCEPT ![d] = fresh[d]]
          /\ registered' = [registered EXCEPT ![d] =
                              IF fresh[d] = "absent" THEN "absent" ELSE kept[fresh[d]]]
          /\ Move(d, "swapping")
          /\ UNCHANGED fresh
       \/ /\ fresh' = [fresh EXCEPT ![d] = "absent"]
          /\ Move(d, "idle")
          /\ UNCHANGED <<engine, registered>>
    /\ UNCHANGED <<dirs, asked, tries, device>>

(* The client is built, reading the identity back, and replaces the one    *)
(* before it, which is dropped there.                                      *)
build(d) ==
    /\ At(d, "building")
    /\ \/ /\ engine' = [engine EXCEPT ![d] = fresh[d]]
          /\ registered' = [registered EXCEPT ![d] =
                              IF fresh[d] = "absent" THEN "absent" ELSE kept[fresh[d]]]
          /\ Move(d, "swapping")
       \/ /\ Move(d, IF fresh[d] = "absent" THEN "idle" ELSE "discarding")
          /\ UNCHANGED <<engine, registered>>
    /\ UNCHANGED <<dirs, asked, tries, fresh, device>>

(* remove_dir_all, whose failure nobody hears of: the directory stays. *)
Drop(d, n) ==
    IF n = "absent" THEN UNCHANGED dirs
    ELSE \/ /\ maker' = [maker EXCEPT ![n] = "absent"]
            /\ kept' = [kept EXCEPT ![n] = "absent"]
         \/ /\ maker' = [maker EXCEPT ![n] = "orphan"]
            /\ UNCHANGED kept

(* The session's directory is replaced, and the one before it dropped. *)
Replace(d) ==
    /\ At(d, "swapping")
    /\ Drop(d, device[d])
    /\ device' = [device EXCEPT ![d] = fresh[d]]
    /\ fresh' = [fresh EXCEPT ![d] = "absent"]
    /\ Move(d, "idle")
    /\ UNCHANGED <<asked, tries, engine, registered>>

(* The failed configure's directory is dropped with its error. *)
Discard(d) ==
    /\ At(d, "discarding")
    /\ Drop(d, fresh[d])
    /\ fresh' = [fresh EXCEPT ![d] = "absent"]
    /\ Move(d, "idle")
    /\ UNCHANGED <<asked, tries, device, engine, registered>>

(* A session that drops its directory before its client. *)
close_device_first(d) ==
    /\ At(d, "idle")
    /\ Drop(d, device[d])
    /\ device' = [device EXCEPT ![d] = "absent"]
    /\ Move(d, "closing")
    /\ UNCHANGED <<asked, tries, fresh, engine, registered>>

(* The connection ends: the session drops its client, which may still      *)
(* write the file, before ...                                              *)
close(d) ==
    /\ At(d, "idle")
    /\ engine' = [engine EXCEPT ![d] = "absent"]
    /\ registered' = [registered EXCEPT ![d] = "absent"]
    /\ Move(d, "closing")
    /\ UNCHANGED <<dirs, asked, tries, fresh, device>>

(* ... the file's directory. *)
close_device(d) ==
    /\ At(d, "closing")
    /\ Drop(d, device[d])
    /\ device' = [device EXCEPT ![d] = "absent"]
    /\ Move(d, "closed")
    /\ UNCHANGED <<asked, tries, fresh, engine, registered>>

SessionStep(d) ==
    \/ Accept(d) \/ Configure(d) \/ private_dir(d) \/ create(d) \/ build(d)
    \/ Replace(d) \/ Discard(d) \/ close(d) \/ close_device(d)

-----------------------------------------------------------------------------
(* The process is gone, by exit or crash: what it made stays, and nobody   *)
(* will remove it.                                                         *)
ProcessEnds(d) ==
    /\ maker' = [n \in Names |-> IF maker[n] = d THEN "orphan" ELSE maker[n]]
    /\ Move(d, "none")
    /\ asked' = [asked EXCEPT ![d] = "absent"]
    /\ tries' = [tries EXCEPT ![d] = 0]
    /\ fresh' = [fresh EXCEPT ![d] = "absent"]
    /\ device' = [device EXCEPT ![d] = "absent"]
    /\ engine' = [engine EXCEPT ![d] = "absent"]
    /\ registered' = [registered EXCEPT ![d] = "absent"]
    /\ UNCHANGED kept

(* A step of a daemon's start or end. *)
ProcessStep(d) ==
    /\ DaemonStep(d) \/ Crash(d)
    /\ IF pc'[d] = "down" THEN ProcessEnds(d) ELSE UNCHANGED deviceVars

(* Another program makes or removes an entry of its own. *)
OtherEntry(n) ==
    /\ maker[n] \in {"absent", "planted"}
    /\ maker' = [maker EXCEPT ![n] = IF @ = "absent" THEN "planted" ELSE "absent"]
    /\ kept' = [kept EXCEPT ![n] = "absent"]
    /\ UNCHANGED sessionVars

DeviceNext ==
    \/ \E d \in Daemons : ProcessStep(d)
    \/ OtherFile /\ UNCHANGED deviceVars
    \/ \E d \in Daemons : SessionStep(d) /\ UNCHANGED vars
    \/ \E n \in Names : OtherEntry(n) /\ UNCHANGED vars

DeviceSpec == DeviceInit /\ [][DeviceNext]_<<vars, deviceVars>>

-----------------------------------------------------------------------------
(* Properties. *)

(* A configured client keeps its identity in a directory its own daemon     *)
(* made, which holds the identity it registered under, as long as it lives: *)
(* no configure, failed or not, no end of another daemon and no planted     *)
(* name takes it away (Session's field order, private_dir).                 *)
EngineHasItsFile ==
    \A d \in Daemons :
        engine[d] # "absent" =>
            maker[engine[d]] = d /\ kept[engine[d]] = registered[d]

(* A directory outlives its session only by an exit, a crash or a removal   *)
(* that failed: whatever a live daemon made, its session still holds, and   *)
(* two daemons that are alive never both have one (DeviceFile's Drop, the   *)
(* lock of ControlSocket).                                                  *)
OnlyEndsLeak ==
    /\ \A n \in Names : maker[n] \in Daemons =>
         n \in {fresh[maker[n]], device[maker[n]]}
    /\ \A m, n \in Names : {maker[m], maker[n]} \subseteq Daemons => maker[m] = maker[n]

=============================================================================
