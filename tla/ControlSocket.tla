----------------------------- MODULE ControlSocket ----------------------------
(***************************************************************************)
(* One daemon per control socket (native/warrend/src/control_socket.rs):   *)
(* daemons that start, serve, leave and die, and the two names they share  *)
(* in the socket's directory, the socket and the lock beside it.           *)
(*                                                                         *)
(* A daemon's place (pc):                                                  *)
(*   down       no process             locking   about to take the lock    *)
(*   clearing   lock held, path to be inspected                            *)
(*   unlinking  found a stale socket   binding   path clear                *)
(*   serving    listener bound         removed   an exit removed its path  *)
(*   removed2   both exits removed it: the owner's end and the shutdown    *)
(*              task share no flag, so each runs socket.remove() and exits *)
(***************************************************************************)
CONSTANT Daemons    \* processes started on the same socket path

VARIABLES
    pc,      \* each daemon's place
    path,    \* the entry at the socket's path: "none", "other" (not a
             \* socket), "stale" (a socket nobody serves), or its daemon
    lock     \* who holds the flock: a daemon or "free"

vars == <<pc, path, lock>>

ASSUME DaemonsAssumption ==
    /\ "none" \notin Daemons
    /\ "other" \notin Daemons
    /\ "stale" \notin Daemons
    /\ "free" \notin Daemons

Holding == {"clearing", "unlinking", "binding", "serving", "removed", "removed2"}

TypeOK ==
    /\ pc \in [Daemons -> {"down", "locking"} \cup Holding]
    /\ path \in {"none", "other", "stale"} \cup Daemons
    /\ lock \in {"free"} \cup Daemons

Init ==
    /\ pc = [d \in Daemons |-> "down"]
    /\ path \in {"none", "other", "stale"}
    /\ lock = "free"

Goto(d, place) == pc' = [pc EXCEPT ![d] = place]

(***************************************************************************)
(* The process ends, on purpose or not: the kernel releases its lock and   *)
(* closes its listener, and the entry at the path stays, served by nobody. *)
(***************************************************************************)
Gone(d) ==
    /\ Goto(d, "down")
    /\ lock' = IF lock = d THEN "free" ELSE lock
    /\ path' = IF path = d THEN "stale" ELSE path

(* The directory is created, opened and judged; one refused ends the start. *)
claim(d) ==
    /\ pc[d] = "down"
    /\ Goto(d, "locking")
    /\ UNCHANGED <<path, lock>>

(* A lock taken without LOCK_EX: every daemon gets it. *)
take_lock_shared(d) ==
    /\ pc[d] = "locking"
    /\ Goto(d, "clearing")
    /\ lock' = d
    /\ UNCHANGED path

(* LOCK_EX | LOCK_NB: held elsewhere, the start is refused. *)
take_lock(d) ==
    /\ pc[d] = "locking"
    /\ IF lock = "free"
       THEN Goto(d, "clearing") /\ lock' = d
       ELSE Goto(d, "down") /\ UNCHANGED lock
    /\ UNCHANGED path

(* clear_stale's fstatat: an entry that is not a socket refuses the start. *)
inspect(d) ==
    /\ pc[d] = "clearing"
    /\ \/ /\ path = "none"
          /\ Goto(d, "binding")
          /\ UNCHANGED <<path, lock>>
       \/ /\ path \notin {"none", "other"}
          /\ Goto(d, "unlinking")
          /\ UNCHANGED <<path, lock>>
       \/ /\ path = "other"
          /\ Gone(d)

(* clear_stale's unlinkat. *)
clear_stale(d) ==
    /\ pc[d] = "unlinking"
    /\ path' = "none"
    /\ Goto(d, "binding")
    /\ UNCHANGED lock

(* bind is atomic and fails on any entry; the hand-off to the launching    *)
(* account may fail after it, which ends the start with the socket bound.  *)
bind(d) ==
    /\ pc[d] = "binding"
    /\ \/ /\ path = "none"
          /\ path' = d
          /\ Goto(d, "serving")
          /\ UNCHANGED lock
       \/ /\ path = "none"
          /\ path' = "stale"
          /\ Goto(d, "down")
          /\ lock' = "free"
       \/ /\ path # "none"
          /\ Gone(d)

(* An exit that lets the lock go before it removes the socket. *)
remove_unlocked(d) ==
    \/ /\ pc[d] = "serving"
       /\ lock = d
       /\ lock' = "free"
       /\ UNCHANGED <<pc, path>>
    \/ /\ pc[d] = "serving"
       /\ lock # d
       /\ path' = "none"
       /\ Goto(d, "removed")
       /\ UNCHANGED lock

(* An exit path unlinks the name, whatever is there by then. *)
remove(d) ==
    /\ pc[d] \in {"serving", "removed"}
    /\ path' = "none"
    /\ Goto(d, IF pc[d] = "serving" THEN "removed" ELSE "removed2")
    /\ UNCHANGED lock

exit(d) ==
    /\ pc[d] \in {"removed", "removed2"}
    /\ Gone(d)

Crash(d) ==
    /\ pc[d] # "down"
    /\ Gone(d)

(* Another program creates or removes a file of its own at the path.  The  *)
(* directory's permissions keep it from touching a socket of the daemon.   *)
OtherFile ==
    /\ path \in {"none", "other"}
    /\ path' = IF path = "none" THEN "other" ELSE "none"
    /\ UNCHANGED <<pc, lock>>

DaemonStep(d) ==
    \/ claim(d) \/ take_lock(d) \/ inspect(d) \/ clear_stale(d) \/ bind(d)
    \/ remove(d) \/ exit(d)

Next == OtherFile \/ \E d \in Daemons : DaemonStep(d) \/ Crash(d)

Spec == Init /\ [][Next]_vars

-----------------------------------------------------------------------------
(* Properties. *)

(* A daemon that serves is reached at the path: no other daemon's start,   *)
(* end or leftover takes the name from it, and two never serve at once     *)
(* (claim, with the lock held for the process's life).                     *)
ServingOwnsPath == \A d \in Daemons : pc[d] = "serving" => path = d

(* A served socket goes only with its own daemon: a step of another one    *)
(* never removes or replaces it (clear_stale under the lock, remove).      *)
LiveSocketStays ==
    [][\A d \in Daemons : path = d /\ path' # d => pc[d] = "serving" /\ pc'[d] # "serving"]_vars

(* No start removes a file that is not a socket ("which the daemon never   *)
(* removes"); only the second of two exits can, when another program used  *)
(* the name between their unlinks.                                         *)
NonSocketStays ==
    [][path = "other" /\ path' # "other" =>
         OtherFile \/ \E d \in Daemons : pc[d] = "removed"]_vars

=============================================================================
