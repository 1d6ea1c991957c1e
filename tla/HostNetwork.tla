----------------------------- MODULE HostNetwork -----------------------------
(***************************************************************************)
(* native/warrend/src/netblock.rs command by command, on both hosts:       *)
(*                                                                         *)
(*   nft   Linux: one table each for the engine and warrend, and a         *)
(*         resolver kept in two files, /etc/resolv.conf and the engine's   *)
(*         backup of it                                                    *)
(*   pf    macOS: one anchor each, which filter only while pf is enabled,  *)
(*         and a resolver per network service                              *)
(*                                                                         *)
(* A runner works through a plan, a sequence of commands that ends at the  *)
(* first failure: the daemon for its handlers and its start, and beside it *)
(* `warrend revert` or the daemon's shutdown task.  Every external program *)
(* and every file operation is a step, so that a crash, a failure or the   *)
(* other runner can come between any two of them.  The runners are root:   *)
(* an unprivileged daemon installs nothing and leaves DNS alone.           *)
(***************************************************************************)
EXTENDS Naturals, Sequences

CONSTANT Services    \* the enabled network services of a macOS host

ASSUME ServicesAssumption == Services # {}

VARIABLES
    backend,    \* what the host filters with
    pfEnabled,  \* whether pf filters at all
    engine,     \* the engine's table or anchor
    lockdown,   \* warrend's table or anchor
    resolv,     \* resolv.conf: a configuration of the host's, the engine's
                \* marked override, or nothing
    backup,     \* the engine's backup of it, "none" when there is none
    service,    \* the resolver of each service: the host's or the override
    session,    \* the engine's session: "none", "rising" or "up"
    todo,       \* per runner, the commands left of its plan
    at,         \* per runner, its place in the first of them
    unseen,     \* per runner, the services its reconcile has not looked at
    owed,       \* history, per runner: its reconcile found a resolver it can
                \* give back to the host, has passed nothing over, and nobody
                \* else has worked on the host since it began
    copied,     \* per runner, the content it read of the backup
    told,       \* per runner, how its last plan ended
    swept       \* history: two hands were at the resolver at once, and no
                \* runner or session has begun alone since

artifacts == <<pfEnabled, engine, lockdown>>
resolver == <<resolv, backup, service>>
runnerVars == <<todo, at, unseen, owed, copied, told>>
vars == <<backend, artifacts, resolver, session, runnerVars, swept>>

Runners == {"daemon", "beside"}

Installs == {"install_lockdown", "install_connecting_guard"}
Clears == {"clear_lockdown", "clear_engine_block"}
Detections == {"engine_block_present", "lockdown_present"}
Commands == Installs \cup Clears \cup Detections \cup {"reconcile_dns"}

startup_reconcile == <<"engine_block_present", "lockdown_present", "reconcile_dns">>
revert_network == <<"clear_engine_block", "clear_lockdown", "reconcile_dns">>

Plans(r) ==
    {revert_network} \cup
    (IF r = "daemon"
     THEN {startup_reconcile} \cup {<<c>> : c \in Installs \cup Clears}
     ELSE {})

(* What the daemon runs beside a session of its own is no teardown. *)
MeantForSessions == {<<c>> : c \in Installs \cup {"clear_lockdown"}}

FilePlaces == {"exists", "read", "rename", "copy", "truncate", "write", "remove", "stale",
               "unread"}
ServicePlaces == {"list", "look"}
Places == {"idle", "enable", "load", "flush", "detect"} \cup FilePlaces \cup ServicePlaces

Contents == {"host", "override", "empty"}

HostTypeOK ==
    /\ backend \in {"nft", "pf"}
    /\ pfEnabled \in BOOLEAN
    /\ engine \in {"absent", "rules"}
    /\ lockdown \in {"absent", "guard", "block"}
    /\ resolv \in Contents
    /\ backup \in Contents \cup {"none"}
    /\ service \in [Services -> {"host", "override"}]
    /\ session \in {"none", "rising", "up"}
    /\ at \in [Runners -> Places]
    /\ todo \in [Runners -> Seq(Commands)]
    /\ \A r \in Runners : at[r] = "idle" <=> todo[r] = <<>>
    /\ unseen \in [Runners -> SUBSET Services]
    /\ owed \in [Runners -> BOOLEAN]
    /\ copied \in [Runners -> Contents]
    /\ told \in [Runners -> {"none", "ok", "failed"}]
    /\ swept \in BOOLEAN

Init ==
    /\ backend \in {"nft", "pf"}
    /\ pfEnabled \in BOOLEAN
    /\ engine = "absent"
    /\ lockdown = "absent"
    /\ resolv = "host"
    /\ backup = "none"
    /\ service = [s \in Services |-> "host"]
    /\ session = "none"
    /\ todo = [r \in Runners |-> <<>>]
    /\ at = [r \in Runners |-> "idle"]
    /\ unseen = [r \in Runners |-> {}]
    /\ owed = [r \in Runners |-> FALSE]
    /\ copied = [r \in Runners |-> "empty"]
    /\ told = [r \in Runners |-> "none"]
    /\ swept = FALSE

-----------------------------------------------------------------------------
(* The resolver.                                                           *)

(* A runner has emptied the file and is about to write the host's into it. *)
Writing ==
    /\ resolv = "empty" /\ backup = "host"
    /\ \E r \in Runners : at[r] = "write" /\ copied[r] = "host"

(* What Netblock sees of it: on Linux an override only counts as one with   *)
(* the host's own file beside it, which is what a reconcile goes by.       *)
Dns ==
    IF backend = "pf"
    THEN IF \E s \in Services : service[s] = "override" THEN "override" ELSE "host"
    ELSE IF resolv = "host" /\ backup \in {"none", "host"} THEN "host"
         ELSE IF Writing \/ (resolv = "override" /\ backup = "host") THEN "override"
              ELSE "lost"

-----------------------------------------------------------------------------
(* Plans. *)

(* The place a command starts at on this host. *)
Entry(command) ==
    CASE command \in Installs -> IF backend = "pf" THEN "enable" ELSE "load"
      [] command \in Clears -> "flush"
      [] command \in Detections -> "detect"
      [] OTHER -> IF backend = "pf" THEN "list" ELSE "exists"

Goto(r, place) ==
    /\ at' = [at EXCEPT ![r] = place]
    /\ UNCHANGED <<todo, told>>

(* The command is done, and the plan with the last one. *)
Succeed(r) ==
    /\ todo' = [todo EXCEPT ![r] = Tail(@)]
    /\ at' = [at EXCEPT ![r] = IF Len(todo[r]) = 1 THEN "idle" ELSE Entry(todo[r][2])]
    /\ told' = [told EXCEPT ![r] = IF Len(todo[r]) = 1 THEN "ok" ELSE @]

(* The failed command's plan is kept for another try that never comes. *)
FailKeepingPlan(r) ==
    /\ at' = [at EXCEPT ![r] = "idle"]
    /\ told' = [told EXCEPT ![r] = "failed"]
    /\ UNCHANGED todo

Fail(r) ==
    /\ todo' = [todo EXCEPT ![r] = <<>>]
    /\ at' = [at EXCEPT ![r] = "idle"]
    /\ told' = [told EXCEPT ![r] = "failed"]

(* Nobody but r works on the host. *)
Alone(r) == session = "none" /\ \A q \in Runners \ {r} : at[q] = "idle"

(* A handler, a start or an operator begins a plan.  The daemon runs no    *)
(* command of its own while the engine brings a session up, and drops a    *)
(* session before it tears down what the session left.                     *)
Begin(r) ==
    /\ at[r] = "idle"
    /\ r = "daemon" => session # "rising"
    /\ \E plan \in Plans(r) :
         /\ r = "daemon" /\ session = "up" => plan \in MeantForSessions
         /\ todo' = [todo EXCEPT ![r] = plan]
         /\ at' = [at EXCEPT ![r] = Entry(Head(plan))]
    /\ told' = [told EXCEPT ![r] = "none"]
    /\ owed' = [q \in Runners |-> q = r /\ Alone(r) /\ Dns # "lost"]
    /\ swept' = IF r = "daemon" /\ session = "up" THEN swept ELSE ~Alone(r)
    /\ UNCHANGED <<backend, artifacts, resolver, session, unseen, copied>>

-----------------------------------------------------------------------------
(* The firewall commands.  Every one of them may fail; one that fails has  *)
(* changed nothing.                                                        *)

Command(r) == Head(todo[r])

(* The rules are loaded first and pf enabled after them. *)
enable_after_load(r) ==
    /\ at[r] = "enable"
    /\ lockdown' = IF Command(r) = "install_lockdown" THEN "block" ELSE "guard"
    /\ Goto(r, "load")
    /\ UNCHANGED <<backend, pfEnabled, engine, resolver, session, unseen, owed, copied, swept>>

(* `pfctl -E`. *)
enable(r) ==
    /\ at[r] = "enable"
    /\ \/ pfEnabled' = TRUE /\ Goto(r, "load")
       \/ UNCHANGED pfEnabled /\ Fail(r)
    /\ UNCHANGED <<backend, engine, lockdown, resolver, session, unseen, owed, copied, swept>>

(* `nft -f -` or `pfctl -f -`: one atomic replacement of warrend's own. *)
load(r) ==
    /\ at[r] = "load"
    /\ \/ /\ lockdown' = IF Command(r) = "install_lockdown" THEN "block" ELSE "guard"
          /\ Succeed(r)
       \/ UNCHANGED lockdown /\ Fail(r)
    /\ UNCHANGED <<backend, pfEnabled, engine, resolver, session, unseen, owed, copied, swept>>

(* A flush that takes both of Warren's artifacts at once. *)
flush_both(r) ==
    /\ at[r] = "flush"
    /\ \/ /\ lockdown' = "absent"
          /\ engine' = "absent"
          /\ Succeed(r)
       \/ UNCHANGED <<engine, lockdown>> /\ Fail(r)
    /\ UNCHANGED <<backend, pfEnabled, resolver, session, unseen, owed, copied, swept>>

(* `nft delete table` or `pfctl -F rules`: an absent one is no failure. *)
flush(r) ==
    /\ at[r] = "flush"
    /\ \/ /\ IF Command(r) = "clear_lockdown"
             THEN lockdown' = "absent" /\ UNCHANGED engine
             ELSE engine' = "absent" /\ UNCHANGED lockdown
          /\ Succeed(r)
       \/ UNCHANGED <<engine, lockdown>> /\ Fail(r)
    /\ UNCHANGED <<backend, pfEnabled, resolver, session, unseen, owed, copied, swept>>

(* `nft list table` or `pfctl -sr`: only a program that cannot be spawned  *)
(* is an error.                                                            *)
detect(r) ==
    /\ at[r] = "detect"
    /\ Succeed(r) \/ Fail(r)
    /\ UNCHANGED <<backend, artifacts, resolver, session, unseen, owed, copied, swept>>

-----------------------------------------------------------------------------
(* reconcile_dns_files, one file operation at a time. *)

FileStep(r, place) ==
    /\ at[r] = place
    /\ UNCHANGED <<backend, artifacts, service, session, unseen, swept>>

exists(r) ==
    /\ FileStep(r, "exists")
    /\ IF backup = "none" THEN Succeed(r) ELSE Goto(r, "read")
    /\ UNCHANGED <<resolv, backup, copied, owed>>

(* The marker is looked for in the backup, where it never is. *)
read_backup(r) ==
    /\ FileStep(r, "read")
    /\ Goto(r, IF backup = "override" THEN "rename" ELSE "stale")
    /\ UNCHANGED <<resolv, backup, copied, owed>>

(* The engine's marker tells its override; a file that is gone has none,   *)
(* and one that cannot be read is taken for one without it.                *)
read(r) ==
    /\ FileStep(r, "read")
    /\ \/ Goto(r, IF resolv = "override" THEN "rename" ELSE "stale") /\ UNCHANGED owed
       \/ Goto(r, "unread") /\ owed' = [owed EXCEPT ![r] = FALSE]
    /\ UNCHANGED <<resolv, backup, copied>>

(* A rename that fails is taken for a restore. *)
rename_only(r) ==
    /\ FileStep(r, "rename")
    /\ \/ backup # "none" /\ resolv' = backup /\ backup' = "none"
       \/ UNCHANGED <<resolv, backup>>
    /\ Succeed(r)
    /\ UNCHANGED <<copied, owed>>

(* A rename over a symlink or a bind mount fails, as does one whose source *)
(* another runner has taken.                                               *)
rename(r) ==
    /\ FileStep(r, "rename")
    /\ \/ /\ backup # "none"
          /\ resolv' = backup
          /\ backup' = "none"
          /\ Succeed(r)
       \/ UNCHANGED <<resolv, backup>> /\ Goto(r, "copy")
    /\ UNCHANGED <<copied, owed>>

(* The backup is read before the file is opened ... *)
copy(r) ==
    /\ FileStep(r, "copy")
    /\ \/ /\ backup # "none"
          /\ copied' = [copied EXCEPT ![r] = backup]
          /\ Goto(r, "truncate")
       \/ UNCHANGED copied /\ Fail(r)
    /\ UNCHANGED <<resolv, backup, owed>>

(* ... which empties it ... *)
truncate(r) ==
    /\ FileStep(r, "truncate")
    /\ \/ resolv' = "empty" /\ Goto(r, "write")
       \/ UNCHANGED resolv /\ Fail(r)
    /\ UNCHANGED <<backup, copied, owed>>

(* ... before the content is written. *)
write(r) ==
    /\ FileStep(r, "write")
    /\ \/ resolv' = copied[r] /\ Goto(r, "remove")
       \/ UNCHANGED resolv /\ Fail(r)
    /\ UNCHANGED <<backup, copied, owed>>

(* The backup goes, restored or stale. *)
RemoveBackup(r) ==
    \/ /\ backup # "none"
       /\ backup' = "none"
       /\ Succeed(r)
    \/ UNCHANGED backup /\ Fail(r)

remove(r) ==
    /\ FileStep(r, "remove")
    /\ RemoveBackup(r)
    /\ UNCHANGED <<resolv, copied, owed>>

stale(r) ==
    /\ FileStep(r, "stale") \/ FileStep(r, "unread")
    /\ RemoveBackup(r)
    /\ UNCHANGED <<resolv, copied, owed>>

-----------------------------------------------------------------------------
(* The macOS reconcile, one networksetup command at a time. *)

ServiceStep(r, place) ==
    /\ at[r] = place
    /\ UNCHANGED <<backend, artifacts, resolv, backup, session, copied, swept>>

list(r) ==
    /\ ServiceStep(r, "list")
    /\ \/ unseen' = [unseen EXCEPT ![r] = Services] /\ Goto(r, "look")
       \/ UNCHANGED unseen /\ Fail(r)
    /\ UNCHANGED <<service, owed>>

(* The next service's resolver is asked for, and reset when it is exactly  *)
(* the override.  One that does not answer is passed over in silence, one  *)
(* that does not reset is named among the actions, and both are Ok; only a *)
(* program that cannot be spawned ends the reconcile.                      *)
LookAt(r, s) ==
    /\ unseen' = [unseen EXCEPT ![r] = @ \ {s}]
    /\ \/ service' = [service EXCEPT ![s] = "host"] /\ UNCHANGED owed
       \/ owed' = [owed EXCEPT ![r] = FALSE] /\ UNCHANGED service

look(r) ==
    /\ ServiceStep(r, "look")
    /\ \/ unseen[r] = {} /\ Succeed(r) /\ UNCHANGED <<unseen, owed, service>>
       \/ \E s \in unseen[r] : LookAt(r, s) /\ Goto(r, "look")
       \/ /\ unseen[r] # {}
          /\ Fail(r)
          /\ unseen' = [unseen EXCEPT ![r] = {}]
          /\ UNCHANGED <<owed, service>>

reconcile_dns(r) ==
    \/ exists(r) \/ read(r) \/ rename(r) \/ copy(r) \/ truncate(r) \/ write(r)
    \/ remove(r) \/ stale(r)
    \/ list(r) \/ look(r)

-----------------------------------------------------------------------------
(* The engine (external): while it brings a session up it puts the         *)
(* resolver aside and pushes its own, with its rules; it refuses to        *)
(* overwrite a backup, and fails the dial then.                            *)

EngineStarts ==
    /\ session = "none"
    /\ at["daemon"] = "idle"
    /\ session' = "rising"
    /\ swept' = (at["beside"] # "idle")
    /\ owed' = [r \in Runners |-> FALSE]
    /\ IF backend = "nft"
       THEN backup = "none" /\ backup' = resolv
       ELSE UNCHANGED backup
    /\ UNCHANGED <<backend, artifacts, resolv, service, todo, at, unseen, copied, told>>

EngineRises ==
    /\ session = "rising"
    /\ session' = "up"
    /\ engine' = "rules"
    /\ IF backend = "nft"
       THEN resolv' = "override" /\ UNCHANGED <<pfEnabled, service>>
       ELSE /\ pfEnabled' = TRUE
            /\ service' = [s \in Services |-> "override"]
            /\ UNCHANGED resolv
    /\ UNCHANGED <<backend, lockdown, backup, runnerVars, swept>>

(* The handle is dropped, by a handler between its commands or by the      *)
(* shutdown task beside them: its rules go, and the resolver comes back.   *)
EngineDrops ==
    /\ session = "up"
    /\ session' = "none"
    /\ engine' = "absent"
    /\ service' = [s \in Services |-> "host"]
    /\ resolv' = IF backup = "none" THEN resolv ELSE backup
    /\ backup' = "none"
    /\ swept' = (swept \/ at["daemon"] # "idle")
    /\ UNCHANGED <<backend, pfEnabled, lockdown, runnerVars>>

(* A runner dies wherever it is: the daemon with its session. *)
Crash(r) ==
    /\ session' = IF r = "daemon" THEN "none" ELSE session
    /\ todo' = [todo EXCEPT ![r] = <<>>]
    /\ at' = [at EXCEPT ![r] = "idle"]
    /\ unseen' = [unseen EXCEPT ![r] = {}]
    /\ told' = [told EXCEPT ![r] = "none"]
    /\ owed' = [owed EXCEPT ![r] = FALSE]
    /\ UNCHANGED <<backend, artifacts, resolver, copied, swept>>

(* A network manager or the admin writes resolv.conf, and may do so in the  *)
(* middle of a reconcile.                                                  *)
OtherWrites ==
    /\ backend = "nft"
    /\ resolv' = "host"
    /\ swept' = (swept \/ \E r \in Runners : at[r] \in FilePlaces)
    /\ UNCHANGED <<backend, artifacts, backup, service, session, runnerVars>>

-----------------------------------------------------------------------------
RunnerStep(r) ==
    \/ enable(r) \/ load(r) \/ flush(r) \/ detect(r)
    \/ reconcile_dns(r)

Next ==
    \/ \E r \in Runners : Begin(r) \/ RunnerStep(r) \/ Crash(r)
    \/ EngineStarts \/ EngineRises \/ EngineDrops
    \/ OtherWrites

HostSpec == Init /\ [][Next]_vars

-----------------------------------------------------------------------------
(* Properties. *)

(* Whatever fails or dies between its commands, the host changes only as    *)
(* the commands of Netblock say, one artifact at a time, on both hosts:     *)
(* what the daemon's model takes for one command is one.  Hands that cross  *)
(* at the resolver are Netblock's `disturbed`.                              *)
Net == INSTANCE Netblock WITH
    CommandsFail <- TRUE,
    engineTable <- engine,
    lockdownTable <- lockdown,
    dns <- Dns

ImplementsNetblock ==
    Net!NetInit /\ [][Net!NetNext(swept)]_<<engine, lockdown, Dns>>

(* Rules that are loaded filter: warrend never counts on an anchor of a pf  *)
(* that is off, wherever its install stops (enable_and_load).               *)
LoadedFilters ==
    backend = "pf" /\ (lockdown # "absent" \/ engine = "rules") => pfEnabled

(* What undoes an override is lost to it in two ways only: a restore that   *)
(* writes through the file is cut short there, or the file cannot be read   *)
(* and its backup goes as a stale one.  No crash, failed command, rewrite   *)
(* by others or engine does it, but for two hands at the resolver at once   *)
(* (reconcile_dns_files against the engine's install and drop).             *)
OverrideCanBeUndone ==
    [][Dns = "override" /\ Dns' = "lost"
       => swept \/ \E r \in Runners : at[r] \in {"write", "unread"}]_vars

(* The command ends well, and the plan goes on or is over.                 *)
Succeeds(r) ==
    /\ todo[r] # <<>> /\ todo'[r] = Tail(todo[r])
    /\ todo'[r] # <<>> \/ told'[r] = "ok"

(* What a command that ends well has done to the host.  The reconcile can   *)
(* only tell when it was alone on the host and passed nothing over: then    *)
(* the host has its resolver back, and on Linux no backup is left that      *)
(* would make the next engine install refuse.                              *)
Done(r) ==
    /\ Command(r) = "install_lockdown" => lockdown' = "block"
    /\ Command(r) = "install_connecting_guard" => lockdown' = "guard"
    /\ Command(r) = "clear_lockdown" => lockdown' = "absent"
    /\ Command(r) = "clear_engine_block" => engine' = "absent"
    /\ Command(r) = "reconcile_dns" /\ owed[r] =>
         Dns' = "host" /\ (backend = "nft" => backup' = "none")

(* What a command reports is so: Ok is what Netblock calls done (`ok`, and  *)
(* "done" of reconcile_dns), and a failed one has changed no table.  This   *)
(* is of the daemon's at its start and after its sessions, and of `warrend  *)
(* revert`'s with the daemon idle, at work or dead.                        *)
CommandsTell ==
    [][\A r \in Runners :
         /\ Succeeds(r) => Done(r)
         /\ todo[r] # <<>> /\ told'[r] = "failed" => UNCHANGED <<engine, lockdown>>]_vars

-----------------------------------------------------------------------------
(* netblock.rs, RemovedStaleBackup: "A backup existed but resolv.conf had   *)
(* already been rewritten by something else (a network manager, the admin): *)
(* the current config is the live truth, so the stale backup was removed".  *)
StaleMeansRewritten ==
    [][\A r \in Runners :
         at[r] = "stale" /\ backup # "none" /\ backup' = "none" /\ ~swept
         => resolv = "host"]_vars

=============================================================================
