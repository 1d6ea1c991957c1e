------------------------------- MODULE Netblock ------------------------------
(***************************************************************************)
(* The network artifacts warrend and the engine leave in the kernel, and   *)
(* the commands of native/warrend/src/netblock.rs on them.  The artifacts  *)
(* outlive every process: a crash changes none of them.                    *)
(*                                                                         *)
(* Each command is one external program (nft, pfctl, networksetup, or a    *)
(* file operation), so it is atomic here; it may fail, which `ok` says.    *)
(* nft and pf differ in syntax only: both replace warrend's own artifact   *)
(* in one atomic load and both delete an absent artifact successfully.     *)
(***************************************************************************)
CONSTANT CommandsFail    \* whether an external command may fail

ASSUME CommandsFailAssumption == CommandsFail \in BOOLEAN

VARIABLES
    engineTable,     \* the engine's kill-switch table (or pf anchor)
    lockdownTable,   \* warrend's own table: strict block or connecting guard
    dns              \* the host resolver: its own, the engine's override with
                     \* what undoes it beside it, or "lost": an override
                     \* nothing undoes (its backup is gone), or an emptied file

netVars == <<engineTable, lockdownTable, dns>>

Resolvers == {"host", "override", "lost"}

NetTypeOK ==
    /\ engineTable \in {"absent", "rules"}
    /\ lockdownTable \in {"absent", "guard", "block"}
    /\ dns \in Resolvers

(* How a command may end. *)
Outcomes == IF CommandsFail THEN {TRUE, FALSE} ELSE {TRUE}

(* How a reconcile of the resolver may end: Ok with all of it done, Ok with *)
(* something passed over (a file it could not read, a service that did not  *)
(* answer or did not reset), or with an error.                              *)
DnsEnds == IF CommandsFail THEN {"done", "passed", "failed"} ELSE {"done"}

(* Off-tunnel traffic is dropped: some block is in force. *)
Blocked == engineTable = "rules" \/ lockdownTable # "absent"

(* The dial's own sockets reach the network.  The strict block drops them,  *)
(* the connecting guard lets them out; a live session carries them, and    *)
(* without one a foreign engine table drops them and an override left      *)
(* behind resolves no name.                                                *)
DialEgress(live) ==
    /\ lockdownTable # "block"
    /\ live \/ (engineTable = "absent" /\ dns = "host")

(***************************************************************************)
(* The commands.  Each sets the primed value of one artifact.  Several      *)
(* steps are behind what touches the resolver: `disturbed` says whether    *)
(* another hand is at the resolver meanwhile, and then they may cross.     *)
(***************************************************************************)
install_lockdown(ok) ==
    lockdownTable' = IF ok THEN "block" ELSE lockdownTable

install_connecting_guard(ok) ==
    lockdownTable' = IF ok THEN "guard" ELSE lockdownTable

clear_lockdown(ok) ==
    lockdownTable' = IF ok THEN "absent" ELSE lockdownTable

clear_engine_block(ok) ==
    engineTable' = IF ok THEN "absent" ELSE engineTable

(* Only an undisturbed reconcile that passes nothing over ends with the     *)
(* host's resolver: without a backup it is Ok whatever the file holds, an   *)
(* unreadable file loses its backup to it, and a service it cannot ask     *)
(* keeps its override.  Somebody else may repair what is lost.             *)
reconcile_dns(end, disturbed) ==
    dns' \in CASE disturbed -> Resolvers
               [] ~disturbed /\ dns = "host" -> {"host"}
               [] ~disturbed /\ dns = "lost" -> {"lost", "host"}
               [] ~disturbed /\ dns = "override" ->
                    IF end = "done" THEN {"host"} ELSE Resolvers

(***************************************************************************)
(* `nft list table`: a failed command reads as an absent table, and an     *)
(* nft that cannot be spawned is an error.                                 *)
(***************************************************************************)
engine_block_present(answer) ==
    \/ answer = engineTable
    \/ CommandsFail /\ answer \in {"absent", "error"}

(***************************************************************************)
(* The engine datapath (external, warren-sdk-rs): a session that comes up  *)
(* installs its rules, keeps what it found in the resolver as its backup   *)
(* and pushes its own; dropping its handle flushes the table, whoever's    *)
(* rules are in it, and puts the backup back.                              *)
(***************************************************************************)
EngineInstall(disturbed) ==
    /\ engineTable' = "rules"
    /\ dns' \in CASE disturbed -> Resolvers
                 [] ~disturbed /\ dns = "lost" -> {"lost"}
                 [] ~disturbed /\ dns # "lost" -> {"override"}

EngineDrop(live, disturbed) ==
    /\ engineTable' = IF live THEN "absent" ELSE engineTable
    /\ dns' \in CASE ~live -> {dns}
                 [] live /\ disturbed -> Resolvers
                 [] live /\ ~disturbed /\ dns = "lost" -> {"lost"}
                 [] live /\ ~disturbed /\ dns # "lost" -> {"host"}

(***************************************************************************)
(* A host on which anybody runs these commands and sessions come and go;   *)
(* another program may put its own resolver in place of the override.      *)
(***************************************************************************)
NetInit ==
    /\ engineTable = "absent"
    /\ lockdownTable = "absent"
    /\ dns = "host"

NetCommand(ok) ==
    \/ /\ install_lockdown(ok) \/ install_connecting_guard(ok) \/ clear_lockdown(ok)
       /\ UNCHANGED <<engineTable, dns>>
    \/ clear_engine_block(ok) /\ UNCHANGED <<lockdownTable, dns>>

NetNext(disturbed) ==
    \/ \E ok \in Outcomes : NetCommand(ok)
    \/ /\ \/ \E end \in DnsEnds : reconcile_dns(end, disturbed)
          \/ dns' = "host"
       /\ UNCHANGED <<engineTable, lockdownTable>>
    \/ /\ EngineInstall(disturbed) \/ EngineDrop(TRUE, disturbed)
       /\ UNCHANGED lockdownTable

=============================================================================
