--------------------------- MODULE HostNetworkProofs ---------------------------
(***************************************************************************)
(* For any network services: where a runner is follows from its command    *)
(* and the host's backend, and as long as one hand at a time is at the     *)
(* resolver, what Netblock sees of it follows the runner's place, whatever *)
(* it finds.                                                               *)
(***************************************************************************)
EXTENDS HostNetwork, SequenceTheorems, TLAPS

(* A runner's place is one of its command's on this host. *)
PlaceOfCommand ==
    \A r \in Runners :
        todo[r] # <<>> =>
            /\ Command(r) \in Installs =>
                 at[r] = "load" \/ (backend = "pf" /\ at[r] = "enable")
            /\ Command(r) \in Clears => at[r] = "flush"
            /\ Command(r) \in Detections => at[r] = "detect"
            /\ Command(r) = "reconcile_dns" =>
                 at[r] \in (IF backend = "pf" THEN ServicePlaces ELSE FilePlaces)

(* pf is enabled before anything is loaded into an anchor. *)
EnabledFirst ==
    backend = "pf" =>
        /\ lockdown # "absent" \/ engine = "rules" => pfEnabled
        /\ \A r \in Runners : at[r] = "load" => pfEnabled

(* A plan's end is told only when it is over. *)
ToldAtTheEnd == \A r \in Runners : todo[r] # <<>> => told[r] = "none"

(* Nobody dials while the daemon is at its own commands. *)
RisesAlone == session = "rising" => at["daemon"] = "idle"

(* Who is at work beside a session, and on what, as long as it is one hand *)
(* at a time.                                                              *)
OneHand ==
    ~swept =>
        /\ session # "none" =>
             /\ at["beside"] = "idle"
             /\ todo["daemon"] = <<>> \/ todo["daemon"] \in MeantForSessions
             /\ backend = "nft" => backup # "none"
             /\ backend = "nft" /\ resolv = "empty" => session = "rising" /\ backup = "empty"
        /\ \A q, r \in Runners : at[q] # "idle" /\ at[r] # "idle" => q = r

(* What a runner's place says of the two files when nobody else was there. *)
FilesAt(r) ==
    /\ at[r] \in {"rename", "copy", "truncate"} => resolv = "override"
    /\ at[r] \in {"truncate", "write", "remove"} => copied[r] = backup
    /\ at[r] = "write" => resolv = "empty"
    /\ at[r] = "remove" => resolv = backup
    /\ at[r] = "stale" => resolv # "override"

FilesTell == ~swept => \A r \in Runners : FilesAt(r)

(* What it says when the files could be told apart at the beginning, and   *)
(* the services a runner is done with.                                     *)
OwedAt(r) ==
    /\ backend = "nft" =>
         /\ backup \in {"none", "host"}
         /\ backup = "none" => resolv = "host"
         /\ at[r] \in {"truncate", "write", "remove"} => copied[r] = "host" /\ backup = "host"
         /\ resolv = "empty" => at[r] = "write"
         /\ at[r] \in {"remove", "stale"} => resolv = "host"
         /\ at[r] # "unread"
    /\ at[r] = "look" => \A s \in Services \ unseen[r] : service[s] = "host"

OwedAlone ==
    \A r \in Runners : owed[r] /\ at[r] # "idle" => Alone(r) /\ OwedAt(r)

HostInv ==
    /\ HostTypeOK
    /\ PlaceOfCommand
    /\ EnabledFirst
    /\ ToldAtTheEnd
    /\ RisesAlone
    /\ OneHand
    /\ FilesTell
    /\ OwedAlone

(* A host before any session. *)
LEMMA HostInvInit == Init => HostInv
<1> SUFFICES ASSUME Init PROVE HostInv
    OBVIOUS
<1> USE DEF Init
<1>1. HostTypeOK
    <2>1. todo \in [Runners -> Seq(Commands)]
        <3>1. <<>> \in Seq(Commands)
            OBVIOUS
        <3> QED
            BY <3>1
    <2> QED
        BY <2>1 DEF HostTypeOK, Places, Contents, Runners
<1>2. PlaceOfCommand /\ EnabledFirst /\ RisesAlone /\ ToldAtTheEnd
    BY DEF PlaceOfCommand, EnabledFirst, RisesAlone, ToldAtTheEnd, Runners
<1>3. OneHand /\ FilesTell /\ OwedAlone
    BY DEF OneHand, FilesTell, FilesAt, OwedAlone, Runners
<1> QED
    BY <1>1, <1>2, <1>3 DEF HostInv

-----------------------------------------------------------------------------
(* A plan's commands are commands, and there is one to begin with. *)
LEMMA PlansAreCommands ==
    ASSUME NEW r \in Runners, NEW plan \in Plans(r)
    PROVE  plan \in Seq(Commands) /\ plan # <<>> /\ Head(plan) \in Commands
<1> USE DEF Commands, Installs, Clears, Detections
<1>1. CASE plan = revert_network
    BY <1>1 DEF revert_network
<1>2. CASE plan = startup_reconcile
    BY <1>2 DEF startup_reconcile
<1>3. ASSUME NEW c \in Installs \cup Clears, plan = <<c>>
      PROVE  plan \in Seq(Commands) /\ plan # <<>> /\ Head(plan) \in Commands
    BY <1>3
<1> QED
    BY <1>1, <1>2, <1>3 DEF Plans

(* A plan goes on with a shorter one. *)
LEMMA TailIsAnother ==
    ASSUME NEW s \in Seq(Commands), s # <<>>
    PROVE  Tail(s) # s
<1>1. Len(Tail(s)) = Len(s) - 1 /\ Len(s) \in Nat
    BY HeadTailProperties, LenProperties
<1>2. ASSUME NEW n \in Nat PROVE n - 1 # n
    OBVIOUS
<1>3. Len(Tail(s)) # Len(s)
    BY <1>1, <1>2
<1> QED
    BY <1>3

(* Where a plan goes on after a command. *)
LEMMA NextCommand ==
    ASSUME NEW s \in Seq(Commands), s # <<>>
    PROVE  /\ Tail(s) \in Seq(Commands)
           /\ Head(s) \in Commands
           /\ Len(s) = 1 => Tail(s) = <<>>
           /\ Len(s) # 1 => Tail(s) # <<>> /\ Head(Tail(s)) = s[2] /\ s[2] \in Commands
<1>1. Head(s) \in Commands /\ Tail(s) \in Seq(Commands)
    BY HeadTailProperties
<1>2. Len(s) \in Nat /\ Len(s) # 0 /\ Len(Tail(s)) = Len(s) - 1
    BY HeadTailProperties, EmptySeq, LenProperties
<1>3. CASE Len(s) = 1
    <2>1. Len(Tail(s)) = 0
        BY <1>2, <1>3
    <2>2. Tail(s) = <<>>
        BY <1>1, <2>1, EmptySeq
    <2> QED
        BY <1>1, <1>3, <2>2
<1>4. CASE Len(s) # 1
    <2>1. Tail(s)[1] = s[2] /\ s[2] \in Commands
        BY <1>2, <1>4, HeadTailProperties, ElementOfSeq
    <2>2. Len(Tail(s)) # 0
        BY <1>2, <1>4
    <2>3. Tail(s) # <<>>
        BY <1>1, <2>2, EmptySeq
    <2>4. Head(Tail(s)) = Tail(s)[1]
        BY <1>1, <2>3, HeadTailProperties
    <2> QED
        BY <1>1, <1>4, <2>1, <2>3, <2>4
<1> QED
    BY <1>1, <1>3, <1>4

(* A command's first place is one of its places. *)
LEMMA EntryIsAPlace ==
    ASSUME NEW c \in Commands, backend \in {"nft", "pf"}
    PROVE  /\ Entry(c) \in Places \ {"idle"}
           /\ c \in Installs => Entry(c) = IF backend = "pf" THEN "enable" ELSE "load"
           /\ c \in Clears => Entry(c) = "flush"
           /\ c \in Detections => Entry(c) = "detect"
           /\ c = "reconcile_dns" => Entry(c) = IF backend = "pf" THEN "list" ELSE "exists"
<1> USE DEF Entry, Commands, Installs, Clears, Detections, Places, FilePlaces, ServicePlaces
<1>1. CASE c \in Installs
    BY <1>1
<1>2. CASE c \in Clears
    BY <1>2
<1>3. CASE c \in Detections
    BY <1>3
<1>4. CASE c = "reconcile_dns"
    BY <1>4
<1> QED
    BY <1>1, <1>2, <1>3, <1>4

(* Which command a place belongs to. *)
LEMMA CommandOfPlace ==
    ASSUME HostInv, NEW r \in Runners, at[r] # "idle"
    PROVE  /\ todo[r] \in Seq(Commands) /\ todo[r] # <<>> /\ Command(r) \in Commands
           /\ at[r] = "enable" => Command(r) \in Installs /\ backend = "pf"
           /\ at[r] = "load" => Command(r) \in Installs
           /\ at[r] = "flush" => Command(r) \in Clears
           /\ at[r] = "detect" => Command(r) \in Detections
           /\ at[r] \in FilePlaces => Command(r) = "reconcile_dns" /\ backend = "nft"
           /\ at[r] \in ServicePlaces => Command(r) = "reconcile_dns" /\ backend = "pf"
<1>1. todo[r] \in Seq(Commands) /\ todo[r] # <<>>
    BY DEF HostInv, HostTypeOK
<1>2. Command(r) \in Commands
    BY <1>1, NextCommand DEF Command
<1> QED
    BY <1>1, <1>2 DEF HostInv, HostTypeOK, PlaceOfCommand, Commands, Installs, Clears, Detections,
       FilePlaces, ServicePlaces

(* How a runner's plan and place go on, whatever its step does. *)
GoesOn(r) ==
    /\ todo' \in [Runners -> Seq(Commands)]
    /\ at' \in [Runners -> Places]
    /\ told' \in [Runners -> {"none", "ok", "failed"}]
    /\ \A q \in Runners \ {r} : todo'[q] = todo[q] /\ at'[q] = at[q] /\ told'[q] = told[q]
    /\ at'[r] = "idle" <=> todo'[r] = <<>>
    /\ todo'[r] # <<>> => told'[r] = "none"
    /\ todo'[r] # <<>> =>
         /\ Command(r)' \in Installs => at'[r] = "load" \/ (backend = "pf" /\ at'[r] = "enable")
         /\ Command(r)' \in Clears => at'[r] = "flush"
         /\ Command(r)' \in Detections => at'[r] = "detect"
         /\ Command(r)' = "reconcile_dns" =>
              at'[r] \in (IF backend = "pf" THEN ServicePlaces ELSE FilePlaces)

(* A command that is over is followed by the next one's first place. *)
Over(r) ==
    /\ at'[r] \in {"idle", "enable", "load", "flush", "detect", "list", "exists"}
    /\ at'[r] = "load" => backend # "pf"
    /\ todo[r] \in MeantForSessions => at'[r] = "idle"

LEMMA CommandEnds ==
    ASSUME HostInv, NEW r \in Runners, at[r] # "idle", Succeed(r) \/ Fail(r)
    PROVE  GoesOn(r) /\ Over(r)
<1> USE DEF GoesOn, Over, Command
<1>0. /\ todo \in [Runners -> Seq(Commands)] /\ at \in [Runners -> Places]
      /\ told \in [Runners -> {"none", "ok", "failed"}]
      /\ backend \in {"nft", "pf"}
    BY DEF HostInv, HostTypeOK
<1>1. todo[r] \in Seq(Commands) /\ todo[r] # <<>>
    BY CommandOfPlace
<1>2. CASE Fail(r)
    BY <1>0, <1>2, EmptySeq DEF Fail, Places
<1>3. CASE Succeed(r) /\ Len(todo[r]) = 1
    <2>1. todo' = [todo EXCEPT ![r] = <<>>]
        BY <1>1, <1>3, NextCommand DEF Succeed
    <2> QED
        BY <1>0, <1>3, <2>1, EmptySeq DEF Succeed, Places
<1>4. CASE Succeed(r) /\ Len(todo[r]) # 1
    <2>1. /\ Tail(todo[r]) \in Seq(Commands) /\ Tail(todo[r]) # <<>>
          /\ Head(Tail(todo[r])) = todo[r][2] /\ todo[r][2] \in Commands
        BY <1>1, <1>4, NextCommand
    <2>2. /\ todo'[r] = Tail(todo[r]) /\ Command(r)' = todo[r][2]
          /\ at'[r] = Entry(todo[r][2]) /\ told'[r] = told[r]
        BY <1>0, <1>4, <2>1 DEF Succeed
    <2>3. at'[r] \in Places \ {"idle"}
        BY <1>0, <2>1, <2>2, EntryIsAPlace
    <2>4. todo[r] \notin MeantForSessions
        BY <1>4 DEF MeantForSessions
    <2>5. told[r] = "none"
        BY <1>1 DEF HostInv, ToldAtTheEnd
    <2>6. /\ todo' \in [Runners -> Seq(Commands)]
          /\ at' \in [Runners -> Places]
          /\ told' = told
          /\ \A q \in Runners \ {r} : todo'[q] = todo[q] /\ at'[q] = at[q]
        BY <1>0, <1>4, <2>1, <2>2, <2>3 DEF Succeed
    <2>7. /\ Command(r)' \in Installs => at'[r] = IF backend = "pf" THEN "enable" ELSE "load"
          /\ Command(r)' \in Clears => at'[r] = "flush"
          /\ Command(r)' \in Detections => at'[r] = "detect"
          /\ Command(r)' = "reconcile_dns" => at'[r] = IF backend = "pf" THEN "list" ELSE "exists"
          /\ Command(r)' \in Installs \cup Clears \cup Detections \cup {"reconcile_dns"}
        BY <1>0, <2>1, <2>2, EntryIsAPlace DEF Commands
    <2> QED
        BY <1>0, <2>1, <2>2, <2>3, <2>4, <2>5, <2>6, <2>7 DEF ServicePlaces, FilePlaces
<1> QED
    BY <1>2, <1>3, <1>4

LEMMA CommandGoesOn ==
    ASSUME HostInv, NEW r \in Runners, at[r] # "idle", NEW place \in Places \ {"idle"}, Goto(r, place),
           \/ at[r] = "enable" /\ place = "load"
           \/ at[r] \in FilePlaces /\ place \in FilePlaces
           \/ at[r] \in ServicePlaces /\ place \in ServicePlaces
    PROVE  GoesOn(r) /\ todo'[r] = todo[r] /\ at'[r] = place
<1>1. /\ todo' = todo /\ told' = told /\ at' = [at EXCEPT ![r] = place]
    BY DEF Goto
<1>2. /\ todo \in [Runners -> Seq(Commands)] /\ at \in [Runners -> Places]
      /\ told \in [Runners -> {"none", "ok", "failed"}]
      /\ todo[r] # <<>> /\ told[r] = "none"
    BY CommandOfPlace DEF HostInv, HostTypeOK, ToldAtTheEnd
<1>3. \/ place = "load" /\ Command(r) \in Installs
      \/ place \in FilePlaces /\ Command(r) = "reconcile_dns" /\ backend = "nft"
      \/ place \in ServicePlaces /\ Command(r) = "reconcile_dns" /\ backend = "pf"
    BY CommandOfPlace
<1> QED
    BY <1>1, <1>2, <1>3 DEF GoesOn, Command, Installs, Clears, Detections

-----------------------------------------------------------------------------
(* A runner's own step moves its plan on, and ends the plan of a daemon    *)
(* whose session is up.                                                    *)
LEMMA RunnerGoesOn ==
    ASSUME HostInv, NEW r \in Runners, RunnerStep(r)
    PROVE  /\ GoesOn(r)
           /\ todo'[r] = todo[r] \/ Over(r)
           /\ UNCHANGED <<backend, session, swept>>
<1> USE DEF Places, FilePlaces, ServicePlaces
<1>1. CASE enable(r)
    BY <1>1, CommandEnds, CommandGoesOn DEF enable
<1>2. CASE load(r)
    BY <1>2, CommandEnds DEF load
<1>3. CASE flush(r)
    BY <1>3, CommandEnds DEF flush
<1>4. CASE detect(r)
    BY <1>4, CommandEnds DEF detect
<1>5. CASE exists(r)
    BY <1>5, CommandEnds, CommandGoesOn DEF exists, FileStep
<1>6. CASE read(r)
    BY <1>6, CommandGoesOn DEF read, FileStep
<1>7. CASE rename(r)
    BY <1>7, CommandEnds, CommandGoesOn DEF rename, FileStep
<1>8. CASE copy(r)
    BY <1>8, CommandEnds, CommandGoesOn DEF copy, FileStep
<1>9. CASE truncate(r)
    BY <1>9, CommandEnds, CommandGoesOn DEF truncate, FileStep
<1>10. CASE write(r)
    BY <1>10, CommandEnds, CommandGoesOn DEF write, FileStep
<1>11. CASE remove(r) \/ stale(r)
    BY <1>11, CommandEnds DEF remove, stale, RemoveBackup, FileStep
<1>12. CASE list(r)
    BY <1>12, CommandEnds, CommandGoesOn DEF list, ServiceStep
<1>13. CASE look(r)
    BY <1>13, CommandEnds, CommandGoesOn DEF look, ServiceStep
<1> QED
    BY <1>1, <1>2, <1>3, <1>4, <1>5, <1>6, <1>7, <1>8, <1>9, <1>10, <1>11, <1>12, <1>13
       DEF RunnerStep, reconcile_dns

(* So what the invariant says of the plans holds on. *)
LEMMA PlansKept ==
    ASSUME HostInv, NEW r \in Runners, GoesOn(r), todo'[r] = todo[r] \/ Over(r),
           UNCHANGED <<backend, session>>, at[r] # "idle"
    PROVE  /\ PlaceOfCommand' /\ ToldAtTheEnd' /\ RisesAlone'
           /\ todo' \in [Runners -> Seq(Commands)]
           /\ at' \in [Runners -> Places]
           /\ told' \in [Runners -> {"none", "ok", "failed"}]
           /\ \A q \in Runners : at'[q] = "idle" <=> todo'[q] = <<>>
<1>1. PlaceOfCommand'
    BY DEF HostInv, PlaceOfCommand, GoesOn, Command
<1>2. ToldAtTheEnd'
    BY DEF HostInv, ToldAtTheEnd, GoesOn
<1>3. RisesAlone'
    BY DEF HostInv, RisesAlone, GoesOn, Runners
<1>4. \A q \in Runners : at'[q] = "idle" <=> todo'[q] = <<>>
    BY DEF HostInv, HostTypeOK, GoesOn
<1> QED
    BY <1>1, <1>2, <1>3, <1>4 DEF GoesOn

-----------------------------------------------------------------------------
(* What a runner's step leaves in the host and in its own notes.           *)
LEMMA RunnerTypes ==
    ASSUME HostInv, NEW r \in Runners, RunnerStep(r)
    PROVE  /\ pfEnabled' \in BOOLEAN
           /\ engine' \in {"absent", "rules"}
           /\ lockdown' \in {"absent", "guard", "block"}
           /\ resolv' \in Contents
           /\ backup' \in Contents \cup {"none"}
           /\ service' \in [Services -> {"host", "override"}]
           /\ unseen' \in [Runners -> SUBSET Services]
           /\ owed' \in [Runners -> BOOLEAN]
           /\ copied' \in [Runners -> Contents]
<1> USE DEF HostInv, HostTypeOK, Contents, artifacts, resolver
<1>1. CASE enable(r) \/ load(r) \/ flush(r) \/ detect(r)
    BY <1>1 DEF enable, load, flush, detect
<1>2. CASE exists(r) \/ read(r) \/ truncate(r) \/ remove(r) \/ stale(r)
    BY <1>2 DEF exists, read, truncate, remove, stale, RemoveBackup, FileStep
<1>3. CASE rename(r) \/ copy(r) \/ write(r)
    BY <1>3 DEF rename, copy, write, FileStep
<1>4. CASE list(r)
    BY <1>4 DEF list, ServiceStep
<1>5. CASE look(r)
    <2>1. UNCHANGED <<pfEnabled, engine, lockdown, resolv, backup, copied>>
        BY <1>5 DEF look, ServiceStep
    <2>2. ASSUME NEW s \in unseen[r], LookAt(r, s)
          PROVE  /\ service' \in [Services -> {"host", "override"}]
                 /\ unseen' \in [Runners -> SUBSET Services]
                 /\ owed' \in [Runners -> BOOLEAN]
        <3>1. s \in Services
            OBVIOUS
        <3>2. unseen' \in [Runners -> SUBSET Services]
            BY <2>2 DEF LookAt
        <3>3. CASE service' = [service EXCEPT ![s] = "host"] /\ UNCHANGED owed
            BY <3>2, <3>3
        <3>4. CASE owed' = [owed EXCEPT ![r] = FALSE] /\ UNCHANGED service
            BY <3>1, <3>2, <3>4
        <3> QED
            BY <2>2, <3>3, <3>4 DEF LookAt
    <2>3. CASE UNCHANGED <<unseen, owed, service>>
        BY <2>1, <2>3
    <2>4. CASE unseen' = [unseen EXCEPT ![r] = {}] /\ UNCHANGED <<owed, service>>
        BY <2>1, <2>4
    <2> QED
        BY <1>5, <2>1, <2>2, <2>3, <2>4 DEF look
<1> QED
    BY <1>1, <1>2, <1>3, <1>4, <1>5 DEF RunnerStep, reconcile_dns

(* Nothing is loaded into an anchor but behind a pf that is on.            *)
LEMMA RunnerEnablesFirst ==
    ASSUME HostInv, NEW r \in Runners, RunnerStep(r)
    PROVE  EnabledFirst'
<1>1. /\ GoesOn(r)
      /\ todo'[r] = todo[r] \/ Over(r)
      /\ UNCHANGED <<backend, session, swept>>
    BY RunnerGoesOn
<1>2. EnabledFirst /\ at \in [Runners -> Places]
    BY DEF HostInv, HostTypeOK
<1>3a. \A q \in Runners \ {r} : at'[q] = at[q]
    BY <1>1, Zenon DEF GoesOn
<1>3. CASE backend # "pf"
    BY <1>1, <1>3 DEF EnabledFirst
<1>4. CASE backend = "pf" /\ enable(r)
    BY <1>1, <1>2, <1>4 DEF EnabledFirst, enable, Fail, Goto
<1>5. CASE backend = "pf" /\ (load(r) \/ flush(r) \/ detect(r))
    <2>1. Over(r)
        BY <1>5, CommandEnds DEF load, flush, detect
    <2>2. UNCHANGED pfEnabled /\ (lockdown' # "absent" \/ engine' = "rules" => pfEnabled)
        BY <1>2, <1>5 DEF EnabledFirst, load, flush, detect, artifacts
    <2>3. ASSUME NEW q \in Runners, at'[q] = "load" PROVE pfEnabled
        <3>1. q # r
            BY <1>5, <2>1, <2>3 DEF Over
        <3>2. at[q] = "load"
            BY <1>3a, <2>3, <3>1
        <3> QED
            BY <1>2, <1>5, <3>2 DEF EnabledFirst
    <2> QED
        BY <1>1, <2>2, <2>3 DEF EnabledFirst
<1>6. CASE backend = "pf" /\ reconcile_dns(r)
    <2>1. UNCHANGED artifacts
        BY <1>6 DEF reconcile_dns, exists, read, rename, copy, truncate, write, remove, stale,
           FileStep, list, look, ServiceStep
    <2>2. at[r] \in FilePlaces \cup ServicePlaces
        BY <1>6 DEF reconcile_dns, exists, read, rename, copy, truncate, write, remove, stale,
           FileStep, list, look, ServiceStep, FilePlaces, ServicePlaces
    <2>3. Command(r) = "reconcile_dns"
        BY <2>2, CommandOfPlace DEF FilePlaces, ServicePlaces
    <2>4. at'[r] # "load"
        <3>1. CASE todo'[r] = todo[r]
            <4>1. Command(r)' = "reconcile_dns"
                BY <2>3, <3>1 DEF Command
            <4>2. todo'[r] # <<>>
                BY <2>2, <3>1, CommandOfPlace DEF FilePlaces, ServicePlaces
            <4> QED
                BY <1>1, <1>6, <4>1, <4>2, Zenon DEF GoesOn, ServicePlaces
        <3>2. CASE Over(r)
            BY <1>6, <3>2 DEF Over
        <3> QED
            BY <1>1, <3>1, <3>2
    <2>5. ASSUME NEW q \in Runners, at'[q] = "load" PROVE pfEnabled
        <3>1. at[q] = "load"
            BY <1>3a, <2>4, <2>5
        <3> QED
            BY <1>2, <1>6, <3>1 DEF EnabledFirst
    <2> QED
        BY <1>1, <1>2, <1>6, <2>1, <2>5 DEF EnabledFirst, artifacts
<1> QED
    BY <1>3, <1>4, <1>5, <1>6 DEF RunnerStep

(* A runner's step starts where its runner is at work. *)
LEMMA RunnerIsAtWork ==
    ASSUME NEW r \in Runners, RunnerStep(r)
    PROVE  at[r] # "idle"
BY DEF RunnerStep, reconcile_dns, enable, load, flush, detect, exists, read, rename, copy,
   truncate, write, remove, stale, FileStep, list, look, ServiceStep

(* One hand at a time: nobody but the runner is at work, and who works     *)
(* beside a session is the daemon, on no resolver.                         *)
LEMMA OneRunner ==
    ASSUME HostInv, NEW r \in Runners, ~swept, at[r] # "idle"
    PROVE  /\ \A q \in Runners \ {r} : at[q] = "idle"
           /\ session # "none" => r = "daemon" /\ todo[r] \in MeantForSessions
           /\ Command(r) = "reconcile_dns" => session = "none"
<1>1. \A q \in Runners \ {r} : at[q] = "idle"
    BY DEF HostInv, OneHand
<1>2. ASSUME session # "none" PROVE r = "daemon" /\ todo[r] \in MeantForSessions
    BY <1>2 DEF HostInv, HostTypeOK, OneHand, Runners
<1>3. ASSUME session # "none" PROVE Command(r) # "reconcile_dns"
    BY <1>2, <1>3 DEF MeantForSessions, Installs, Command
<1> QED
    BY <1>1, <1>2, <1>3

(* The places of a reconcile.                                              *)
LEMMA ReconcilePlaces ==
    ASSUME HostInv, NEW r \in Runners, reconcile_dns(r)
    PROVE  /\ at[r] # "idle" /\ Command(r) = "reconcile_dns"
           /\ list(r) \/ look(r) => backend = "pf"
           /\ ~(list(r) \/ look(r)) => backend = "nft" /\ UNCHANGED <<service, unseen>>
<1>1. at[r] # "idle"
    BY RunnerIsAtWork DEF RunnerStep
<1>2. CASE list(r) \/ look(r)
    BY <1>1, <1>2, CommandOfPlace DEF list, look, ServiceStep, ServicePlaces
<1>3. CASE ~(list(r) \/ look(r))
    <2>1. at[r] \in FilePlaces /\ UNCHANGED <<service, unseen>>
        BY <1>3 DEF reconcile_dns, exists, read, rename, copy, truncate, write, remove, stale,
           FileStep, FilePlaces
    <2> QED
        BY <1>1, <1>3, <2>1, CommandOfPlace
<1> QED
    BY <1>2, <1>3

(* The firewall's commands leave the resolver alone, and lead to no place  *)
(* of its reconcile but the first.                                         *)
LEMMA FirewallApart ==
    ASSUME HostInv, NEW r \in Runners, enable(r) \/ load(r) \/ flush(r) \/ detect(r)
    PROVE  /\ UNCHANGED <<resolver, copied, unseen, owed>>
           /\ at'[r] \in {"idle", "enable", "load", "flush", "detect", "list", "exists"}
<1>1. UNCHANGED <<resolver, copied, unseen, owed>>
    BY DEF enable, load, flush, detect
<1>2. at \in [Runners -> Places] /\ at[r] # "idle"
    BY DEF HostInv, HostTypeOK, enable, load, flush, detect
<1>3. CASE enable(r)
    BY <1>2, <1>3 DEF enable, Goto, Fail
<1>4. CASE load(r) \/ flush(r) \/ detect(r)
    BY <1>2, <1>4, CommandEnds DEF load, flush, detect, Over
<1> QED
    BY <1>1, <1>3, <1>4

(* One hand stays one.                                                     *)
LEMMA RunnerStaysAlone ==
    ASSUME HostInv, NEW r \in Runners, RunnerStep(r)
    PROVE  OneHand'
<1> SUFFICES ASSUME ~swept PROVE OneHand'
    BY RunnerGoesOn DEF OneHand
<1>1. /\ GoesOn(r)
      /\ todo'[r] = todo[r] \/ Over(r)
      /\ UNCHANGED <<backend, session, swept>>
    BY RunnerGoesOn
<1>2. /\ \A q \in Runners \ {r} : at[q] = "idle"
      /\ session # "none" => r = "daemon" /\ todo[r] \in MeantForSessions
      /\ Command(r) = "reconcile_dns" => session = "none"
    BY RunnerIsAtWork, OneRunner
<1>3. \A q \in Runners \ {r} : at'[q] = "idle" /\ todo'[q] = todo[q]
    BY <1>1, <1>2, Zenon DEF GoesOn
<1>4. \A p, q \in Runners : at'[p] # "idle" /\ at'[q] # "idle" => p = q
    BY <1>3
<1>5. ASSUME session # "none"
      PROVE  /\ at'["beside"] = "idle"
             /\ todo'["daemon"] = <<>> \/ todo'["daemon"] \in MeantForSessions
             /\ backend = "nft" => backup' # "none"
             /\ backend = "nft" /\ resolv' = "empty" => session = "rising" /\ backup' = "empty"
    <2>1. r = "daemon" /\ at'["beside"] = "idle"
        BY <1>2, <1>3, <1>5 DEF Runners
    <2>2. todo'[r] = <<>> \/ todo'[r] \in MeantForSessions
        <3>1. Over(r) => at'[r] = "idle"
            BY <1>2, <1>5 DEF Over
        <3> QED
            BY <1>1, <1>2, <1>5, <3>1 DEF GoesOn
    <2>3. UNCHANGED <<resolv, backup>>
        <3>1. ~reconcile_dns(r)
            BY <1>2, <1>5, ReconcilePlaces
        <3> QED
            BY <3>1, FirewallApart DEF RunnerStep, resolver
    <2> QED
        BY <1>5, <2>1, <2>2, <2>3 DEF HostInv, OneHand
<1> QED
    BY <1>1, <1>4, <1>5 DEF OneHand

(* Its file operations leave the files as its next place tells.            *)
LEMMA RunnerFiles ==
    ASSUME HostInv, NEW r \in Runners, RunnerStep(r)
    PROVE  FilesTell'
<1> SUFFICES ASSUME ~swept PROVE FilesTell'
    BY RunnerGoesOn DEF FilesTell
<1>1. /\ GoesOn(r)
      /\ todo'[r] = todo[r] \/ Over(r)
      /\ UNCHANGED <<backend, session, swept>>
    BY RunnerGoesOn
<1>2. at[r] # "idle" /\ \A q \in Runners \ {r} : at'[q] = "idle"
    <2>1. at[r] # "idle" /\ \A q \in Runners \ {r} : at[q] = "idle"
        BY RunnerIsAtWork, OneRunner
    <2> QED
        BY <1>1, <2>1, Zenon DEF GoesOn
<1>3. SUFFICES FilesAt(r)'
    <2>1. \A q \in Runners \ {r} : FilesAt(q)'
        BY <1>2 DEF FilesAt
    <2> QED
        BY <1>3, <2>1 DEF FilesTell
<1>4. /\ FilesAt(r) /\ at \in [Runners -> Places] /\ copied \in [Runners -> Contents]
      /\ "none" \notin Contents
    BY DEF HostInv, FilesTell, HostTypeOK, Contents
<1>5. CASE enable(r) \/ load(r) \/ flush(r) \/ detect(r)
    BY <1>5, FirewallApart DEF FilesAt
<1>6. CASE reconcile_dns(r)
    <2>1. ASSUME Succeed(r) \/ Fail(r) PROVE FilesAt(r)'
        BY <1>2, <2>1, CommandEnds DEF Over, FilesAt
    <2>2. ASSUME NEW place, Goto(r, place) PROVE at'[r] = place
        BY <1>4, <2>2 DEF Goto
    <2>3. CASE exists(r)
        BY <2>1, <2>2, <2>3 DEF exists, FilesAt
    <2>4. CASE read(r)
        BY <1>4, <2>2, <2>4 DEF read, FilesAt
    <2>5. CASE rename(r)
        BY <1>4, <2>1, <2>2, <2>5 DEF rename, FileStep, FilesAt
    <2>6. CASE copy(r)
        BY <1>4, <2>1, <2>2, <2>6 DEF copy, FileStep, FilesAt
    <2>7. CASE truncate(r)
        BY <1>4, <2>1, <2>2, <2>7 DEF truncate, FileStep, FilesAt
    <2>8. CASE write(r)
        BY <1>4, <2>1, <2>2, <2>8 DEF write, FileStep, FilesAt
    <2>9. CASE remove(r) \/ stale(r)
        BY <2>1, <2>9 DEF remove, stale, RemoveBackup
    <2>10. CASE list(r) \/ look(r)
        BY <2>1, <2>2, <2>10 DEF list, look, FilesAt
    <2> QED
        BY <1>6, <2>3, <2>4, <2>5, <2>6, <2>7, <2>8, <2>9, <2>10 DEF reconcile_dns
<1> QED
    BY <1>5, <1>6 DEF RunnerStep

(* A reconcile that owes the host its resolver stays on the way to it.     *)
LEMMA RunnerOwes ==
    ASSUME HostInv, NEW r \in Runners, RunnerStep(r)
    PROVE  OwedAlone'
<1>1. /\ GoesOn(r)
      /\ todo'[r] = todo[r] \/ Over(r)
      /\ UNCHANGED <<backend, session, swept>>
    BY RunnerGoesOn
<1>2. at[r] # "idle" /\ \A q \in Runners \ {r} : at'[q] = at[q]
    BY <1>1, RunnerIsAtWork, Zenon DEF GoesOn
<1>3. /\ owed \in [Runners -> BOOLEAN] /\ at \in [Runners -> Places]
      /\ unseen \in [Runners -> SUBSET Services] /\ copied \in [Runners -> Contents]
      /\ service \in [Services -> {"host", "override"}] /\ backend \in {"nft", "pf"}
      /\ OwedAlone
    BY DEF HostInv, HostTypeOK
<1>4. \A q \in Runners : owed'[q] => owed[q]
    <2>1. CASE UNCHANGED owed
        BY <2>1
    <2>2. CASE owed' = [owed EXCEPT ![r] = FALSE]
        BY <1>3, <2>2
    <2>3. UNCHANGED owed \/ owed' = [owed EXCEPT ![r] = FALSE]
        BY DEF RunnerStep, enable, load, flush, detect, reconcile_dns, exists, read, rename,
           copy, truncate, write, remove, stale, list, look, LookAt
    <2> QED
        BY <2>1, <2>2, <2>3
<1>5. ASSUME NEW q \in Runners \ {r}, owed'[q] /\ at'[q] # "idle" PROVE FALSE
    BY <1>2, <1>3, <1>4, <1>5 DEF OwedAlone, Alone
<1>6. ASSUME owed'[r], at'[r] # "idle"
      PROVE  Alone(r)' /\ OwedAt(r)'
    <2>1. owed[r] /\ Alone(r) /\ OwedAt(r)
        BY <1>2, <1>3, <1>4, <1>6 DEF OwedAlone
    <2>2. Alone(r)'
        BY <1>1, <1>2, <2>1 DEF Alone
    <2>3. CASE enable(r) \/ load(r) \/ flush(r) \/ detect(r)
        <3>1. /\ UNCHANGED <<backend, resolv, backup, service, copied, unseen>>
              /\ at'[r] \in {"idle", "enable", "load", "flush", "detect", "list", "exists"}
            BY <1>1, <2>3, FirewallApart DEF resolver
        <3>2. at[r] \in {"enable", "load", "flush", "detect"}
            BY <2>3 DEF enable, load, flush, detect
        <3> QED
            BY <2>1, <2>2, <3>1, <3>2 DEF OwedAt
    <2>4. CASE list(r) \/ look(r)
        <3>1. backend = "pf"
            BY <2>4, ReconcilePlaces DEF reconcile_dns
        <3>2. CASE list(r)
            BY <1>1, <1>3, <2>2, <3>1, <3>2 DEF list, OwedAt, Fail
        <3>3. CASE look(r) /\ (Succeed(r) \/ Fail(r))
            <4>1. at'[r] # "look"
                BY <1>2, <3>3, CommandEnds DEF Over
            <4> QED
                BY <1>1, <2>2, <3>1, <4>1 DEF OwedAt
        <3>4. ASSUME NEW s \in unseen[r], LookAt(r, s), at[r] = "look" PROVE OwedAt(r)'
            <4>1. s \in Services /\ service' = [service EXCEPT ![s] = "host"]
                BY <1>3, <1>6, <3>4 DEF LookAt
            <4>2. unseen'[r] = unseen[r] \ {s}
                BY <1>3, <3>4 DEF LookAt
            <4> QED
                BY <1>1, <1>3, <2>1, <3>1, <3>4, <4>1, <4>2 DEF OwedAt
        <3> QED
            BY <2>2, <2>4, <3>2, <3>3, <3>4 DEF look, ServiceStep
    <2>5. CASE reconcile_dns(r) /\ ~(list(r) \/ look(r))
        <3>1. backend = "nft" /\ UNCHANGED <<service, unseen>>
            BY <2>5, ReconcilePlaces
        <3>2. SUFFICES /\ backup' \in {"none", "host"}
                       /\ backup' = "none" => resolv' = "host"
                       /\ at'[r] \in {"truncate", "write", "remove"} =>
                            copied'[r] = "host" /\ backup' = "host"
                       /\ resolv' = "empty" => at'[r] = "write"
                       /\ at'[r] \in {"remove", "stale"} => resolv' = "host"
                       /\ at'[r] \notin {"look", "unread"}
            BY <1>1, <2>2, <3>1 DEF OwedAt
        <3>3. /\ backup \in {"none", "host"}
              /\ backup = "none" => resolv = "host"
              /\ at[r] \in {"truncate", "write", "remove"} => copied[r] = "host" /\ backup = "host"
              /\ resolv = "empty" => at[r] = "write"
              /\ at[r] \in {"remove", "stale"} => resolv = "host"
              /\ at[r] # "unread"
              /\ resolv \in Contents
            BY <2>1, <3>1 DEF OwedAt, HostInv, HostTypeOK
        <3>4. ~Fail(r)
            BY <1>3, <1>6 DEF Fail
        <3>5. ASSUME Succeed(r)
              PROVE  at'[r] \notin {"truncate", "write", "remove", "stale", "look", "unread"}
            BY <1>2, <3>5, CommandEnds DEF Over
        <3>6. ASSUME NEW place, Goto(r, place) PROVE at'[r] = place
            BY <1>3, <3>6 DEF Goto
        <3>7. CASE exists(r)
            BY <3>3, <3>5, <3>6, <3>7 DEF exists, FileStep
        <3>8. CASE read(r)
            <4>1. Goto(r, IF resolv = "override" THEN "rename" ELSE "stale")
                BY <1>3, <1>6, <3>8 DEF read
            <4> QED
                BY <3>3, <3>6, <3>8, <4>1 DEF read, FileStep, Contents
        <3>9. CASE rename(r)
            BY <3>3, <3>5, <3>6, <3>9 DEF rename, FileStep
        <3>10. CASE copy(r)
            BY <1>3, <3>3, <3>4, <3>6, <3>10 DEF copy, FileStep
        <3>11. CASE truncate(r)
            BY <3>3, <3>4, <3>6, <3>11 DEF truncate, FileStep
        <3>12. CASE write(r)
            BY <3>3, <3>4, <3>6, <3>12 DEF write, FileStep
        <3>13. CASE remove(r) \/ stale(r)
            BY <3>3, <3>4, <3>5, <3>13 DEF remove, stale, RemoveBackup, FileStep
        <3> QED
            BY <2>5, <3>7, <3>8, <3>9, <3>10, <3>11, <3>12, <3>13 DEF reconcile_dns
    <2> QED
        BY <2>2, <2>3, <2>4, <2>5 DEF RunnerStep
<1> QED
    BY <1>5, <1>6 DEF OwedAlone

(* So every command keeps the invariant.                                   *)
LEMMA RunnerKeepsInv ==
    ASSUME HostInv, NEW r \in Runners, RunnerStep(r)
    PROVE  HostInv'
<1>1. /\ GoesOn(r)
      /\ todo'[r] = todo[r] \/ Over(r)
      /\ UNCHANGED <<backend, session, swept>>
    BY RunnerGoesOn
<1>2. at[r] # "idle"
    BY RunnerIsAtWork
<1>3. /\ PlaceOfCommand' /\ ToldAtTheEnd' /\ RisesAlone'
      /\ todo' \in [Runners -> Seq(Commands)]
      /\ at' \in [Runners -> Places]
      /\ told' \in [Runners -> {"none", "ok", "failed"}]
      /\ \A q \in Runners : at'[q] = "idle" <=> todo'[q] = <<>>
    BY <1>1, <1>2, PlansKept
<1>4. HostTypeOK'
    BY <1>1, <1>3, RunnerTypes DEF HostInv, HostTypeOK, Contents
<1> QED
    BY <1>3, <1>4, RunnerEnablesFirst, RunnerStaysAlone, RunnerFiles, RunnerOwes DEF HostInv

-----------------------------------------------------------------------------
(* A plan begins at its first command.                                     *)
LEMMA BeginKeepsInv ==
    ASSUME HostInv, NEW r \in Runners, Begin(r)
    PROVE  HostInv'
<1>0. HostTypeOK /\ PlaceOfCommand /\ EnabledFirst /\ ToldAtTheEnd /\ RisesAlone
      /\ OneHand /\ FilesTell /\ OwedAlone
    BY DEF HostInv
<1>1. /\ UNCHANGED <<backend, pfEnabled, engine, lockdown, resolv, backup, service, session,
                     unseen, copied>>
      /\ told' = [told EXCEPT ![r] = "none"] /\ at[r] = "idle"
      /\ r = "daemon" => session # "rising"
      /\ owed' = [q \in Runners |-> q = r /\ Alone(r) /\ Dns # "lost"]
      /\ swept' = IF r = "daemon" /\ session = "up" THEN swept ELSE ~Alone(r)
    BY DEF Begin, artifacts, resolver
<1>2. PICK plan \in Plans(r) :
        /\ r = "daemon" /\ session = "up" => plan \in MeantForSessions
        /\ todo' = [todo EXCEPT ![r] = plan]
        /\ at' = [at EXCEPT ![r] = Entry(Head(plan))]
    BY DEF Begin
<1>3. plan \in Seq(Commands) /\ plan # <<>> /\ Head(plan) \in Commands
    BY PlansAreCommands
<1>4. /\ Entry(Head(plan)) \in Places \ {"idle"}
      /\ Head(plan) \in Installs => Entry(Head(plan)) = IF backend = "pf" THEN "enable" ELSE "load"
      /\ Head(plan) \in Clears => Entry(Head(plan)) = "flush"
      /\ Head(plan) \in Detections => Entry(Head(plan)) = "detect"
      /\ Head(plan) = "reconcile_dns" =>
           Entry(Head(plan)) = IF backend = "pf" THEN "list" ELSE "exists"
    BY <1>0, <1>3, EntryIsAPlace DEF HostTypeOK
<1>5. /\ todo'[r] = plan /\ at'[r] = Entry(Head(plan)) /\ told'[r] = "none"
      /\ \A q \in Runners \ {r} : todo'[q] = todo[q] /\ at'[q] = at[q] /\ told'[q] = told[q]
    BY <1>0, <1>1, <1>2 DEF HostTypeOK
<1>6. HostTypeOK'
    <2>1. /\ todo' \in [Runners -> Seq(Commands)]
          /\ at' \in [Runners -> Places]
          /\ told' \in [Runners -> {"none", "ok", "failed"}]
        BY <1>0, <1>1, <1>2, <1>3, <1>4 DEF HostTypeOK
    <2>2. \A q \in Runners : at'[q] = "idle" <=> todo'[q] = <<>>
        BY <1>0, <1>3, <1>4, <1>5 DEF HostTypeOK
    <2>3. swept' \in BOOLEAN
        BY <1>0, <1>1 DEF HostTypeOK, Alone
    <2>4. owed' \in [Runners -> BOOLEAN]
        BY <1>1
    <2> QED
        BY <1>0, <1>1, <2>1, <2>2, <2>3, <2>4 DEF HostTypeOK
<1>7. PlaceOfCommand'
    <2> SUFFICES ASSUME NEW q \in Runners, todo'[q] # <<>>
                 PROVE  /\ Command(q)' \in Installs =>
                             at'[q] = "load" \/ (backend = "pf" /\ at'[q] = "enable")
                        /\ Command(q)' \in Clears => at'[q] = "flush"
                        /\ Command(q)' \in Detections => at'[q] = "detect"
                        /\ Command(q)' = "reconcile_dns" =>
                             at'[q] \in (IF backend = "pf" THEN ServicePlaces ELSE FilePlaces)
        BY <1>1 DEF PlaceOfCommand
    <2>1. CASE q = r
        BY <1>4, <1>5, <2>1 DEF Command, ServicePlaces, FilePlaces
    <2>2. CASE q # r
        <3>1. todo'[q] = todo[q] /\ at'[q] = at[q] /\ Command(q)' = Command(q)
            BY <1>5, <2>2 DEF Command
        <3> QED
            BY <1>0, <3>1 DEF PlaceOfCommand
    <2> QED
        BY <2>1, <2>2
<1>8. EnabledFirst'
    <2>1. backend = "pf" => at'[r] # "load"
        BY <1>3, <1>4, <1>5 DEF Commands
    <2> QED
        BY <1>0, <1>1, <1>5, <2>1 DEF EnabledFirst
<1>9. RisesAlone' /\ ToldAtTheEnd'
    BY <1>0, <1>1, <1>5 DEF RisesAlone, ToldAtTheEnd, Runners
<1>10. at'[r] \in {"enable", "load", "flush", "detect", "list", "exists"}
    BY <1>3, <1>4, <1>5 DEF Commands
<1>11. ASSUME ~swept' PROVE OneHand' /\ FilesTell'
    <2>1. CASE r = "daemon" /\ session = "up"
        <3>1. ~swept /\ at["beside"] = "idle" /\ plan \in MeantForSessions
            BY <1>0, <1>1, <1>2, <1>11, <2>1 DEF OneHand
        <3>2. OneHand'
            BY <1>0, <1>1, <1>5, <2>1, <3>1 DEF OneHand, Runners
        <3>3. FilesTell'
            BY <1>5, <1>10, <2>1, <3>1 DEF FilesTell, FilesAt, Runners
        <3> QED
            BY <3>2, <3>3
    <2>2. CASE ~(r = "daemon" /\ session = "up")
        <3>1. session = "none" /\ \A q \in Runners \ {r} : at'[q] = "idle"
            BY <1>0, <1>1, <1>5, <1>11, <2>2 DEF Alone
        <3> QED
            BY <1>1, <1>10, <3>1 DEF OneHand, FilesTell, FilesAt
    <2> QED
        BY <2>1, <2>2
<1>12. OwedAlone'
    <2> SUFFICES ASSUME owed'[r] PROVE Alone(r)' /\ OwedAt(r)'
        BY <1>1 DEF OwedAlone
    <2>1. Alone(r) /\ Dns # "lost"
        BY <1>1
    <2>2. Alone(r)'
        BY <1>1, <1>5, <2>1 DEF Alone
    <2>3. ASSUME backend = "nft"
          PROVE  /\ backup \in {"none", "host"}
                 /\ backup = "none" => resolv = "host"
                 /\ resolv # "empty"
        <3>1. ~Writing
            BY <1>1, <2>1 DEF Writing, Alone
        <3> QED
            BY <2>1, <2>3, <3>1 DEF Dns
    <2> QED
        BY <1>1, <1>10, <2>2, <2>3 DEF OwedAt
<1> QED
    BY <1>6, <1>7, <1>8, <1>9, <1>11, <1>12 DEF HostInv, OneHand, FilesTell

(* A runner that dies leaves the host as it is, and no plan.               *)
LEMMA CrashKeepsInv ==
    ASSUME HostInv, NEW r \in Runners, Crash(r)
    PROVE  HostInv'
<1>0. HostTypeOK /\ PlaceOfCommand /\ EnabledFirst /\ ToldAtTheEnd /\ RisesAlone
      /\ OneHand /\ FilesTell /\ OwedAlone
    BY DEF HostInv
<1>1. /\ UNCHANGED <<backend, pfEnabled, engine, lockdown, resolv, backup, service,
                     copied, swept>>
      /\ session' = IF r = "daemon" THEN "none" ELSE session
      /\ todo' = [todo EXCEPT ![r] = <<>>]
      /\ at' = [at EXCEPT ![r] = "idle"]
      /\ unseen' = [unseen EXCEPT ![r] = {}]
      /\ owed' = [owed EXCEPT ![r] = FALSE]
      /\ told' = [told EXCEPT ![r] = "none"]
    BY DEF Crash, artifacts, resolver
<1>2. /\ todo'[r] = <<>> /\ at'[r] = "idle" /\ told'[r] = "none"
      /\ \A q \in Runners \ {r} :
           /\ todo'[q] = todo[q] /\ at'[q] = at[q] /\ told'[q] = told[q]
           /\ unseen'[q] = unseen[q] /\ owed'[q] = owed[q]
    BY <1>0, <1>1 DEF HostTypeOK
<1>3. HostTypeOK'
    <2>1. <<>> \in Seq(Commands)
        OBVIOUS
    <2>2. /\ todo' \in [Runners -> Seq(Commands)]
          /\ at' \in [Runners -> Places]
          /\ told' \in [Runners -> {"none", "ok", "failed"}]
          /\ unseen' \in [Runners -> SUBSET Services]
          /\ owed' \in [Runners -> BOOLEAN]
          /\ session' \in {"none", "rising", "up"}
        BY <1>0, <1>1, <2>1 DEF HostTypeOK, Places
    <2>3. \A q \in Runners : at'[q] = "idle" <=> todo'[q] = <<>>
        BY <1>0, <1>2 DEF HostTypeOK
    <2> QED
        BY <1>0, <1>1, <2>2, <2>3 DEF HostTypeOK
<1>4. PlaceOfCommand' /\ EnabledFirst' /\ ToldAtTheEnd'
    BY <1>0, <1>1, <1>2 DEF PlaceOfCommand, EnabledFirst, ToldAtTheEnd, Command
<1>5. RisesAlone' /\ OneHand' /\ FilesTell'
    <2>1. CASE r = "daemon"
        BY <1>0, <1>1, <1>2, <2>1 DEF RisesAlone, OneHand, FilesTell, FilesAt, Runners
    <2>2. CASE r = "beside"
        BY <1>0, <1>1, <1>2, <2>2 DEF RisesAlone, OneHand, FilesTell, FilesAt, Runners
    <2> QED
        BY <2>1, <2>2 DEF Runners
<1>6. OwedAlone'
    <2> SUFFICES ASSUME NEW q \in Runners \ {r}, owed[q], at[q] # "idle"
                 PROVE  Alone(q)' /\ OwedAt(q)'
        BY <1>2 DEF OwedAlone
    <2>1. Alone(q) /\ OwedAt(q)
        BY <1>0 DEF OwedAlone
    <2> QED
        BY <1>1, <1>2, <2>1 DEF Alone, OwedAt
<1> QED
    BY <1>3, <1>4, <1>5, <1>6 DEF HostInv

(* The engine puts the resolver aside before it pushes its own, and puts   *)
(* it back when the session ends.                                          *)
LEMMA EngineKeepsInv ==
    ASSUME HostInv, EngineStarts \/ EngineRises \/ EngineDrops
    PROVE  HostInv'
<1>0. HostTypeOK /\ PlaceOfCommand /\ EnabledFirst /\ ToldAtTheEnd /\ RisesAlone
      /\ OneHand /\ FilesTell /\ OwedAlone
    BY DEF HostInv
<1>1. /\ UNCHANGED <<backend, lockdown, todo, at, unseen, copied, told>>
      /\ owed' = owed \/ owed' = [r \in Runners |-> FALSE]
    BY DEF EngineStarts, EngineRises, EngineDrops, runnerVars, artifacts
<1>2. HostTypeOK'
    <2>1. CASE EngineStarts
        BY <1>0, <1>1, <2>1 DEF HostTypeOK, EngineStarts, artifacts, Contents
    <2>2. CASE EngineRises
        BY <1>0, <1>1, <2>2 DEF HostTypeOK, EngineRises, Contents, runnerVars
    <2>3. CASE EngineDrops
        BY <1>0, <1>1, <2>3 DEF HostTypeOK, EngineDrops, Contents, runnerVars
    <2> QED
        BY <2>1, <2>2, <2>3
<1>3. PlaceOfCommand' /\ ToldAtTheEnd'
    BY <1>0, <1>1 DEF PlaceOfCommand, ToldAtTheEnd, Command
<1>4. RisesAlone'
    BY <1>0, <1>1 DEF RisesAlone, EngineStarts, EngineRises, EngineDrops
<1>5. EnabledFirst'
    BY <1>0, <1>1 DEF EnabledFirst, HostTypeOK, EngineStarts, EngineRises, EngineDrops, artifacts
<1>6. OwedAlone'
    <2>1. CASE EngineStarts
        BY <2>1 DEF EngineStarts, OwedAlone
    <2>2. CASE EngineRises \/ EngineDrops
        <3>1. \A r \in Runners : ~(owed[r] /\ at[r] # "idle")
            BY <1>0, <2>2 DEF OwedAlone, Alone, EngineRises, EngineDrops
        <3> QED
            BY <1>1, <3>1 DEF OwedAlone
    <2> QED
        BY <2>1, <2>2
<1>7. ASSUME ~swept' PROVE OneHand' /\ FilesTell'
    <2>0. \A r \in Runners : r \in {"daemon", "beside"}
        BY DEF Runners
    <2>1. CASE EngineStarts
        <3>1. at["daemon"] = "idle" /\ at["beside"] = "idle" /\ todo["daemon"] = <<>>
            BY <1>0, <1>7, <2>1 DEF EngineStarts, HostTypeOK, Runners
        <3>2. backend = "nft" => backup' # "none"
            BY <1>0, <2>1 DEF EngineStarts, HostTypeOK, Contents
        <3> QED
            BY <1>1, <2>0, <2>1, <3>1, <3>2 DEF EngineStarts, OneHand, FilesTell, FilesAt
    <2>2. CASE EngineRises
        <3>1. at["daemon"] = "idle" /\ at["beside"] = "idle" /\ todo["daemon"] = <<>>
              /\ (backend = "nft" => backup # "none")
            BY <1>0, <1>7, <2>2 DEF EngineRises, HostTypeOK, RisesAlone, OneHand, Runners
        <3> QED
            BY <1>1, <2>0, <2>2, <3>1 DEF EngineRises, OneHand, FilesTell, FilesAt
    <2>3. CASE EngineDrops
        <3>1. at["daemon"] = "idle" /\ at["beside"] = "idle"
            BY <1>0, <1>7, <2>3 DEF EngineDrops, HostTypeOK, OneHand, Runners
        <3> QED
            BY <1>1, <2>0, <2>3, <3>1 DEF EngineDrops, OneHand, FilesTell, FilesAt
    <2> QED
        BY <2>1, <2>2, <2>3
<1> QED
    BY <1>2, <1>3, <1>4, <1>5, <1>6, <1>7 DEF HostInv, OneHand, FilesTell

(* Another program's write crosses a reconcile at most.                    *)
LEMMA OtherWritesKeepsInv ==
    ASSUME HostInv, OtherWrites
    PROVE  HostInv'
<1>0. HostTypeOK /\ PlaceOfCommand /\ EnabledFirst /\ ToldAtTheEnd /\ RisesAlone
      /\ OneHand /\ FilesTell /\ OwedAlone
    BY DEF HostInv
<1>1. /\ UNCHANGED <<backend, pfEnabled, engine, lockdown, backup, service, session, todo, at,
                     unseen, owed, copied, told>>
      /\ resolv' = "host" /\ backend = "nft"
      /\ swept' = (swept \/ \E r \in Runners : at[r] \in FilePlaces)
    BY DEF OtherWrites, artifacts, runnerVars
<1>2. HostTypeOK' /\ PlaceOfCommand' /\ EnabledFirst' /\ ToldAtTheEnd' /\ RisesAlone'
    BY <1>0, <1>1 DEF HostTypeOK, PlaceOfCommand, EnabledFirst, ToldAtTheEnd, RisesAlone,
       Command, Contents
<1>3. OneHand' /\ FilesTell'
    BY <1>0, <1>1 DEF OneHand, FilesTell, FilesAt, FilePlaces
<1>4. OwedAlone'
    BY <1>0, <1>1 DEF OwedAlone, OwedAt, Alone
<1> QED
    BY <1>2, <1>3, <1>4 DEF HostInv

(* The invariant is one: every step keeps it.                              *)
LEMMA HostInvStep == HostInv /\ [Next]_vars => HostInv'
<1> SUFFICES ASSUME HostInv, [Next]_vars PROVE HostInv'
    OBVIOUS
<1>1. CASE UNCHANGED vars
    <2>1. UNCHANGED <<backend, pfEnabled, engine, lockdown, resolv, backup, service, session,
                      todo, at, unseen, owed, copied, told, swept>>
        BY <1>1 DEF vars, artifacts, resolver, runnerVars
    <2> QED
        BY <2>1 DEF HostInv, HostTypeOK, PlaceOfCommand, EnabledFirst, ToldAtTheEnd, RisesAlone,
           OneHand, FilesTell, FilesAt, OwedAlone, OwedAt, Alone, Command
<1> QED
    BY <1>1, RunnerKeepsInv, BeginKeepsInv, CrashKeepsInv, EngineKeepsInv, OtherWritesKeepsInv
       DEF Next

(* In every behaviour of the host.                                         *)
LEMMA HostInvariance == HostSpec => []HostInv
BY HostInvInit, HostInvStep, PTL DEF HostSpec

-----------------------------------------------------------------------------
(* The host's state has its type, for any services.                        *)
THEOREM HostTypes == HostSpec => []HostTypeOK
<1>1. HostInv => HostTypeOK
    BY DEF HostInv
<1> QED
    BY <1>1, HostInvariance, PTL

(* What is loaded filters: pf is enabled before every load, and nobody     *)
(* disables it.                                                            *)
THEOREM LoadedRulesFilter == HostSpec => []LoadedFilters
<1>1. HostInv => LoadedFilters
    BY DEF HostInv, EnabledFirst, LoadedFilters
<1> QED
    BY <1>1, HostInvariance, PTL

(* What a command reports is so: it has changed the table it is for, the   *)
(* reconcile has given the host its resolver back when it was alone and    *)
(* passed nothing over, and one that fails has changed no table.           *)
THEOREM CommandsTellTheTruth == HostSpec => CommandsTell
<1>1. ASSUME HostInv, [Next]_vars, NEW r \in Runners, todo[r] # <<>>,
             Succeeds(r) \/ told'[r] = "failed"
      PROVE  RunnerStep(r)
    <2>1. /\ at[r] # "idle" /\ told[r] = "none" /\ todo[r] \in Seq(Commands)
          /\ todo \in [Runners -> Seq(Commands)] /\ told \in [Runners -> {"none", "ok", "failed"}]
        BY <1>1 DEF HostInv, HostTypeOK, ToldAtTheEnd
    <2>2. Tail(todo[r]) # todo[r]
        BY <1>1, <2>1, TailIsAnother
    <2>3. ~(todo'[r] = todo[r] /\ told'[r] = told[r])
        BY <1>1, <2>1, <2>2 DEF Succeeds
    <2>4. ASSUME NEW q \in Runners, q # r, RunnerStep(q) \/ Begin(q) \/ Crash(q) PROVE FALSE
        <3>1. RunnerStep(q) => GoesOn(q)
            BY <1>1, RunnerGoesOn
        <3>2. todo'[r] = todo[r] /\ told'[r] = told[r]
            BY <2>1, <2>4, <3>1 DEF GoesOn, Begin, Crash
        <3> QED
            BY <2>3, <3>2
    <2>5. ~Begin(r)
        BY <2>1 DEF Begin
    <2>6. ~Crash(r)
        BY <1>1, <2>1 DEF Crash, Succeeds
    <2>7. ~(EngineStarts \/ EngineRises \/ EngineDrops \/ OtherWrites \/ UNCHANGED vars)
        BY <2>3 DEF EngineStarts, EngineRises, EngineDrops, OtherWrites, vars, runnerVars
    <2> QED
        BY <1>1, <2>4, <2>5, <2>6, <2>7 DEF Next
<1>2. ASSUME HostInv, NEW r \in Runners, RunnerStep(r), told'[r] = "failed"
      PROVE  UNCHANGED <<engine, lockdown>>
    <2>1. todo[r] # <<>> /\ told[r] = "none" /\ todo'[r] = <<>>
        BY <1>2, RunnerIsAtWork, RunnerGoesOn DEF HostInv, HostTypeOK, ToldAtTheEnd, GoesOn
    <2>2. ~Succeed(r)
        BY <1>2, <2>1 DEF HostInv, HostTypeOK, Succeed
    <2> QED
        BY <1>2, <2>2 DEF RunnerStep, enable, load, flush, detect, artifacts, reconcile_dns, exists,
           read, rename, copy, truncate, write, remove, stale, FileStep, list, look, ServiceStep
<1>3. ASSUME HostInv, NEW r \in Runners, RunnerStep(r), Succeeds(r)
      PROVE  Done(r)
    <2>1. /\ at[r] # "idle" /\ told[r] = "none" /\ UNCHANGED backend
          /\ at \in [Runners -> Places] /\ todo \in [Runners -> Seq(Commands)]
          /\ told \in [Runners -> {"none", "ok", "failed"}]
          /\ backend \in {"nft", "pf"} /\ service \in [Services -> {"host", "override"}]
        BY <1>3, RunnerIsAtWork, RunnerGoesOn DEF HostInv, HostTypeOK, ToldAtTheEnd, Succeeds
    <2>2. ~Fail(r) /\ \A place : ~Goto(r, place)
        <3>1. ~Fail(r)
            BY <1>3, <2>1 DEF Fail, Succeeds
        <3>2. todo'[r] # todo[r]
            <4>1. todo[r] \in Seq(Commands) /\ todo[r] # <<>>
                BY <1>3, <2>1 DEF Succeeds
            <4> QED
                BY <1>3, <4>1, TailIsAnother DEF Succeeds
        <3> QED
            BY <3>1, <3>2 DEF Goto
    <2>3. CASE enable(r) \/ load(r) \/ flush(r) \/ detect(r)
        <3>1. /\ Command(r) # "reconcile_dns"
              /\ Command(r) \in Installs => load(r)
              /\ Command(r) \in Clears => flush(r)
            BY <1>3, <2>1, <2>2, <2>3, CommandOfPlace
               DEF enable, load, flush, detect, Installs, Clears, Detections
        <3> QED
            BY <2>2, <3>1 DEF Done, load, flush, Installs, Clears
    <2>4. CASE reconcile_dns(r)
        <3>1. Command(r) = "reconcile_dns"
            BY <1>3, <2>4, ReconcilePlaces
        <3> SUFFICES ASSUME owed[r]
                     PROVE  Dns' = "host" /\ (backend = "nft" => backup' = "none")
            BY <3>1 DEF Done
        <3>2. OwedAt(r)
            BY <1>3, <2>1 DEF HostInv, OwedAlone
        <3>3. CASE exists(r) \/ rename(r) \/ remove(r) \/ stale(r)
            <4>1. backend' = "nft"
                BY <1>3, <2>1, <3>3, CommandOfPlace
                   DEF exists, rename, remove, stale, FileStep, FilePlaces
            <4>2. resolv' = "host" /\ backup' = "none"
                BY <2>1, <2>2, <3>2, <3>3, <4>1
                   DEF exists, rename, remove, stale, RemoveBackup, FileStep, OwedAt
            <4> QED
                BY <4>1, <4>2 DEF Dns
        <3>4. CASE read(r) \/ copy(r) \/ truncate(r) \/ write(r) \/ list(r)
            BY <2>2, <3>4 DEF read, copy, truncate, write, list
        <3>5. CASE look(r)
            <4>1. backend' = "pf" /\ at[r] = "look"
                BY <1>3, <2>1, <3>5, CommandOfPlace DEF look, ServiceStep, ServicePlaces
            <4>2. unseen[r] = {} /\ UNCHANGED service
                BY <2>2, <3>5 DEF look
            <4>3. \A s \in Services : service'[s] # "override"
                BY <2>1, <3>2, <4>1, <4>2 DEF OwedAt
            <4>4. Dns' = "host"
                BY <4>1, <4>3 DEF Dns
            <4> QED
                BY <2>1, <4>1, <4>4
        <3> QED
            BY <2>4, <3>3, <3>4, <3>5 DEF reconcile_dns
    <2> QED
        BY <1>3, <2>3, <2>4 DEF RunnerStep
<1>4. HostInv /\ [Next]_vars =>
        [\A r \in Runners :
           /\ Succeeds(r) => Done(r)
           /\ todo[r] # <<>> /\ told'[r] = "failed" => UNCHANGED <<engine, lockdown>>]_vars
    BY <1>1, <1>2, <1>3 DEF Succeeds
<1> QED
    BY <1>4, HostInvariance, PTL DEF HostSpec, CommandsTell

-----------------------------------------------------------------------------
(* What each step does to the resolver Netblock sees, when one hand at a   *)
(* time is at it.                                                          *)

(* The host's own stays, what is lost is lost or repaired, and an override *)
(* is lost only at a cut write or to a file that cannot be read.           *)
KeepsResolver ==
    /\ Dns = "host" => Dns' = "host"
    /\ Dns = "lost" => Dns' # "override"
    /\ Dns = "override" /\ Dns' = "lost" => \E r \in Runners : at[r] \in {"write", "unread"}

LEMMA ResolversAreThree == Dns \in {"host", "override", "lost"}
BY DEF Dns

(* Nobody is in the middle of a write but the runner.                      *)
LEMMA RunnerKeepsResolver ==
    ASSUME HostInv, NEW r \in Runners, RunnerStep(r), ~swept
    PROVE  KeepsResolver
<1>1. /\ GoesOn(r)
      /\ todo'[r] = todo[r] \/ Over(r)
      /\ UNCHANGED <<backend, session, swept>>
    BY RunnerGoesOn
<1>2. at[r] # "idle" /\ \A q \in Runners \ {r} : at[q] = "idle" /\ at'[q] = "idle"
    <2>1. at[r] # "idle" /\ \A q \in Runners \ {r} : at[q] = "idle"
        BY RunnerIsAtWork, OneRunner
    <2> QED
        BY <1>1, <2>1, Zenon DEF GoesOn
<1>3. Writing <=> resolv = "empty" /\ backup = "host" /\ at[r] = "write" /\ copied[r] = "host"
    BY <1>2 DEF Writing
<1>4. Writing' <=> /\ resolv' = "empty" /\ backup' = "host"
                   /\ at'[r] = "write" /\ copied'[r] = "host"
    BY <1>2 DEF Writing
<1>5. /\ FilesAt(r) /\ at \in [Runners -> Places] /\ copied \in [Runners -> Contents]
      /\ resolv \in Contents /\ backup \in Contents \cup {"none"}
      /\ backend \in {"nft", "pf"} /\ service \in [Services -> {"host", "override"}]
    BY DEF HostInv, FilesTell, HostTypeOK
<1>6. CASE enable(r) \/ load(r) \/ flush(r) \/ detect(r)
    <2>1. UNCHANGED <<backend, resolv, backup, service>> /\ ~Writing /\ ~Writing'
        <3>1. at[r] # "write" /\ at'[r] # "write"
            BY <1>6, FirewallApart DEF enable, load, flush, detect
        <3> QED
            BY <1>1, <1>3, <1>4, <1>6, <3>1, FirewallApart DEF resolver
    <2>2. Dns' = Dns
        BY <2>1 DEF Dns
    <2> QED
        BY <2>2 DEF KeepsResolver
<1>7. CASE list(r) \/ look(r)
    <2>1. backend = "pf"
        BY <1>7, ReconcilePlaces DEF reconcile_dns
    <2>2. \A s \in Services : service'[s] = "override" => service[s] = "override"
        BY <1>5, <1>7 DEF list, look, LookAt
    <2> QED
        BY <1>1, <2>1, <2>2 DEF Dns, KeepsResolver
<1>8. CASE reconcile_dns(r) /\ ~(list(r) \/ look(r))
    <2>1. backend = "nft" /\ UNCHANGED service
        BY <1>8, ReconcilePlaces
    <2>2. ASSUME Succeed(r) \/ Fail(r) PROVE at'[r] # "write"
        BY <1>2, <2>2, CommandEnds DEF Over
    <2>3. ASSUME NEW place, Goto(r, place) PROVE at'[r] = place
        BY <1>5, <2>3 DEF Goto
    <2> USE <1>1, <1>3, <1>4, <1>5, <2>1 DEF KeepsResolver, Dns, FilesAt, FileStep, Contents
    <2>4. CASE exists(r)
        BY <2>2, <2>3, <2>4 DEF exists
    <2>5. CASE read(r)
        BY <2>3, <2>5 DEF read
    <2>6. CASE rename(r)
        BY <2>2, <2>3, <2>6 DEF rename
    <2>7. CASE copy(r)
        BY <2>2, <2>3, <2>7 DEF copy
    <2>8. CASE truncate(r)
        BY <2>2, <2>3, <2>8 DEF truncate
    <2>9. CASE write(r)
        BY <2>2, <2>3, <2>9 DEF write
    <2>10. CASE remove(r) \/ stale(r)
        BY <2>2, <2>10 DEF remove, stale, RemoveBackup
    <2> QED
        BY <1>8, <2>4, <2>5, <2>6, <2>7, <2>8, <2>9, <2>10 DEF reconcile_dns
<1> QED
    BY <1>6, <1>7, <1>8 DEF RunnerStep, reconcile_dns

(* A plan that begins, a runner that dies and another program's write.     *)
LEMMA OthersKeepResolver ==
    ASSUME HostInv, ~swept,
           (\E r \in Runners : Begin(r) \/ Crash(r)) \/ OtherWrites
    PROVE  KeepsResolver
<1>1. /\ UNCHANGED <<backend, backup, service, copied>>
      /\ resolv' = resolv \/ (resolv' = "host" /\ backend = "nft")
    BY DEF Begin, Crash, OtherWrites, resolver, runnerVars
<1>2. /\ resolv \in Contents /\ backup \in Contents \cup {"none"} /\ backend \in {"nft", "pf"}
      /\ at \in [Runners -> Places] /\ todo \in [Runners -> Seq(Commands)]
    BY DEF HostInv, HostTypeOK
<1>3. Writing' => Writing
    <2>1. ASSUME NEW r \in Runners, Begin(r) PROVE at'[r] # "write"
        <3>1. PICK plan \in Plans(r) : at' = [at EXCEPT ![r] = Entry(Head(plan))]
            BY <2>1 DEF Begin
        <3>2. Head(plan) \in Commands
            BY PlansAreCommands
        <3> QED
            BY <1>2, <3>1, <3>2, EntryIsAPlace DEF Commands
    <2>2. ASSUME NEW r \in Runners, Begin(r) \/ Crash(r), NEW q \in Runners, at'[q] = "write"
          PROVE  at[q] = "write"
        <3>1. q # r
            BY <1>2, <2>1, <2>2 DEF Crash
        <3> QED
            BY <1>2, <2>2, <3>1 DEF Begin, Crash
    <2>3. ASSUME NEW r \in Runners, Begin(r) \/ Crash(r) PROVE Writing' => Writing
        <3>1. resolv' = resolv
            BY <2>3 DEF Begin, Crash, resolver
        <3> QED
            BY <1>1, <2>2, <2>3, <3>1 DEF Writing
    <2>4. CASE OtherWrites
        BY <2>4 DEF OtherWrites, Writing
    <2> QED
        BY <2>3, <2>4
<1>4. Writing => Writing' \/ resolv' = "host" \/ \E r \in Runners : at[r] = "write"
    BY DEF Writing
<1>5. CASE Dns = "host"
    BY <1>1, <1>2, <1>3, <1>5 DEF Dns, KeepsResolver, Contents, Writing
<1>6. CASE Dns = "lost"
    BY <1>1, <1>2, <1>3, <1>6 DEF Dns, KeepsResolver, Contents, Writing
<1>7. CASE Dns = "override"
    BY <1>1, <1>2, <1>3, <1>4, <1>7 DEF Dns, KeepsResolver, Contents, Writing
<1> QED
    BY <1>5, <1>6, <1>7, ResolversAreThree

(* The engine puts aside what it finds, and puts that back.                *)
LEMMA EngineAtResolver ==
    ASSUME HostInv
    PROVE  /\ EngineStarts => Dns' = Dns
           /\ EngineRises /\ ~swept => Dns' = IF Dns = "lost" THEN "lost" ELSE "override"
           /\ EngineDrops /\ ~swept => Dns' = IF Dns = "lost" THEN "lost" ELSE "host"
<1>0. /\ resolv \in Contents /\ backup \in Contents \cup {"none"} /\ backend \in {"nft", "pf"}
      /\ service \in [Services -> {"host", "override"}]
    BY DEF HostInv, HostTypeOK
<1>1. ASSUME EngineStarts PROVE Dns' = Dns
    <2>1. (~Writing /\ ~Writing') \/ backend = "pf"
        BY <1>0, <1>1 DEF EngineStarts, Writing
    <2> QED
        BY <1>0, <1>1, <2>1 DEF EngineStarts, Dns, resolver, Contents
<1>2. ASSUME session # "none", ~swept
      PROVE  /\ backend = "nft" => backup # "none" /\ (resolv = "empty" => backup # "host")
             /\ session = "up" => resolv # "empty" \/ backend = "pf"
             /\ ~Writing \/ backend = "pf"
    <2>1. /\ backend = "nft" => backup # "none" /\ (resolv = "empty" => backup # "host")
          /\ session = "up" => resolv # "empty" \/ backend = "pf"
        BY <1>0, <1>2 DEF HostInv, OneHand
    <2> QED
        BY <1>0, <2>1 DEF Writing
<1>3. ASSUME EngineRises, ~swept PROVE Dns' = IF Dns = "lost" THEN "lost" ELSE "override"
    <2>1. /\ session = "rising" /\ UNCHANGED <<backend, backup>>
          /\ backend = "nft" => resolv' = "override" /\ UNCHANGED service
          /\ backend = "pf" => service' = [s \in Services |-> "override"]
        BY <1>0, <1>3 DEF EngineRises
    <2>2. CASE backend = "nft"
        <3>1. ~Writing' /\ ~Writing
            BY <1>2, <1>3, <2>1, <2>2 DEF Writing
        <3> QED
            BY <1>0, <1>2, <1>3, <2>1, <2>2, <3>1 DEF Dns, Contents
    <2>3. CASE backend = "pf"
        <3>1. \E s \in Services : service'[s] = "override"
            BY <2>1, <2>3, ServicesAssumption
        <3> QED
            BY <2>1, <2>3, <3>1 DEF Dns
    <2> QED
        BY <1>0, <2>2, <2>3
<1>4. ASSUME EngineDrops, ~swept PROVE Dns' = IF Dns = "lost" THEN "lost" ELSE "host"
    <2>1. /\ session = "up" /\ UNCHANGED backend /\ backup' = "none"
          /\ service' = [s \in Services |-> "host"]
          /\ resolv' = IF backup = "none" THEN resolv ELSE backup
        BY <1>4 DEF EngineDrops
    <2>2. CASE backend = "nft"
        <3>1. ~Writing' /\ ~Writing
            BY <1>2, <1>4, <2>1, <2>2 DEF Writing
        <3> QED
            BY <1>0, <1>2, <1>4, <2>1, <2>2, <3>1 DEF Dns, Contents
    <2>3. CASE backend = "pf"
        BY <2>1, <2>3 DEF Dns
    <2> QED
        BY <1>0, <2>2, <2>3
<1> QED
    BY <1>1, <1>3, <1>4

(* An override is lost only where the restore through the file is cut, or  *)
(* to a file that cannot be read, as long as one hand at a time is at the  *)
(* resolver.                                                               *)
THEOREM OverridesCanBeUndone == HostSpec => OverrideCanBeUndone
<1>1. ASSUME HostInv, [Next]_vars, Dns = "override", Dns' = "lost", ~swept
      PROVE  \E r \in Runners : at[r] \in {"write", "unread"}
    <2>1. CASE UNCHANGED vars
        <3>1. Dns' = Dns
            BY <2>1 DEF vars, resolver, runnerVars, Dns, Writing
        <3> QED
            BY <1>1, <3>1
    <2>2. CASE EngineStarts \/ EngineRises \/ EngineDrops
        BY <1>1, <2>2, EngineAtResolver
    <2>3. CASE \E r \in Runners : RunnerStep(r)
        BY <1>1, <2>3, RunnerKeepsResolver DEF KeepsResolver
    <2>4. CASE (\E r \in Runners : Begin(r) \/ Crash(r)) \/ OtherWrites
        BY <1>1, <2>4, OthersKeepResolver DEF KeepsResolver
    <2> QED
        BY <1>1, <2>1, <2>2, <2>3, <2>4 DEF Next
<1>2. HostInv /\ [Next]_vars =>
        [Dns = "override" /\ Dns' = "lost"
         => swept \/ \E r \in Runners : at[r] \in {"write", "unread"}]_vars
    BY <1>1
<1> QED
    BY <1>2, HostInvariance, PTL DEF HostSpec, OverrideCanBeUndone

-----------------------------------------------------------------------------
(* Every step of the host is one of Netblock's, or none it sees.           *)
NetSees == <<engine, lockdown, Dns>>

LEMMA NetResolver ==
    ASSUME HostInv, UNCHANGED <<engine, lockdown>>, swept \/ KeepsResolver
    PROVE  Net!NetNext(swept)
<1>1. Dns \in {"host", "override", "lost"} /\ Dns' \in {"host", "override", "lost"}
    BY DEF Dns
<1>2. swept \in BOOLEAN
    BY DEF HostInv, HostTypeOK
<1>3. Net!reconcile_dns("failed", swept)
    BY <1>1, <1>2 DEF Net!reconcile_dns, Net!Resolvers, KeepsResolver
<1> QED
    BY <1>3 DEF Net!NetNext, Net!DnsEnds

LEMMA NetFirewall ==
    ASSUME HostInv, NEW r \in Runners, enable(r) \/ load(r) \/ flush(r) \/ detect(r)
    PROVE  Net!NetNext(swept) \/ UNCHANGED NetSees
<1>1. /\ UNCHANGED <<backend, resolv, backup, service, copied>> /\ at'[r] # "write"
      /\ at[r] # "write" /\ \A q \in Runners \ {r} : at'[q] = at[q]
    <2>1. RunnerStep(r) /\ at[r] # "write"
        BY DEF RunnerStep, enable, load, flush, detect
    <2> QED
        BY <2>1, FirewallApart, RunnerGoesOn DEF GoesOn, resolver
<1>2. Dns' = Dns
    <2>1. Writing' = Writing
        BY <1>1 DEF Writing
    <2> QED
        BY <1>1, <2>1 DEF Dns
<1>3. TRUE \in Net!Outcomes
    BY DEF Net!Outcomes
<1>4. CASE enable(r) \/ detect(r)
    BY <1>2, <1>4 DEF enable, detect, artifacts, NetSees
<1>5. CASE load(r)
    <2>1. (Net!install_lockdown(TRUE) \/ Net!install_connecting_guard(TRUE) \/ UNCHANGED lockdown)
          /\ UNCHANGED engine
        BY <1>5 DEF load, Net!install_lockdown, Net!install_connecting_guard
    <2> QED
        BY <1>2, <1>3, <2>1 DEF Net!NetNext, Net!NetCommand, NetSees
<1>6. CASE flush(r)
    <2>1. \/ Net!clear_lockdown(TRUE) /\ UNCHANGED engine
          \/ Net!clear_engine_block(TRUE) /\ UNCHANGED lockdown
          \/ UNCHANGED <<engine, lockdown>>
        BY <1>6 DEF flush, Net!clear_lockdown, Net!clear_engine_block
    <2> QED
        BY <1>2, <1>3, <2>1 DEF Net!NetNext, Net!NetCommand, NetSees
<1> QED
    BY <1>4, <1>5, <1>6

LEMMA NetEngine ==
    ASSUME HostInv, EngineStarts \/ EngineRises \/ EngineDrops
    PROVE  Net!NetNext(swept) \/ UNCHANGED NetSees
<1>1. Dns' \in {"host", "override", "lost"} /\ Dns \in {"host", "override", "lost"}
    BY DEF Dns
<1>2. swept \in BOOLEAN
    BY DEF HostInv, HostTypeOK
<1>3. CASE EngineStarts
    BY <1>3, EngineAtResolver DEF EngineStarts, artifacts, NetSees
<1>4. CASE EngineRises
    <2>1. Net!EngineInstall(swept) /\ UNCHANGED lockdown
        BY <1>1, <1>2, <1>4, EngineAtResolver DEF EngineRises, Net!EngineInstall, Net!Resolvers
    <2> QED
        BY <2>1 DEF Net!NetNext
<1>5. CASE EngineDrops
    <2>1. Net!EngineDrop(TRUE, swept) /\ UNCHANGED lockdown
        BY <1>1, <1>2, <1>5, EngineAtResolver DEF EngineDrops, Net!EngineDrop, Net!Resolvers
    <2> QED
        BY <2>1 DEF Net!NetNext
<1> QED
    BY <1>3, <1>4, <1>5

(* The host works as Netblock, which the daemon's model is built on, says. *)
THEOREM HostImplementsNetblock == HostSpec => ImplementsNetblock
<1>1. Init => Net!NetInit
    <2> SUFFICES ASSUME Init PROVE Net!NetInit
        OBVIOUS
    <2>1. Dns = "host"
        BY DEF Init, Dns
    <2> QED
        BY <2>1 DEF Init, Net!NetInit
<1>2. HostInv /\ [Next]_vars => [Net!NetNext(swept)]_NetSees
    <2> SUFFICES ASSUME HostInv, [Next]_vars PROVE Net!NetNext(swept) \/ UNCHANGED NetSees
        OBVIOUS
    <2>1. CASE UNCHANGED vars
        BY <2>1 DEF vars, artifacts, resolver, runnerVars, NetSees, Dns, Writing
    <2>2. CASE EngineStarts \/ EngineRises \/ EngineDrops
        BY <2>2, NetEngine
    <2>3. ASSUME NEW r \in Runners, RunnerStep(r) PROVE Net!NetNext(swept) \/ UNCHANGED NetSees
        <3>1. CASE reconcile_dns(r)
            <4>1. UNCHANGED <<engine, lockdown>>
                BY <3>1 DEF reconcile_dns, exists, read, rename, copy, truncate, write, remove,
                   stale, FileStep, list, look, ServiceStep, artifacts
            <4> QED
                BY <2>3, <4>1, RunnerKeepsResolver, NetResolver
        <3> QED
            BY <2>3, <3>1, NetFirewall DEF RunnerStep
    <2>4. CASE (\E r \in Runners : Begin(r) \/ Crash(r)) \/ OtherWrites
        <3>1. UNCHANGED <<engine, lockdown>>
            BY <2>4 DEF Begin, Crash, OtherWrites, artifacts
        <3> QED
            BY <2>4, <3>1, OthersKeepResolver, NetResolver
    <2> QED
        BY <2>1, <2>2, <2>3, <2>4 DEF Next
<1>3. HostInv /\ [Next]_vars => [Net!NetNext(swept)]_<<engine, lockdown, Dns>>
    BY <1>2 DEF NetSees
<1> QED
    BY <1>1, <1>3, HostInvariance, PTL DEF HostSpec, ImplementsNetblock

================================================================================
