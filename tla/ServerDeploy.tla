---------------------------- MODULE ServerDeploy ----------------------------
(***************************************************************************)
(* The server deploy CLI (server/deploy/kaoiro-server-deploy.mjs): the     *)
(* journalled transaction of `update`, the two recoveries of `rollback`,   *)
(* the plain commands `start` and `build`, and what survives a kill of the *)
(* CLI: the journals, the archives, the lock directory, the tag `latest`,  *)
(* the container and the data volume.                                      *)
(*                                                                         *)
(* An image is the number of the revision it was built from.  The volume   *)
(* holds a set of numbered writes and the newest image that has opened it. *)
(***************************************************************************)
EXTENDS Integers, FiniteSets

CONSTANTS MaxTx,      \* transactions created by `update`
          MaxImage,   \* newest revision that can be deployed
          MaxWrites,  \* writes of the running server
          MaxFaults,  \* kills and failing external commands
          Keep        \* keep_generations of the backup configuration

ASSUME DeployAssumption ==
    /\ MaxTx \in Nat /\ MaxImage \in Nat /\ MaxWrites \in Nat
    /\ MaxFaults \in Nat /\ Keep \in Nat

VARIABLES txs,     \* the transaction directories: journal, manifest and archives
          latest,  \* the image the tag kaoiro-server:latest names
          head,    \* the revision the checkout has been merged to
          cont,    \* the one container of the compose service
          vol,     \* the data volume
          lock,    \* the lock directory exists
          cli,     \* the command that holds the lock, and its next step
          written, \* number of writes made so far
          faults   \* number of faults so far

vars == <<txs, latest, head, cont, vol, lock, cli, written, faults>>
host == <<head, cont, vol, written>>

Tx == 1..MaxTx
Image == 0..MaxImage

(* Phases, by what the recovery table lets a command do in each. *)
Resumable == {"old_image_saved", "build_prepared", "env_consistency_checked",
              "maintenance_gate_passed"}
Stopping == {"stopping", "stopped", "mount_resolved", "archived"}
NonDestructive == Resumable \cup Stopping
Committed == {"starting", "up", "healthy"}
Destructive == Committed \cup {"done"}
MidRollback == {"rollback_stopped", "rollback_forensic_archived",
                "rollback_restoring", "rollback_restored"}
Terminal == {"done", "rolled_back"}
Phase == {"none", "preflight", "rolled_back", "pruned"}
            \cup NonDestructive \cup Destructive \cup MidRollback

(* The next step of a running command. *)
Steps == {"none", "save", "build", "built", "env", "placement", "gate", "fleet", "stop", "stopped",
          "mount", "archive", "pin", "starting", "up", "recordUp", "health", "stability", "prune",
          "close", "retag", "startOld", "startedOld", "halt", "halted", "forensic", "restoring",
          "wipe", "untar", "verify", "retagBack", "recreate", "oldHealth"}

Unfinished == {t \in Tx : txs[t].phase \notin Terminal \cup {"none", "pruned"}}

Volume == [data : SUBSET (1..MaxWrites), schema : Image, whole : BOOLEAN]
NoVolume == [data |-> {}, schema |-> 0, whole |-> FALSE]
NoRun == [cmd |-> "none", tx |-> 0, step |-> "none"]

(* A container is named by the transaction whose `compose up` created it:  *)
(* 0 is the one that runs at first.                                        *)
UpContainer(t) == 2 * t - 1
MutantBackContainer(t) == 2 * t + 1
BackContainer(t) == 2 * t

---------------------------------------------------------------------------
Init ==
    /\ txs = [t \in Tx |-> [phase |-> "none", old |-> 0, oldc |-> 0, target |-> 0,
                            archive |-> NoVolume, forensic |-> NoVolume]]
    /\ latest = 0 /\ head = 0
    /\ cont = [id |-> 0, image |-> 0, status |-> "running"]
    /\ vol = [data |-> {}, schema |-> 0, whole |-> TRUE]
    /\ lock = FALSE /\ cli = NoRun
    /\ written = 0 /\ faults = 0

(* The transaction the running command works on. *)
Tr == txs[cli.tx]
At(cmd, step) == cli.cmd = cmd /\ cli.step = step
GoTo(step) == cli' = [cli EXCEPT !.step = step] /\ UNCHANGED lock
Exit == cli' = NoRun /\ lock' = FALSE
Acquire(cmd, t, step) ==
    /\ ~lock
    /\ lock' = TRUE
    /\ cli' = [cmd |-> cmd, tx |-> t, step |-> step]
SetPhase(p) == txs' = [txs EXCEPT ![cli.tx].phase = p]

(* Advance journals phase p and nothing else. *)
Advance(cmd, step, p, next) ==
    /\ At(cmd, step)
    /\ SetPhase(p)
    /\ GoTo(next)
    /\ UNCHANGED <<latest, host, faults>>

(* A container that starts opens the volume: its image may convert the     *)
(* stores to its own format.                                               *)
Start(c) ==
    /\ cont' = [c EXCEPT !.status = "running"]
    /\ vol' = [vol EXCEPT !.schema = IF c.image > @ THEN c.image ELSE @]

---------------------------------------------------------------------------
(* `update`, prepare half: the server keeps running. *)

UpdateBegin(t, target) ==
    /\ txs[t].phase = "none"
    /\ \A u \in Tx : u < t => txs[u].phase # "none"
    /\ Unfinished = {}
    /\ cont.status = "running"
    /\ Acquire("update", t, "save")
    /\ txs' = [txs EXCEPT ![t] = [@ EXCEPT !.phase = "preflight", !.old = cont.image,
                                           !.oldc = cont.id, !.target = target]]
    /\ UNCHANGED <<latest, host, faults>>

SaveOldImage == Advance("update", "save", "old_image_saved", "build")

(* git merge --ff-only, then `compose build`, which moves `latest`. *)
BuildTarget ==
    /\ At("update", "build")
    /\ Tr.target >= head
    /\ head' = Tr.target
    /\ latest' = Tr.target
    /\ GoTo("built")
    /\ UNCHANGED <<txs, cont, vol, written, faults>>

(* The checkout is already past the target: the build fails, and the       *)
(* failure path puts `latest` back on the old image.                       *)
BuildRefused ==
    /\ At("update", "build")
    /\ Tr.target < head
    /\ latest' = Tr.old
    /\ Exit
    /\ UNCHANGED <<txs, host, faults>>

BuildPrepared == Advance("update", "built", "build_prepared", "env")

OldRuns == cont = [id |-> Tr.oldc, image |-> Tr.old, status |-> "running"]

EnvChecked ==
    /\ Advance("update", "env", "env_consistency_checked", "placement")
    /\ OldRuns

EnvRefused ==
    /\ At("update", "env")
    /\ ~OldRuns
    /\ latest' = Tr.old
    /\ Exit
    /\ UNCHANGED <<txs, host, faults>>

Placed ==
    /\ At("update", "placement")
    /\ GoTo("gate")
    /\ UNCHANGED <<txs, latest, host, faults>>

(* Without --maintenance-approved the command stops here. *)
GateRefused ==
    /\ At("update", "gate")
    /\ Exit
    /\ UNCHANGED <<txs, latest, host, faults>>

GatePassed ==
    Advance("update", "gate", "maintenance_gate_passed", "fleet")

FleetGuardPassed == Advance("update", "fleet", "stopping", "stop")

(* `update --transaction t`: only the transaction the directory scan finds *)
(* can be resumed, and only while a container runs.                        *)
ResumeStep(p) ==
    CASE p = "old_image_saved" -> "build"
      [] p = "build_prepared" -> "env"
      [] OTHER -> "placement"

Resume(t) ==
    /\ t \in Unfinished
    /\ txs[t].phase \in Resumable
    /\ cont.status = "running"
    /\ txs[t].phase = "old_image_saved" =>
            cont.id = txs[t].oldc /\ cont.image = txs[t].old
    /\ Acquire("update", t, ResumeStep(txs[t].phase))
    /\ UNCHANGED <<txs, latest, host, faults>>

---------------------------------------------------------------------------
(* `update`, commit half: there is no way back into it. *)

StopOld ==
    /\ At("update", "stop")
    /\ IF cont.status = "running" /\ cont.id = Tr.oldc
       THEN cont' = [cont EXCEPT !.status = "exited"] /\ GoTo("stopped")
       ELSE UNCHANGED cont /\ Exit
    /\ UNCHANGED <<txs, latest, head, vol, written, faults>>

Stopped == Advance("update", "stopped", "stopped", "mount")
MountResolved == Advance("update", "mount", "mount_resolved", "archive")

Archived ==
    /\ At("update", "archive")
    /\ txs' = [txs EXCEPT ![cli.tx] = [@ EXCEPT !.phase = "archived", !.archive = vol]]
    /\ GoTo("pin")
    /\ UNCHANGED <<latest, host, faults>>

(* Mutant: `latest` is not pinned again after the archive. *)
MutantPinTarget ==
    /\ At("update", "pin")
    /\ GoTo("starting")
    /\ UNCHANGED <<txs, latest, host, faults>>

(* writeManifest, then `latest` is pinned to the image of this transaction. *)
PinTarget ==
    /\ At("update", "pin")
    /\ latest' = Tr.target
    /\ GoTo("starting")
    /\ UNCHANGED <<txs, host, faults>>

Starting == Advance("update", "starting", "starting", "up")

(* `compose up`: a container whose image is not `latest` is replaced.      *)
ComposeUp ==
    /\ At("update", "up")
    /\ Start(IF cont.image = latest THEN cont
             ELSE [id |-> UpContainer(cli.tx), image |-> latest, status |-> "created"])
    /\ GoTo("recordUp")
    /\ UNCHANGED <<txs, latest, head, written, faults>>

UpRecorded ==
    /\ Advance("update", "recordUp", "up", "health")
    /\ cont.status = "running"

Healthy ==
    /\ Advance("update", "health", "healthy", "stability")
    /\ cont.status = "running" /\ cont.image = Tr.target

Done ==
    /\ Advance("update", "stability", "done", "prune")
    /\ cont.status = "running"

(* A check of the started container that finds it down. *)
StartedDown ==
    /\ cli.cmd = "update" /\ cli.step \in {"recordUp", "health", "stability"}
    /\ cont.status # "running" \/ (cli.step = "health" /\ cont.image # Tr.target)
    /\ Exit
    /\ UNCHANGED <<txs, latest, host, faults>>

(* The directories of completed transactions beyond keep_generations are   *)
(* deleted from the oldest, as far as the retention period has passed.     *)
Prune ==
    /\ At("update", "prune")
    /\ LET finished == {t \in Tx : txs[t].phase = "done"}
           newer(t) == {u \in finished : u > t}
           spare == {t \in finished : Cardinality(newer(t)) >= Keep} \ {cli.tx}
       IN \E aged \in 0..MaxTx :
            txs' = [t \in Tx |-> IF t \in spare /\ t <= aged
                                 THEN [txs[t] EXCEPT !.phase = "pruned", !.archive = NoVolume]
                                 ELSE txs[t]]
    /\ Exit
    /\ UNCHANGED <<latest, host, faults>>

---------------------------------------------------------------------------
(* `rollback --transaction t --confirm-restore` *)

RollbackStep(p) ==
    CASE p = "preflight" -> "close"
      [] p \in NonDestructive -> "retag"
      [] OTHER -> "halt"

(* Mutants: a rollback that may begin again half-way; one that refuses a   *)
(* transaction whose archive is complete.                                  *)
MutantRollbackAgain(t) ==
    /\ txs[t].phase \in {"preflight"} \cup NonDestructive \cup Destructive \cup MidRollback
    /\ Acquire("rollback", t, RollbackStep(txs[t].phase))
    /\ UNCHANGED <<txs, latest, host, faults>>

MutantRollbackBegin(t) ==
    /\ txs[t].phase \in {"preflight"} \cup (NonDestructive \ {"archived"}) \cup Destructive
    /\ Acquire("rollback", t, RollbackStep(txs[t].phase))
    /\ UNCHANGED <<txs, latest, host, faults>>

RollbackBegin(t) ==
    /\ txs[t].phase \in {"preflight"} \cup NonDestructive \cup Destructive
    /\ Acquire("rollback", t, RollbackStep(txs[t].phase))
    /\ UNCHANGED <<txs, latest, host, faults>>

RecordClosed ==
    /\ At("rollback", "close")
    /\ SetPhase("rolled_back")
    /\ Exit
    /\ UNCHANGED <<latest, host, faults>>

RetagOld ==
    /\ At("rollback", "retag")
    /\ latest' = Tr.old
    /\ GoTo("startOld")
    /\ UNCHANGED <<txs, host, faults>>

(* Mutant: whatever container there is gets started. *)
MutantStartOld ==
    /\ At("rollback", "startOld")
    /\ Start(cont)
    /\ GoTo("startedOld")
    /\ UNCHANGED <<txs, latest, head, written, faults>>

(* docker start of the recorded container, if it still is the old one. *)
StartOld ==
    /\ At("rollback", "startOld")
    /\ IF cont.id = Tr.oldc /\ cont.image = Tr.old
       THEN Start(cont) /\ GoTo("startedOld")
       ELSE UNCHANGED <<cont, vol>> /\ Exit
    /\ UNCHANGED <<txs, latest, head, written, faults>>

StartedOld ==
    /\ At("rollback", "startedOld")
    /\ SetPhase("rolled_back")
    /\ Exit
    /\ UNCHANGED <<latest, host, faults>>

(* Destructive: a running candidate is stopped; one that is then not       *)
(* `exited` refuses the rollback.                                          *)
HaltCandidates ==
    /\ At("rollback", "halt")
    /\ cont' = [cont EXCEPT !.status = IF @ = "running" THEN "exited" ELSE @]
    /\ IF cont'.status = "exited" THEN GoTo("halted") ELSE Exit
    /\ UNCHANGED <<txs, latest, head, vol, written, faults>>

RollbackStopped == Advance("rollback", "halted", "rollback_stopped", "forensic")

ForensicArchived ==
    /\ At("rollback", "forensic")
    /\ txs' = [txs EXCEPT ![cli.tx] = [@ EXCEPT !.phase = "rollback_forensic_archived",
                                                !.forensic = vol]]
    /\ GoTo("restoring")
    /\ UNCHANGED <<latest, host, faults>>

(* Mutant: the volume is kept, only the image goes back. *)
MutantRestoring == Advance("rollback", "restoring", "rollback_restoring", "verify")

Restoring == Advance("rollback", "restoring", "rollback_restoring", "wipe")

Wipe ==
    /\ At("rollback", "wipe")
    /\ cont.status # "running"
    /\ vol' = NoVolume
    /\ GoTo("untar")
    /\ UNCHANGED <<txs, latest, head, cont, written, faults>>

(* Mutant: the forensic archive is unpacked in place of the backup.        *)
MutantUntar ==
    /\ At("rollback", "untar")
    /\ vol' = Tr.forensic
    /\ GoTo("verify")
    /\ UNCHANGED <<txs, latest, head, cont, written, faults>>

Untar ==
    /\ At("rollback", "untar")
    /\ vol' = Tr.archive
    /\ GoTo("verify")
    /\ UNCHANGED <<txs, latest, head, cont, written, faults>>

Restored == Advance("rollback", "verify", "rollback_restored", "retagBack")

RetagBack ==
    /\ At("rollback", "retagBack")
    /\ latest' = Tr.old
    /\ GoTo("recreate")
    /\ UNCHANGED <<txs, host, faults>>

(* compose up --force-recreate, then the health poll for the old revision. *)
Recreate ==
    /\ At("rollback", "recreate")
    /\ Start([id |-> BackContainer(cli.tx), image |-> latest, status |-> "created"])
    /\ GoTo("oldHealth")
    /\ UNCHANGED <<txs, latest, head, written, faults>>

OldHealthy ==
    /\ At("rollback", "oldHealth")
    /\ IF cont.status = "running" /\ cont.image = Tr.old
       THEN SetPhase("rolled_back") ELSE UNCHANGED txs
    /\ Exit
    /\ UNCHANGED <<latest, host, faults>>

---------------------------------------------------------------------------
(* `start` looks at the container only, `build` at the checkout only. *)

StartCommand ==
    /\ ~lock
    /\ cont.status = "exited"
    /\ Start(cont)
    /\ UNCHANGED <<txs, latest, head, lock, cli, written, faults>>

BuildCommand(target) ==
    /\ ~lock
    /\ target >= head
    /\ head' = target /\ latest' = target
    /\ UNCHANGED <<txs, cont, vol, lock, cli, written, faults>>

---------------------------------------------------------------------------
(* Faults and the environment. *)

(* A command of a step fails.  Between the build and the gate the error    *)
(* path tags `latest` back, which may fail as well; a failing `compose up` *)
(* may leave a container that was created and never started.               *)
Preparing == {"build", "built", "env", "placement"}

StepFails ==
    /\ cli # NoRun /\ faults < MaxFaults
    /\ faults' = faults + 1
    /\ Exit
    /\ \/ cli.cmd = "update" /\ cli.step \in Preparing /\ latest' = Tr.old
       \/ UNCHANGED latest
    /\ \/ /\ cli.step = "recreate" \/ (cli.step = "up" /\ cont.image # latest)
          /\ cont' = [id |-> IF cli.step = "up" THEN UpContainer(cli.tx) ELSE BackContainer(cli.tx),
                      image |-> latest, status |-> "created"]
       \/ UNCHANGED cont
    /\ UNCHANGED <<txs, head, vol, written>>

(* The CLI is killed: the lock directory stays. *)
Kill ==
    /\ cli # NoRun /\ faults < MaxFaults
    /\ faults' = faults + 1
    /\ cli' = NoRun
    /\ UNCHANGED <<txs, latest, host, lock>>

(* The operator removes a lock no process holds (runbook 4.4 (0a)). *)
RemoveStaleLock ==
    /\ lock /\ cli = NoRun
    /\ lock' = FALSE
    /\ UNCHANGED <<txs, latest, host, cli, faults>>

(* The running server persists something. *)
ServerWrites ==
    /\ cont.status = "running" /\ written < MaxWrites
    /\ written' = written + 1
    /\ vol' = [vol EXCEPT !.data = @ \cup {written'}]
    /\ UNCHANGED <<txs, latest, head, cont, lock, cli, faults>>

(* The server is stopped from outside the CLI. *)
ServerStops ==
    /\ cont.status = "running" /\ faults < MaxFaults
    /\ faults' = faults + 1
    /\ cont' = [cont EXCEPT !.status = "exited"]
    /\ UNCHANGED <<txs, latest, head, vol, lock, cli, written>>

UpdateStep ==
    \/ SaveOldImage \/ BuildTarget \/ BuildRefused \/ BuildPrepared
    \/ EnvChecked \/ EnvRefused \/ Placed \/ GateRefused \/ GatePassed
    \/ FleetGuardPassed \/ StopOld \/ Stopped \/ MountResolved \/ Archived
    \/ PinTarget \/ Starting \/ ComposeUp \/ UpRecorded \/ Healthy \/ Done
    \/ StartedDown \/ Prune

RollbackSteps ==
    \/ RecordClosed \/ RetagOld \/ StartOld \/ StartedOld \/ HaltCandidates
    \/ RollbackStopped \/ ForensicArchived \/ Restoring \/ Wipe \/ Untar
    \/ Restored \/ RetagBack \/ Recreate \/ OldHealthy

CliStep == UpdateStep \/ RollbackSteps

Operator ==
    \/ \E t \in Tx, i \in Image : UpdateBegin(t, i)
    \/ \E t \in Tx : Resume(t)
    \/ \E t \in Tx : RollbackBegin(t)
    \/ StartCommand
    \/ \E i \in Image : BuildCommand(i)
    \/ RemoveStaleLock

Next ==
    \/ CliStep
    \/ Operator
    \/ StepFails \/ Kill \/ ServerWrites \/ ServerStops

Spec == Init /\ [][Next]_vars

(* A command that holds the lock goes on; the operator removes a stale lock *)
(* and, while a transaction is open, keeps running its rollback.            *)
FairSpec ==
    /\ Spec
    /\ WF_vars(CliStep)
    /\ WF_vars(RemoveStaleLock)
    /\ \A t \in Tx : SF_vars(txs[t].phase # "done" /\ RollbackBegin(t))

---------------------------------------------------------------------------
(* Properties. *)

TypeOK ==
    /\ txs \in [Tx -> [phase : Phase, old : Image, oldc : 0..2 * MaxTx, target : Image,
                       archive : Volume, forensic : Volume]]
    /\ latest \in Image /\ head \in Image
    /\ cont \in [id : 0..2 * MaxTx, image : Image, status : {"running", "exited", "created"}]
    /\ vol \in Volume
    /\ lock \in BOOLEAN
    /\ cli \in [cmd : {"none", "update", "rollback"}, tx : 0..MaxTx, step : Steps]
    /\ written \in 0..MaxWrites /\ faults \in 0..MaxFaults

(* An image never runs on data a newer image has opened nor on a partly    *)
(* restored volume, unless a journal says that a restore was interrupted:  *)
(* `start` looks at the container alone (runRollback: the backup restored  *)
(* must correspond to the image started).                                  *)
PairHeld ==
    cont.status = "running" =>
        \/ vol.schema <= cont.image /\ vol.whole
        \/ \E t \in Tx : txs[t].phase \in {"rollback_restoring", "rollback_restored"}

(* Whatever the server wrote is on the volume or in an archive: a restore  *)
(* and the pruning of old transactions destroy no only copy (the forensic  *)
(* archive of runRollback, pruneOldTransactions).                          *)
NothingLost ==
    1..written \subseteq
        vol.data \cup UNION {txs[t].archive.data \cup txs[t].forensic.data : t \in Tx}

(* When the new image is about to be started, the archive of the           *)
(* transaction is the volume as it is; the container it creates runs the   *)
(* image it built, whatever build has moved `latest` since; and it is done *)
(* only while the target image is the container and `latest` (runUpdate).  *)
CommitSound ==
    [][\A t \in Tx :
          /\ cont'.id = UpContainer(t) => cont'.image = txs[t].target
          /\ txs'[t].phase # txs[t].phase =>
                /\ txs'[t].phase = "starting" => txs'[t].archive = vol
                /\ txs'[t].phase \in {"healthy", "done"} =>
                      cont.image = txs[t].target /\ latest = txs[t].target]_vars

(* Transaction t is closed by a rollback that touched Docker. *)
RolledBack(t) ==
    txs[t].phase \notin {"preflight", "rolled_back"} /\ txs'[t].phase = "rolled_back"

(* No restore of the volume was interrupted half-way. *)
NoneInterrupted ==
    \A t \in Tx : txs[t].phase \notin {"rollback_restoring", "rollback_restored"}

(* A transaction is called rolled back only when the old image is the      *)
(* container and `latest` again and, unless the restore of another one was *)
(* interrupted, the volume is one this image can read (runRollback).       *)
RollbackSound ==
    [][\A t \in Tx : RolledBack(t) =>
          /\ cont.image = txs[t].old /\ latest = txs[t].old
          /\ NoneInterrupted' => vol.whole /\ vol.schema <= txs[t].old]_vars

(* The cases in which the rollback of an open transaction is refused for   *)
(* good: its container was replaced, or `compose up` left a container that *)
(* never started.                                                          *)
Refused(t) ==
    \/ txs[t].phase \in NonDestructive /\ cont.id # txs[t].oldc
    \/ txs[t].phase \in Committed /\ cont.status = "created"

(* Apart from these, an open transaction is eventually closed, or its      *)
(* rollback is interrupted half-way (RECOVERY_TABLE: every phase has a     *)
(* command that acts).                                                     *)
OpenIsClosed ==
    \A t \in Tx :
        txs[t].phase \in {"preflight"} \cup NonDestructive \cup Committed
            ~> \/ txs[t].phase \in Terminal \cup MidRollback \cup {"pruned"}
               \/ Refused(t)

(* How far transaction t is.  A restore is under way while a command is at *)
(* it; one whose command ended before the old container was healthy again  *)
(* is broken.                                                              *)
UnderRollback(t) == cli.cmd = "rollback" /\ cli.tx = t

Stage(t) ==
    LET p == txs[t].phase
    IN  CASE p = "preflight" -> "opened"
          [] p \in NonDestructive -> "prepared"
          [] p \in Committed -> "live"
          [] p = "rollback_stopped" -> "reverting"
          [] p = "rollback_forensic_archived" -> "aside"
          [] p \in {"rollback_restoring", "rollback_restored"} ->
                IF ~UnderRollback(t) THEN "broken"
                ELSE IF cli.step = "oldHealth" THEN "restored" ELSE "aside"
          [] OTHER -> p

Stages == [t \in Tx |-> Stage(t)]
Olds == [t \in Tx |-> txs[t].old]
Targets == [t \in Tx |-> txs[t].target]
Backups == [t \in Tx |-> txs[t].archive.data]
Asides == [t \in Tx |-> txs[t].forensic.data]

(* The data as the server sees them: from the wipe of the volume until the *)
(* container of the rollback has started they are what was put aside.      *)
Unseen == {"untar", "verify", "retagBack", "recreate"}
Seen == IF cli.cmd = "rollback" /\ cli.step \in Unseen THEN Tr.forensic.data ELSE vol.data

(* The CLI implements Deployment: an update starts its target only when    *)
(* its archive holds all that was written, a transaction never goes back   *)
(* in its life, and the old image and the archived data come back together *)
(* or the transaction can neither be rolled back nor completed any more.   *)
Life == INSTANCE Deployment WITH
    stage <- Stages, old <- Olds, target <- Targets, backup <- Backups,
    aside <- Asides, image <- cont.image, data <- Seen
ImplementsDeployment == Life!Safe

(* The same without exception, as the comment on runRollback has it: on    *)
(* the non-destructive path "the old container was never recreated and     *)
(* nothing on the volume has changed since PREFLIGHT".                     *)
RolledBackPair ==
    [][\A t \in Tx : RolledBack(t) => vol.whole /\ vol.schema <= txs[t].old]_vars
=============================================================================
