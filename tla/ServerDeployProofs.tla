-------------------------- MODULE ServerDeployProofs --------------------------
(***************************************************************************)
(* What ServerDeploy promises, for any number of transactions, images,     *)
(* writes and faults: TypeOK, NothingLost and PairHeld in every reachable  *)
(* state, CommitSound and RollbackSound of every step.                     *)
(*                                                                         *)
(* None of them is inductive.  That a container can read the volume rests  *)
(* on what an archive was made of, this on which container was stopped     *)
(* before it, this on what images containers with recorded names run, and  *)
(* all of it on the step a command is at, given the phase it journalled.   *)
(* DeployInv is that argument as six invariants, and each is shown to be   *)
(* kept with the help of the earlier ones.                                 *)
(*                                                                         *)
(* With it the refinement of Deployment is a matter of one step at a time. *)
(***************************************************************************)
EXTENDS ServerDeploy, TLAPS

-----------------------------------------------------------------------------
(* The inductive invariant.                                                *)

\* Where a command is in its transaction: it holds the lock, and the phase it has
\* journalled is the one its step follows.
CliInv ==
    \/ cli = NoRun
    \/ /\ lock /\ cli.tx \in Tx /\ cli.cmd = "update"
       /\ \/ cli.step = "save" /\ Tr.phase = "preflight"
          \/ cli.step \in {"build", "built"} /\ Tr.phase = "old_image_saved"
          \/ cli.step = "env" /\ Tr.phase = "build_prepared"
          \/ /\ cli.step \in {"placement", "gate"}
             /\ Tr.phase \in {"env_consistency_checked", "maintenance_gate_passed"}
          \/ cli.step = "fleet" /\ Tr.phase = "maintenance_gate_passed"
          \/ cli.step \in {"stop", "stopped"} /\ Tr.phase = "stopping"
          \/ cli.step = "mount" /\ Tr.phase = "stopped"
          \/ cli.step = "archive" /\ Tr.phase = "mount_resolved"
          \/ cli.step \in {"pin", "starting"} /\ Tr.phase = "archived"
          \/ cli.step \in {"up", "recordUp"} /\ Tr.phase = "starting"
          \/ cli.step = "health" /\ Tr.phase = "up"
          \/ cli.step = "stability" /\ Tr.phase = "healthy"
          \/ cli.step = "prune" /\ Tr.phase = "done"
    \/ /\ lock /\ cli.tx \in Tx /\ cli.cmd = "rollback"
       /\ \/ cli.step = "close" /\ Tr.phase = "preflight"
          \/ cli.step \in {"retag", "startOld", "startedOld"} /\ Tr.phase \in NonDestructive
          \/ cli.step \in {"halt", "halted"} /\ Tr.phase \in Destructive
          \/ cli.step = "forensic" /\ Tr.phase = "rollback_stopped"
          \/ cli.step = "restoring" /\ Tr.phase = "rollback_forensic_archived"
          \/ cli.step \in {"wipe", "untar", "verify"} /\ Tr.phase = "rollback_restoring"
          \/ cli.step \in {"retagBack", "recreate", "oldHealth"} /\ Tr.phase = "rollback_restored"

\* A transaction whose target is built and not yet running.
Prepared == (Resumable \ {"old_image_saved"}) \cup Stopping \cup {"starting"}
BuiltBy(t) == txs[t].phase \in Prepared \/ (At("update", "built") /\ cli.tx = t)

\* The checkout is never behind an image, and a transaction past its build does not
\* deploy an older image than the one it replaces.
BuiltInv ==
    /\ latest <= head /\ cont.image <= head
    /\ \A t \in Tx :
         /\ txs[t].old <= head
         /\ BuiltBy(t) => txs[t].old <= txs[t].target /\ txs[t].target <= head

\* The image that container id runs: it is created once, by one transaction.
Runs(id, i) ==
    /\ id = 0 => i = 0
    /\ \A u \in Tx :
         /\ id = UpContainer(u) => txs[u].phase # "none" /\ i = txs[u].target
         /\ id = BackContainer(u) => txs[u].phase # "none" /\ i = txs[u].old

\* A recorded container runs the image recorded with it.
ContainerInv ==
    /\ Runs(cont.id, cont.image)
    /\ \A t \in Tx : txs[t].phase # "none" => Runs(txs[t].oldc, txs[t].old)

\* What a command under way has done and nobody else can undo while it holds the lock.
HeldInv ==
    /\ cli.cmd = "update" =>
         /\ cli.step \in {"stopped", "mount", "archive", "pin", "starting", "up"} =>
              cont.status # "running" /\ cont.id = Tr.oldc
         /\ cli.step \in {"pin", "starting"} => Tr.archive = vol
         /\ cli.step \in {"starting", "up", "recordUp", "health", "stability"} =>
              latest = Tr.target
         /\ cli.step = "stability" => cont.image = Tr.target
    /\ cli.cmd = "rollback" =>
         /\ cli.step \in {"startOld", "startedOld", "recreate", "oldHealth"} => latest = Tr.old
         /\ cli.step = "startedOld" => cont.image = Tr.old
         /\ cli.step \in {"halted", "forensic", "restoring", "wipe", "untar", "verify",
                          "retagBack", "recreate"} => cont.status # "running"
         /\ cli.step \in {"restoring", "wipe"} => vol = Tr.forensic
         /\ cli.step = "untar" => vol.data = {}
         /\ cli.step \in {"verify", "retagBack", "recreate"} => vol = Tr.archive

\* Nothing is lost that is not on the volume or in a forensic archive, and a
\* transaction has none before its rollback comes to it.
BeforeForensic == {"none", "preflight", "rollback_stopped"} \cup NonDestructive \cup Destructive

SavedInv ==
    /\ 1..written \subseteq vol.data \cup UNION {txs[t].forensic.data : t \in Tx}
    /\ \A t \in Tx : txs[t].phase \in BeforeForensic => txs[t].forensic.data = {}

\* The restore of a transaction stopped half-way and no command is at it: for good,
\* as the rollback of such a transaction cannot begin again.
Interrupted == {"rollback_restoring", "rollback_restored"}

Broken ==
    \E t \in Tx : /\ txs[t].phase \in Interrupted
                  /\ ~(cli.cmd = "rollback" /\ cli.tx = t)

\* Unless a restore is broken, every archive that may be restored can be read by the
\* image it is restored for, and so can the volume by its container, except while a
\* restore is under way.
Restorable == {"archived"} \cup Destructive \cup MidRollback

ReadableInv ==
    ~Broken =>
      /\ \A t \in Tx : txs[t].phase \in Restorable =>
           txs[t].archive.whole /\ txs[t].archive.schema <= txs[t].old
      /\ NoneInterrupted => vol.whole /\ vol.schema <= cont.image
      /\ At("rollback", "oldHealth") => vol.whole /\ vol.schema <= Tr.old

DeployInv == CliInv /\ BuiltInv /\ ContainerInv /\ HeldInv /\ SavedInv /\ ReadableInv

-----------------------------------------------------------------------------
(* What the model's operators do.                                          *)

Journal == [phase : Phase, old : Image, oldc : 0..2 * MaxTx, target : Image,
            archive : Volume, forensic : Volume]

\* Only the phase of the command's transaction changes, to p.
Phased(p) ==
    /\ txs' \in [Tx -> Journal]
    /\ \A t \in Tx :
         /\ txs'[t].phase = IF t = cli.tx THEN p ELSE txs[t].phase
         /\ txs'[t].old = txs[t].old /\ txs'[t].oldc = txs[t].oldc
         /\ txs'[t].target = txs[t].target
         /\ txs'[t].archive = txs[t].archive /\ txs'[t].forensic = txs[t].forensic

\* A phase that is journalled.
LEMMA SetPhaseEffect ==
  ASSUME txs \in [Tx -> Journal], cli.tx \in Tx, NEW p \in Phase, SetPhase(p)
  PROVE  Phased(p)
  BY DEF SetPhase, Phased, Journal

\* A command at work on transaction t holds the lock.
LEMMA AtWork ==
  ASSUME CliInv, cli.cmd \in {"update", "rollback"}
  PROVE  lock /\ cli.tx \in Tx
  BY DEF CliInv, NoRun

\* A command that begins finds no other at work.
LEMMA AtRest ==
  ASSUME CliInv, ~lock
  PROVE  cli = NoRun
  BY DEF CliInv

\* A container that is started.
LEMMA StartTyped ==
  ASSUME vol \in Volume, NEW c, c \in [id : 0..2 * MaxTx, image : Image,
                                       status : {"running", "exited", "created"}],
         Start(c)
  PROVE  /\ cont' \in [id : 0..2 * MaxTx, image : Image, status : {"running", "exited", "created"}]
         /\ cont'.id = c.id /\ cont'.image = c.image /\ cont'.status = "running"
         /\ vol' \in Volume /\ vol'.data = vol.data /\ vol'.whole = vol.whole
         /\ vol'.schema \in {vol.schema, c.image} /\ vol'.schema >= vol.schema
         /\ vol'.schema = c.image \/ vol'.schema > c.image
         /\ vol.schema <= c.image => vol'.schema = c.image
  BY DEF Start, Volume, Image

\* Containers have names in the type's range.
LEMMA ContainerNames ==
  ASSUME NEW t \in Tx
  PROVE  UpContainer(t) \in 0..2 * MaxTx /\ BackContainer(t) \in 0..2 * MaxTx
  BY DeployAssumption DEF UpContainer, BackContainer, Tx

-----------------------------------------------------------------------------
(* Types.  They need CliInv: a command acts on a transaction that exists.  *)

Commands == [cmd : {"none", "update", "rollback"}, tx : 0..MaxTx, step : Steps]

\* The initial state: nothing deployed, nothing written.
LEMMA InitTyped == Init => TypeOK /\ DeployInv
<1> SUFFICES ASSUME Init PROVE TypeOK /\ DeployInv
  OBVIOUS
<1> USE DeployAssumption
<1>1. 0 \in Image /\ 0 \in 0..2 * MaxTx /\ 0 \in 0..MaxTx /\ "none" \in Phase
  BY DEF Image, Phase
<1>2. NoVolume \in Volume /\ [data |-> {}, schema |-> 0, whole |-> TRUE] \in Volume
  BY <1>1 DEF NoVolume, Volume
<1>3. \A t \in Tx : /\ txs[t].phase = "none" /\ txs[t].old = 0 /\ txs[t].forensic.data = {}
                    /\ UpContainer(t) # 0 /\ BackContainer(t) # 0
  BY DEF Init, Tx, UpContainer, BackContainer, NoVolume
<1>4. TypeOK
  <2>1. NoRun \in Commands
    BY <1>1 DEF NoRun, Steps, Commands
  <2>2. txs \in [Tx -> Journal]
    BY <1>1, <1>2 DEF Init, Journal
  <2>6. lock \in BOOLEAN
    BY DEF Init
  <2>3. written \in 0..MaxWrites /\ faults \in 0..MaxFaults
    BY DEF Init
  <2>4. cont \in [id : 0..2 * MaxTx, image : Image, status : {"running", "exited", "created"}]
    BY <1>1 DEF Init
  <2>5. cli = NoRun /\ latest \in Image /\ head \in Image /\ vol \in Volume
    BY <1>1, <1>2 DEF Init
  <2> QED  BY <2>1, <2>2, <2>3, <2>4, <2>5, <2>6 DEF TypeOK, Journal, Commands
<1>5. CliInv /\ HeldInv
  BY DEF Init, CliInv, HeldInv, NoRun
<1>6. BuiltInv
  BY <1>3 DEF Init, BuiltInv, BuiltBy, Prepared, Resumable, Stopping, At, NoRun
<1>7. ContainerInv
  BY <1>3 DEF Init, ContainerInv, Runs
<1>8. SavedInv
  BY <1>3 DEF Init, SavedInv
<1>9. ReadableInv
  BY <1>3 DEF Init, ReadableInv, Restorable, Destructive, Committed, MidRollback, At, NoRun
<1> QED  BY <1>4, <1>5, <1>6, <1>7, <1>8, <1>9 DEF DeployInv

\* The lock and the command stay what they are typed to be.
LEMMA ExitTyped ==
  ASSUME Exit
  PROVE  lock' \in BOOLEAN /\ cli' \in Commands
<1>1. 0 \in 0..MaxTx
  BY DeployAssumption
<1>2. NoRun \in Commands
  BY <1>1 DEF NoRun, Steps, Commands
<1> QED  BY <1>2 DEF Exit

\* A command that goes on.
LEMMA GoToTyped ==
  ASSUME TypeOK, NEW step \in Steps, GoTo(step)
  PROVE  lock' \in BOOLEAN /\ cli' \in Commands
  BY DEF GoTo, TypeOK, Commands

\* A command that begins.
LEMMA AcquireTyped ==
  ASSUME NEW cmd \in {"update", "rollback"}, NEW t \in Tx, NEW step \in Steps, Acquire(cmd, t, step)
  PROVE  lock' \in BOOLEAN /\ cli' \in Commands
  BY DEF Acquire, Commands, Tx

\* Every step keeps the types.
LEMMA NextTyped == TypeOK /\ CliInv /\ [Next]_vars => TypeOK'
<1> SUFFICES ASSUME TypeOK, CliInv, [Next]_vars PROVE TypeOK'
  OBVIOUS
<1> USE DeployAssumption
<1>1. txs \in [Tx -> Journal]
  BY DEF TypeOK, Journal
<1>2. ASSUME cli.cmd \in {"update", "rollback"} PROVE cli.tx \in Tx /\ Tr \in Journal
  BY <1>1, <1>2, AtWork DEF Tr
<1>3. ASSUME txs' \in [Tx -> Journal], latest' \in Image, lock' \in BOOLEAN, cli' \in Commands,
             UNCHANGED <<host, faults>>
      PROVE  TypeOK'
  BY <1>3 DEF TypeOK, Journal, Commands, host
<1>4. ASSUME UNCHANGED <<txs, latest, head, written, faults>>, lock' \in BOOLEAN, cli' \in Commands,
             cont' \in [id : 0..2 * MaxTx, image : Image, status : {"running", "exited", "created"}],
             vol' \in Volume
      PROVE  TypeOK'
  BY <1>4 DEF TypeOK, Commands
<1>5. ASSUME NEW cmd \in {"update", "rollback"}, NEW step, NEW p \in Phase, NEW next \in Steps,
             Advance(cmd, step, p, next)
      PROVE  TypeOK'
  <2>1. txs' \in [Tx -> Journal]
    BY <1>1, <1>2, <1>5, SetPhaseEffect DEF Advance, Phased, At
  <2> QED  BY <1>3, <1>5, <2>1, GoToTyped DEF Advance, TypeOK
<1>6. /\ Resumable \cup Stopping \cup Destructive \cup MidRollback \subseteq Phase
      /\ {"none", "preflight", "rolled_back", "pruned"} \subseteq Phase
  BY DEF Phase, NonDestructive
<1>7. CASE SaveOldImage
  BY <1>5, <1>6, <1>7 DEF SaveOldImage, Steps, Resumable, Stopping, Destructive, Committed, MidRollback
<1>8. CASE BuildPrepared
  BY <1>5, <1>6, <1>8 DEF BuildPrepared, Steps, Resumable, Stopping, Destructive, Committed, MidRollback
<1>9. CASE EnvChecked
  BY <1>5, <1>6, <1>9 DEF EnvChecked, Steps, Resumable, Stopping, Destructive, Committed, MidRollback
<1>10. CASE GatePassed
  BY <1>5, <1>6, <1>10 DEF GatePassed, Steps, Resumable, Stopping, Destructive, Committed, MidRollback
<1>11. CASE FleetGuardPassed
  BY <1>5, <1>6, <1>11 DEF FleetGuardPassed, Steps, Resumable, Stopping, Destructive, Committed, MidRollback
<1>12. CASE Stopped
  BY <1>5, <1>6, <1>12 DEF Stopped, Steps, Resumable, Stopping, Destructive, Committed, MidRollback
<1>13. CASE MountResolved
  BY <1>5, <1>6, <1>13 DEF MountResolved, Steps, Resumable, Stopping, Destructive, Committed, MidRollback
<1>14. CASE Starting
  BY <1>5, <1>6, <1>14 DEF Starting, Steps, Resumable, Stopping, Destructive, Committed, MidRollback
<1>15. CASE UpRecorded
  BY <1>5, <1>6, <1>15 DEF UpRecorded, Steps, Resumable, Stopping, Destructive, Committed, MidRollback
<1>16. CASE Healthy
  BY <1>5, <1>6, <1>16 DEF Healthy, Steps, Resumable, Stopping, Destructive, Committed, MidRollback
<1>17. CASE Done
  BY <1>5, <1>6, <1>17 DEF Done, Steps, Resumable, Stopping, Destructive, Committed, MidRollback
<1>18. CASE RollbackStopped
  BY <1>5, <1>6, <1>18 DEF RollbackStopped, Steps, Resumable, Stopping, Destructive, Committed, MidRollback
<1>19. CASE Restoring
  BY <1>5, <1>6, <1>19 DEF Restoring, Steps, Resumable, Stopping, Destructive, Committed, MidRollback
<1>20. CASE Restored
  BY <1>5, <1>6, <1>20 DEF Restored, Steps, Resumable, Stopping, Destructive, Committed, MidRollback
<1>21. CASE BuildRefused
  BY <1>1, <1>2, <1>3, <1>21, ExitTyped DEF BuildRefused, At, Journal, TypeOK
<1>22. CASE EnvRefused
  BY <1>1, <1>2, <1>3, <1>22, ExitTyped DEF EnvRefused, At, Journal, TypeOK
<1>23. CASE GateRefused
  BY <1>1, <1>2, <1>3, <1>23, ExitTyped DEF GateRefused, At, Journal, TypeOK
<1>24. CASE StartedDown
  BY <1>1, <1>2, <1>3, <1>24, ExitTyped DEF StartedDown, At, Journal, TypeOK
<1>25. CASE Placed
  BY <1>1, <1>2, <1>3, <1>25, GoToTyped DEF Steps, Placed, At, Journal, TypeOK
<1>26. CASE PinTarget
  BY <1>1, <1>2, <1>3, <1>26, GoToTyped DEF Steps, PinTarget, At, Journal, TypeOK
<1>27. CASE RetagOld
  BY <1>1, <1>2, <1>3, <1>27, GoToTyped DEF Steps, RetagOld, At, Journal, TypeOK
<1>28. CASE RetagBack
  BY <1>1, <1>2, <1>3, <1>28, GoToTyped DEF Steps, RetagBack, At, Journal, TypeOK
<1>29. CASE BuildTarget
  <2>1. latest' \in Image /\ head' \in Image
    BY <1>2, <1>29 DEF BuildTarget, At, Journal
  <2>2. lock' \in BOOLEAN /\ cli' \in Commands
    BY <1>29, GoToTyped DEF Steps, BuildTarget
  <2> QED  BY <1>29, <2>1, <2>2 DEF BuildTarget, TypeOK, Commands
<1>30. CASE StopOld
  <2>1. lock' \in BOOLEAN /\ cli' \in Commands
    BY <1>30, ExitTyped, GoToTyped DEF Steps, StopOld
  <2>2. cont' \in [id : 0..2 * MaxTx, image : Image, status : {"running", "exited", "created"}]
    BY <1>30 DEF StopOld, TypeOK
  <2> QED  BY <1>4, <1>30, <2>1, <2>2 DEF StopOld, TypeOK
<1>31. CASE HaltCandidates
  <2>1. lock' \in BOOLEAN /\ cli' \in Commands
    BY <1>31, ExitTyped, GoToTyped DEF Steps, HaltCandidates
  <2>2. cont' \in [id : 0..2 * MaxTx, image : Image, status : {"running", "exited", "created"}]
    BY <1>31 DEF HaltCandidates, TypeOK
  <2> QED  BY <1>4, <1>31, <2>1, <2>2 DEF HaltCandidates, TypeOK
<1>32. CASE Archived
  <2>1. txs' \in [Tx -> Journal]
    BY <1>1, <1>6, <1>32 DEF Archived, Journal, TypeOK, Stopping, MidRollback
  <2> QED  BY <1>3, <1>32, <2>1, GoToTyped DEF Steps, Archived, TypeOK
<1>33. CASE ForensicArchived
  <2>1. txs' \in [Tx -> Journal]
    BY <1>1, <1>6, <1>33 DEF ForensicArchived, Journal, TypeOK, Stopping, MidRollback
  <2> QED  BY <1>3, <1>33, <2>1, GoToTyped DEF Steps, ForensicArchived, TypeOK
<1>34. CASE ComposeUp
  <2> DEFINE c == IF cont.image = latest THEN cont
                  ELSE [id |-> UpContainer(cli.tx), image |-> latest, status |-> "created"]
  <2>1. c \in [id : 0..2 * MaxTx, image : Image, status : {"running", "exited", "created"}]
    BY <1>2, <1>34, ContainerNames DEF ComposeUp, At, TypeOK
  <2>2. Start(c)
    BY <1>34 DEF ComposeUp
  <2> HIDE DEF c
  <2> QED  BY <1>4, <1>34, <2>1, <2>2, StartTyped, GoToTyped DEF Steps, ComposeUp, TypeOK
<1>35. CASE StartOld
  <2>1. CASE Start(cont) /\ GoTo("startedOld")
    BY <1>4, <1>35, <2>1, StartTyped, GoToTyped DEF Steps, StartOld, TypeOK
  <2>2. CASE UNCHANGED <<cont, vol>> /\ Exit
    BY <1>4, <1>35, <2>2, ExitTyped DEF StartOld, TypeOK
  <2> QED  BY <1>35, <2>1, <2>2 DEF StartOld
<1>36. CASE Recreate
  <2> DEFINE c == [id |-> BackContainer(cli.tx), image |-> latest, status |-> "created"]
  <2>1. c \in [id : 0..2 * MaxTx, image : Image, status : {"running", "exited", "created"}]
    BY <1>2, <1>36, ContainerNames DEF Recreate, At, TypeOK
  <2>2. Start(c)
    BY <1>36 DEF Recreate
  <2> HIDE DEF c
  <2> QED  BY <1>4, <1>36, <2>1, <2>2, StartTyped, GoToTyped DEF Steps, Recreate, TypeOK
<1>37. CASE Prune
  <2>1. \A t \in Tx : txs'[t] = txs[t]
                       \/ txs'[t] = [txs[t] EXCEPT !.phase = "pruned", !.archive = NoVolume]
    BY <1>37 DEF Prune
  <2>2. NoVolume \in Volume
    BY DEF NoVolume, Volume, Image
  <2>3. \A t \in Tx : txs'[t] \in Journal
    <3> TAKE t \in Tx
    <3>1. txs[t] \in Journal
      BY <1>1, <1>6
    <3>2. [txs[t] EXCEPT !.phase = "pruned", !.archive = NoVolume] \in Journal
      BY <1>6, <2>2, <3>1 DEF Journal
    <3> QED  BY <2>1, <3>1, <3>2
  <2>4. txs' = [t \in Tx |-> txs'[t]]
    BY <1>37 DEF Prune
  <2> QED  BY <1>3, <1>37, <2>3, <2>4, ExitTyped DEF Prune, TypeOK
<1>38. CASE RecordClosed
  <2>1. txs' \in [Tx -> Journal]
    BY <1>1, <1>2, <1>6, <1>38, SetPhaseEffect DEF RecordClosed, At, Phased
  <2> QED  BY <1>3, <1>38, <2>1, ExitTyped DEF RecordClosed, TypeOK
<1>39. CASE StartedOld
  <2>1. txs' \in [Tx -> Journal]
    BY <1>1, <1>2, <1>6, <1>39, SetPhaseEffect DEF StartedOld, At, Phased
  <2> QED  BY <1>3, <1>39, <2>1, ExitTyped DEF StartedOld, TypeOK
<1>40. CASE OldHealthy
  <2>1. txs' \in [Tx -> Journal]
    BY <1>1, <1>2, <1>6, <1>40, SetPhaseEffect DEF OldHealthy, At, Phased
  <2> QED  BY <1>3, <1>40, <2>1, ExitTyped DEF OldHealthy, TypeOK
<1>41. CASE Wipe
  <2>1. NoVolume \in Volume
    BY DEF NoVolume, Volume, Image
  <2> QED  BY <1>4, <1>41, <2>1, GoToTyped DEF Steps, Wipe, TypeOK
<1>42. CASE Untar
  BY <1>2, <1>4, <1>42, GoToTyped DEF Steps, Untar, At, Journal, TypeOK
<1>43. ASSUME NEW t \in Tx, NEW i \in Image, UpdateBegin(t, i) PROVE TypeOK'
  <2>1. txs' \in [Tx -> Journal]
    BY <1>1, <1>6, <1>43 DEF UpdateBegin, TypeOK, Journal
  <2> QED  BY <1>3, <1>43, <2>1, AcquireTyped DEF Steps, UpdateBegin, TypeOK
<1>44. ASSUME NEW t \in Tx, Resume(t) PROVE TypeOK'
  <2>1. ASSUME NEW p PROVE ResumeStep(p) \in Steps
    BY DEF Steps, ResumeStep
  <2> QED  BY <1>1, <1>3, <1>44, <2>1, AcquireTyped DEF Resume, TypeOK
<1>45. ASSUME NEW t \in Tx, RollbackBegin(t) PROVE TypeOK'
  <2>1. ASSUME NEW p PROVE RollbackStep(p) \in Steps
    BY DEF Steps, RollbackStep
  <2> QED  BY <1>1, <1>3, <1>45, <2>1, AcquireTyped DEF RollbackBegin, TypeOK
<1>46. CASE StartCommand
  BY <1>46, StartTyped DEF StartCommand, TypeOK
<1>47. ASSUME NEW i \in Image, BuildCommand(i) PROVE TypeOK'
  BY <1>47 DEF BuildCommand, TypeOK
<1>48. CASE StepFails
  <2>1. cli.tx \in Tx /\ Tr \in Journal
    BY <1>1, <1>48 DEF StepFails, CliInv, Tr
  <2>2. UpContainer(cli.tx) \in 0..2 * MaxTx /\ BackContainer(cli.tx) \in 0..2 * MaxTx
    BY <2>1, ContainerNames
  <2>3. faults' \in 0..MaxFaults /\ latest' \in Image
    BY <1>48, <2>1 DEF StepFails, TypeOK, Journal
  <2>4. cont' \in [id : 0..2 * MaxTx, image : Image, status : {"running", "exited", "created"}]
    BY <1>48, <2>2 DEF StepFails, TypeOK
  <2> QED  BY <1>48, <2>3, <2>4, ExitTyped DEF StepFails, TypeOK, Commands
<1>49. CASE Kill
  <2>1. cli' \in Commands
    BY <1>49 DEF Kill, NoRun, Steps, Commands
  <2> QED  BY <1>49, <2>1 DEF Kill, host, TypeOK, Commands
<1>50. CASE RemoveStaleLock
  BY <1>50 DEF RemoveStaleLock, host, TypeOK
<1>51. CASE ServerWrites
  <2>1. written' \in 1..MaxWrites /\ written' \in 0..MaxWrites
    BY <1>51 DEF ServerWrites, TypeOK
  <2>2. vol' \in Volume
    BY <1>51, <2>1 DEF ServerWrites, TypeOK, Volume
  <2> QED  BY <1>51, <2>1, <2>2 DEF ServerWrites, TypeOK
<1>52. CASE ServerStops
  <2>1. cont' \in [id : 0..2 * MaxTx, image : Image, status : {"running", "exited", "created"}]
    BY <1>52 DEF ServerStops, TypeOK
  <2> QED  BY <1>52, <2>1 DEF ServerStops, TypeOK
<1>53. CASE UNCHANGED vars
  BY <1>53 DEF vars, TypeOK
<1> QED
  BY <1>7, <1>8, <1>9, <1>10, <1>11, <1>12, <1>13, <1>14, <1>15, <1>16, <1>17, <1>18, <1>19,
     <1>20, <1>21, <1>22, <1>23, <1>24, <1>25, <1>26, <1>27, <1>28, <1>29, <1>30, <1>31,
     <1>32, <1>33, <1>34, <1>35, <1>36, <1>37, <1>38, <1>39, <1>40, <1>41, <1>42, <1>43,
     <1>44, <1>45, <1>46, <1>47, <1>48, <1>49, <1>50, <1>51, <1>52, <1>53
     DEF Next, CliStep, UpdateStep, RollbackSteps, Operator

-----------------------------------------------------------------------------
(* Where a command is.                                                     *)

\* The command cmd journals phase p at step and goes on with step next.
Advanced(cmd, step, p, next) ==
    /\ cli.cmd = cmd /\ cli.step = step /\ cli.tx \in Tx /\ lock
    /\ cli'.cmd = cmd /\ cli'.step = next /\ cli'.tx = cli.tx /\ lock'
    /\ Phased(p) /\ UNCHANGED <<latest, head, cont, vol, written>>

\* A step that journals a phase and goes on.
LEMMA AdvanceEffect ==
  ASSUME TypeOK, CliInv, NEW cmd \in {"update", "rollback"}, NEW step, NEW p \in Phase, NEW next,
         Advance(cmd, step, p, next)
  PROVE  Advanced(cmd, step, p, next)
<1>1. cli.cmd = cmd /\ cli.step = step /\ cli.tx \in Tx /\ lock
  BY AtWork DEF Advance, At
<1>2. cli'.cmd = cmd /\ cli'.step = next /\ cli'.tx = cli.tx /\ lock'
  BY <1>1 DEF Advance, GoTo, TypeOK
<1>3. Phased(p)
  BY <1>1, SetPhaseEffect DEF Advance, TypeOK, Journal
<1> QED  BY <1>1, <1>2, <1>3 DEF Advance, Advanced, host

\* The steps that do nothing else, by command.
LEMMA AdvanceTable ==
  ASSUME TypeOK, CliInv
  PROVE  /\ SaveOldImage => Advanced("update", "save", "old_image_saved", "build")
         /\ BuildPrepared => Advanced("update", "built", "build_prepared", "env")
         /\ EnvChecked => Advanced("update", "env", "env_consistency_checked", "placement")
         /\ GatePassed => Advanced("update", "gate", "maintenance_gate_passed", "fleet")
         /\ FleetGuardPassed => Advanced("update", "fleet", "stopping", "stop")
         /\ Stopped => Advanced("update", "stopped", "stopped", "mount")
         /\ MountResolved => Advanced("update", "mount", "mount_resolved", "archive")
         /\ Starting => Advanced("update", "starting", "starting", "up")
         /\ UpRecorded => Advanced("update", "recordUp", "up", "health")
         /\ Healthy => Advanced("update", "health", "healthy", "stability")
         /\ Done => Advanced("update", "stability", "done", "prune")
         /\ RollbackStopped => Advanced("rollback", "halted", "rollback_stopped", "forensic")
         /\ Restoring => Advanced("rollback", "restoring", "rollback_restoring", "wipe")
         /\ Restored => Advanced("rollback", "verify", "rollback_restored", "retagBack")
<1>1. /\ Resumable \cup Stopping \cup Destructive \cup MidRollback \subseteq Phase
      /\ {"none", "preflight", "rolled_back", "pruned"} \subseteq Phase
  BY DEF Phase, NonDestructive
<1>2. /\ {"old_image_saved", "build_prepared", "env_consistency_checked",
          "maintenance_gate_passed", "stopping", "stopped", "mount_resolved", "starting", "up",
          "healthy", "done", "rollback_stopped", "rollback_restoring", "rollback_restored"} \subseteq Phase
  BY <1>1 DEF Resumable, Stopping, Destructive, Committed, MidRollback
<1>3. SaveOldImage => Advanced("update", "save", "old_image_saved", "build")
  BY <1>2, AdvanceEffect DEF SaveOldImage
<1>4. BuildPrepared => Advanced("update", "built", "build_prepared", "env")
  BY <1>2, AdvanceEffect DEF BuildPrepared
<1>5. EnvChecked => Advanced("update", "env", "env_consistency_checked", "placement")
  BY <1>2, AdvanceEffect DEF EnvChecked
<1>6. GatePassed => Advanced("update", "gate", "maintenance_gate_passed", "fleet")
  BY <1>2, AdvanceEffect DEF GatePassed
<1>7. FleetGuardPassed => Advanced("update", "fleet", "stopping", "stop")
  BY <1>2, AdvanceEffect DEF FleetGuardPassed
<1>8. Stopped => Advanced("update", "stopped", "stopped", "mount")
  BY <1>2, AdvanceEffect DEF Stopped
<1>9. MountResolved => Advanced("update", "mount", "mount_resolved", "archive")
  BY <1>2, AdvanceEffect DEF MountResolved
<1>10. Starting => Advanced("update", "starting", "starting", "up")
  BY <1>2, AdvanceEffect DEF Starting
<1>11. UpRecorded => Advanced("update", "recordUp", "up", "health")
  BY <1>2, AdvanceEffect DEF UpRecorded
<1>12. Healthy => Advanced("update", "health", "healthy", "stability")
  BY <1>2, AdvanceEffect DEF Healthy
<1>13. Done => Advanced("update", "stability", "done", "prune")
  BY <1>2, AdvanceEffect DEF Done
<1>14. RollbackStopped => Advanced("rollback", "halted", "rollback_stopped", "forensic")
  BY <1>2, AdvanceEffect DEF RollbackStopped
<1>15. Restoring => Advanced("rollback", "restoring", "rollback_restoring", "wipe")
  BY <1>2, AdvanceEffect DEF Restoring
<1>16. Restored => Advanced("rollback", "verify", "rollback_restored", "retagBack")
  BY <1>2, AdvanceEffect DEF Restored
<1> QED
  BY <1>3, <1>4, <1>5, <1>6, <1>7, <1>8, <1>9, <1>10, <1>11, <1>12, <1>13, <1>14, <1>15,
     <1>16

\* A step that goes on and journals nothing.
LEMMA GoToEffect ==
  ASSUME TypeOK, CliInv, NEW cmd \in {"update", "rollback"}, NEW step, NEW next,
         At(cmd, step), GoTo(next)
  PROVE  /\ cli.cmd = cmd /\ cli.step = step /\ cli.tx \in Tx /\ lock
         /\ cli'.cmd = cmd /\ cli'.step = next /\ cli'.tx = cli.tx /\ lock'
<1>1. cli.cmd = cmd /\ cli.step = step /\ cli.tx \in Tx /\ lock
  BY AtWork DEF At
<1> QED  BY <1>1 DEF GoTo, TypeOK

\* The data archive is made at the step archive, of the volume as it is.
LEMMA ArchivedEffect ==
  ASSUME TypeOK, CliInv, Archived
  PROVE  /\ cli.cmd = "update" /\ cli.step = "archive" /\ cli.tx \in Tx /\ lock
         /\ cli'.cmd = "update" /\ cli'.step = "pin" /\ cli'.tx = cli.tx /\ lock'
         /\ Tr.phase = "mount_resolved"
         /\ UNCHANGED <<latest, head, cont, vol, written>>
         /\ \A t \in Tx :
              /\ txs'[t].phase = IF t = cli.tx THEN "archived" ELSE txs[t].phase
              /\ txs'[t].archive = IF t = cli.tx THEN vol ELSE txs[t].archive
              /\ txs'[t].old = txs[t].old /\ txs'[t].oldc = txs[t].oldc
              /\ txs'[t].target = txs[t].target /\ txs'[t].forensic = txs[t].forensic
<1>1. /\ cli.cmd = "update" /\ cli.step = "archive" /\ cli.tx \in Tx /\ lock
      /\ cli'.cmd = "update" /\ cli'.step = "pin" /\ cli'.tx = cli.tx /\ lock'
  BY GoToEffect DEF Archived
<1>2. Tr.phase = "mount_resolved"
  BY <1>1 DEF CliInv, NoRun
<1>3. \A t \in Tx : txs[t] \in Journal
  BY DEF TypeOK, Journal
<1>4. \A t \in Tx : txs'[t] = IF t = cli.tx THEN [txs[t] EXCEPT !.phase = "archived", !.archive = vol]
                              ELSE txs[t]
  BY DEF Archived, TypeOK
<1>5. ASSUME NEW t \in Tx
      PROVE  /\ txs'[t].phase = IF t = cli.tx THEN "archived" ELSE txs[t].phase
             /\ txs'[t].archive = IF t = cli.tx THEN vol ELSE txs[t].archive
             /\ txs'[t].old = txs[t].old /\ txs'[t].oldc = txs[t].oldc
             /\ txs'[t].target = txs[t].target /\ txs'[t].forensic = txs[t].forensic
  <2>1. CASE t = cli.tx
    BY <1>3, <1>4, <2>1 DEF Journal
  <2>2. CASE t # cli.tx
    BY <1>4, <2>2
  <2> QED  BY <2>1, <2>2
<1>6. UNCHANGED <<latest, head, cont, vol, written>>
  BY DEF Archived, host
<1> QED  BY <1>1, <1>2, <1>5, <1>6

\* The forensic archive is made before the restore, of the volume as it is.
LEMMA ForensicEffect ==
  ASSUME TypeOK, CliInv, ForensicArchived
  PROVE  /\ cli.cmd = "rollback" /\ cli.step = "forensic" /\ cli.tx \in Tx /\ lock
         /\ cli'.cmd = "rollback" /\ cli'.step = "restoring" /\ cli'.tx = cli.tx /\ lock'
         /\ Tr.phase = "rollback_stopped"
         /\ UNCHANGED <<latest, head, cont, vol, written>>
         /\ \A t \in Tx :
              /\ txs'[t].phase = IF t = cli.tx THEN "rollback_forensic_archived" ELSE txs[t].phase
              /\ txs'[t].forensic = IF t = cli.tx THEN vol ELSE txs[t].forensic
              /\ txs'[t].old = txs[t].old /\ txs'[t].oldc = txs[t].oldc
              /\ txs'[t].target = txs[t].target /\ txs'[t].archive = txs[t].archive
<1>1. /\ cli.cmd = "rollback" /\ cli.step = "forensic" /\ cli.tx \in Tx /\ lock
      /\ cli'.cmd = "rollback" /\ cli'.step = "restoring" /\ cli'.tx = cli.tx /\ lock'
  BY GoToEffect DEF ForensicArchived
<1>2. Tr.phase = "rollback_stopped"
  BY <1>1 DEF CliInv, NoRun
<1>3. \A t \in Tx : txs[t] \in Journal
  BY DEF TypeOK, Journal
<1>4. \A t \in Tx : txs'[t] = IF t = cli.tx
                              THEN [txs[t] EXCEPT !.phase = "rollback_forensic_archived", !.forensic = vol]
                              ELSE txs[t]
  BY DEF ForensicArchived, TypeOK
<1>5. ASSUME NEW t \in Tx
      PROVE  /\ txs'[t].phase = IF t = cli.tx THEN "rollback_forensic_archived" ELSE txs[t].phase
             /\ txs'[t].forensic = IF t = cli.tx THEN vol ELSE txs[t].forensic
             /\ txs'[t].old = txs[t].old /\ txs'[t].oldc = txs[t].oldc
             /\ txs'[t].target = txs[t].target /\ txs'[t].archive = txs[t].archive
  <2>1. CASE t = cli.tx
    BY <1>3, <1>4, <2>1 DEF Journal
  <2>2. CASE t # cli.tx
    BY <1>4, <2>2
  <2> QED  BY <2>1, <2>2
<1>6. UNCHANGED <<latest, head, cont, vol, written>>
  BY DEF ForensicArchived, host
<1> QED  BY <1>1, <1>2, <1>5, <1>6

\* Every step of a command leaves it at a step of its transaction's phase.
LEMMA NextCli == TypeOK /\ CliInv /\ [Next]_vars => CliInv'
<1> SUFFICES ASSUME TypeOK, CliInv, [Next]_vars PROVE CliInv'
  OBVIOUS
<1>1. cli' = NoRun => CliInv'
  BY DEF CliInv
<1>2. ASSUME NEW cmd, NEW step, NEW p, NEW next, Advanced(cmd, step, p, next)
      PROVE  /\ lock' /\ cli'.tx \in Tx /\ cli'.cmd = cmd /\ cli'.step = next
             /\ Tr'.phase = p
  BY <1>2 DEF Advanced, Phased, Tr
<1>3. CASE BuildRefused \/ EnvRefused \/ GateRefused \/ StartedDown \/ Prune \/ RecordClosed
           \/ StartedOld \/ OldHealthy \/ StepFails \/ Kill
  BY <1>1, <1>3 DEF BuildRefused, EnvRefused, GateRefused, StartedDown, Prune, RecordClosed,
     StartedOld, OldHealthy, StepFails, Kill, Exit
<1>4. CASE StartCommand \/ RemoveStaleLock \/ \E i \in Image : BuildCommand(i)
  BY <1>1, <1>4, AtRest DEF StartCommand, RemoveStaleLock, BuildCommand
<1>5. CASE ServerWrites \/ ServerStops
  BY <1>5 DEF ServerWrites, ServerStops, CliInv, Tr
<1>6. CASE SaveOldImage
  BY <1>2, <1>6, AdvanceTable DEF CliInv
<1>7. CASE BuildPrepared
  BY <1>2, <1>7, AdvanceTable DEF CliInv
<1>8. CASE EnvChecked
  BY <1>2, <1>8, AdvanceTable DEF CliInv
<1>9. CASE GatePassed
  BY <1>2, <1>9, AdvanceTable DEF CliInv
<1>10. CASE FleetGuardPassed
  BY <1>2, <1>10, AdvanceTable DEF CliInv
<1>11. CASE Stopped
  BY <1>2, <1>11, AdvanceTable DEF CliInv
<1>12. CASE MountResolved
  BY <1>2, <1>12, AdvanceTable DEF CliInv
<1>13. CASE Starting
  BY <1>2, <1>13, AdvanceTable DEF CliInv
<1>14. CASE UpRecorded
  BY <1>2, <1>14, AdvanceTable DEF CliInv
<1>15. CASE Healthy
  BY <1>2, <1>15, AdvanceTable DEF CliInv
<1>16. CASE Done
  BY <1>2, <1>16, AdvanceTable DEF CliInv
<1>17. CASE RollbackStopped
  BY <1>2, <1>17, AdvanceTable DEF CliInv
<1>18. CASE Restoring
  BY <1>2, <1>18, AdvanceTable DEF CliInv
<1>19. CASE Restored
  BY <1>2, <1>19, AdvanceTable DEF CliInv
<1>20. CASE Archived
  BY <1>20, ArchivedEffect DEF CliInv, Tr
<1>21. CASE ForensicArchived
  BY <1>21, ForensicEffect DEF CliInv, Tr
<1>22. CASE BuildTarget
  BY <1>22, GoToEffect DEF BuildTarget, At, CliInv, Tr, NoRun
<1>23. CASE Placed
  BY <1>23, GoToEffect DEF Placed, At, CliInv, Tr, NoRun
<1>24. CASE PinTarget
  BY <1>24, GoToEffect DEF PinTarget, At, CliInv, Tr, NoRun
<1>25. CASE ComposeUp
  BY <1>25, GoToEffect DEF ComposeUp, At, CliInv, Tr, NoRun
<1>26. CASE RetagOld
  BY <1>26, GoToEffect DEF RetagOld, At, CliInv, Tr, NoRun
<1>27. CASE Wipe
  BY <1>27, GoToEffect DEF Wipe, At, CliInv, Tr, NoRun
<1>28. CASE Untar
  BY <1>28, GoToEffect DEF Untar, At, CliInv, Tr, NoRun
<1>29. CASE RetagBack
  BY <1>29, GoToEffect DEF RetagBack, At, CliInv, Tr, NoRun
<1>30. CASE Recreate
  BY <1>30, GoToEffect DEF Recreate, At, CliInv, Tr, NoRun
<1>31. CASE StopOld
  <2>1. CASE Exit
    BY <1>1, <2>1 DEF Exit
  <2>2. CASE GoTo("stopped") /\ UNCHANGED txs
    BY <1>31, <2>2, GoToEffect DEF StopOld, At, CliInv, Tr, NoRun
  <2> QED  BY <1>31, <2>1, <2>2 DEF StopOld
<1>32. CASE StartOld
  <2>1. CASE Exit
    BY <1>1, <2>1 DEF Exit
  <2>2. CASE GoTo("startedOld") /\ UNCHANGED txs
    BY <1>32, <2>2, GoToEffect DEF StartOld, At, CliInv, Tr, NoRun
  <2> QED  BY <1>32, <2>1, <2>2 DEF StartOld
<1>33. CASE HaltCandidates
  <2>1. CASE Exit
    BY <1>1, <2>1 DEF Exit
  <2>2. CASE GoTo("halted") /\ UNCHANGED txs
    BY <1>33, <2>2, GoToEffect DEF HaltCandidates, At, CliInv, Tr, NoRun
  <2> QED  BY <1>33, <2>1, <2>2 DEF HaltCandidates
<1>34. ASSUME NEW t \in Tx, NEW i \in Image, UpdateBegin(t, i) PROVE CliInv'
  BY <1>34 DEF UpdateBegin, Acquire, TypeOK, CliInv, Tr
<1>35. ASSUME NEW t \in Tx, Resume(t) PROVE CliInv'
  BY <1>35 DEF Resume, Acquire, ResumeStep, Resumable, CliInv, Tr
<1>36. ASSUME NEW t \in Tx, RollbackBegin(t) PROVE CliInv'
  BY <1>36 DEF RollbackBegin, Acquire, RollbackStep, NonDestructive, Resumable, Stopping,
     Destructive, Committed, CliInv, Tr
<1>37. CASE UNCHANGED vars
  BY <1>37 DEF vars, CliInv, Tr
<1> QED
  BY <1>3, <1>4, <1>5, <1>6, <1>7, <1>8, <1>9, <1>10, <1>11, <1>12, <1>13, <1>14, <1>15,
     <1>16, <1>17, <1>18, <1>19, <1>20, <1>21, <1>22, <1>23, <1>24, <1>25, <1>26, <1>27,
     <1>28, <1>29, <1>30, <1>31, <1>32, <1>33, <1>34, <1>35, <1>36, <1>37
     DEF Next, CliStep, UpdateStep, RollbackSteps, Operator

-----------------------------------------------------------------------------
(* What is recorded: images, containers, archives.                         *)

\* What UPDATE_BEGIN records of a transaction stays, and so does the transaction.
Recorded ==
    \A t \in Tx :
      /\ txs'[t].old = txs[t].old /\ txs'[t].oldc = txs[t].oldc /\ txs'[t].target = txs[t].target
      /\ txs'[t].phase = "none" <=> txs[t].phase = "none"

\* Pruning deletes archives of completed transactions, never the one just completed.
LEMMA PruneEffect ==
  ASSUME TypeOK, Prune, NEW t \in Tx
  PROVE  /\ txs'[t].old = txs[t].old /\ txs'[t].oldc = txs[t].oldc
         /\ txs'[t].target = txs[t].target /\ txs'[t].forensic = txs[t].forensic
         /\ \/ txs'[t].phase = txs[t].phase /\ txs'[t].archive = txs[t].archive
            \/ txs[t].phase = "done" /\ txs'[t].phase = "pruned"
<1>1. \/ txs'[t] = txs[t]
      \/ txs[t].phase = "done" /\ txs'[t] = [txs[t] EXCEPT !.phase = "pruned", !.archive = NoVolume]
  BY DEF Prune
<1>2. txs[t] \in Journal
  BY DEF TypeOK, Journal
<1> QED  BY <1>1, <1>2 DEF Journal

\* Only UPDATE_BEGIN sets what is recorded of a transaction.
LEMMA StepRecords ==
  ASSUME TypeOK, CliInv, [Next]_vars
  PROVE  Recorded \/ \E t \in Tx, i \in Image : UpdateBegin(t, i)
<1>1. ASSUME NEW p, p # "none", Phased(p), cli.cmd \in {"update", "rollback"} PROVE Recorded
  <2>1. Tr.phase # "none"
    BY <1>1 DEF CliInv, NoRun, NonDestructive, Resumable, Stopping, Destructive, Committed
  <2> QED  BY <1>1, <2>1 DEF Phased, Recorded, Tr
<1>2. UNCHANGED txs => Recorded
  BY DEF Recorded
<1>3. CASE \/ BuildTarget \/ BuildRefused \/ EnvRefused \/ Placed \/ GateRefused \/ StopOld \/ PinTarget
           \/ ComposeUp \/ StartedDown \/ RetagOld \/ StartOld \/ HaltCandidates \/ Wipe \/ Untar
           \/ RetagBack \/ Recreate \/ StartCommand \/ RemoveStaleLock \/ StepFails \/ Kill
           \/ ServerWrites \/ ServerStops \/ UNCHANGED vars
  BY <1>2, <1>3 DEF BuildTarget, BuildRefused, EnvRefused, Placed, GateRefused, StopOld, PinTarget,
     ComposeUp, StartedDown, RetagOld, StartOld, HaltCandidates, Wipe, Untar, RetagBack, Recreate,
     StartCommand, RemoveStaleLock, StepFails, Kill, ServerWrites, ServerStops, vars
<1>4. ASSUME NEW t \in Tx, Resume(t) \/ RollbackBegin(t) PROVE Recorded
  BY <1>2, <1>4 DEF Resume, RollbackBegin
<1>5. ASSUME NEW i \in Image, BuildCommand(i) PROVE Recorded
  BY <1>2, <1>5 DEF BuildCommand
<1>6. CASE \/ SaveOldImage \/ BuildPrepared \/ EnvChecked \/ GatePassed \/ FleetGuardPassed
           \/ Stopped \/ MountResolved \/ Starting \/ UpRecorded \/ Healthy \/ Done
           \/ RollbackStopped \/ Restoring \/ Restored
  <2>1. ASSUME NEW cmd \in {"update", "rollback"}, NEW step, NEW p, NEW next, p # "none",
               Advanced(cmd, step, p, next)
        PROVE  Recorded
    BY <1>1, <2>1 DEF Advanced
  <2> QED  BY <1>6, <2>1, AdvanceTable
<1>7. CASE RecordClosed \/ StartedOld \/ OldHealthy
  <2>1. cli.cmd = "rollback" /\ cli.tx \in Tx
    BY <1>7, AtWork DEF RecordClosed, StartedOld, OldHealthy, At
  <2>2. SetPhase("rolled_back") \/ UNCHANGED txs
    BY <1>7 DEF RecordClosed, StartedOld, OldHealthy
  <2>3. SetPhase("rolled_back") => Phased("rolled_back")
    BY <2>1, SetPhaseEffect DEF TypeOK, Journal, Phase
  <2> QED  BY <1>1, <1>2, <2>1, <2>2, <2>3
<1>8. CASE Archived \/ ForensicArchived
  <2>1. CASE Archived
    BY <2>1, ArchivedEffect DEF Recorded, Tr
  <2>2. CASE ForensicArchived
    BY <2>2, ForensicEffect DEF Recorded, Tr
  <2> QED  BY <1>8, <2>1, <2>2
<1>9. CASE Prune
  BY <1>9, PruneEffect DEF Recorded
<1> QED
  BY <1>3, <1>4, <1>5, <1>6, <1>7, <1>8, <1>9
     DEF Next, CliStep, UpdateStep, RollbackSteps, Operator

\* The container: it keeps its name and image, or `compose up` makes a new one of `latest`.
ContainerMoves ==
    \/ cont'.id = cont.id /\ cont'.image = cont.image
    \/ /\ cli.cmd = "update" /\ cli.step = "up" /\ cli.tx \in Tx
       /\ cont'.id = UpContainer(cli.tx) /\ cont'.image = latest
    \/ /\ cli.cmd = "rollback" /\ cli.step = "recreate" /\ cli.tx \in Tx
       /\ cont'.id = BackContainer(cli.tx) /\ cont'.image = latest

\* Only `compose up` and the recreation of a rollback, failed or not, change it.
LEMMA StepContainer ==
  ASSUME TypeOK, CliInv, [Next]_vars
  PROVE  ContainerMoves
<1>1. UNCHANGED cont => ContainerMoves
  BY DEF ContainerMoves
<1>2. ASSUME NEW st, cont' = [cont EXCEPT !.status = st] PROVE ContainerMoves
  BY <1>2 DEF TypeOK, ContainerMoves
<1>3. CASE \/ SaveOldImage \/ BuildPrepared \/ EnvChecked \/ GatePassed \/ FleetGuardPassed
           \/ Stopped \/ MountResolved \/ Starting \/ UpRecorded \/ Healthy \/ Done
           \/ RollbackStopped \/ Restoring \/ Restored
  BY <1>1, <1>3, AdvanceTable DEF Advanced
<1>4. CASE \/ BuildTarget \/ BuildRefused \/ EnvRefused \/ Placed \/ GateRefused \/ PinTarget
           \/ Archived \/ ForensicArchived \/ Prune \/ RecordClosed \/ StartedOld \/ OldHealthy
           \/ StartedDown \/ RetagOld \/ Wipe \/ Untar \/ RetagBack \/ RemoveStaleLock \/ Kill
           \/ ServerWrites \/ UNCHANGED vars
  BY <1>1, <1>4 DEF BuildTarget, BuildRefused, EnvRefused, Placed, GateRefused, PinTarget,
     Archived, ForensicArchived, Prune, RecordClosed, StartedOld, OldHealthy, StartedDown, RetagOld,
     Wipe, Untar, RetagBack, RemoveStaleLock, Kill, ServerWrites, host, vars
<1>5. ASSUME NEW t \in Tx, Resume(t) \/ RollbackBegin(t) PROVE ContainerMoves
  BY <1>1, <1>5 DEF Resume, RollbackBegin, host
<1>6. ASSUME NEW i \in Image, BuildCommand(i) PROVE ContainerMoves
  BY <1>1, <1>6 DEF BuildCommand
<1>7. ASSUME NEW t \in Tx, NEW i \in Image, UpdateBegin(t, i) PROVE ContainerMoves
  BY <1>1, <1>7 DEF UpdateBegin, host
<1>8. CASE StopOld
  BY <1>1, <1>2, <1>8 DEF StopOld
<1>9. CASE HaltCandidates
  BY <1>1, <1>2, <1>9 DEF HaltCandidates
<1>10. CASE ServerStops
  BY <1>1, <1>2, <1>10 DEF ServerStops
<1>11. CASE StartOld
  BY <1>1, <1>11, StartTyped DEF StartOld, TypeOK, ContainerMoves
<1>12. CASE StartCommand
  BY <1>1, <1>12, StartTyped DEF StartCommand, TypeOK, ContainerMoves
<1>13. CASE ComposeUp
  <2> DEFINE c == IF cont.image = latest THEN cont
                  ELSE [id |-> UpContainer(cli.tx), image |-> latest, status |-> "created"]
  <2>1. cli.cmd = "update" /\ cli.step = "up" /\ cli.tx \in Tx
    BY <1>13, GoToEffect DEF ComposeUp
  <2>2. c \in [id : 0..2 * MaxTx, image : Image, status : {"running", "exited", "created"}]
    BY <2>1, ContainerNames DEF TypeOK
  <2>3. \/ c.id = cont.id /\ c.image = cont.image
        \/ c.id = UpContainer(cli.tx) /\ c.image = latest
    OBVIOUS
  <2>4. Start(c) /\ vol \in Volume
    BY <1>13 DEF ComposeUp, TypeOK
  <2> HIDE DEF c
  <2>5. cont'.id = c.id /\ cont'.image = c.image
    BY <2>2, <2>4, StartTyped
  <2> QED  BY <2>1, <2>3, <2>5 DEF ContainerMoves
<1>14. CASE Recreate
  <2> DEFINE c == [id |-> BackContainer(cli.tx), image |-> latest, status |-> "created"]
  <2>1. cli.cmd = "rollback" /\ cli.step = "recreate" /\ cli.tx \in Tx
    BY <1>14, GoToEffect DEF Recreate
  <2>2. c \in [id : 0..2 * MaxTx, image : Image, status : {"running", "exited", "created"}]
    BY <2>1, ContainerNames DEF TypeOK
  <2>3. \/ c.id = cont.id /\ c.image = cont.image
        \/ c.id = BackContainer(cli.tx) /\ c.image = latest
    OBVIOUS
  <2>4. Start(c) /\ vol \in Volume
    BY <1>14 DEF Recreate, TypeOK
  <2> HIDE DEF c
  <2>5. cont'.id = c.id /\ cont'.image = c.image
    BY <2>2, <2>4, StartTyped
  <2> QED  BY <2>1, <2>3, <2>5 DEF ContainerMoves
<1>15. CASE StepFails
  <2>1. /\ cli.tx \in Tx
        /\ cli.step = "up" => cli.cmd = "update"
        /\ cli.step = "recreate" => cli.cmd = "rollback"
    BY <1>15 DEF StepFails, CliInv
  <2>2. \/ UNCHANGED cont
        \/ /\ cli.step = "up" /\ cont' = [id |-> UpContainer(cli.tx), image |-> latest,
                                           status |-> "created"]
        \/ /\ cli.step = "recreate" /\ cont' = [id |-> BackContainer(cli.tx), image |-> latest,
                                                 status |-> "created"]
    BY <1>15 DEF StepFails
  <2> QED  BY <2>1, <2>2 DEF ContainerMoves
<1> QED
  BY <1>3, <1>4, <1>5, <1>6, <1>7, <1>8, <1>9, <1>10, <1>11, <1>12, <1>13, <1>14, <1>15
     DEF Next, CliStep, UpdateStep, RollbackSteps, Operator

\* Names of containers are not used twice: a recorded one stands for its image for good.
LEMMA NextContainer ==
  ASSUME TypeOK, CliInv, ContainerInv, HeldInv, [Next]_vars
  PROVE  ContainerInv'
<1>1. ASSUME NEW t \in Tx, NEW i \in Image, UpdateBegin(t, i) PROVE ContainerInv'
  <2>1. /\ UNCHANGED cont /\ txs[t].phase = "none"
        /\ txs'[t].phase = "preflight" /\ txs'[t].old = cont.image /\ txs'[t].oldc = cont.id
        /\ \A u \in Tx \ {t} : txs'[u] = txs[u]
    BY <1>1 DEF UpdateBegin, host, TypeOK
  <2>2. ASSUME NEW id, NEW j, Runs(id, j) PROVE Runs(id, j)'
    BY <2>1, <2>2 DEF Runs
  <2> QED  BY <2>1, <2>2 DEF ContainerInv
<1>2. CASE Recorded
  <2>1. ASSUME NEW t \in Tx PROVE Runs(txs[t].oldc, txs[t].old) => Runs(txs[t].oldc, txs[t].old)'
    BY <1>2 DEF Runs, Recorded
  <2>2. Runs(cont.id, cont.image)'
    <3>1. CASE cont'.id = cont.id /\ cont'.image = cont.image
      BY <1>2, <3>1 DEF ContainerInv, Runs, Recorded
    <3>2. ASSUME cli.tx \in Tx, Tr.phase # "none",
                 \/ cont'.id = UpContainer(cli.tx) /\ cont'.image = Tr.target
                 \/ cont'.id = BackContainer(cli.tx) /\ cont'.image = Tr.old
          PROVE  Runs(cont.id, cont.image)'
      BY <1>2, <3>2 DEF Runs, Recorded, UpContainer, BackContainer, Tx, Tr
    <3>3. CASE cli.cmd = "update" /\ cli.step = "up" /\ cli.tx \in Tx
               /\ cont'.id = UpContainer(cli.tx) /\ cont'.image = latest
      <4>1. Tr.phase = "starting"
        BY <3>3 DEF CliInv, NoRun
      <4>2. latest = Tr.target
        BY <3>3 DEF HeldInv
      <4> QED  BY <3>2, <3>3, <4>1, <4>2
    <3>4. CASE cli.cmd = "rollback" /\ cli.step = "recreate" /\ cli.tx \in Tx
               /\ cont'.id = BackContainer(cli.tx) /\ cont'.image = latest
      <4>1. Tr.phase = "rollback_restored"
        BY <3>4 DEF CliInv, NoRun
      <4>2. latest = Tr.old
        BY <3>4 DEF HeldInv
      <4> QED  BY <3>2, <3>4, <4>1, <4>2
    <3> QED  BY <3>1, <3>3, <3>4, StepContainer DEF ContainerMoves
  <2> QED  BY <1>2, <2>1, <2>2 DEF ContainerInv, Recorded
<1> QED  BY <1>1, <1>2, StepRecords

\* A recorded container that is there runs the recorded image.
LEMMA OldImage ==
  ASSUME TypeOK, ContainerInv, NEW t \in Tx, txs[t].phase # "none", cont.id = txs[t].oldc
  PROVE  cont.image = txs[t].old
<1>1. Runs(cont.id, cont.image) /\ Runs(cont.id, txs[t].old)
  BY DEF ContainerInv
<1>2. \/ cont.id = 0
      \/ \E u \in Tx : cont.id = UpContainer(u) \/ cont.id = BackContainer(u)
  <2>1. cont.id \in 0..2 * MaxTx
    BY DEF TypeOK
  <2>2. PICK h \in Nat : cont.id = 2 * h \/ cont.id = 2 * h - 1
    <3>1. cont.id = 2 * (cont.id \div 2) \/ cont.id = 2 * (cont.id \div 2 + 1) - 1
      BY <2>1, DeployAssumption
    <3>2. cont.id \div 2 \in Nat
      BY <2>1, DeployAssumption
    <3> QED  BY <3>1, <3>2
  <2>3. h = 0 \/ h \in Tx
    BY <2>1, <2>2, DeployAssumption DEF Tx
  <2> QED  BY <2>1, <2>2, <2>3, DeployAssumption DEF UpContainer, BackContainer
<1> QED  BY <1>1, <1>2 DEF Runs

\* A step that builds nothing and moves `latest` to an image the checkout has passed.
LEMMA BuiltKeeps ==
  ASSUME TypeOK, TypeOK', BuiltInv, Recorded, ContainerMoves, head' >= head, latest' <= head',
         \A t \in Tx : BuiltBy(t)' => BuiltBy(t)
  PROVE  BuiltInv'
<1>1. /\ head \in Int /\ head' \in Int /\ latest \in Int /\ cont.image \in Int /\ cont'.image \in Int
      /\ \A t \in Tx : txs[t].old \in Int /\ txs[t].target \in Int
  BY DEF TypeOK, Image
<1>2. cont'.image <= head'
  BY <1>1 DEF ContainerMoves, BuiltInv
<1>3. ASSUME NEW t \in Tx
      PROVE  /\ txs'[t].old <= head'
             /\ BuiltBy(t)' => txs'[t].old <= txs'[t].target /\ txs'[t].target <= head'
  BY <1>1, <1>3 DEF BuiltInv, Recorded
<1> QED  BY <1>2, <1>3 DEF BuiltInv

\* Only `update` and `build` move the checkout, and only forward.
LEMMA NextBuilt ==
  ASSUME TypeOK, CliInv, BuiltInv, [Next]_vars
  PROVE  BuiltInv'
<1> USE DEF NoRun
<1>1. /\ head \in Int /\ latest \in Int /\ cont.image \in Int
      /\ \A t \in Tx : txs[t].old \in Int /\ txs[t].target \in Int
  BY DEF TypeOK, Image
<1>2. TypeOK' /\ ContainerMoves
  BY NextTyped, StepContainer
<1>3. ASSUME NEW t \in Tx, NEW i \in Image, UpdateBegin(t, i) PROVE BuiltInv'
  <2>1. /\ UNCHANGED <<latest, head, cont>>
        /\ txs'[t].phase = "preflight" /\ txs'[t].old = cont.image
        /\ \A u \in Tx \ {t} : txs'[u] = txs[u]
        /\ cli'.step = "save"
    BY <1>3 DEF UpdateBegin, Acquire, host, TypeOK
  <2>2. ~BuiltBy(t)' /\ \A u \in Tx \ {t} : BuiltBy(u)' => BuiltBy(u)
    BY <2>1 DEF BuiltBy, At, Prepared, Resumable, Stopping
  <2> QED  BY <2>1, <2>2 DEF BuiltInv
<1>4. SUFFICES ASSUME Recorded PROVE BuiltInv'
  BY <1>3, StepRecords
<1>5. ASSUME head' >= head, latest' <= head', \A t \in Tx : BuiltBy(t)' => BuiltBy(t) PROVE BuiltInv'
  BY <1>2, <1>4, <1>5, BuiltKeeps
<1>6. ASSUME UNCHANGED txs, cli'.step # "built" \/ cli' = cli, NEW t \in Tx, BuiltBy(t)' PROVE BuiltBy(t)
  BY <1>6 DEF BuiltBy, At
<1>7. /\ head >= head /\ latest <= head /\ \A t \in Tx : txs[t].old <= head
      /\ \A t \in Tx : txs[t].phase \in Prepared => txs[t].target <= head
  BY <1>1 DEF BuiltInv, BuiltBy
<1>8. ASSUME NEW cmd, NEW step, NEW p, NEW next, Advanced(cmd, step, p, next), next # "built",
             p \in Prepared => BuiltBy(cli.tx)
      PROVE  BuiltInv'
  <2>1. \A t \in Tx : BuiltBy(t)' => BuiltBy(t)
    BY <1>8 DEF Advanced, Phased, BuiltBy, At
  <2> QED  BY <1>5, <1>7, <1>8, <2>1 DEF Advanced
<1>9. Stopping \cup {"starting"} \subseteq Prepared
  BY DEF Prepared
<1>10. {"build_prepared", "env_consistency_checked", "maintenance_gate_passed"} \subseteq Prepared
  BY DEF Prepared, Resumable
<1>11. Prepared \cap {"old_image_saved", "up", "healthy", "done", "rollback_stopped", "rollback_restoring",
                     "rollback_restored", "rolled_back", "pruned", "rollback_forensic_archived"} = {}
  BY DEF Prepared, Resumable, Stopping
<1>12. CASE SaveOldImage \/ UpRecorded \/ Healthy \/ Done \/ RollbackStopped \/ Restoring \/ Restored
  BY <1>8, <1>11, <1>12, AdvanceTable
<1>13. CASE BuildPrepared
  <2>1. Advanced("update", "built", "build_prepared", "env")
    BY <1>13, AdvanceTable
  <2>2. BuiltBy(cli.tx)
    BY <2>1 DEF Advanced, BuiltBy, At
  <2> QED  BY <1>8, <2>1, <2>2
<1>14. CASE EnvChecked \/ GatePassed \/ FleetGuardPassed \/ Stopped \/ MountResolved \/ Starting
  <2>1. ASSUME NEW step \in {"env", "gate", "fleet", "stopped", "mount", "starting"}, NEW p, NEW next,
               Advanced("update", step, p, next), next # "built"
        PROVE  BuiltInv'
    <3>1. Tr.phase \in Prepared
      BY <1>9, <1>10, <2>1 DEF Advanced, CliInv, Stopping
    <3> QED  BY <1>8, <2>1, <3>1 DEF BuiltBy, Tr
  <2> QED  BY <1>14, <2>1, AdvanceTable
<1>15. CASE BuildTarget
  <2>1. /\ At("update", "build") /\ cli.tx \in Tx /\ Tr.target >= head
        /\ head' = Tr.target /\ latest' = Tr.target /\ UNCHANGED <<txs, cont>>
        /\ cli'.tx = cli.tx
    BY <1>15, GoToEffect DEF BuildTarget
  <2>2. \A t \in Tx : t # cli.tx => (BuiltBy(t)' => BuiltBy(t))
    BY <2>1 DEF BuiltBy, At
  <2> QED  BY <1>1, <2>1, <2>2 DEF BuiltInv, Tr
<1>16. ASSUME NEW i \in Image, BuildCommand(i) PROVE BuiltInv'
  <2>1. head' >= head /\ latest' <= head' /\ UNCHANGED <<txs, cli>>
    BY <1>1, <1>16 DEF BuildCommand, Image
  <2> QED  BY <1>5, <1>6, <2>1
<1>17. CASE BuildRefused \/ EnvRefused \/ RetagOld \/ RetagBack
  <2>1. cli.tx \in Tx
    BY <1>17, AtWork DEF BuildRefused, EnvRefused, RetagOld, RetagBack, At
  <2>2. latest' = Tr.old /\ UNCHANGED <<txs, head>>
    BY <1>17 DEF BuildRefused, EnvRefused, RetagOld, RetagBack, host
  <2>3. cli'.step \in {"none", "startOld", "recreate"}
    BY <1>17, GoToEffect DEF BuildRefused, EnvRefused, RetagOld, RetagBack, Exit
  <2> QED  BY <1>5, <1>6, <1>7, <2>1, <2>2, <2>3 DEF Tr
<1>18. CASE PinTarget
  <2>1. cli.cmd = "update" /\ cli.step = "pin" /\ cli.tx \in Tx /\ cli'.step = "starting"
    BY <1>18, GoToEffect DEF PinTarget
  <2>2. latest' = Tr.target /\ UNCHANGED <<txs, head>>
    BY <1>18 DEF PinTarget, host
  <2>3. Tr.phase \in Prepared
    BY <1>9, <2>1 DEF CliInv, Stopping
  <2> QED  BY <1>5, <1>6, <1>7, <2>1, <2>2, <2>3 DEF Tr
<1>19. CASE StepFails
  <2>1. cli.tx \in Tx /\ cli' = NoRun
    BY <1>19 DEF StepFails, CliInv, Exit
  <2>2. latest' \in {latest, Tr.old} /\ UNCHANGED <<txs, head>>
    BY <1>19 DEF StepFails
  <2> QED  BY <1>5, <1>6, <1>7, <2>1, <2>2 DEF Tr
<1>20. CASE Archived
  <2>1. \A t \in Tx : BuiltBy(t)' => BuiltBy(t)
    BY <1>9, <1>20, ArchivedEffect DEF BuiltBy, At, Tr, Stopping
  <2> QED  BY <1>5, <1>7, <1>20, <2>1, ArchivedEffect
<1>21. CASE ForensicArchived
  <2>1. \A t \in Tx : BuiltBy(t)' => BuiltBy(t)
    BY <1>11, <1>21, ForensicEffect DEF BuiltBy, At
  <2> QED  BY <1>5, <1>7, <1>21, <2>1, ForensicEffect
<1>22. CASE Prune
  <2>1. \A t \in Tx : txs'[t].phase \in {txs[t].phase, "pruned"}
    BY <1>22, PruneEffect
  <2>2. cli' = NoRun /\ UNCHANGED <<latest, head>>
    BY <1>22 DEF Prune, Exit, host
  <2>3. \A t \in Tx : BuiltBy(t)' => BuiltBy(t)
    BY <1>11, <2>1, <2>2 DEF BuiltBy, At
  <2> QED  BY <1>5, <1>7, <2>2, <2>3
<1>23. CASE RecordClosed \/ StartedOld \/ OldHealthy
  <2>1. cli.tx \in Tx /\ cli' = NoRun /\ UNCHANGED <<latest, head>>
    BY <1>23, AtWork DEF RecordClosed, StartedOld, OldHealthy, At, Exit, host
  <2>2. SetPhase("rolled_back") \/ UNCHANGED txs
    BY <1>23 DEF RecordClosed, StartedOld, OldHealthy
  <2>3. SetPhase("rolled_back") => Phased("rolled_back")
    BY <2>1, SetPhaseEffect DEF TypeOK, Journal, Phase
  <2>4. \A t \in Tx : BuiltBy(t)' => BuiltBy(t)
    BY <1>11, <2>1, <2>2, <2>3 DEF BuiltBy, At, Phased
  <2> QED  BY <1>5, <1>7, <2>1, <2>4
<1>24. CASE \/ Placed \/ GateRefused \/ StopOld \/ ComposeUp \/ StartedDown \/ StartOld \/ HaltCandidates
            \/ Wipe \/ Untar \/ Recreate \/ StartCommand \/ RemoveStaleLock \/ Kill \/ ServerWrites
            \/ ServerStops \/ UNCHANGED vars
  <2>1. UNCHANGED <<txs, latest, head>>
    BY <1>24 DEF Placed, GateRefused, StopOld, ComposeUp, StartedDown, StartOld, HaltCandidates, Wipe,
       Untar, Recreate, StartCommand, RemoveStaleLock, Kill, ServerWrites, ServerStops, host, vars
  <2>2. cli'.step # "built" \/ cli' = cli
    <3>1. CASE \/ Exit \/ UNCHANGED cli \/ Kill
      BY <3>1 DEF Exit, Kill
    <3>2. CASE \E step \in {"gate", "stopped", "recordUp", "startedOld", "halted", "untar", "verify",
                            "oldHealth"} : GoTo(step)
      BY <3>2 DEF GoTo, TypeOK
    <3> QED
      BY <1>24, <3>1, <3>2 DEF Placed, GateRefused, StopOld, ComposeUp, StartedDown, StartOld,
         HaltCandidates, Wipe, Untar, Recreate, StartCommand, RemoveStaleLock, ServerWrites,
         ServerStops, vars
  <2> QED  BY <1>5, <1>6, <1>7, <2>1, <2>2
<1>25. ASSUME NEW t \in Tx, Resume(t) \/ RollbackBegin(t) PROVE BuiltInv'
  <2>1. UNCHANGED <<txs, latest, head>>
    BY <1>25 DEF Resume, RollbackBegin, host
  <2>2. cli'.step # "built"
    BY <1>25 DEF Resume, RollbackBegin, Acquire, ResumeStep, RollbackStep
  <2> QED  BY <1>5, <1>6, <1>7, <2>1, <2>2
<1> QED
  BY <1>3, <1>12, <1>13, <1>14, <1>15, <1>16, <1>17, <1>18, <1>19, <1>20, <1>21, <1>22,
     <1>23, <1>24, <1>25
     DEF Next, CliStep, UpdateStep, RollbackSteps, Operator

\* What a command has done stays done until it is through with it.
LEMMA NextHeld ==
  ASSUME TypeOK, CliInv, HeldInv, [Next]_vars
  PROVE  HeldInv'
<1>1. cli' = NoRun => HeldInv'
  BY DEF HeldInv, NoRun
<1>2. ASSUME cli'.cmd = "update",
             cli'.step \in {"save", "build", "built", "env", "placement", "gate", "fleet", "stop", "prune"}
      PROVE  HeldInv'
  BY <1>2 DEF HeldInv
<1>3. ASSUME cli'.cmd = "rollback", cli'.step \in {"close", "retag", "halt"} PROVE HeldInv'
  BY <1>3 DEF HeldInv
<1>4. ASSUME NEW cmd, NEW step, NEW p, NEW next, Advanced(cmd, step, p, next)
      PROVE  /\ Tr'.old = Tr.old /\ Tr'.oldc = Tr.oldc /\ Tr'.target = Tr.target
             /\ Tr'.archive = Tr.archive /\ Tr'.forensic = Tr.forensic
             /\ UNCHANGED <<latest, cont, vol>>
             /\ cli.cmd = cmd /\ cli.step = step /\ cli'.cmd = cmd /\ cli'.step = next
  BY <1>4 DEF Advanced, Phased, Tr
<1>5. CASE BuildRefused \/ EnvRefused \/ GateRefused \/ StartedDown \/ Prune \/ RecordClosed
           \/ StartedOld \/ OldHealthy \/ StepFails \/ Kill
  BY <1>1, <1>5 DEF BuildRefused, EnvRefused, GateRefused, StartedDown, Prune, RecordClosed,
     StartedOld, OldHealthy, StepFails, Kill, Exit
<1>6. CASE StartCommand \/ RemoveStaleLock \/ \E i \in Image : BuildCommand(i)
  BY <1>1, <1>6, AtRest DEF StartCommand, RemoveStaleLock, BuildCommand
<1>7. CASE SaveOldImage \/ BuildPrepared \/ EnvChecked \/ GatePassed \/ FleetGuardPassed \/ Done
  BY <1>2, <1>7, AdvanceTable DEF Advanced
<1>8. CASE BuildTarget \/ Placed
  BY <1>2, <1>8, GoToEffect DEF BuildTarget, Placed
<1>9. CASE Stopped
  BY <1>4, <1>9, AdvanceTable DEF HeldInv
<1>10. CASE MountResolved
  BY <1>4, <1>10, AdvanceTable DEF HeldInv
<1>11. CASE Starting
  BY <1>4, <1>11, AdvanceTable DEF HeldInv
<1>12. CASE UpRecorded
  BY <1>4, <1>12, AdvanceTable DEF HeldInv
<1>13. CASE Healthy
  <2>1. cont.image = Tr.target
    BY <1>13 DEF Healthy
  <2> QED  BY <1>4, <1>13, <2>1, AdvanceTable DEF HeldInv
<1>14. CASE RollbackStopped
  BY <1>4, <1>14, AdvanceTable DEF HeldInv
<1>15. CASE Restoring
  BY <1>4, <1>15, AdvanceTable DEF HeldInv
<1>16. CASE Restored
  BY <1>4, <1>16, AdvanceTable DEF HeldInv
<1>17. CASE Archived
  BY <1>17, ArchivedEffect DEF HeldInv, Tr
<1>18. CASE ForensicArchived
  BY <1>18, ForensicEffect DEF HeldInv, Tr
<1>19. CASE PinTarget
  BY <1>19, GoToEffect DEF PinTarget, host, HeldInv, Tr
<1>20. CASE ComposeUp
  BY <1>20, GoToEffect DEF ComposeUp, HeldInv, Tr
<1>21. CASE RetagOld
  BY <1>21, GoToEffect DEF RetagOld, HeldInv, Tr
<1>22. CASE RetagBack
  BY <1>22, GoToEffect DEF RetagBack, host, HeldInv, Tr
<1>23. CASE Wipe
  BY <1>23, GoToEffect DEF Wipe, NoVolume, HeldInv, Tr
<1>24. CASE Untar
  BY <1>24, GoToEffect DEF Untar, HeldInv, Tr
<1>25. CASE Recreate
  BY <1>25, GoToEffect DEF Recreate, HeldInv, Tr
<1>26. CASE StopOld
  <2>1. CASE Exit
    BY <1>1, <2>1 DEF Exit
  <2>2. CASE GoTo("stopped") /\ cont' = [cont EXCEPT !.status = "exited"] /\ cont.id = Tr.oldc
    BY <1>26, <2>2, GoToEffect DEF StopOld, HeldInv, Tr, TypeOK
  <2> QED  BY <1>26, <2>1, <2>2 DEF StopOld
<1>27. CASE StartOld
  <2>1. CASE Exit
    BY <1>1, <2>1 DEF Exit
  <2>2. CASE GoTo("startedOld") /\ Start(cont) /\ cont.image = Tr.old
    <3>1. cont'.image = Tr.old
      BY <2>2, StartTyped DEF TypeOK
    <3> QED  BY <1>27, <2>2, <3>1, GoToEffect DEF StartOld, HeldInv, Tr
  <2> QED  BY <1>27, <2>1, <2>2 DEF StartOld
<1>28. CASE HaltCandidates
  <2>1. CASE Exit
    BY <1>1, <2>1 DEF Exit
  <2>2. CASE GoTo("halted") /\ cont'.status = "exited"
    BY <1>28, <2>2, GoToEffect DEF HaltCandidates, HeldInv
  <2> QED  BY <1>28, <2>1, <2>2 DEF HaltCandidates
<1>29. ASSUME NEW t \in Tx, NEW i \in Image, UpdateBegin(t, i) PROVE HeldInv'
  BY <1>2, <1>29 DEF UpdateBegin, Acquire
<1>30. ASSUME NEW t \in Tx, Resume(t) PROVE HeldInv'
  BY <1>2, <1>30 DEF Resume, Acquire, ResumeStep
<1>31. ASSUME NEW t \in Tx, RollbackBegin(t) PROVE HeldInv'
  BY <1>3, <1>31 DEF RollbackBegin, Acquire, RollbackStep
<1>32. CASE ServerWrites
  BY <1>32 DEF ServerWrites, HeldInv, Tr, TypeOK
<1>33. CASE ServerStops
  BY <1>33 DEF ServerStops, HeldInv, Tr, TypeOK
<1>34. CASE UNCHANGED vars
  BY <1>34 DEF vars, HeldInv, Tr
<1> QED
  BY <1>5, <1>6, <1>7, <1>8, <1>9, <1>10, <1>11, <1>12, <1>13, <1>14, <1>15, <1>16, <1>17, <1>18,
     <1>19, <1>20, <1>21, <1>22, <1>23, <1>24, <1>25, <1>26, <1>27, <1>28, <1>29, <1>30, <1>31,
     <1>32, <1>33, <1>34
     DEF Next, CliStep, UpdateStep, RollbackSteps, Operator

\* A step that wipes nothing, writes nothing and makes no forensic archive.
LEMMA SavedKeeps ==
  ASSUME SavedInv, written' = written, vol.data \subseteq vol'.data,
         \A t \in Tx : /\ txs'[t].forensic = txs[t].forensic
                       /\ txs'[t].phase \in BeforeForensic => txs[t].phase \in BeforeForensic
  PROVE  SavedInv'
<1>1. UNION {txs[t].forensic.data : t \in Tx} \subseteq UNION {txs'[t].forensic.data : t \in Tx}
  OBVIOUS
<1>2. 1..written' \subseteq vol'.data \cup UNION {txs'[t].forensic.data : t \in Tx}
  BY <1>1 DEF SavedInv
<1> QED  BY <1>2 DEF SavedInv

\* Only the restore wipes the volume, and what it held is in the forensic archive by then.
LEMMA NextSaved ==
  ASSUME TypeOK, CliInv, HeldInv, SavedInv, [Next]_vars
  PROVE  SavedInv'
<1> USE DEF NoRun
<1>1. /\ {"preflight"} \cup Resumable \cup Stopping \cup Destructive \subseteq BeforeForensic
      /\ "rollback_stopped" \in BeforeForensic
  BY DEF BeforeForensic, NonDestructive
<1>2. BeforeForensic \cap {"rollback_restoring", "rollback_restored", "rolled_back", "pruned",
                           "rollback_forensic_archived"} = {}
  BY DEF BeforeForensic, NonDestructive, Resumable, Stopping, Destructive, Committed
<1>3. ASSUME UNCHANGED <<txs, written>>, vol.data \subseteq vol'.data PROVE SavedInv'
  BY <1>3, SavedKeeps
<1>4. ASSUME NEW cmd, NEW step, NEW p, NEW next, Advanced(cmd, step, p, next),
             p \in BeforeForensic => Tr.phase \in BeforeForensic
      PROVE  SavedInv'
  BY <1>4, SavedKeeps DEF Advanced, Phased, Tr
<1>5. CASE Restoring \/ Restored
  BY <1>2, <1>4, <1>5, AdvanceTable
<1>6. CASE \/ SaveOldImage \/ BuildPrepared \/ EnvChecked \/ GatePassed \/ FleetGuardPassed \/ Stopped
           \/ MountResolved \/ Starting \/ UpRecorded \/ Healthy \/ Done
  <2>1. ASSUME NEW step, NEW p, NEW next, Advanced("update", step, p, next) PROVE SavedInv'
    <3>1. Tr.phase \in {"preflight"} \cup Resumable \cup Stopping \cup Destructive
      BY <2>1 DEF Advanced, CliInv, Resumable, Stopping, Destructive, Committed
    <3> QED  BY <1>1, <1>4, <2>1, <3>1
  <2> QED  BY <1>6, <2>1, AdvanceTable
<1>7. CASE RollbackStopped
  <2>1. Tr.phase \in Destructive
    BY <1>7, AdvanceTable DEF Advanced, CliInv
  <2> QED  BY <1>1, <1>4, <1>7, <2>1, AdvanceTable
<1>8. CASE Archived
  <2>1. Tr.phase \in BeforeForensic
    BY <1>1, <1>8, ArchivedEffect DEF Stopping
  <2> QED  BY <1>8, <2>1, ArchivedEffect, SavedKeeps DEF Tr
<1>9. CASE ForensicArchived
  <2>1. Tr.forensic.data = {}
    BY <1>1, <1>9, ForensicEffect DEF SavedInv, BeforeForensic, Tr
  <2>2. ASSUME NEW t \in Tx PROVE txs[t].forensic.data \subseteq txs'[t].forensic.data
    BY <1>9, <2>1, ForensicEffect DEF Tr
  <2>3. 1..written' \subseteq vol'.data \cup UNION {txs'[t].forensic.data : t \in Tx}
    BY <1>9, <2>2, ForensicEffect DEF SavedInv
  <2>4. ASSUME NEW t \in Tx, txs'[t].phase \in BeforeForensic PROVE txs'[t].forensic.data = {}
    BY <1>2, <1>9, <2>4, ForensicEffect DEF SavedInv
  <2> QED  BY <2>3, <2>4 DEF SavedInv
<1>10. CASE RecordClosed \/ StartedOld \/ OldHealthy
  <2>1. cli.tx \in Tx /\ UNCHANGED <<vol, written>>
    BY <1>10, AtWork DEF RecordClosed, StartedOld, OldHealthy, At, host
  <2>2. SetPhase("rolled_back") \/ UNCHANGED txs
    BY <1>10 DEF RecordClosed, StartedOld, OldHealthy
  <2>3. SetPhase("rolled_back") => Phased("rolled_back")
    BY <2>1, SetPhaseEffect DEF TypeOK, Journal, Phase
  <2>4. Phased("rolled_back") => SavedInv'
    BY <1>2, <2>1, SavedKeeps DEF Phased
  <2> QED  BY <1>3, <2>1, <2>2, <2>3, <2>4
<1>11. CASE Prune
  <2>1. UNCHANGED <<vol, written>>
    BY <1>11 DEF Prune, host
  <2> QED  BY <1>2, <1>11, <2>1, PruneEffect, SavedKeeps
<1>12. CASE Wipe
  <2>1. cli.tx \in Tx /\ vol = Tr.forensic /\ UNCHANGED <<txs, written>>
    BY <1>12, GoToEffect DEF Wipe, HeldInv, At
  <2>2. vol.data \subseteq UNION {txs[t].forensic.data : t \in Tx}
    BY <2>1 DEF Tr
  <2>3. 1..written \subseteq UNION {txs[t].forensic.data : t \in Tx}
    BY <2>2 DEF SavedInv
  <2> QED  BY <2>1, <2>3 DEF SavedInv
<1>13. CASE Untar
  <2>1. vol.data = {} /\ UNCHANGED <<txs, written>>
    BY <1>13 DEF Untar, HeldInv, At
  <2> QED  BY <1>3, <2>1
<1>14. ASSUME NEW t \in Tx, NEW i \in Image, UpdateBegin(t, i) PROVE SavedInv'
  <2>1. UNCHANGED <<vol, written>>
    BY <1>14 DEF UpdateBegin, host
  <2>2. /\ txs[t].phase = "none" /\ txs'[t].forensic = txs[t].forensic
        /\ \A u \in Tx \ {t} : txs'[u] = txs[u]
    BY <1>14 DEF UpdateBegin, TypeOK
  <2>3. "none" \in BeforeForensic
    BY DEF BeforeForensic
  <2> QED  BY <2>1, <2>2, <2>3, SavedKeeps
<1>15. CASE ServerWrites
  <2>1. /\ written' = written + 1 /\ written \in Nat /\ UNCHANGED txs
        /\ vol'.data = vol.data \cup {written'}
    BY <1>15, DeployAssumption DEF ServerWrites, TypeOK, Volume
  <2>2. 1..written' = 1..written \cup {written'}
    BY <2>1
  <2> QED  BY <2>1, <2>2 DEF SavedInv
<1>16. ASSUME NEW c \in [id : 0..2 * MaxTx, image : Image, status : {"running", "exited", "created"}],
              Start(c), UNCHANGED <<txs, written>>
       PROVE  SavedInv'
  BY <1>3, <1>16, StartTyped DEF TypeOK
<1>17. CASE ComposeUp
  <2>1. cli.tx \in Tx
    BY <1>17, GoToEffect DEF ComposeUp
  <2> DEFINE c == IF cont.image = latest THEN cont
                  ELSE [id |-> UpContainer(cli.tx), image |-> latest, status |-> "created"]
  <2>2. c \in [id : 0..2 * MaxTx, image : Image, status : {"running", "exited", "created"}]
    BY <2>1, ContainerNames DEF TypeOK
  <2>3. Start(c) /\ UNCHANGED <<txs, written>>
    BY <1>17 DEF ComposeUp
  <2> HIDE DEF c
  <2> QED  BY <1>16, <2>2, <2>3
<1>18. CASE Recreate
  <2>1. cli.tx \in Tx
    BY <1>18, GoToEffect DEF Recreate
  <2> DEFINE c == [id |-> BackContainer(cli.tx), image |-> latest, status |-> "created"]
  <2>2. c \in [id : 0..2 * MaxTx, image : Image, status : {"running", "exited", "created"}]
    BY <2>1, ContainerNames DEF TypeOK
  <2>3. Start(c) /\ UNCHANGED <<txs, written>>
    BY <1>18 DEF Recreate
  <2> HIDE DEF c
  <2> QED  BY <1>16, <2>2, <2>3
<1>19. CASE StartOld \/ StartCommand
  BY <1>3, <1>16, <1>19 DEF StartOld, StartCommand, TypeOK
<1>20. CASE \/ BuildTarget \/ BuildRefused \/ EnvRefused \/ Placed \/ GateRefused \/ StopOld \/ PinTarget
            \/ StartedDown \/ RetagOld \/ HaltCandidates \/ RetagBack \/ RemoveStaleLock \/ StepFails
            \/ Kill \/ ServerStops \/ UNCHANGED vars
  BY <1>3, <1>20 DEF BuildTarget, BuildRefused, EnvRefused, Placed, GateRefused, StopOld, PinTarget,
     StartedDown, RetagOld, HaltCandidates, RetagBack, RemoveStaleLock, StepFails, Kill, ServerStops,
     host, vars
<1>21. ASSUME NEW t \in Tx, Resume(t) \/ RollbackBegin(t) PROVE SavedInv'
  BY <1>3, <1>21 DEF Resume, RollbackBegin, host
<1>22. ASSUME NEW i \in Image, BuildCommand(i) PROVE SavedInv'
  BY <1>3, <1>22 DEF BuildCommand
<1> QED
  BY <1>5, <1>6, <1>7, <1>8, <1>9, <1>10, <1>11, <1>12, <1>13, <1>14, <1>15, <1>17, <1>18,
     <1>19, <1>20, <1>21, <1>22
     DEF Next, CliStep, UpdateStep, RollbackSteps, Operator

\* A phase changes by the command at work on the transaction, by UPDATE_BEGIN or by pruning.
LEMMA StepPhase ==
  ASSUME TypeOK, CliInv, [Next]_vars, NEW t \in Tx, txs[t].phase \notin {"none", "done"}
  PROVE  txs'[t].phase = txs[t].phase \/ (cli.cmd \in {"update", "rollback"} /\ cli.tx = t)
<1> DEFINE Goal == txs'[t].phase = txs[t].phase \/ (cli.cmd \in {"update", "rollback"} /\ cli.tx = t)
<1>1. UNCHANGED txs => Goal
  OBVIOUS
<1>2. CASE \/ BuildTarget \/ BuildRefused \/ EnvRefused \/ Placed \/ GateRefused \/ StopOld \/ PinTarget
           \/ ComposeUp \/ StartedDown \/ RetagOld \/ StartOld \/ HaltCandidates \/ Wipe \/ Untar
           \/ RetagBack \/ Recreate \/ StartCommand \/ RemoveStaleLock \/ StepFails \/ Kill
           \/ ServerWrites \/ ServerStops \/ UNCHANGED vars
  BY <1>1, <1>2 DEF BuildTarget, BuildRefused, EnvRefused, Placed, GateRefused, StopOld, PinTarget,
     ComposeUp, StartedDown, RetagOld, StartOld, HaltCandidates, Wipe, Untar, RetagBack, Recreate,
     StartCommand, RemoveStaleLock, StepFails, Kill, ServerWrites, ServerStops, vars
<1>3. ASSUME NEW u \in Tx, Resume(u) \/ RollbackBegin(u) PROVE Goal
  BY <1>1, <1>3 DEF Resume, RollbackBegin
<1>4. ASSUME NEW i \in Image, BuildCommand(i) PROVE Goal
  BY <1>1, <1>4 DEF BuildCommand
<1>5. ASSUME NEW u \in Tx, NEW i \in Image, UpdateBegin(u, i) PROVE Goal
  <2>1. u # t /\ txs'[t] = txs[t]
    BY <1>5 DEF UpdateBegin, TypeOK
  <2> QED  BY <2>1
<1>6. CASE \/ SaveOldImage \/ BuildPrepared \/ EnvChecked \/ GatePassed \/ FleetGuardPassed
           \/ Stopped \/ MountResolved \/ Starting \/ UpRecorded \/ Healthy \/ Done
           \/ RollbackStopped \/ Restoring \/ Restored
  <2>1. ASSUME NEW cmd \in {"update", "rollback"}, NEW step, NEW p, NEW next, Advanced(cmd, step, p, next)
        PROVE  Goal
    BY <2>1 DEF Advanced, Phased
  <2> QED  BY <1>6, <2>1, AdvanceTable
<1>7. CASE RecordClosed \/ StartedOld \/ OldHealthy
  <2>1. cli.cmd = "rollback" /\ cli.tx \in Tx
    BY <1>7, AtWork DEF RecordClosed, StartedOld, OldHealthy, At
  <2>2. SetPhase("rolled_back") \/ UNCHANGED txs
    BY <1>7 DEF RecordClosed, StartedOld, OldHealthy
  <2>3. SetPhase("rolled_back") => Phased("rolled_back")
    BY <2>1, SetPhaseEffect DEF TypeOK, Journal, Phase
  <2> QED  BY <1>1, <2>1, <2>2, <2>3 DEF Phased
<1>8. CASE Archived
  BY <1>8, ArchivedEffect
<1>9. CASE ForensicArchived
  BY <1>9, ForensicEffect
<1>10. CASE Prune
  BY <1>10, PruneEffect
<1> QED
  <2>1. Goal
    BY <1>2, <1>3, <1>4, <1>5, <1>6, <1>7, <1>8, <1>9, <1>10
       DEF Next, CliStep, UpdateStep, RollbackSteps, Operator
  <2> QED  BY <2>1 DEF Goal

\* A command goes on with its transaction, ends, or was not there before.
LEMMA StepRun ==
  ASSUME TypeOK, CliInv, [Next]_vars
  PROVE  \/ cli' = NoRun
         \/ cli'.cmd = cli.cmd /\ cli'.tx = cli.tx
         \/ cli = NoRun /\ cli'.cmd = "update"
         \/ cli = NoRun /\ \E t \in Tx : RollbackBegin(t) /\ cli'.tx = t
<1> DEFINE Goal == \/ cli' = NoRun
                   \/ cli'.cmd = cli.cmd /\ cli'.tx = cli.tx
                   \/ cli = NoRun /\ cli'.cmd = "update"
                   \/ cli = NoRun /\ \E t \in Tx : RollbackBegin(t) /\ cli'.tx = t
<1>1. ASSUME NEW step, GoTo(step) PROVE Goal
  BY <1>1 DEF GoTo, TypeOK
<1>2. Exit \/ UNCHANGED cli \/ Kill => Goal
  BY DEF Exit, Kill
<1>3. ASSUME NEW t \in Tx, RollbackBegin(t) PROVE Goal
  BY <1>3, AtRest DEF RollbackBegin, Acquire
<1>4. ASSUME NEW t \in Tx, Resume(t) PROVE Goal
  BY <1>4, AtRest DEF Resume, Acquire
<1>5. ASSUME NEW t \in Tx, NEW i \in Image, UpdateBegin(t, i) PROVE Goal
  BY <1>5, AtRest DEF UpdateBegin, Acquire
<1>6. CASE CliStep
  <2>1. Exit \/ UNCHANGED cli \/ \E step \in Steps : GoTo(step)
    <3>1. CASE \/ SaveOldImage \/ BuildPrepared \/ EnvChecked \/ GatePassed \/ FleetGuardPassed
               \/ Stopped \/ MountResolved \/ Starting \/ UpRecorded \/ Healthy \/ Done
               \/ RollbackStopped \/ Restoring \/ Restored
      BY <3>1 DEF SaveOldImage, BuildPrepared, EnvChecked, GatePassed, FleetGuardPassed, Stopped,
         MountResolved, Starting, UpRecorded, Healthy, Done, RollbackStopped, Restoring, Restored,
         Advance, Steps
    <3>2. CASE \/ BuildTarget \/ Placed \/ StopOld \/ Archived \/ PinTarget \/ ComposeUp
               \/ RetagOld \/ StartOld \/ HaltCandidates \/ ForensicArchived \/ Wipe \/ Untar \/ RetagBack \/ Recreate
      BY <3>2 DEF BuildTarget, Placed, StopOld, Archived, PinTarget, ComposeUp, RetagOld, StartOld,
         HaltCandidates, ForensicArchived, Wipe, Untar, RetagBack, Recreate, Steps
    <3>3. CASE \/ BuildRefused \/ EnvRefused \/ GateRefused \/ StartedDown \/ Prune \/ RecordClosed
               \/ StartedOld \/ OldHealthy
      BY <3>3 DEF BuildRefused, EnvRefused, GateRefused, StartedDown, Prune, RecordClosed,
         StartedOld, OldHealthy
    <3> QED  BY <1>6, <3>1, <3>2, <3>3 DEF CliStep, UpdateStep, RollbackSteps
  <2> QED  BY <1>1, <1>2, <2>1
<1>7. CASE \/ StartCommand \/ RemoveStaleLock \/ StepFails \/ Kill \/ ServerWrites \/ ServerStops
           \/ (\E i \in Image : BuildCommand(i)) \/ UNCHANGED vars
  <2> QED
    BY <1>2, <1>7 DEF StartCommand, RemoveStaleLock, StepFails, ServerWrites, ServerStops,
       BuildCommand, vars
<1> QED
  <2>1. Goal
    BY <1>3, <1>4, <1>5, <1>6, <1>7 DEF Next, Operator
  <2> QED  BY <2>1 DEF Goal

\* A restore that was left half-way is never taken up again.
LEMMA BrokenStays ==
  ASSUME TypeOK, CliInv, [Next]_vars, Broken
  PROVE  Broken'
<1>1. PICK t \in Tx : /\ txs[t].phase \in Interrupted
                      /\ ~(cli.cmd = "rollback" /\ cli.tx = t)
  BY DEF Broken
<1>2. ~(cli.cmd = "update" /\ cli.tx = t)
  BY <1>1 DEF CliInv, NoRun, Interrupted, Tr
<1>3. txs'[t].phase = txs[t].phase
  BY <1>1, <1>2, StepPhase DEF Interrupted
<1>4. ~RollbackBegin(t)
  BY <1>1 DEF RollbackBegin, Interrupted, NonDestructive, Resumable, Stopping, Destructive, Committed
<1>5. ~(cli'.cmd = "rollback" /\ cli'.tx = t)
  BY <1>1, <1>4, StepRun DEF NoRun
<1> QED  BY <1>1, <1>3, <1>5 DEF Broken

\* While an update is at work no restore is half-way, unless one is broken.
LEMMA UpdateUninterrupted ==
  ASSUME CliInv, cli.cmd = "update", ~Broken
  PROVE  NoneInterrupted
  BY DEF Broken, NoneInterrupted, Interrupted

\* A step that starts nothing, archives nothing, restores nothing.
LEMMA ReadableKeeps ==
  ASSUME ReadableInv, Broken => Broken',
         vol'.whole = vol.whole, vol'.schema = vol.schema, cont'.image = cont.image,
         \A t \in Tx : /\ txs'[t].old = txs[t].old
                       /\ txs'[t].phase \in Restorable =>
                            txs[t].phase \in Restorable /\ txs'[t].archive = txs[t].archive
                       /\ txs[t].phase \in Interrupted => txs'[t].phase \in Interrupted,
         cli'.step # "oldHealth" \/ UNCHANGED cli, cli.tx \in Tx \/ cli'.step # "oldHealth"
  PROVE  ReadableInv'
<1>1. SUFFICES ASSUME ~Broken' PROVE
         /\ \A t \in Tx : txs'[t].phase \in Restorable =>
              txs'[t].archive.whole /\ txs'[t].archive.schema <= txs'[t].old
         /\ NoneInterrupted' => vol'.whole /\ vol'.schema <= cont'.image
         /\ At("rollback", "oldHealth")' => vol'.whole /\ vol'.schema <= Tr'.old
  BY DEF ReadableInv
<1>2. ~Broken
  BY <1>1
<1>3. NoneInterrupted' => NoneInterrupted
  BY DEF NoneInterrupted, Interrupted
<1>4. At("rollback", "oldHealth")' => At("rollback", "oldHealth") /\ Tr'.old = Tr.old
  BY DEF At, Tr
<1> QED  BY <1>2, <1>3, <1>4 DEF ReadableInv

\* The same for a step that changes no journal and no container's image.
LEMMA ReadableStays ==
  ASSUME TypeOK, CliInv, ReadableInv, [Next]_vars,
         UNCHANGED txs, vol'.whole = vol.whole, vol'.schema = vol.schema, cont'.image = cont.image,
         cli'.step # "oldHealth" \/ UNCHANGED cli
  PROVE  ReadableInv'
<1>1. Broken => Broken'
  BY BrokenStays
<1>2. CASE cli'.step # "oldHealth"
  BY <1>1, <1>2, ReadableKeeps
<1>3. CASE UNCHANGED cli /\ cli.tx \in Tx
  BY <1>1, <1>3, ReadableKeeps
<1>4. CASE UNCHANGED cli /\ cli = NoRun
  BY <1>1, <1>4, ReadableKeeps DEF NoRun
<1> QED  BY <1>2, <1>3, <1>4 DEF CliInv

\* A started container whose image is as new as the data opens them as they are.
LEMMA ReadableStart ==
  ASSUME TypeOK, CliInv, ReadableInv, [Next]_vars, UNCHANGED txs, cli'.step # "oldHealth",
         NEW c \in [id : 0..2 * MaxTx, image : Image, status : {"running", "exited", "created"}],
         Start(c), ~Broken /\ NoneInterrupted => vol.schema <= c.image
  PROVE  ReadableInv'
<1>1. SUFFICES ASSUME ~Broken' PROVE
         /\ \A t \in Tx : txs'[t].phase \in Restorable =>
              txs'[t].archive.whole /\ txs'[t].archive.schema <= txs'[t].old
         /\ NoneInterrupted' => vol'.whole /\ vol'.schema <= cont'.image
  BY DEF ReadableInv, At
<1>2. ~Broken
  BY <1>1, BrokenStays
<1>3. NoneInterrupted' => NoneInterrupted
  BY DEF NoneInterrupted
<1>4. /\ cont'.image = c.image /\ vol'.whole = vol.whole
      /\ vol.schema <= c.image => vol'.schema = c.image
  BY StartTyped DEF TypeOK
<1>5. c.image <= c.image
  BY DEF Image
<1> QED  BY <1>2, <1>3, <1>4, <1>5 DEF ReadableInv

\* What a container is started on, it can read, whichever command starts it.
LEMMA NextReadable ==
  ASSUME TypeOK, CliInv, BuiltInv, ContainerInv, HeldInv, ReadableInv, [Next]_vars
  PROVE  ReadableInv'
<1> USE DEF NoRun
<1>1. Broken => Broken'
  BY BrokenStays
<1>2. /\ vol.schema \in Int /\ cont.image \in Int /\ latest \in Int
      /\ \A t \in Tx : txs[t].old \in Int /\ txs[t].target \in Int
      /\ cont \in [id : 0..2 * MaxTx, image : Image, status : {"running", "exited", "created"}]
  BY DEF TypeOK, Volume, Image
<1>3. /\ {"starting", "up", "healthy", "done", "rollback_stopped", "rollback_restoring",
          "rollback_restored", "rollback_forensic_archived", "archived"} \subseteq Restorable
      /\ Restorable \cap {"none", "preflight", "old_image_saved", "build_prepared", "stopping", "stopped",
                          "env_consistency_checked", "maintenance_gate_passed", "mount_resolved",
                          "rolled_back", "pruned"} = {}
  BY DEF Restorable, Destructive, Committed, MidRollback
<1>4. CASE \/ BuildRefused \/ EnvRefused \/ GateRefused \/ StartedDown \/ Kill \/ RemoveStaleLock
           \/ (\E t \in Tx : Resume(t) \/ RollbackBegin(t)) \/ (\E i \in Image : BuildCommand(i))
           \/ UNCHANGED vars
  <2>1. UNCHANGED <<txs, cont, vol>>
    BY <1>4 DEF BuildRefused, EnvRefused, GateRefused, StartedDown, Kill, RemoveStaleLock, Resume,
       RollbackBegin, BuildCommand, host, vars
  <2>2. cli'.step # "oldHealth" \/ UNCHANGED cli
    BY <1>4 DEF BuildRefused, EnvRefused, GateRefused, StartedDown, Kill, RemoveStaleLock, Resume,
       RollbackBegin, BuildCommand, Exit, Acquire, ResumeStep, RollbackStep, vars
  <2> QED  BY <2>1, <2>2, ReadableStays
<1>5. CASE \/ BuildTarget \/ Placed \/ PinTarget \/ RetagOld \/ RetagBack
  <2>1. UNCHANGED <<txs, cont, vol>>
    BY <1>5 DEF BuildTarget, Placed, PinTarget, RetagOld, RetagBack, host
  <2>2. cli'.step # "oldHealth"
    BY <1>5, GoToEffect DEF BuildTarget, Placed, PinTarget, RetagOld, RetagBack
  <2> QED  BY <2>1, <2>2, ReadableStays
<1>6. CASE StopOld \/ HaltCandidates \/ ServerStops
  <2>1. UNCHANGED <<txs, vol>> /\ cont'.image = cont.image
    BY <1>6 DEF StopOld, HaltCandidates, ServerStops, TypeOK
  <2>2. cli'.step # "oldHealth" \/ UNCHANGED cli
    BY <1>6 DEF StopOld, HaltCandidates, ServerStops, GoTo, Exit, TypeOK
  <2> QED  BY <2>1, <2>2, ReadableStays
<1>7. CASE ServerWrites
  <2>1. UNCHANGED <<txs, cont, cli>> /\ vol'.whole = vol.whole /\ vol'.schema = vol.schema
    BY <1>7 DEF ServerWrites, TypeOK, Volume
  <2> QED  BY <2>1, ReadableStays
<1>8. ASSUME NEW cmd, NEW step, NEW p, NEW next, Advanced(cmd, step, p, next), next # "oldHealth",
             p \in Restorable => Tr.phase \in Restorable,
             Tr.phase \in Interrupted => p \in Interrupted
      PROVE  ReadableInv'
  <2>1. ASSUME NEW t \in Tx
        PROVE  /\ txs'[t].old = txs[t].old
               /\ txs'[t].phase \in Restorable =>
                    txs[t].phase \in Restorable /\ txs'[t].archive = txs[t].archive
               /\ txs[t].phase \in Interrupted => txs'[t].phase \in Interrupted
    BY <1>8 DEF Advanced, Phased, Tr
  <2> QED  BY <1>1, <1>8, <2>1, ReadableKeeps DEF Advanced
<1>9. CASE \/ SaveOldImage \/ BuildPrepared \/ EnvChecked \/ GatePassed \/ FleetGuardPassed \/ Stopped
           \/ MountResolved
  <2>1. ASSUME NEW step, NEW p, NEW next, Advanced("update", step, p, next), next # "oldHealth",
               p \notin Restorable
        PROVE  ReadableInv'
    <3>1. Tr.phase \notin Interrupted
      BY <2>1 DEF Advanced, CliInv, Interrupted
    <3> QED  BY <1>8, <2>1, <3>1
  <2> QED  BY <1>3, <1>9, <2>1, AdvanceTable
<1>10. CASE Starting \/ UpRecorded \/ Healthy \/ Done
  <2>1. ASSUME NEW step, NEW p, NEW next, Advanced("update", step, p, next), next # "oldHealth",
               step \in {"starting", "recordUp", "health", "stability"}
        PROVE  ReadableInv'
    <3>1. Tr.phase \in Restorable /\ Tr.phase \notin Interrupted
      BY <1>3, <2>1 DEF Advanced, CliInv, Interrupted
    <3> QED  BY <1>8, <2>1, <3>1
  <2> QED  BY <1>10, <2>1, AdvanceTable
<1>11. CASE RollbackStopped
  <2>1. Advanced("rollback", "halted", "rollback_stopped", "forensic")
    BY <1>11, AdvanceTable
  <2>2. Tr.phase \in Destructive
    BY <2>1 DEF Advanced, CliInv
  <2>3. Tr.phase \in Restorable /\ Tr.phase \notin Interrupted
    BY <2>2 DEF Restorable, Destructive, Committed, Interrupted
  <2> QED  BY <1>8, <2>1, <2>3
<1>12. CASE Restoring
  <2>1. Advanced("rollback", "restoring", "rollback_restoring", "wipe")
    BY <1>12, AdvanceTable
  <2>2. Tr.phase = "rollback_forensic_archived"
    BY <2>1 DEF Advanced, CliInv
  <2> QED  BY <1>3, <1>8, <2>1, <2>2 DEF Interrupted
<1>13. CASE Restored
  <2>1. Advanced("rollback", "verify", "rollback_restored", "retagBack")
    BY <1>13, AdvanceTable
  <2>2. Tr.phase = "rollback_restoring"
    BY <2>1 DEF Advanced, CliInv
  <2> QED  BY <1>3, <1>8, <2>1, <2>2 DEF Interrupted
<1>14. CASE Archived
  <2>1. cont.image = Tr.old
    BY <1>14, ArchivedEffect, OldImage DEF HeldInv, Tr
  <2>2. SUFFICES ASSUME ~Broken' PROVE
          /\ \A t \in Tx : txs'[t].phase \in Restorable =>
               txs'[t].archive.whole /\ txs'[t].archive.schema <= txs'[t].old
          /\ NoneInterrupted' => vol'.whole /\ vol'.schema <= cont'.image
    BY <1>14, ArchivedEffect DEF ReadableInv, At
  <2>3. ~Broken /\ NoneInterrupted
    BY <1>1, <1>14, <2>2, ArchivedEffect, UpdateUninterrupted
  <2>4. vol.whole /\ vol.schema <= cont.image
    BY <2>3 DEF ReadableInv
  <2>5. ASSUME NEW t \in Tx, txs'[t].phase \in Restorable
        PROVE  txs'[t].archive.whole /\ txs'[t].archive.schema <= txs'[t].old
    <3>1. CASE t = cli.tx
      BY <1>14, <2>1, <2>4, <3>1, ArchivedEffect DEF Tr
    <3>2. CASE t # cli.tx
      BY <1>14, <2>3, <2>5, <3>2, ArchivedEffect DEF ReadableInv
    <3> QED  BY <3>1, <3>2
  <2> QED  BY <1>14, <2>4, <2>5, ArchivedEffect
<1>15. CASE ForensicArchived
  <2>1. ASSUME NEW t \in Tx
        PROVE  /\ txs'[t].old = txs[t].old
               /\ txs'[t].phase \in Restorable =>
                    txs[t].phase \in Restorable /\ txs'[t].archive = txs[t].archive
               /\ txs[t].phase \in Interrupted => txs'[t].phase \in Interrupted
    BY <1>3, <1>15, ForensicEffect DEF Tr, Interrupted
  <2> QED  BY <1>1, <1>15, <2>1, ForensicEffect, ReadableKeeps
<1>16. CASE Prune
  <2>1. ASSUME NEW t \in Tx
        PROVE  /\ txs'[t].old = txs[t].old
               /\ txs'[t].phase \in Restorable =>
                    txs[t].phase \in Restorable /\ txs'[t].archive = txs[t].archive
               /\ txs[t].phase \in Interrupted => txs'[t].phase \in Interrupted
    BY <1>3, <1>16, PruneEffect DEF Interrupted
  <2>2. cli'.step # "oldHealth" /\ UNCHANGED <<cont, vol>>
    BY <1>16 DEF Prune, Exit, host
  <2> QED  BY <1>1, <2>1, <2>2, ReadableKeeps
<1>17. ASSUME NEW t \in Tx, NEW i \in Image, UpdateBegin(t, i) PROVE ReadableInv'
  <2>1. /\ UNCHANGED <<cont, vol>> /\ cli'.step # "oldHealth"
        /\ txs[t].phase = "none" /\ txs'[t].phase = "preflight"
        /\ \A u \in Tx \ {t} : txs'[u] = txs[u]
    BY <1>17 DEF UpdateBegin, Acquire, host, TypeOK
  <2>2. SUFFICES ASSUME ~Broken' PROVE
          /\ \A u \in Tx : txs'[u].phase \in Restorable =>
               txs'[u].archive.whole /\ txs'[u].archive.schema <= txs'[u].old
          /\ NoneInterrupted' => vol'.whole /\ vol'.schema <= cont'.image
    BY <2>1 DEF ReadableInv, At
  <2>3. ~Broken
    BY <1>1, <2>2
  <2>4. NoneInterrupted' => NoneInterrupted
    BY <2>1 DEF NoneInterrupted
  <2> QED  BY <1>3, <2>1, <2>3, <2>4 DEF ReadableInv
<1>18. CASE StartCommand
  <2>1. UNCHANGED <<txs, cli>> /\ cli.step # "oldHealth" /\ Start(cont)
    BY <1>18, AtRest DEF StartCommand
  <2>2. ~Broken /\ NoneInterrupted => vol.schema <= cont.image
    BY DEF ReadableInv
  <2> QED  BY <1>2, <2>1, <2>2, ReadableStart
<1>19. CASE StartOld
  <2>1. CASE Start(cont) /\ GoTo("startedOld")
    <3>1. UNCHANGED txs /\ cli'.step # "oldHealth"
      BY <1>19, <2>1, GoToEffect DEF StartOld
    <3>2. ~Broken /\ NoneInterrupted => vol.schema <= cont.image
      BY DEF ReadableInv
    <3> QED  BY <1>2, <2>1, <3>1, <3>2, ReadableStart
  <2>2. CASE UNCHANGED <<cont, vol>> /\ Exit
    <3>1. UNCHANGED txs /\ cli'.step # "oldHealth"
      BY <1>19, <2>2 DEF StartOld, Exit
    <3> QED  BY <2>2, <3>1, ReadableStays
  <2> QED  BY <1>19, <2>1, <2>2 DEF StartOld
<1>20. ASSUME cli.cmd = "update", cli.step = "up"
       PROVE  cli.tx \in Tx /\ (~Broken /\ NoneInterrupted => vol.schema <= latest)
  <2>1. cli.tx \in Tx /\ Tr.phase = "starting"
    BY <1>20 DEF CliInv
  <2>2. cont.id = Tr.oldc /\ latest = Tr.target
    BY <1>20 DEF HeldInv
  <2>3. cont.image = Tr.old
    BY <2>1, <2>2, OldImage DEF Tr
  <2>4. Tr.old <= Tr.target
    BY <2>1 DEF BuiltInv, BuiltBy, Prepared, Tr
  <2>5. Tr.old \in Int /\ Tr.target \in Int
    BY <1>2, <2>1 DEF Tr
  <2>6. ~Broken /\ NoneInterrupted => vol.schema <= cont.image
    BY DEF ReadableInv
  <2> QED  BY <1>2, <2>1, <2>2, <2>3, <2>4, <2>5, <2>6
<1>21. CASE ComposeUp
  <2> DEFINE c == IF cont.image = latest THEN cont
                  ELSE [id |-> UpContainer(cli.tx), image |-> latest, status |-> "created"]
  <2>1. cli.cmd = "update" /\ cli.step = "up" /\ cli'.step # "oldHealth"
    BY <1>21, GoToEffect DEF ComposeUp
  <2>2. c \in [id : 0..2 * MaxTx, image : Image, status : {"running", "exited", "created"}]
    BY <1>20, <2>1, ContainerNames DEF TypeOK
  <2>3. Start(c) /\ UNCHANGED txs
    BY <1>21 DEF ComposeUp
  <2>4. c.image = latest
    OBVIOUS
  <2> HIDE DEF c
  <2> QED  BY <1>20, <2>1, <2>2, <2>3, <2>4, ReadableStart
<1>22. CASE Wipe \/ Untar
  <2>1. /\ cli.cmd = "rollback" /\ cli.tx \in Tx /\ Tr.phase \in Interrupted
        /\ UNCHANGED txs /\ cli'.step # "oldHealth"
    BY <1>22, GoToEffect DEF Wipe, Untar, At, CliInv, Interrupted
  <2>2. ~NoneInterrupted'
    BY <2>1 DEF NoneInterrupted, Interrupted, Tr
  <2> QED  BY <1>1, <2>1, <2>2 DEF ReadableInv, At
<1>23. CASE Recreate
  <2> DEFINE c == [id |-> BackContainer(cli.tx), image |-> latest, status |-> "created"]
  <2>1. /\ cli.cmd = "rollback" /\ cli.tx \in Tx /\ Tr.phase = "rollback_restored"
        /\ cli'.tx = cli.tx
        /\ UNCHANGED txs
    BY <1>23, GoToEffect DEF Recreate, At, CliInv
  <2>2. latest = Tr.old /\ vol = Tr.archive
    BY <1>23, <2>1 DEF Recreate, HeldInv, At
  <2>3. ~NoneInterrupted'
    BY <2>1 DEF NoneInterrupted, Tr
  <2>4. c \in [id : 0..2 * MaxTx, image : Image, status : {"running", "exited", "created"}]
    BY <2>1, ContainerNames DEF TypeOK
  <2>5. Start(c) /\ c.image = latest
    BY <1>23 DEF Recreate
  <2> HIDE DEF c
  <2>6. /\ vol'.whole = vol.whole
        /\ vol.schema <= latest => vol'.schema = latest
    BY <2>4, <2>5, StartTyped DEF TypeOK
  <2>7. ~Broken => vol.whole /\ vol.schema <= Tr.old
    BY <1>3, <2>1, <2>2 DEF ReadableInv, Tr
  <2>8. Tr'.old = Tr.old /\ Tr.old <= Tr.old
    BY <1>2, <2>1 DEF Tr
  <2>9. ~Broken => vol'.whole /\ vol'.schema <= Tr'.old
    BY <2>2, <2>6, <2>7, <2>8
  <2> QED  BY <1>1, <2>1, <2>3, <2>9 DEF ReadableInv
<1>24. CASE OldHealthy
  <2>1. /\ cli.cmd = "rollback" /\ cli.step = "oldHealth" /\ cli.tx \in Tx
        /\ Tr.phase = "rollback_restored" /\ cli' = NoRun /\ UNCHANGED <<cont, vol>>
    BY <1>24, AtWork DEF OldHealthy, At, CliInv, Exit, host
  <2>2. CASE UNCHANGED txs
    BY <2>1, <2>2, ReadableStays
  <2>3. CASE SetPhase("rolled_back") /\ cont.image = Tr.old
    <3>1. Phased("rolled_back")
      BY <2>1, <2>3, SetPhaseEffect DEF TypeOK, Journal, Phase
    <3>2. SUFFICES ASSUME ~Broken' PROVE
            /\ \A t \in Tx : txs'[t].phase \in Restorable =>
                 txs'[t].archive.whole /\ txs'[t].archive.schema <= txs'[t].old
            /\ vol'.whole /\ vol'.schema <= cont'.image
      BY <2>1 DEF ReadableInv, At
    <3>3. vol.whole /\ vol.schema <= Tr.old
      BY <1>1, <2>1, <3>2 DEF ReadableInv, At
    <3>4. ASSUME NEW t \in Tx, txs'[t].phase \in Restorable
          PROVE  txs'[t].archive.whole /\ txs'[t].archive.schema <= txs'[t].old
      BY <1>1, <1>3, <3>1, <3>2, <3>4 DEF Phased, ReadableInv
    <3> QED  BY <2>1, <2>3, <3>3, <3>4
  <2> QED  BY <1>24, <2>2, <2>3 DEF OldHealthy
<1>25. CASE RecordClosed \/ StartedOld
  <2>1. /\ cli.tx \in Tx /\ Tr.phase \notin Interrupted /\ cli'.step # "oldHealth"
        /\ UNCHANGED <<cont, vol>>
    BY <1>25 DEF RecordClosed, StartedOld, At, Exit, CliInv, Interrupted, NonDestructive, Resumable,
       Stopping, host
  <2>2. Phased("rolled_back")
    BY <1>25, <2>1, SetPhaseEffect DEF RecordClosed, StartedOld, TypeOK, Journal, Phase
  <2>3. ASSUME NEW t \in Tx
        PROVE  /\ txs'[t].old = txs[t].old
               /\ txs'[t].phase \in Restorable =>
                    txs[t].phase \in Restorable /\ txs'[t].archive = txs[t].archive
               /\ txs[t].phase \in Interrupted => txs'[t].phase \in Interrupted
    BY <1>3, <2>1, <2>2 DEF Phased, Tr
  <2> QED  BY <1>1, <2>1, <2>3, ReadableKeeps
<1>26. CASE StepFails
  <2>1. cli.tx \in Tx /\ cli' = NoRun /\ UNCHANGED <<txs, vol>>
    BY <1>26 DEF StepFails, Exit, CliInv
  <2>2. CASE UNCHANGED cont
    BY <2>1, <2>2, ReadableStays
  <2>3. CASE cli.step = "up" /\ cont'.image = latest
    <3>1. cli.cmd = "update"
      BY <2>1, <2>3 DEF CliInv
    <3>2. ~Broken /\ NoneInterrupted => vol'.schema <= cont'.image
      BY <1>20, <2>1, <2>3, <3>1
    <3>3. NoneInterrupted' => NoneInterrupted
      BY <2>1 DEF NoneInterrupted
    <3> QED  BY <1>1, <2>1, <3>2, <3>3 DEF ReadableInv, At
  <2>4. CASE cli.step = "recreate"
    <3>1. Tr.phase \in Interrupted
      BY <2>1, <2>4 DEF CliInv, Interrupted
    <3>2. Broken'
      BY <2>1, <3>1 DEF Broken, Tr
    <3> QED  BY <3>2 DEF ReadableInv
  <2> QED  BY <1>26, <2>2, <2>3, <2>4 DEF StepFails
<1> QED
  BY <1>4, <1>5, <1>6, <1>7, <1>9, <1>10, <1>11, <1>12, <1>13, <1>14, <1>15, <1>16, <1>17, <1>18,
     <1>19, <1>21, <1>22, <1>23, <1>24, <1>25, <1>26
     DEF Next, CliStep, UpdateStep, RollbackSteps, Operator

-----------------------------------------------------------------------------
(* The theorems.                                                           *)

\* Every step keeps the inductive invariant.
LEMMA NextDeploy ==
  ASSUME TypeOK, DeployInv, [Next]_vars
  PROVE  TypeOK' /\ DeployInv'
<1>1. CliInv /\ BuiltInv /\ ContainerInv /\ HeldInv /\ SavedInv /\ ReadableInv
  BY DEF DeployInv
<1>2. TypeOK' /\ CliInv'
  BY <1>1, NextTyped, NextCli
<1>3. BuiltInv' /\ ContainerInv' /\ HeldInv'
  BY <1>1, NextBuilt, NextContainer, NextHeld
<1>4. SavedInv' /\ ReadableInv'
  BY <1>1, NextSaved, NextReadable
<1> QED  BY <1>2, <1>3, <1>4 DEF DeployInv

\* The inductive invariant holds in every reachable state.
LEMMA Deployed == Spec => [](TypeOK /\ DeployInv)
<1>1. Init => TypeOK /\ DeployInv
  BY InitTyped
<1>2. TypeOK /\ DeployInv /\ [Next]_vars => (TypeOK /\ DeployInv)'
  BY NextDeploy
<1> QED  BY <1>1, <1>2, PTL DEF Spec

\* The phases at which a transaction commits or is called rolled back are journalled by
\* one step each of the command at work on it.
LEMMA StepOutcome ==
  ASSUME TypeOK, CliInv, [Next]_vars, NEW t \in Tx, txs'[t].phase # txs[t].phase,
         txs'[t].phase \in {"starting", "healthy", "done", "rolled_back"}
  PROVE  /\ cli.tx = t
         /\ \/ Starting /\ txs'[t].phase = "starting"
            \/ Healthy /\ txs'[t].phase = "healthy"
            \/ Done /\ txs'[t].phase = "done"
            \/ (RecordClosed \/ StartedOld \/ OldHealthy) /\ txs'[t].phase = "rolled_back"
<1> DEFINE Goal ==
      /\ cli.tx = t
      /\ \/ Starting /\ txs'[t].phase = "starting"
         \/ Healthy /\ txs'[t].phase = "healthy"
         \/ Done /\ txs'[t].phase = "done"
         \/ (RecordClosed \/ StartedOld \/ OldHealthy) /\ txs'[t].phase = "rolled_back"
<1>1. UNCHANGED txs => Goal
  OBVIOUS
<1>2. CASE \/ BuildTarget \/ BuildRefused \/ EnvRefused \/ Placed \/ GateRefused \/ StopOld \/ PinTarget
           \/ ComposeUp \/ StartedDown \/ RetagOld \/ StartOld \/ HaltCandidates \/ Wipe \/ Untar
           \/ RetagBack \/ Recreate \/ StartCommand \/ RemoveStaleLock \/ StepFails \/ Kill
           \/ ServerWrites \/ ServerStops \/ UNCHANGED vars
  BY <1>1, <1>2 DEF BuildTarget, BuildRefused, EnvRefused, Placed, GateRefused, StopOld, PinTarget,
     ComposeUp, StartedDown, RetagOld, StartOld, HaltCandidates, Wipe, Untar, RetagBack, Recreate,
     StartCommand, RemoveStaleLock, StepFails, Kill, ServerWrites, ServerStops, vars
<1>3. ASSUME NEW u \in Tx, Resume(u) \/ RollbackBegin(u) PROVE Goal
  BY <1>1, <1>3 DEF Resume, RollbackBegin
<1>4. ASSUME NEW i \in Image, BuildCommand(i) PROVE Goal
  BY <1>1, <1>4 DEF BuildCommand
<1>5. ASSUME NEW u \in Tx, NEW i \in Image, UpdateBegin(u, i) PROVE FALSE
  <2>1. txs'[u].phase = "preflight" /\ (u # t => txs'[t] = txs[t])
    BY <1>5 DEF UpdateBegin, TypeOK
  <2> QED  BY <2>1
<1>6. ASSUME NEW cmd, NEW step, NEW p, NEW next, Advanced(cmd, step, p, next)
      PROVE  t = cli.tx /\ txs'[t].phase = p
  BY <1>6 DEF Advanced, Phased
<1>7. CASE \/ SaveOldImage \/ BuildPrepared \/ EnvChecked \/ GatePassed \/ FleetGuardPassed \/ Stopped
           \/ MountResolved \/ UpRecorded \/ RollbackStopped \/ Restoring \/ Restored
  <2>1. txs'[t].phase \notin {"starting", "healthy", "done", "rolled_back"}
    BY <1>6, <1>7, AdvanceTable
  <2> QED  BY <2>1
<1>8. CASE Starting \/ Healthy \/ Done
  BY <1>6, <1>8, AdvanceTable
<1>9. CASE RecordClosed \/ StartedOld \/ OldHealthy
  <2>1. cli.cmd = "rollback" /\ cli.tx \in Tx
    BY <1>9, AtWork DEF RecordClosed, StartedOld, OldHealthy, At
  <2>2. SetPhase("rolled_back") \/ UNCHANGED txs
    BY <1>9 DEF RecordClosed, StartedOld, OldHealthy
  <2>3. SetPhase("rolled_back") => Phased("rolled_back")
    BY <2>1, SetPhaseEffect DEF TypeOK, Journal, Phase
  <2> QED  BY <1>1, <1>9, <2>1, <2>2, <2>3 DEF Phased
<1>10. CASE Archived
  BY <1>10, ArchivedEffect
<1>11. CASE ForensicArchived
  BY <1>11, ForensicEffect
<1>12. CASE Prune
  BY <1>12, PruneEffect
<1> QED
  BY <1>2, <1>3, <1>4, <1>5, <1>7, <1>8, <1>9, <1>10, <1>11, <1>12
     DEF Next, CliStep, UpdateStep, RollbackSteps, Operator

\* TypeOK: every reachable state of the deploy CLI has the types the model declares
\* (a command at work names a transaction that exists).
THEOREM Typed == Spec => []TypeOK
  BY Deployed, PTL

\* NothingLost: however commands are killed, fail and are started again, every write of
\* the server is on the volume or in an archive (runRollback, pruneOldTransactions).
THEOREM AllKept == Spec => []NothingLost
<1>1. SavedInv => NothingLost
  <2> SUFFICES ASSUME SavedInv, NEW w \in 1..written
               PROVE  w \in vol.data
                             \cup UNION {txs[t].archive.data \cup txs[t].forensic.data : t \in Tx}
    BY DEF NothingLost
  <2> QED  BY DEF SavedInv
<1> QED  BY <1>1, Deployed, PTL DEF DeployInv

\* PairHeld: a running container can read the volume unless a journal says that a restore
\* was interrupted; `start` and both recoveries included (runRollback, runStart).
THEOREM RunsOnReadable == Spec => []PairHeld
<1>1. ReadableInv => PairHeld
  BY DEF ReadableInv, PairHeld, Broken, Interrupted, NoneInterrupted
<1> QED  BY <1>1, Deployed, PTL DEF DeployInv

\* CommitSound: the archive is the volume when the target is about to be started, the
\* container of an update runs what the update built, and the update is done only on it.
THEOREM Commits == Spec => CommitSound
<1> DEFINE Sound(t) ==
      /\ cont'.id = UpContainer(t) => cont'.image = txs[t].target
      /\ txs'[t].phase # txs[t].phase =>
            /\ txs'[t].phase = "starting" => txs'[t].archive = vol
            /\ txs'[t].phase \in {"healthy", "done"} =>
                  cont.image = txs[t].target /\ latest = txs[t].target
<1>1. ASSUME TypeOK, DeployInv, [Next]_vars, NEW t \in Tx PROVE Sound(t)
  <2>1. CliInv /\ HeldInv /\ ContainerInv /\ ContainerInv'
    BY <1>1, NextDeploy DEF DeployInv
  <2>2. ASSUME cont'.id = UpContainer(t) PROVE cont'.image = txs[t].target
    <3>1. CASE Recorded
      BY <2>1, <2>2, <3>1 DEF ContainerInv, Runs, Recorded
    <3>2. CASE \E u \in Tx, i \in Image : UpdateBegin(u, i)
      BY <2>1, <2>2, <3>2 DEF UpdateBegin, host, ContainerInv, Runs
    <3> QED  BY <1>1, <2>1, <3>1, <3>2, StepRecords
  <2>3. ASSUME txs'[t].phase # txs[t].phase, txs'[t].phase = "starting" PROVE txs'[t].archive = vol
    <3>1. cli.tx = t /\ Starting
      BY <1>1, <2>1, <2>3, StepOutcome
    <3>2. Advanced("update", "starting", "starting", "up")
      BY <1>1, <2>1, <3>1, AdvanceTable
    <3> QED  BY <1>1, <2>1, <3>1, <3>2 DEF Advanced, Phased, HeldInv, Tr
  <2>4. ASSUME txs'[t].phase # txs[t].phase, txs'[t].phase \in {"healthy", "done"}
        PROVE  cont.image = txs[t].target /\ latest = txs[t].target
    <3>1. cli.tx = t /\ (Healthy \/ Done)
      BY <1>1, <2>1, <2>4, StepOutcome
    <3> QED  BY <2>1, <3>1 DEF Healthy, Done, Advance, At, HeldInv, Tr
  <2> QED  BY <2>2, <2>3, <2>4
<1>2. ASSUME TypeOK, DeployInv, [Next]_vars PROVE [\A t \in Tx : Sound(t)]_vars
  BY <1>1, <1>2
<1> QED  BY <1>2, Deployed, PTL DEF Spec, CommitSound

\* RollbackSound: a transaction is called rolled back only on the old image and, unless
\* the restore of another one was interrupted, on data that image can read (runRollback).
THEOREM RollsBack == Spec => RollbackSound
<1> DEFINE Sound(t) == RolledBack(t) =>
      /\ cont.image = txs[t].old /\ latest = txs[t].old
      /\ NoneInterrupted' => vol.whole /\ vol.schema <= txs[t].old
<1>1. ASSUME TypeOK, DeployInv, [Next]_vars, NEW t \in Tx PROVE Sound(t)
  <2>1. CliInv /\ HeldInv /\ ReadableInv
    BY <1>1 DEF DeployInv
  <2>2. SUFFICES ASSUME RolledBack(t)
                 PROVE  /\ cont.image = txs[t].old /\ latest = txs[t].old
                        /\ NoneInterrupted' => vol.whole /\ vol.schema <= txs[t].old
    OBVIOUS
  <2>3. /\ cli.tx = t /\ (RecordClosed \/ StartedOld \/ OldHealthy)
        /\ txs[t].phase # "preflight"
    BY <1>1, <2>1, <2>2, StepOutcome DEF RolledBack
  <2>4. NoneInterrupted' => ~Broken
    BY <1>1, <2>1, BrokenStays DEF Broken, NoneInterrupted, Interrupted
  <2>5. CASE RecordClosed
    BY <2>1, <2>3, <2>5 DEF RecordClosed, At, CliInv, NoRun, Tr
  <2>6. CASE StartedOld
    <3>1. cont.image = Tr.old /\ latest = Tr.old /\ Tr.phase \in NonDestructive
      BY <2>1, <2>6 DEF StartedOld, At, HeldInv, CliInv, NoRun
    <3>2. Phased("rolled_back")
      BY <1>1, <2>3, <2>6, SetPhaseEffect DEF StartedOld, TypeOK, Journal, Phase
    <3>3. NoneInterrupted' => NoneInterrupted
      BY <2>3, <3>1, <3>2 DEF Phased, NoneInterrupted, Tr, NonDestructive, Resumable, Stopping
    <3> QED  BY <2>1, <2>3, <2>4, <3>1, <3>3 DEF ReadableInv, Tr
  <2>7. CASE OldHealthy
    <3>1. txs' # txs
      BY <2>2 DEF RolledBack
    <3>2. cont.image = Tr.old /\ latest = Tr.old /\ At("rollback", "oldHealth")
      BY <2>1, <2>7, <3>1 DEF OldHealthy, At, HeldInv
    <3> QED  BY <2>1, <2>3, <2>4, <3>2 DEF ReadableInv, Tr
  <2> QED  BY <2>3, <2>5, <2>6, <2>7
<1>2. ASSUME TypeOK, DeployInv, [Next]_vars PROVE [\A t \in Tx : Sound(t)]_vars
  BY <1>1, <1>2
<1> QED  BY <1>2, Deployed, PTL DEF Spec, RollbackSound

-----------------------------------------------------------------------------
(* It implements Deployment.                                               *)

LifeVars == <<Stages, Olds, Targets, Backups, Asides, cont.image, Seen, written>>

\* The records of a transaction that Deployment sees stay as they are.
SameRecords(t) ==
    /\ txs'[t].old = txs[t].old /\ txs'[t].target = txs[t].target
    /\ txs'[t].archive = txs[t].archive /\ txs'[t].forensic = txs[t].forensic

SameStores == cont'.image = cont.image /\ Seen' = Seen /\ written' = written

\* Transaction t comes to stage s, and nothing else changes.
Turned(t, s) ==
    /\ Stage(t)' = s
    /\ \A u \in Tx \ {t} : Stage(u)' = Stage(u)
    /\ \A u \in Tx : SameRecords(u)
    /\ SameStores

\* A step that turns no stage.
Idle ==
    /\ \A u \in Tx : Stage(u)' = Stage(u) /\ SameRecords(u)
    /\ SameStores

\* What the functions of the mapping hold.
LEMMA Mapped ==
  ASSUME NEW t \in Tx
  PROVE  /\ Stages[t] = Stage(t) /\ Olds[t] = txs[t].old /\ Targets[t] = txs[t].target
         /\ Backups[t] = txs[t].archive.data /\ Asides[t] = txs[t].forensic.data
  BY DEF Stages, Olds, Targets, Backups, Asides

\* One stage changes.
LEMMA StageTurns ==
  ASSUME NEW t \in Tx, NEW s, Stage(t)' = s, \A u \in Tx \ {t} : Stage(u)' = Stage(u)
  PROVE  Stages' = [Stages EXCEPT ![t] = s]
  BY DEF Stages

\* No record changes.
LEMMA RecordsStay ==
  ASSUME \A u \in Tx : SameRecords(u)
  PROVE  UNCHANGED <<Olds, Targets, Backups, Asides>>
<1>1. Olds' = Olds /\ Targets' = Targets
  BY DEF SameRecords, Olds, Targets
<1>2. Backups' = Backups /\ Asides' = Asides
  BY DEF SameRecords, Backups, Asides
<1> QED  BY <1>1, <1>2

\* An idle step stutters.
LEMMA IdleStutters == Idle => UNCHANGED Life!deploymentVars
<1> SUFFICES ASSUME Idle PROVE UNCHANGED Life!deploymentVars
  OBVIOUS
<1>1. Stages' = Stages
  BY DEF Idle, Stages
<1>2. UNCHANGED <<Olds, Targets, Backups, Asides>>
  BY RecordsStay DEF Idle
<1> QED  BY <1>1, <1>2 DEF Idle, SameStores, Life!deploymentVars, Life!stores, Life!records

\* A step that turns one stage and nothing else.
LEMMA TurnedBecomes ==
  ASSUME NEW t \in Tx, NEW s, Turned(t, s), NEW from, Stage(t) \in from
  PROVE  Life!Becomes(t, from, s) /\ UNCHANGED <<Life!stores, Life!records>>
<1>1. Stages' = [Stages EXCEPT ![t] = s] /\ Stages[t] \in from
  BY StageTurns, Mapped DEF Turned
<1>2. UNCHANGED <<Olds, Targets, Backups, Asides>>
  BY RecordsStay DEF Turned
<1> QED  BY <1>1, <1>2 DEF Turned, SameStores, Life!Becomes, Life!stores, Life!records

\* The stage of a transaction whose phase stays, unless the restore of it begins, ends or
\* starts its container.
LEMMA StageStays ==
  ASSUME NEW t \in Tx, txs'[t].phase = txs[t].phase,
         txs[t].phase \in Interrupted =>
             /\ UnderRollback(t)' <=> UnderRollback(t)
             /\ UnderRollback(t) => (cli'.step = "oldHealth" <=> cli.step = "oldHealth")
  PROVE  Stage(t)' = Stage(t)
<1>1. CASE txs[t].phase \notin Interrupted
  BY <1>1 DEF Stage, Interrupted
<1>2. CASE txs[t].phase \in Interrupted
  BY <1>2 DEF Stage
<1> QED  BY <1>1, <1>2

\* The stage a phase means.
LEMMA StageTable ==
  ASSUME NEW t \in Tx
  PROVE  /\ txs[t].phase \in {"none", "done", "rolled_back", "pruned"} => Stage(t) = txs[t].phase
         /\ txs[t].phase = "preflight" => Stage(t) = "opened"
         /\ txs[t].phase \in NonDestructive => Stage(t) = "prepared"
         /\ txs[t].phase \in Committed => Stage(t) = "live"
         /\ txs[t].phase = "rollback_stopped" => Stage(t) = "reverting"
         /\ txs[t].phase = "rollback_forensic_archived" => Stage(t) = "aside"
         /\ txs[t].phase \in Interrupted =>
              /\ ~UnderRollback(t) => Stage(t) = "broken"
              /\ UnderRollback(t) => Stage(t) = IF cli.step = "oldHealth" THEN "restored" ELSE "aside"
  BY DEF Stage, NonDestructive, Resumable, Stopping, Committed, Interrupted

\* The same after a step.
LEMMA NextStageTable ==
  ASSUME NEW t \in Tx
  PROVE  /\ txs'[t].phase \in {"none", "done", "rolled_back", "pruned"} => Stage(t)' = txs'[t].phase
         /\ txs'[t].phase = "preflight" => Stage(t)' = "opened"
         /\ txs'[t].phase \in NonDestructive => Stage(t)' = "prepared"
         /\ txs'[t].phase \in Committed => Stage(t)' = "live"
         /\ txs'[t].phase = "rollback_stopped" => Stage(t)' = "reverting"
         /\ txs'[t].phase = "rollback_forensic_archived" => Stage(t)' = "aside"
         /\ txs'[t].phase \in Interrupted =>
              /\ ~UnderRollback(t)' => Stage(t)' = "broken"
              /\ UnderRollback(t)' =>
                    Stage(t)' = IF cli'.step = "oldHealth" THEN "restored" ELSE "aside"
  BY DEF Stage, NonDestructive, Resumable, Stopping, Committed, Interrupted

\* What the server sees is the volume, except while a restore is under way.
LEMMA SeenIsVolume ==
  /\ cli.cmd # "rollback" \/ cli.step \notin Unseen => Seen = vol.data
  /\ cli'.cmd # "rollback" \/ cli'.step \notin Unseen => Seen' = vol'.data
  BY DEF Seen

\* A step that leaves the transactions alone, outside a restore.
LEMMA PlainIdle ==
  ASSUME UNCHANGED <<txs, written>>, cont'.image = cont.image, vol'.data = vol.data,
         cli.cmd # "rollback" \/ Tr.phase \notin Interrupted,
         cli'.cmd # "rollback" \/ Tr'.phase \notin Interrupted,
         cli.cmd # "rollback" \/ cli.step \notin Unseen,
         cli'.cmd # "rollback" \/ cli'.step \notin Unseen
  PROVE  Idle
<1>1. ASSUME NEW u \in Tx PROVE Stage(u)' = Stage(u)
  BY <1>1, StageStays DEF UnderRollback, Tr
<1>2. Seen' = Seen
  BY SeenIsVolume
<1> QED  BY <1>1, <1>2 DEF Idle, SameRecords, SameStores

\* A step of the environment.
LEMMA OutsideIdle ==
  ASSUME UNCHANGED <<txs, cli, written>>, cont'.image = cont.image, vol'.data = vol.data
  PROVE  Idle
<1>1. ASSUME NEW u \in Tx PROVE Stage(u)' = Stage(u)
  BY <1>1, StageStays DEF UnderRollback
<1>2. Seen' = Seen
  BY DEF Seen, Tr
<1> QED  BY <1>1, <1>2 DEF Idle, SameRecords, SameStores

\* A command that journals phase p, outside a restore.
LEMMA JournalTurns ==
  ASSUME NEW cmd, NEW step, NEW p, NEW next, Advanced(cmd, step, p, next),
         NEW t \in Tx, cli.tx = t,
         step \notin Unseen, next \notin Unseen, p \notin Interrupted, Tr.phase \notin Interrupted
  PROVE  Turned(t, Stage(t)')
<1>1. \A u \in Tx : SameRecords(u)
  BY DEF Advanced, Phased, SameRecords
<1>2. ASSUME NEW u \in Tx \ {t} PROVE Stage(u)' = Stage(u)
  <2>1. txs'[u].phase = txs[u].phase
    BY <1>2 DEF Advanced, Phased
  <2>2. ~UnderRollback(u)' /\ ~UnderRollback(u)
    BY <1>2 DEF Advanced, UnderRollback
  <2> QED  BY <1>2, <2>1, <2>2, StageStays
<1>3. SameStores
  BY SeenIsVolume DEF Advanced, SameStores
<1> QED  BY <1>1, <1>2, <1>3 DEF Turned

\* One that leaves its transaction at the same stage is idle.
LEMMA SameStageIdle ==
  ASSUME NEW t \in Tx, NEW s, Turned(t, s), s = Stage(t)
  PROVE  Idle
  BY DEF Turned, Idle

\* The steps of an update that journal a phase.
LEMMA UpdateLife ==
  ASSUME TypeOK, CliInv, HeldInv,
         \/ SaveOldImage \/ BuildPrepared \/ EnvChecked \/ GatePassed \/ FleetGuardPassed
         \/ Stopped \/ MountResolved \/ Starting \/ UpRecorded \/ Healthy \/ Done
  PROVE  Life!Next \/ UNCHANGED Life!deploymentVars
<1>0. cli.tx \in Tx
  BY AtWork, AdvanceTable DEF Advanced
<1> SUFFICES ASSUME NEW t \in Tx, cli.tx = t PROVE Life!Next \/ UNCHANGED Life!deploymentVars
  BY <1>0
<1>1. ASSUME NEW step, NEW p, NEW next, Advanced("update", step, p, next),
             step \notin Unseen, next \notin Unseen, p \notin Interrupted
      PROVE  txs'[t].phase = p /\ Turned(t, Stage(t)')
  <2>1. Tr.phase \notin Interrupted
    BY <1>1 DEF Advanced, CliInv, NoRun, Interrupted
  <2>2. txs'[t].phase = p
    BY <1>1 DEF Advanced, Phased
  <2> QED  BY <1>1, <2>1, <2>2, JournalTurns
<1>2. ASSUME NEW step, NEW p, NEW next, Advanced("update", step, p, next),
             step \notin Unseen, next \notin Unseen, p \notin Interrupted,
             \/ Tr.phase \in NonDestructive /\ p \in NonDestructive
             \/ Tr.phase \in Committed /\ p \in Committed
      PROVE  UNCHANGED Life!deploymentVars
  <2>1. txs'[t].phase = p /\ Turned(t, Stage(t)')
    BY <1>1, <1>2
  <2>2. Stage(t)' = Stage(t)
    BY <1>2, <2>1, StageTable, NextStageTable DEF Tr
  <2> QED  BY <2>1, <2>2, SameStageIdle, IdleStutters
<1>3. CASE SaveOldImage
  <2>1. Advanced("update", "save", "old_image_saved", "build") /\ Tr.phase = "preflight"
    BY <1>3, AdvanceTable DEF Advanced, CliInv, NoRun
  <2>2. txs'[t].phase = "old_image_saved" /\ Turned(t, Stage(t)')
    BY <1>1, <2>1 DEF Unseen, Interrupted
  <2>3. Stage(t) = "opened" /\ Stage(t)' = "prepared"
    BY <2>1, <2>2, StageTable, NextStageTable DEF Tr, NonDestructive, Resumable
  <2>4. Life!Prepare(t)
    BY <2>2, <2>3, TurnedBecomes DEF Life!Prepare
  <2> QED  BY <2>2, <2>4 DEF Life!Next, Life!Transition
<1>4. CASE BuildPrepared \/ EnvChecked \/ GatePassed \/ FleetGuardPassed \/ Stopped \/ MountResolved
  <2>1. ASSUME NEW step \in {"built", "env", "gate", "fleet", "stopped", "mount"}, NEW next,
               next \notin Unseen, NEW p \in NonDestructive, Advanced("update", step, p, next)
        PROVE  UNCHANGED Life!deploymentVars
    <3>1. step \notin Unseen /\ p \notin Interrupted
      BY <2>1 DEF Unseen, Interrupted, NonDestructive, Resumable, Stopping
    <3>2. Tr.phase \in NonDestructive
      BY <2>1 DEF Advanced, CliInv, NoRun, NonDestructive, Resumable, Stopping
    <3> QED  BY <1>2, <2>1, <3>1, <3>2
  <2>2. /\ {"build_prepared", "env_consistency_checked", "maintenance_gate_passed", "stopping",
            "stopped", "mount_resolved"} \subseteq NonDestructive
        /\ {"env", "placement", "fleet", "stop", "mount", "archive"} \cap Unseen = {}
    BY DEF NonDestructive, Resumable, Stopping, Unseen
  <2> QED  BY <1>4, <2>1, <2>2, AdvanceTable
<1>5. CASE Starting
  <2>1. Advanced("update", "starting", "starting", "up") /\ Tr.phase = "archived"
    BY <1>5, AdvanceTable DEF Advanced, CliInv, NoRun
  <2>2. txs'[t].phase = "starting" /\ Turned(t, Stage(t)')
    BY <1>1, <2>1 DEF Unseen, Interrupted
  <2>3. Stage(t) = "prepared" /\ Stage(t)' = "live"
    BY <2>1, <2>2, StageTable, NextStageTable DEF Tr, NonDestructive, Stopping, Committed
  <2>4. Backups[t] = Seen
    <3>1. txs[t].archive = vol
      BY <2>1 DEF HeldInv, Advanced, Tr
    <3>2. Seen = vol.data
      BY <2>1, SeenIsVolume DEF Advanced
    <3> QED  BY <2>2, <3>1, <3>2, Mapped
  <2>5. Life!GoLive(t)
    BY <2>2, <2>3, <2>4, TurnedBecomes DEF Life!GoLive
  <2> QED  BY <2>2, <2>5 DEF Life!Next, Life!Transition
<1>6. CASE UpRecorded \/ Healthy
  <2>1. ASSUME NEW step \in {"recordUp", "health"}, NEW next, next \notin Unseen,
               NEW p \in {"up", "healthy"}, Advanced("update", step, p, next)
        PROVE  UNCHANGED Life!deploymentVars
    <3>1. step \notin Unseen /\ p \notin Interrupted /\ p \in Committed
      BY <2>1 DEF Unseen, Interrupted, Committed
    <3>2. Tr.phase \in Committed
      BY <2>1 DEF Advanced, CliInv, NoRun, Committed
    <3> QED  BY <1>2, <2>1, <3>1, <3>2
  <2>2. {"health", "stability"} \cap Unseen = {}
    BY DEF Unseen
  <2> QED  BY <1>6, <2>1, <2>2, AdvanceTable
<1>7. CASE Done
  <2>1. Advanced("update", "stability", "done", "prune") /\ Tr.phase = "healthy"
    BY <1>7, AdvanceTable DEF Advanced, CliInv, NoRun
  <2>2. txs'[t].phase = "done" /\ Turned(t, Stage(t)')
    BY <1>1, <2>1 DEF Unseen, Interrupted
  <2>3. Stage(t) = "live" /\ Stage(t)' = "done"
    BY <2>1, <2>2, StageTable, NextStageTable DEF Tr, Committed
  <2>4. cont.image = Targets[t]
    BY <2>1, <2>2, Mapped DEF HeldInv, Advanced, Tr
  <2>5. Life!Complete(t)
    BY <2>2, <2>3, <2>4, TurnedBecomes DEF Life!Complete
  <2> QED  BY <2>2, <2>5 DEF Life!Next, Life!Transition
<1> QED  BY <1>3, <1>4, <1>5, <1>6, <1>7

\* The image a container is started from.
LEMMA NewContainer ==
  ASSUME TypeOK, NEW t \in Tx,
         \/ Start(IF cont.image = latest THEN cont
                  ELSE [id |-> UpContainer(t), image |-> latest, status |-> "created"])
         \/ Start([id |-> BackContainer(t), image |-> latest, status |-> "created"])
  PROVE  cont'.image = latest /\ vol'.data = vol.data
<1>1. PICK c : /\ Start(c) /\ c.image = latest
               /\ c \in [id : 0..2 * MaxTx, image : Image, status : {"running", "exited", "created"}]
  <2>1. UpContainer(t) \in 0..2 * MaxTx /\ BackContainer(t) \in 0..2 * MaxTx
    BY ContainerNames
  <2> QED  BY <2>1 DEF TypeOK
<1> QED  BY <1>1, StartTyped DEF TypeOK

\* `compose up`, failed or not, upgrades to the image of the transaction.
LEMMA UpLife ==
  ASSUME CliInv, HeldInv, cli.cmd = "update", cli.step = "up", UNCHANGED <<txs, written>>,
         cont'.image = latest, vol'.data = vol.data, cli'.cmd # "rollback"
  PROVE  Life!Next
<1>0. cli.tx \in Tx
  BY AtWork
<1> SUFFICES ASSUME NEW t \in Tx, cli.tx = t PROVE Life!Next
  BY <1>0
<1>1. /\ Tr.phase = "starting" /\ latest = Tr.target
  BY DEF CliInv, NoRun, HeldInv
<1>2. ASSUME NEW u \in Tx PROVE Stage(u)' = Stage(u)
  BY <1>2, StageStays DEF UnderRollback
<1>3. Stages' = Stages
  BY <1>2 DEF Stages
<1>4. UNCHANGED <<Olds, Targets, Backups, Asides>>
  BY RecordsStay DEF SameRecords
<1>5. Seen' = Seen
  BY SeenIsVolume
<1>6. Stages[t] = "live" /\ Targets[t] = latest
  BY <1>1, StageTable, Mapped DEF Tr, Committed
<1>7. Life!Upgrade(t)
  BY <1>3, <1>4, <1>5, <1>6 DEF Life!Upgrade, Life!records
<1> QED  BY <1>7 DEF Life!Next, Life!Transition

\* The archive of the data is the backup.
LEMMA ArchivedLife ==
  ASSUME TypeOK, CliInv, Archived
  PROVE  Life!Next
<1>1. /\ cli.tx \in Tx /\ cli.cmd = "update" /\ cli'.cmd = "update" /\ cli'.tx = cli.tx
      /\ Tr.phase = "mount_resolved" /\ UNCHANGED <<cont, vol, written>>
  BY ArchivedEffect
<1> SUFFICES ASSUME NEW t \in Tx, cli.tx = t PROVE Life!Next
  BY <1>1
<1>2. \A u \in Tx :
        /\ txs'[u].phase = IF u = t THEN "archived" ELSE txs[u].phase
        /\ txs'[u].archive = IF u = t THEN vol ELSE txs[u].archive
        /\ txs'[u].old = txs[u].old /\ txs'[u].target = txs[u].target
        /\ txs'[u].forensic = txs[u].forensic
  BY ArchivedEffect
<1>3. Stage(t) = "prepared" /\ Stage(t)' = "prepared"
  BY <1>1, <1>2, StageTable, NextStageTable DEF Tr, NonDestructive, Stopping
<1>4. ASSUME NEW u \in Tx, u # t PROVE Stage(u)' = Stage(u)
  BY <1>1, <1>2, <1>4, StageStays DEF UnderRollback
<1>5. Stages' = Stages /\ Stages[t] = "prepared"
  BY <1>3, <1>4 DEF Stages
<1>6. Olds' = Olds /\ Targets' = Targets /\ Asides' = Asides
  BY <1>2 DEF Olds, Targets, Asides
<1>7. Seen' = vol.data /\ Seen = vol.data
  BY <1>1, SeenIsVolume
<1>8. Backups' = [Backups EXCEPT ![t] = vol.data]
  BY <1>2 DEF Backups
<1>9. Life!BackUp(t)
  BY <1>1, <1>5, <1>6, <1>7, <1>8 DEF Life!BackUp, Life!stores
<1> QED  BY <1>9 DEF Life!Next, Life!Transition

\* What the pruning of transactions deletes.
LEMMA PruneLife ==
  ASSUME TypeOK, CliInv, Prune
  PROVE  Life!Next
<1> DEFINE S == {t \in Tx : txs'[t].phase # txs[t].phase}
<1>1. cli.cmd = "update" /\ cli' = NoRun /\ UNCHANGED <<cont, vol, written>>
  BY DEF Prune, At, Exit, host
<1>2. ASSUME NEW t \in Tx
      PROVE  \/ txs'[t].phase = txs[t].phase /\ txs'[t].archive.data = txs[t].archive.data
             \/ /\ txs[t].phase = "done" /\ txs'[t].phase = "pruned"
                /\ txs'[t].archive.data = {}
  <2>1. \/ txs'[t] = txs[t]
        \/ txs[t].phase = "done" /\ txs'[t] = [txs[t] EXCEPT !.phase = "pruned", !.archive = NoVolume]
    BY DEF Prune
  <2>2. txs[t] \in Journal
    BY DEF TypeOK, Journal
  <2>3. txs'[t] = [txs[t] EXCEPT !.phase = "pruned", !.archive = NoVolume] =>
          txs'[t].phase = "pruned" /\ txs'[t].archive = NoVolume
    BY <2>2 DEF Journal
  <2>4. NoVolume.data = {}
    BY DEF NoVolume
  <2> QED  BY <2>1, <2>3, <2>4
<1>3. ASSUME NEW t \in Tx, t \notin S
      PROVE  Stage(t)' = Stage(t) /\ txs'[t].archive.data = txs[t].archive.data
  BY <1>1, <1>2, <1>3, StageStays DEF UnderRollback, NoRun
<1>4. ASSUME NEW t \in S
      PROVE  Stage(t) = "done" /\ Stage(t)' = "pruned" /\ txs'[t].archive.data = {}
  BY <1>2, <1>4, StageTable, NextStageTable
<1>5. Stages' = [t \in Tx |-> IF t \in S THEN "pruned" ELSE Stages[t]]
  BY <1>3, <1>4 DEF Stages
<1>6. Backups' = [t \in Tx |-> IF t \in S THEN {} ELSE Backups[t]]
  BY <1>3, <1>4 DEF Backups
<1>7. Olds' = Olds /\ Targets' = Targets /\ Asides' = Asides
  BY PruneEffect DEF Olds, Targets, Asides
<1>8. Seen' = Seen
  BY <1>1, SeenIsVolume DEF NoRun
<1>9. \A t \in S : Stages[t] = "done"
  BY <1>4, Mapped
<1>10. S \in SUBSET Tx
  OBVIOUS
<1> HIDE DEF S
<1>11. Life!Prune(S)
  BY <1>1, <1>5, <1>6, <1>7, <1>8, <1>9 DEF Life!Prune, Life!stores
<1> QED  BY <1>10, <1>11 DEF Life!Next

\* A new transaction.
LEMMA BeginLife ==
  ASSUME TypeOK, CliInv, NEW t \in Tx, NEW i \in Image, UpdateBegin(t, i)
  PROVE  Life!Next
<1>1. /\ cli = NoRun /\ cli'.cmd = "update" /\ UNCHANGED <<cont, vol, written>>
      /\ txs[t].phase = "none" /\ Unfinished = {}
  BY AtRest DEF UpdateBegin, Acquire, host
<1>2. \A u \in Tx : txs'[u] = IF u = t THEN [txs[u] EXCEPT !.phase = "preflight", !.old = cont.image,
                                                        !.oldc = cont.id, !.target = i]
                              ELSE txs[u]
  BY DEF UpdateBegin, TypeOK
<1>3. txs[t] \in Journal
  BY DEF TypeOK, Journal
<1>4. /\ txs'[t].phase = "preflight" /\ txs'[t].old = cont.image /\ txs'[t].target = i
      /\ txs'[t].archive = txs[t].archive /\ txs'[t].forensic = txs[t].forensic
  BY <1>2, <1>3 DEF Journal
<1>5. Stage(t) = "none" /\ Stage(t)' = "opened"
  BY <1>1, <1>4, StageTable, NextStageTable
<1>6. ASSUME NEW u \in Tx, u # t PROVE Stage(u)' = Stage(u) /\ txs'[u] = txs[u]
  <2>1. txs'[u] = txs[u]
    BY <1>2, <1>6
  <2> QED  BY <1>1, <2>1, StageStays DEF UnderRollback, NoRun
<1>7. Stages' = [Stages EXCEPT ![t] = "opened"]
  BY <1>5, <1>6, StageTurns
<1>8. Olds' = [Olds EXCEPT ![t] = cont.image] /\ Targets' = [Targets EXCEPT ![t] = i]
  BY <1>4, <1>6 DEF Olds, Targets
<1>9. Backups' = Backups /\ Asides' = Asides
  BY <1>4, <1>6 DEF Backups, Asides
<1>10. Seen' = Seen
  BY <1>1, SeenIsVolume DEF NoRun
<1>11. ASSUME NEW u \in Tx PROVE Stages[u] \in Life!Closed
  <2>1. txs[u].phase \in {"none", "done", "rolled_back", "pruned"}
    BY <1>1 DEF Unfinished, Terminal
  <2> QED  BY <2>1, StageTable, Mapped DEF Life!Closed
<1>12. Stages[t] = "none"
  BY <1>5, Mapped
<1>13. Life!Begin(t)
  BY <1>1, <1>7, <1>8, <1>9, <1>10, <1>11, <1>12 DEF Life!Begin, Life!Becomes, Life!stores
<1> QED  BY <1>13 DEF Life!Next, Life!Transition

\* The steps of the operator and of an update that leave all of it alone.
LEMMA PlainLife ==
  ASSUME TypeOK, CliInv,
         \/ BuildTarget \/ BuildRefused \/ EnvRefused \/ Placed \/ GateRefused \/ StopOld \/ PinTarget
         \/ StartedDown
  PROVE  UNCHANGED Life!deploymentVars
<1>1. cli.cmd = "update" /\ UNCHANGED <<txs, vol, written>>
  BY DEF BuildTarget, BuildRefused, EnvRefused, Placed, GateRefused, StopOld, PinTarget, StartedDown,
     At, host
<1>2. cont'.image = cont.image
  <2>1. UNCHANGED cont \/ cont' = [cont EXCEPT !.status = "exited"]
    BY DEF BuildTarget, BuildRefused, EnvRefused, Placed, GateRefused, StopOld, PinTarget, StartedDown,
       host
  <2> QED  BY <2>1 DEF TypeOK
<1>3. cli'.cmd # "rollback"
  <2>1. Exit \/ \E step : GoTo(step)
    BY DEF BuildTarget, BuildRefused, EnvRefused, Placed, GateRefused, StopOld, PinTarget, StartedDown
  <2> QED  BY <1>1, <2>1 DEF Exit, GoTo, NoRun, TypeOK
<1> QED  BY <1>1, <1>2, <1>3, PlainIdle, IdleStutters

\* A command that begins, with no new transaction.
LEMMA BeginsLife ==
  ASSUME TypeOK, CliInv, NEW t \in Tx, Resume(t) \/ RollbackBegin(t)
  PROVE  UNCHANGED Life!deploymentVars
<1>1. cli = NoRun /\ UNCHANGED <<txs, cont, vol, written>>
  BY AtRest DEF Resume, RollbackBegin, Acquire, host
<1>2. CASE Resume(t)
  <2>1. cli'.cmd # "rollback"
    BY <1>2 DEF Resume, Acquire
  <2> QED  BY <1>1, <2>1, PlainIdle, IdleStutters DEF NoRun
<1>3. CASE RollbackBegin(t)
  <2>1. Tr' = txs[t] /\ cli'.step \in {"close", "retag", "halt"}
    BY <1>1, <1>3 DEF RollbackBegin, Acquire, RollbackStep, Tr
  <2>2. txs[t].phase \notin Interrupted
    BY <1>3 DEF RollbackBegin, Interrupted, NonDestructive, Resumable, Stopping, Destructive, Committed
  <2>3. cli'.step \notin Unseen
    BY <2>1 DEF Unseen
  <2> QED  BY <1>1, <2>1, <2>2, <2>3, PlainIdle, IdleStutters DEF NoRun
<1> QED  BY <1>2, <1>3

\* Everything else that is not the CLI at work on a transaction.
LEMMA OutsideLife ==
  ASSUME TypeOK, CliInv,
         \/ StartCommand \/ RemoveStaleLock \/ ServerStops \/ (\E i \in Image : BuildCommand(i))
         \/ UNCHANGED vars
  PROVE  UNCHANGED Life!deploymentVars
<1>1. UNCHANGED <<txs, cli, written>>
  BY DEF StartCommand, RemoveStaleLock, ServerStops, BuildCommand, host, vars
<1>2. cont'.image = cont.image /\ vol'.data = vol.data
  <2>1. CASE StartCommand
    BY <2>1, StartTyped DEF StartCommand, TypeOK
  <2>2. CASE ServerStops
    BY <2>2 DEF ServerStops, TypeOK
  <2>3. CASE RemoveStaleLock \/ (\E i \in Image : BuildCommand(i)) \/ UNCHANGED vars
    BY <2>3 DEF RemoveStaleLock, BuildCommand, host, vars
  <2> QED  BY <2>1, <2>2, <2>3
<1> QED  BY <1>1, <1>2, OutsideIdle, IdleStutters

\* A rollback that closes its transaction, restored or never live.
LEMMA RolledTurns ==
  ASSUME TypeOK, SetPhase("rolled_back"), Exit, UNCHANGED <<cont, vol, written>>,
         NEW t \in Tx, cli.tx = t, cli.step \notin Unseen
  PROVE  Turned(t, "rolled_back")
<1>1. Phased("rolled_back")
  BY SetPhaseEffect DEF TypeOK, Journal, Phase
<1>2. \A u \in Tx : SameRecords(u)
  BY <1>1 DEF Phased, SameRecords
<1>3. cli'.cmd = "none" /\ cli'.tx = 0 /\ 0 \notin Tx
  BY DEF Exit, NoRun, Tx
<1>4. ASSUME NEW u \in Tx \ {t} PROVE Stage(u)' = Stage(u)
  <2>1. txs'[u].phase = txs[u].phase
    BY <1>1, <1>4 DEF Phased
  <2>2. ~UnderRollback(u)' /\ ~UnderRollback(u)
    BY <1>3, <1>4 DEF UnderRollback
  <2> QED  BY <1>4, <2>1, <2>2, StageStays
<1>5. Stage(t)' = "rolled_back"
  BY <1>1, NextStageTable DEF Phased
<1>6. SameStores
  BY <1>3, SeenIsVolume DEF SameStores
<1> QED  BY <1>2, <1>4, <1>5, <1>6 DEF Turned

\* The restore of transaction t breaks off.
LEMMA EndsTurns ==
  ASSUME TypeOK, cli' = NoRun, UNCHANGED txs, NEW t \in Tx, cli.cmd = "rollback", cli.tx = t,
         Tr.phase \in Interrupted
  PROVE  Stage(t)' = "broken" /\ \A u \in Tx \ {t} : Stage(u)' = Stage(u)
<1>1. cli'.cmd = "none" /\ cli'.tx = 0 /\ 0 \notin Tx
  BY DEF NoRun, Tx
<1>2. Stage(t)' = "broken"
  BY <1>1, NextStageTable DEF UnderRollback, Tr
<1>3. ASSUME NEW u \in Tx \ {t} PROVE Stage(u)' = Stage(u)
  <2>1. ~UnderRollback(u)' /\ ~UnderRollback(u)
    BY <1>1, <1>3 DEF UnderRollback
  <2> QED  BY <1>3, <2>1, StageStays
<1> QED  BY <1>2, <1>3

\* A rollback that ends without a restore under way leaves everything as it was.
LEMMA EndsIdle ==
  ASSUME TypeOK, UNCHANGED <<txs, written>>, cont'.image = cont.image, vol'.data = vol.data,
         cli' = NoRun, cli.cmd = "rollback", Tr.phase \notin Interrupted, cli.step \notin Unseen
  PROVE  UNCHANGED Life!deploymentVars
<1>1. cli'.cmd # "rollback"
  BY DEF NoRun
<1> QED  BY <1>1, PlainIdle, IdleStutters

\* The old image that does not come up, and the old image that does.
LEMMA HealthLife ==
  ASSUME TypeOK, CliInv, HeldInv, cli.cmd = "rollback", cli.step = "oldHealth", cli' = NoRun,
         UNCHANGED <<cont, vol, written>>,
         UNCHANGED txs \/ OldHealthy
  PROVE  Life!Next
<1>1. cli.tx \in Tx /\ Tr.phase = "rollback_restored" /\ cli.step \notin Unseen
  BY AtWork DEF CliInv, NoRun, Unseen
<1> SUFFICES ASSUME NEW t \in Tx, cli.tx = t PROVE Life!Next
  BY <1>1
<1>2. Stage(t) = "restored"
  BY <1>1, StageTable DEF UnderRollback, Tr, Interrupted
<1>3. CASE UNCHANGED txs
  <2>1. Stage(t)' = "broken" /\ \A u \in Tx \ {t} : Stage(u)' = Stage(u)
    BY <1>1, <1>3, EndsTurns DEF Interrupted
  <2>2. SameStores
    BY <1>1, SeenIsVolume DEF SameStores, NoRun
  <2>3. Turned(t, "broken")
    BY <1>3, <2>1, <2>2 DEF Turned, SameRecords
  <2>4. Life!Fail(t)
    BY <1>2, <2>3, TurnedBecomes DEF Life!Fail
  <2> QED  BY <2>4 DEF Life!Next, Life!Transition
<1>4. CASE txs' # txs
  <2>1. SetPhase("rolled_back") /\ Exit /\ cont.image = Tr.old
    BY <1>4 DEF OldHealthy
  <2>2. Turned(t, "rolled_back")
    BY <1>1, <2>1, RolledTurns
  <2>3. cont.image = Olds[t]
    BY <2>1, Mapped DEF Tr
  <2>4. Life!Finish(t)
    BY <1>2, <2>2, <2>3, TurnedBecomes DEF Life!Finish
  <2> QED  BY <2>4 DEF Life!Next, Life!Transition
<1> QED  BY <1>3, <1>4

\* A transaction that never went live is closed.
LEMMA CancelLife ==
  ASSUME TypeOK, CliInv, HeldInv, RecordClosed \/ StartedOld
  PROVE  Life!Next
<1>1. /\ cli.cmd = "rollback" /\ cli.step \in {"close", "startedOld"} /\ cli.tx \in Tx
      /\ SetPhase("rolled_back") /\ Exit /\ UNCHANGED <<cont, vol, written>>
  BY AtWork DEF RecordClosed, StartedOld, At, host
<1> SUFFICES ASSUME NEW t \in Tx, cli.tx = t PROVE Life!Next
  BY <1>1
<1>2. Turned(t, "rolled_back")
  BY <1>1, RolledTurns DEF Unseen
<1>3. Stage(t) \in {"opened", "prepared"} /\ (Stage(t) = "prepared" => cont.image = Olds[t])
  <2>1. CASE cli.step = "close"
    <3>1. Stage(t) = "opened"
      BY <1>1, <2>1, StageTable DEF CliInv, NoRun, Tr
    <3> QED  BY <3>1
  <2>2. CASE cli.step = "startedOld"
    <3>1. Tr.phase \in NonDestructive /\ cont.image = Tr.old
      BY <1>1, <2>2 DEF CliInv, NoRun, HeldInv
    <3>2. Stage(t) = "prepared"
      BY <3>1, StageTable DEF Tr
    <3> QED  BY <3>1, <3>2, Mapped DEF Tr
  <2> QED  BY <1>1, <2>1, <2>2
<1>4. Stages[t] = Stage(t)
  BY Mapped
<1>5. Life!Cancel(t)
  BY <1>2, <1>3, <1>4, TurnedBecomes DEF Life!Cancel
<1> QED  BY <1>5 DEF Life!Next, Life!Transition

\* A live transaction is reverted.
LEMMA RevertLife ==
  ASSUME TypeOK, CliInv, RollbackStopped
  PROVE  Life!Next
<1>1. /\ Advanced("rollback", "halted", "rollback_stopped", "forensic") /\ cli.tx \in Tx
      /\ Tr.phase \in Destructive
  BY AdvanceTable DEF Advanced, CliInv, NoRun
<1> SUFFICES ASSUME NEW t \in Tx, cli.tx = t PROVE Life!Next
  BY <1>1
<1>2. Tr.phase \notin Interrupted
  BY <1>1 DEF Destructive, Committed, Interrupted
<1>3. Turned(t, Stage(t)')
  BY <1>1, <1>2, JournalTurns DEF Unseen, Interrupted
<1>4. Stage(t)' = "reverting"
  BY <1>1, NextStageTable DEF Advanced, Phased
<1>5. Stage(t) \in {"live", "done"}
  BY <1>1, StageTable DEF Tr, Destructive
<1>6. Life!Revert(t)
  BY <1>3, <1>4, <1>5, TurnedBecomes DEF Life!Revert
<1> QED  BY <1>6 DEF Life!Next, Life!Transition

\* The forensic archive puts the data aside.
LEMMA AsideLife ==
  ASSUME TypeOK, CliInv, ForensicArchived
  PROVE  Life!Next
<1>1. /\ cli.tx \in Tx /\ cli.cmd = "rollback" /\ cli'.cmd = "rollback" /\ cli'.tx = cli.tx
      /\ cli.step = "forensic" /\ cli'.step = "restoring"
      /\ Tr.phase = "rollback_stopped" /\ UNCHANGED <<cont, vol, written>>
  BY ForensicEffect
<1> SUFFICES ASSUME NEW t \in Tx, cli.tx = t PROVE Life!Next
  BY <1>1
<1>2. \A u \in Tx :
        /\ txs'[u].phase = IF u = t THEN "rollback_forensic_archived" ELSE txs[u].phase
        /\ txs'[u].forensic = IF u = t THEN vol ELSE txs[u].forensic
        /\ txs'[u].old = txs[u].old /\ txs'[u].target = txs[u].target
        /\ txs'[u].archive = txs[u].archive
  BY ForensicEffect
<1>3. Stage(t) = "reverting" /\ Stage(t)' = "aside"
  BY <1>1, <1>2, StageTable, NextStageTable DEF Tr
<1>4. ASSUME NEW u \in Tx \ {t} PROVE Stage(u)' = Stage(u)
  BY <1>1, <1>2, <1>4, StageStays DEF UnderRollback
<1>5. Stages' = [Stages EXCEPT ![t] = "aside"] /\ Stages[t] = "reverting"
  BY <1>3, <1>4, StageTurns, Mapped
<1>6. Olds' = Olds /\ Targets' = Targets /\ Backups' = Backups
  BY <1>2 DEF Olds, Targets, Backups
<1>7. Seen' = vol.data /\ Seen = vol.data
  BY <1>1, SeenIsVolume DEF Unseen
<1>8. Asides' = [Asides EXCEPT ![t] = vol.data]
  BY <1>2 DEF Asides
<1>9. Life!PutAside(t)
  BY <1>1, <1>5, <1>6, <1>7, <1>8 DEF Life!PutAside, Life!Becomes, Life!stores
<1> QED  BY <1>9 DEF Life!Next, Life!Transition

\* From the forensic archive until the container of the rollback starts.
LEMMA RestoreIdle ==
  ASSUME HeldInv, HeldInv', NEW t \in Tx, cli.cmd = "rollback", cli'.cmd = "rollback",
         cli.tx = t, cli'.tx = t,
         cli.step \in {"restoring", "wipe"} \cup Unseen, cli'.step \in {"restoring", "wipe"} \cup Unseen,
         txs[t].phase \in {"rollback_forensic_archived"} \cup Interrupted,
         txs'[t].phase \in {"rollback_forensic_archived"} \cup Interrupted,
         \A u \in Tx : SameRecords(u) /\ (u # t => txs'[u].phase = txs[u].phase),
         UNCHANGED <<cont, written>>
  PROVE  UNCHANGED Life!deploymentVars
<1>1. Seen = txs[t].forensic.data
  BY DEF Seen, HeldInv, Tr
<1>2. Seen' = txs'[t].forensic.data
  BY DEF Seen, HeldInv, Tr
<1>3. SameStores
  BY <1>1, <1>2 DEF SameStores, SameRecords
<1>4. Stage(t) = "aside" /\ Stage(t)' = "aside"
  BY StageTable, NextStageTable DEF UnderRollback, Unseen
<1>5. ASSUME NEW u \in Tx, u # t PROVE Stage(u)' = Stage(u)
  BY <1>5, StageStays DEF UnderRollback
<1>6. Idle
  BY <1>3, <1>4, <1>5 DEF Idle
<1> QED  BY <1>6, IdleStutters

\* The steps of a restore that nobody sees.
LEMMA UnseenLife ==
  ASSUME TypeOK, CliInv, HeldInv, HeldInv', Restoring \/ Wipe \/ Untar \/ Restored \/ RetagBack
  PROVE  UNCHANGED Life!deploymentVars
<1>1. CASE Restoring \/ Restored
  <2>1. /\ cli.cmd = "rollback" /\ cli'.cmd = "rollback" /\ cli.tx \in Tx /\ cli'.tx = cli.tx
        /\ UNCHANGED <<cont, written>>
        /\ \/ /\ cli.step = "restoring" /\ cli'.step = "wipe" /\ Phased("rollback_restoring")
           \/ /\ cli.step = "verify" /\ cli'.step = "retagBack" /\ Phased("rollback_restored")
    BY <1>1, AdvanceTable DEF Advanced
  <2>2. Tr.phase \in {"rollback_forensic_archived", "rollback_restoring"}
    BY <2>1 DEF CliInv, NoRun
  <2> SUFFICES ASSUME NEW t \in Tx, cli.tx = t PROVE UNCHANGED Life!deploymentVars
    BY <2>1
  <2>3. /\ \A u \in Tx : SameRecords(u) /\ (u # t => txs'[u].phase = txs[u].phase)
        /\ txs'[t].phase \in Interrupted
        /\ txs[t].phase \in {"rollback_forensic_archived"} \cup Interrupted
    BY <2>1, <2>2 DEF Phased, SameRecords, Interrupted, Tr
  <2>4. /\ cli.step \in {"restoring", "wipe"} \cup Unseen
        /\ cli'.step \in {"restoring", "wipe"} \cup Unseen
    BY <2>1 DEF Unseen
  <2> QED  BY <2>1, <2>3, <2>4, RestoreIdle
<1>2. CASE Wipe \/ Untar \/ RetagBack
  <2>1. /\ cli.cmd = "rollback" /\ cli'.cmd = "rollback" /\ cli.tx \in Tx /\ cli'.tx = cli.tx
        /\ cli.step \in {"wipe", "untar", "retagBack"} /\ cli'.step \in {"untar", "verify", "recreate"}
        /\ UNCHANGED <<txs, cont, written>>
    BY <1>2, GoToEffect DEF Wipe, Untar, RetagBack, host
  <2>2. Tr.phase \in Interrupted
    BY <2>1 DEF CliInv, NoRun, Interrupted
  <2> SUFFICES ASSUME NEW t \in Tx, cli.tx = t PROVE UNCHANGED Life!deploymentVars
    BY <2>1
  <2>3. /\ cli.step \in {"restoring", "wipe"} \cup Unseen
        /\ cli'.step \in {"restoring", "wipe"} \cup Unseen
    BY <2>1 DEF Unseen
  <2>4. \A u \in Tx : SameRecords(u)
    BY <2>1 DEF SameRecords
  <2> QED  BY <2>1, <2>2, <2>3, <2>4, RestoreIdle DEF Tr
<1> QED  BY <1>1, <1>2

\* The old image and the data of the backup come back.
LEMMA RecreateLife ==
  ASSUME TypeOK, CliInv, HeldInv, Recreate
  PROVE  Life!Next
<1>1. /\ cli.cmd = "rollback" /\ cli'.cmd = "rollback" /\ cli.tx \in Tx /\ cli'.tx = cli.tx
      /\ cli.step = "recreate" /\ cli'.step = "oldHealth" /\ UNCHANGED <<txs, written>>
  BY GoToEffect DEF Recreate
<1>2. Tr.phase = "rollback_restored" /\ latest = Tr.old /\ vol = Tr.archive
  BY <1>1 DEF CliInv, NoRun, HeldInv
<1>3. cont'.image = latest /\ vol'.data = vol.data
  BY <1>1, NewContainer DEF Recreate
<1> SUFFICES ASSUME NEW t \in Tx, cli.tx = t PROVE Life!Next
  BY <1>1
<1>4. Stage(t) = "aside" /\ Stage(t)' = "restored"
  BY <1>1, <1>2, StageTable, NextStageTable DEF UnderRollback, Interrupted, Tr
<1>5. ASSUME NEW u \in Tx \ {t} PROVE Stage(u)' = Stage(u)
  BY <1>1, <1>5, StageStays DEF UnderRollback
<1>6. Stages' = [Stages EXCEPT ![t] = "restored"] /\ Stages[t] = "aside"
  BY <1>4, <1>5, StageTurns, Mapped
<1>7. UNCHANGED <<Olds, Targets, Backups, Asides>>
  BY <1>1, RecordsStay DEF SameRecords
<1>8. Seen = Asides[t] /\ Seen' = Backups[t] /\ cont'.image = Olds[t]
  BY <1>1, <1>2, <1>3, Mapped, SeenIsVolume DEF Seen, Unseen, Tr
<1>9. Life!Restore(t)
  BY <1>1, <1>6, <1>7, <1>8 DEF Life!Restore, Life!Becomes, Life!records
<1> QED  BY <1>9 DEF Life!Next, Life!Transition

\* The steps of a rollback before it touches the volume.
LEMMA QuietLife ==
  ASSUME TypeOK, CliInv, RetagOld \/ StartOld \/ HaltCandidates
  PROVE  UNCHANGED Life!deploymentVars
<1>1. /\ cli.cmd = "rollback" /\ cli.tx \in Tx /\ UNCHANGED <<txs, written>>
      /\ cli.step \in {"retag", "startOld", "halt"}
  BY AtWork DEF RetagOld, StartOld, HaltCandidates, At, host
<1>2. Tr.phase \notin Interrupted /\ cli.step \notin Unseen
  BY <1>1 DEF CliInv, NoRun, NonDestructive, Resumable, Stopping, Destructive, Committed, Interrupted,
     Unseen
<1>3. cont'.image = cont.image /\ vol'.data = vol.data
  <2>1. CASE RetagOld
    BY <2>1 DEF RetagOld, host
  <2>2. CASE StartOld
    BY <2>2, StartTyped DEF StartOld, TypeOK
  <2>3. CASE HaltCandidates
    BY <2>3 DEF HaltCandidates, TypeOK
  <2> QED  BY <2>1, <2>2, <2>3
<1>4. cli' = NoRun \/ (cli'.tx = cli.tx /\ cli'.step \in {"startOld", "startedOld", "halted"})
  <2>1. Exit \/ GoTo("startOld") \/ GoTo("startedOld") \/ GoTo("halted")
    BY DEF RetagOld, StartOld, HaltCandidates
  <2> QED  BY <2>1 DEF Exit, GoTo, TypeOK
<1>5. CASE cli' = NoRun
  BY <1>1, <1>2, <1>3, <1>5, EndsIdle
<1>6. CASE cli'.tx = cli.tx /\ cli'.step \in {"startOld", "startedOld", "halted"}
  <2>1. Tr' = Tr /\ cli'.step \notin Unseen
    BY <1>1, <1>6 DEF Tr, Unseen
  <2> QED  BY <1>1, <1>2, <1>3, <2>1, PlainIdle, IdleStutters
<1> QED  BY <1>4, <1>5, <1>6

\* The server writes, which it cannot while a restore is under way.
LEMMA WriteLife ==
  ASSUME TypeOK, HeldInv, ServerWrites
  PROVE  Life!Next
<1>1. /\ cont.status = "running" /\ written' = written + 1 /\ UNCHANGED <<txs, cont, cli>>
      /\ vol'.data = vol.data \cup {written'}
  BY DEF ServerWrites, TypeOK, Volume
<1>2. cli.cmd # "rollback" \/ cli.step \notin Unseen
  BY <1>1 DEF HeldInv, Unseen
<1>3. Seen = vol.data /\ Seen' = vol'.data
  BY <1>1, <1>2, SeenIsVolume
<1>4. Stages' = Stages
  BY <1>1, StageStays DEF Stages, UnderRollback
<1>5. UNCHANGED <<Olds, Targets, Backups, Asides>>
  BY <1>1, RecordsStay DEF SameRecords
<1>6. Life!Write
  BY <1>1, <1>3, <1>4, <1>5 DEF Life!Write, Life!records
<1> QED  BY <1>6 DEF Life!Next

\* `compose up`.
LEMMA ComposeUpLife ==
  ASSUME TypeOK, CliInv, HeldInv, ComposeUp
  PROVE  Life!Next
<1>1. /\ cli.cmd = "update" /\ cli.step = "up" /\ cli.tx \in Tx /\ cli'.cmd = "update"
      /\ UNCHANGED <<txs, written>>
  BY GoToEffect DEF ComposeUp
<1>2. cont'.image = latest /\ vol'.data = vol.data
  BY <1>1, NewContainer DEF ComposeUp
<1> QED  BY <1>1, <1>2, UpLife

\* A rollback that is killed or fails, the container of the old image made or not.
LEMMA BreaksLife ==
  ASSUME TypeOK, CliInv, HeldInv, cli.cmd = "rollback", cli' = NoRun, UNCHANGED <<txs, vol, written>>,
         UNCHANGED cont \/ (cli.step = "recreate" /\ cont'.image = latest)
  PROVE  Life!Next \/ UNCHANGED Life!deploymentVars
<1>1. cli.tx \in Tx
  BY AtWork
<1> SUFFICES ASSUME NEW t \in Tx, cli.tx = t PROVE Life!Next \/ UNCHANGED Life!deploymentVars
  BY <1>1
<1>2. CASE Tr.phase \notin Interrupted
  <2>1. cli.step \notin Unseen
    BY <1>2 DEF CliInv, NoRun, Interrupted, Unseen
  <2> QED  BY <1>2, <2>1, EndsIdle DEF Unseen
<1>3. CASE cli.step = "oldHealth"
  BY <1>3, HealthLife
<1>4. CASE Tr.phase \in Interrupted /\ cli.step # "oldHealth"
  <2>1. cli.step \in {"wipe"} \cup Unseen
    BY <1>4 DEF CliInv, NoRun, Interrupted, Unseen, NonDestructive, Resumable, Stopping, Destructive,
       Committed
  <2>2. Stage(t) = "aside"
    BY <1>4, StageTable DEF UnderRollback, Tr
  <2>3. Stage(t)' = "broken" /\ \A u \in Tx \ {t} : Stage(u)' = Stage(u)
    BY <1>4, EndsTurns
  <2>4. Life!Becomes(t, {"aside"}, "broken")
    BY <2>2, <2>3, StageTurns, Mapped DEF Life!Becomes
  <2>5. UNCHANGED <<Olds, Targets, Backups, Asides>>
    BY RecordsStay DEF SameRecords
  <2>6. Asides[t] = Seen
    BY <2>1, Mapped DEF Seen, HeldInv, Tr, Unseen
  <2>7. Seen' = vol.data
    BY SeenIsVolume DEF NoRun
  <2>8. Seen' \in {Seen, {}, Backups[t]} /\ (cli.step = "recreate" => Seen' = Backups[t])
    BY <2>1, <2>6, <2>7, Mapped DEF HeldInv, Tr, Unseen
  <2>9. cli.step = "recreate" => latest = Olds[t]
    BY Mapped DEF HeldInv, Tr
  <2>10. Life!Interrupt(t)
    BY <2>4, <2>5, <2>6, <2>8, <2>9 DEF Life!Interrupt, Life!records
  <2> QED  BY <2>10 DEF Life!Next, Life!Transition
<1> QED  BY <1>2, <1>3, <1>4

\* A command is killed or one of its steps fails.
LEMMA FaultLife ==
  ASSUME TypeOK, CliInv, HeldInv, Kill \/ StepFails
  PROVE  Life!Next \/ UNCHANGED Life!deploymentVars
<1>1. /\ cli.cmd \in {"update", "rollback"} /\ cli.tx \in Tx /\ cli' = NoRun
      /\ UNCHANGED <<txs, vol, written>>
  BY DEF Kill, StepFails, Exit, CliInv, host
<1>2. UNCHANGED cont \/ (cli.step \in {"up", "recreate"} /\ cont'.image = latest)
  BY DEF Kill, StepFails, host
<1>3. CASE cli.cmd = "rollback"
  <2>1. cli.step # "up"
    BY <1>3 DEF CliInv, NoRun
  <2> QED  BY <1>1, <1>2, <1>3, <2>1, BreaksLife
<1>4. CASE cli.cmd = "update" /\ UNCHANGED cont
  BY <1>1, <1>4, PlainIdle, IdleStutters DEF NoRun
<1>5. CASE cli.cmd = "update" /\ cont'.image = latest /\ cli.step \in {"up", "recreate"}
  <2>1. cli.step = "up"
    BY <1>5 DEF CliInv, NoRun
  <2> QED  BY <1>1, <1>5, <2>1, UpLife DEF NoRun
<1> QED  BY <1>1, <1>2, <1>3, <1>4, <1>5

\* Every step is one of Deployment or changes nothing it sees.
LEMMA StepLife ==
  ASSUME TypeOK, DeployInv, [Next]_vars
  PROVE  Life!Next \/ UNCHANGED Life!deploymentVars
<1>1. CliInv /\ HeldInv /\ HeldInv'
  BY NextDeploy DEF DeployInv
<1>2. CASE \/ SaveOldImage \/ BuildPrepared \/ EnvChecked \/ GatePassed \/ FleetGuardPassed
           \/ Stopped \/ MountResolved \/ Starting \/ UpRecorded \/ Healthy \/ Done
  BY <1>1, <1>2, UpdateLife
<1>3. CASE \/ BuildTarget \/ BuildRefused \/ EnvRefused \/ Placed \/ GateRefused \/ StopOld \/ PinTarget
           \/ StartedDown
  BY <1>1, <1>3, PlainLife
<1>4. CASE Archived \/ Prune \/ ComposeUp
  BY <1>1, <1>4, ArchivedLife, PruneLife, ComposeUpLife
<1>5. CASE RecordClosed \/ StartedOld
  BY <1>1, <1>5, CancelLife
<1>6. CASE RetagOld \/ StartOld \/ HaltCandidates
  BY <1>1, <1>6, QuietLife
<1>7. CASE RollbackStopped \/ ForensicArchived \/ Recreate
  BY <1>1, <1>7, RevertLife, AsideLife, RecreateLife
<1>8. CASE Restoring \/ Wipe \/ Untar \/ Restored \/ RetagBack
  BY <1>1, <1>8, UnseenLife
<1>9. CASE OldHealthy
  <2>1. /\ cli.cmd = "rollback" /\ cli.step = "oldHealth" /\ cli' = NoRun
        /\ UNCHANGED <<cont, vol, written>>
    BY <1>9 DEF OldHealthy, At, Exit, host
  <2> QED  BY <1>1, <1>9, <2>1, HealthLife
<1>10. ASSUME NEW t \in Tx, NEW i \in Image, UpdateBegin(t, i) PROVE Life!Next
  BY <1>1, <1>10, BeginLife
<1>11. ASSUME NEW t \in Tx, Resume(t) \/ RollbackBegin(t) PROVE UNCHANGED Life!deploymentVars
  BY <1>1, <1>11, BeginsLife
<1>12. CASE \/ StartCommand \/ RemoveStaleLock \/ ServerStops \/ (\E i \in Image : BuildCommand(i))
            \/ UNCHANGED vars
  BY <1>1, <1>12, OutsideLife
<1>13. CASE ServerWrites
  BY <1>1, <1>13, WriteLife
<1>14. CASE Kill \/ StepFails
  BY <1>1, <1>14, FaultLife
<1> QED
  BY <1>2, <1>3, <1>4, <1>5, <1>6, <1>7, <1>8, <1>9, <1>10, <1>11, <1>12, <1>13, <1>14
     DEF Next, CliStep, UpdateStep, RollbackSteps, Operator

\* Nothing is deployed at first.
LEMMA InitLife == Init => Life!Init
<1> SUFFICES ASSUME Init PROVE Life!Init
  OBVIOUS
<1>1. ASSUME NEW t \in Tx
      PROVE  /\ Stage(t) = "none" /\ txs[t].old = 0 /\ txs[t].target = 0
             /\ txs[t].archive.data = {} /\ txs[t].forensic.data = {}
  BY StageTable DEF Init, NoVolume
<1>2. Stages = [t \in Tx |-> "none"] /\ Olds = [t \in Tx |-> 0] /\ Targets = [t \in Tx |-> 0]
  BY <1>1 DEF Stages, Olds, Targets
<1>3. Backups = [t \in Tx |-> {}] /\ Asides = [t \in Tx |-> {}]
  BY <1>1 DEF Backups, Asides
<1>4. Seen = {} /\ cont.image = 0 /\ written = 0
  BY DEF Init, Seen, NoRun
<1> QED  BY <1>2, <1>3, <1>4 DEF Life!Init

\* ImplementsDeployment: however commands are killed, fail and are started again, a
\* transaction goes live on a backup of all that was written, is done on its target, and
\* gives the old image and its data back together or is broken for good (runUpdate,
\* runRollback).
THEOREM DeploysAtomically == Spec => ImplementsDeployment
<1>1. Init => Life!Init
  BY InitLife
<1>2. TypeOK /\ DeployInv /\ [Next]_vars => [Life!Next]_(Life!deploymentVars)
  BY StepLife
<1> QED  BY <1>1, <1>2, Deployed, PTL DEF Spec, ImplementsDeployment, Life!Safe
=============================================================================
