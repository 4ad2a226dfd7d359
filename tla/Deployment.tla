----------------------------- MODULE Deployment -----------------------------
(***************************************************************************)
(* What the deploy CLI promises of its transactions.  A transaction        *)
(* prepares a target image beside the running one, goes live once its      *)
(* backup is the data as it is, and is then completed on the target or     *)
(* reverted.  A rollback that restores puts the data aside, and then gives *)
(* back the old image and the data of the backup in one step: nobody sees  *)
(* one without the other, unless the rollback is interrupted, after which  *)
(* the transaction is broken for good.                                     *)
(***************************************************************************)
EXTENDS Naturals

CONSTANTS Tx, Image

VARIABLES
    stage,        \* how far each transaction has come
    old, target,  \* the image it replaces, and the one it deploys
    backup,       \* the writes in its archive
    aside,        \* the writes its rollback has put aside
    image,        \* the image of the server's container
    data,         \* the writes the server works on
    written       \* writes made so far

stores == <<image, data, written>>
records == <<old, target, backup, aside>>
deploymentVars == <<stage, stores, records>>

\* A transaction that stands in the way of no other.
Closed == {"none", "done", "rolled_back", "pruned"}

Init ==
    /\ stage = [t \in Tx |-> "none"]
    /\ old = [t \in Tx |-> 0] /\ target = [t \in Tx |-> 0]
    /\ backup = [t \in Tx |-> {}] /\ aside = [t \in Tx |-> {}]
    /\ image = 0 /\ data = {} /\ written = 0

Becomes(t, from, to) == stage[t] \in from /\ stage' = [stage EXCEPT ![t] = to]

\* One transaction at a time, and it remembers the image that runs.
Begin(t) ==
    /\ \A u \in Tx : stage[u] \in Closed
    /\ Becomes(t, {"none"}, "opened")
    /\ old' = [old EXCEPT ![t] = image]
    /\ \E i \in Image : target' = [target EXCEPT ![t] = i]
    /\ UNCHANGED <<stores, backup, aside>>

Prepare(t) == Becomes(t, {"opened"}, "prepared") /\ UNCHANGED <<stores, records>>

BackUp(t) ==
    /\ stage[t] = "prepared"
    /\ backup' = [backup EXCEPT ![t] = data]
    /\ UNCHANGED <<stage, stores, old, target, aside>>

\* Nothing was written since the backup.
GoLive(t) ==
    /\ Becomes(t, {"prepared"}, "live")
    /\ backup[t] = data
    /\ UNCHANGED <<stores, records>>

Upgrade(t) ==
    /\ stage[t] = "live"
    /\ image' = target[t]
    /\ UNCHANGED <<stage, data, written, records>>

Complete(t) ==
    /\ Becomes(t, {"live"}, "done")
    /\ image = target[t]
    /\ UNCHANGED <<stores, records>>

\* The archives of completed transactions may go.
Prune(S) ==
    /\ \A t \in S : stage[t] = "done"
    /\ stage' = [t \in Tx |-> IF t \in S THEN "pruned" ELSE stage[t]]
    /\ backup' = [t \in Tx |-> IF t \in S THEN {} ELSE backup[t]]
    /\ UNCHANGED <<stores, old, target, aside>>

\* A transaction that did not go live is closed; the old image is still there.
Cancel(t) ==
    /\ Becomes(t, {"opened", "prepared"}, "rolled_back")
    /\ stage[t] = "prepared" => image = old[t]
    /\ UNCHANGED <<stores, records>>

Revert(t) == Becomes(t, {"live", "done"}, "reverting") /\ UNCHANGED <<stores, records>>

PutAside(t) ==
    /\ Becomes(t, {"reverting"}, "aside")
    /\ aside' = [aside EXCEPT ![t] = data]
    /\ UNCHANGED <<stores, old, target, backup>>

\* The old image and its data come back together.
Restore(t) ==
    /\ Becomes(t, {"aside"}, "restored")
    /\ aside[t] = data
    /\ image' = old[t] /\ data' = backup[t]
    /\ UNCHANGED <<written, records>>

Finish(t) ==
    /\ Becomes(t, {"restored"}, "rolled_back")
    /\ image = old[t]
    /\ UNCHANGED <<stores, records>>

\* A restore stops half-way: before, between or after its two halves, the old
\* container made or not.
Interrupt(t) ==
    /\ Becomes(t, {"aside"}, "broken")
    /\ aside[t] = data
    /\ \/ data' \in {data, {}, backup[t]} /\ UNCHANGED image
       \/ data' = backup[t] /\ image' = old[t]
    /\ UNCHANGED <<written, records>>

\* The old image does not come up.
Fail(t) == Becomes(t, {"restored"}, "broken") /\ UNCHANGED <<stores, records>>

Write ==
    /\ written' = written + 1
    /\ data' = data \cup {written'}
    /\ UNCHANGED <<stage, image, records>>

Transition(t) ==
    \/ Begin(t) \/ Prepare(t) \/ BackUp(t) \/ GoLive(t) \/ Upgrade(t) \/ Complete(t)
    \/ Cancel(t) \/ Revert(t) \/ PutAside(t) \/ Restore(t) \/ Finish(t)
    \/ Interrupt(t) \/ Fail(t)

Next ==
    \/ \E t \in Tx : Transition(t)
    \/ \E S \in SUBSET Tx : Prune(S)
    \/ Write

Safe == Init /\ [][Next]_deploymentVars
=============================================================================
