--------------------------- MODULE RunnerSupervisor ---------------------------
(***************************************************************************)
(* The host runner's Supervisor: the wrapper processes it starts, stops,   *)
(* restarts, moves to another session or resets, the lock on the sessions  *)
(* being resumed (#activeSessions), and the recovery checkpoint each       *)
(* wrapper keeps, which decides what a crashed wrapper is restarted with.  *)
(*                                                                         *)
(* One action is one turn of the runner's event loop (a command, the end   *)
(* of an asynchronous session check, an exit event, a timer) or one step   *)
(* of a wrapper process.  Signals need no state of their own: a process    *)
(* may end at any moment, signalled or not, and may ignore a signal.       *)
(***************************************************************************)
EXTENDS Naturals

CONSTANTS
    None,
    Agents,
    Sessions,      \* session ids
    Old,           \* sessions on disk when the runner starts
    MaxRestarts,   \* crash restarts within a window (5)
    MaxRequest,    \* bound: commands that carry a request id
    MaxPid         \* bound: processes of an agent whose exit is not handled

Requests == 1..MaxRequest
Pids == Agents \X (1..MaxPid)
SessionOrNone == Sessions \cup {None}
Verdicts == {"ok", "refused", "spawn_failed", "rollback_failed", "timeout"}

ASSUME SupervisorAssumption ==
    /\ None \notin Sessions /\ Old \subseteq Sessions
    /\ MaxRestarts \in Nat /\ MaxRequest \in Nat /\ MaxPid \in Nat

VARIABLES
    children,        \* agent -> its ChildEntry, or None
    activeSessions,  \* sessions locked against a second resume
    pendingSpawns,   \* agent -> resume spawn whose session is being looked up, or None
    pendingSwitches, \* agent -> switch whose session is being looked up, or None
    procs,           \* pid -> a wrapper process, or None
    stored,          \* sessions on disk
    used,            \* request ids given out
    answers,         \* history: request -> number of results sent for it
    verdict          \* history: the result of a reset sent in the last step, or None

vars == <<children, activeSessions, pendingSpawns, pendingSwitches, procs, stored,
          used, answers, verdict>>

\* The part of a launch configuration that tells launches apart: the session to
\* resume and the request the process is launched for (its transition_id).
Parsed == [resume : SessionOrNone, request : Requests]
PendingReset == [request : Requests, previous : SessionOrNone, parsed : Parsed]
ChildEntry ==
    [child : Pids, parsed : Parsed, restarts : 0..MaxRestarts, stopping : BOOLEAN,
     restarting : BOOLEAN, cycle : {"restart", "switch", None}, kind : {"candidate", None},
     locked : SessionOrNone, reset : PendingReset \cup {None}, timer : {"off", "term", "kill"}]

\* A wrapper: what it was launched with and its recovery checkpoint.  "blocked" is
\* every state no recovery goes on from: a blocked record, one that cannot be read,
\* and a process that could not write its record and exits with code 79.
Process ==
    [resume : SessionOrNone, kind : {"candidate", None},
     state : {"initial", "unbound", "live", "blocked"},
     id : SessionOrNone, alive : BOOLEAN]
Check == [resume : Sessions, request : Requests]

\* None is no entry, process, look-up, pending reset, request or result.
ASSUME NoneAssumption ==
    /\ None \notin ChildEntry /\ None \notin Process /\ None \notin Check
    /\ None \notin PendingReset /\ None \notin Requests /\ None \notin Verdicts

Init ==
    /\ children = [a \in Agents |-> None] /\ activeSessions = {}
    /\ pendingSpawns = [a \in Agents |-> None]
    /\ pendingSwitches = [a \in Agents |-> None]
    /\ procs = [p \in Pids |-> None]
    /\ stored = Old /\ used = 0
    /\ answers = [r \in Requests |-> 0] /\ verdict = None

-----------------------------------------------------------------------------
(* Launching, answering, removing.                                         *)

Free(a) == {n \in 1..MaxPid : procs[<<a, n>>] = None}
NextPid(a) == <<a, CHOOSE n \in Free(a) : \A m \in Free(a) : n <= m>>

\* launch(): the new process has an initial checkpoint.
Launched(resume, kind) ==
    [resume |-> resume, kind |-> kind, state |-> "initial", id |-> None, alive |-> TRUE]

\* sendResult: a spawn_result for r.
Answer(r) == answers' = [answers EXCEPT ![r] = @ + 1] /\ verdict' = None

\* sendResetResult: the result of reset r.
Conclude(r, v) == answers' = [answers EXCEPT ![r] = @ + 1] /\ verdict' = v

Mute == UNCHANGED answers /\ verdict' = None

\* #remove: the slot and the lock of entry e go; locks are the sessions locked.
Remove(a, e, locks) ==
    /\ children' = [children EXCEPT ![a] = None]
    /\ activeSessions' = locks \ {e.locked}

\* #remove also cancels the look-up of a switch of the removed entry.
DropSwitch ==
    pendingSwitches' = [a \in Agents |-> IF children'[a] = None THEN None ELSE pendingSwitches[a]]

\* Entry e of agent a gets a new process; the others are as in rest.
Replace(a, e, rest, resume, kind) ==
    /\ Free(a) # {}
    /\ children' = [children EXCEPT ![a] = [e EXCEPT !.child = NextPid(a)]]
    /\ procs' = [rest EXCEPT ![NextPid(a)] = Launched(resume, kind)]

-----------------------------------------------------------------------------
(* Recovery from a process's checkpoint.                                   *)

\* Mutant: the session the wrapper was live on is not taken over.
MutantTarget(e, proc) == e.parsed.resume

\* The session #selectRecovery continues with.
Target(e, proc) ==
    CASE proc.state = "live" -> proc.id
      [] proc.state = "unbound" /\ proc.id # None -> proc.id
      [] proc.state = "unbound" /\ proc.id = None /\ e.kind = "candidate" -> None
      [] OTHER -> e.parsed.resume

RecoveredKind(e, proc) ==
    CASE proc.state = "live" -> None
      [] proc.state = "unbound" /\ proc.id # None -> "candidate"
      [] proc.state = "unbound" /\ proc.id = None -> None
      [] OTHER -> e.kind

\* #selectRecovery accepts: the checkpoint is usable, its session not another's.
Recoverable(e, proc) ==
    /\ proc.state # "blocked"
    /\ Target(e, proc) \in {e.locked, None} \/ Target(e, proc) \notin activeSessions

Recovered(e, proc) ==
    [e EXCEPT !.parsed.resume = Target(e, proc), !.locked = Target(e, proc),
              !.kind = RecoveredKind(e, proc)]

RecoveredLocks(e, proc) ==
    (activeSessions \ ({e.locked} \ {Target(e, proc)})) \cup ({Target(e, proc)} \ {None})

-----------------------------------------------------------------------------
(* The exit of entry e's process; rest are the processes that are left.    *)

\* #relaunch.  A failure is reported when the relaunch belongs to a request.
Relaunch(a, e, locks, rest, r) ==
    \/ /\ Replace(a, e, rest, e.parsed.resume, e.kind)
       /\ activeSessions' = locks /\ Mute
    \/ /\ Remove(a, e, locks) /\ procs' = rest
       /\ IF r = None THEN Mute ELSE Answer(r)

\* Mutant: the session of the last spawn or switch is rolled back to.
MutantRollback(a, e, rest) ==
    LET oldResume == e.reset.parsed.resume
        back == [e EXCEPT !.parsed.resume = oldResume, !.kind = None, !.restarts = 0,
                          !.locked = oldResume, !.reset = None]
    IN \/ /\ oldResume # None
          /\ Replace(a, back, rest, oldResume, None)
          /\ UNCHANGED activeSessions
          /\ Conclude(e.reset.request, "spawn_failed")
       \/ /\ Remove(a, e, activeSessions) /\ procs' = rest
          /\ Conclude(e.reset.request, "rollback_failed")

\* #rollback: the previous session is resumed, or the agent is given up.
Rollback(a, e, rest) ==
    LET back == [e EXCEPT !.parsed.resume = e.reset.previous, !.kind = None, !.restarts = 0,
                          !.locked = e.reset.previous, !.reset = None]
        oldResume == e.reset.parsed.resume
    IN \/ /\ e.reset.previous # None
          /\ Replace(a, back, rest, e.reset.previous, None)
          /\ activeSessions' =
               (activeSessions \ ({oldResume} \ {e.reset.previous})) \cup {e.reset.previous}
          /\ Conclude(e.reset.request, "spawn_failed")
       \/ /\ Remove(a, e, activeSessions) /\ procs' = rest
          /\ Conclude(e.reset.request, "rollback_failed")

\* Mutant: the abandoned session stays locked.
MutantRelaunchForReset(a, e, rest) ==
    \/ /\ Replace(a, [e EXCEPT !.kind = None, !.restarts = 0, !.locked = None, !.reset = None],
                  rest, None, None)
       /\ UNCHANGED activeSessions
       /\ Conclude(e.reset.request, "ok")
    \/ Rollback(a, e, rest)

\* #relaunchForReset: a fresh process, or the rollback.
RelaunchForReset(a, e, rest) ==
    \/ /\ Replace(a, [e EXCEPT !.kind = None, !.restarts = 0, !.locked = None, !.reset = None],
                  rest, None, None)
       /\ activeSessions' = activeSessions \ {e.reset.parsed.resume}
       /\ Conclude(e.reset.request, "ok")
    \/ Rollback(a, e, rest)

\* The relaunch of a deliberate cycle: a switch keeps the session it was given.
EndCycle(a, e, proc, rest) ==
    LET done == [e EXCEPT !.restarting = FALSE, !.cycle = None] IN
    \/ /\ e.cycle = "switch"
       /\ Relaunch(a, done, activeSessions, rest, e.parsed.request)
    \/ /\ e.cycle # "switch" /\ Recoverable(e, proc)
       /\ Relaunch(a, Recovered(done, proc), RecoveredLocks(e, proc), rest, e.parsed.request)
    \/ /\ e.cycle # "switch" /\ ~Recoverable(e, proc)
       /\ Remove(a, e, activeSessions) /\ procs' = rest
       /\ Answer(e.parsed.request)

\* Mutant: the budget is not looked at.
MutantCrash(a, e, proc, rest) ==
    \/ /\ Recoverable(e, proc)
       /\ Relaunch(a, [Recovered(e, proc) EXCEPT !.restarts = @ + 1],
                   RecoveredLocks(e, proc), rest, None)
    \/ /\ ~Recoverable(e, proc)
       /\ Remove(a, e, activeSessions) /\ procs' = rest /\ Mute

\* An unexpected exit: restarted while the budget of the window lasts.  elapsed
\* tells whether the window had passed.
Crash(a, e, proc, rest) ==
    \/ /\ Recoverable(e, proc)
       /\ \E elapsed \in BOOLEAN :
            LET count == IF elapsed THEN 0 ELSE e.restarts
                next == [Recovered(e, proc) EXCEPT !.restarts = count + 1]
            IN \/ /\ count < MaxRestarts
                  /\ Relaunch(a, next, RecoveredLocks(e, proc), rest, None)
               \/ /\ count >= MaxRestarts
                  /\ Remove(a, Recovered(e, proc), RecoveredLocks(e, proc)) /\ procs' = rest
                  /\ Mute
    \/ /\ ~Recoverable(e, proc)
       /\ Remove(a, e, activeSessions) /\ procs' = rest /\ Mute

\* Mutant: a pending reset is looked at before the stop.
MutantOnExit(a, entry, proc, rest) ==
    LET e == [entry EXCEPT !.timer = "off"] IN
    \/ e.stopping /\ e.reset = None /\ Remove(a, e, activeSessions) /\ procs' = rest /\ Mute
    \/ e.reset # None /\ RelaunchForReset(a, [e EXCEPT !.restarting = FALSE], rest)
    \/ ~e.stopping /\ e.reset = None /\ e.restarting /\ EndCycle(a, e, proc, rest)
    \/ ~e.stopping /\ e.reset = None /\ ~e.restarting /\ Crash(a, e, proc, rest)

\* #onExit for the process an entry has now.
OnExit(a, entry, proc, rest) ==
    LET e == [entry EXCEPT !.timer = "off"] IN
    \/ e.stopping /\ Remove(a, e, activeSessions) /\ procs' = rest /\ Mute
    \/ ~e.stopping /\ e.reset # None /\ RelaunchForReset(a, [e EXCEPT !.restarting = FALSE], rest)
    \/ ~e.stopping /\ e.reset = None /\ e.restarting /\ EndCycle(a, e, proc, rest)
    \/ ~e.stopping /\ e.reset = None /\ ~e.restarting /\ Crash(a, e, proc, rest)

\* Mutant: an exit is taken for that of the agent's present process.
MutantChildExit(p) ==
    /\ procs[p] # None /\ ~procs[p].alive
    /\ LET a == p[1]
           rest == [procs EXCEPT ![p] = None]
       IN IF children[a] # None
          THEN OnExit(a, children[a], procs[p], rest)
          ELSE procs' = rest /\ Mute /\ UNCHANGED <<children, activeSessions>>
    /\ DropSwitch /\ UNCHANGED <<pendingSpawns, stored, used>>

\* The exit event of process p: only that of an entry's present process counts.
ChildExit(p) ==
    /\ procs[p] # None /\ ~procs[p].alive
    /\ LET a == p[1]
           rest == [procs EXCEPT ![p] = None]
       IN IF children[a] # None /\ children[a].child = p
          THEN OnExit(a, children[a], procs[p], rest)
          ELSE procs' = rest /\ Mute /\ UNCHANGED <<children, activeSessions>>
    /\ DropSwitch /\ UNCHANGED <<pendingSpawns, stored, used>>

-----------------------------------------------------------------------------
(* Commands.  The server sends one planned command (reset, switch or       *)
(* restart) of an agent at a time, and forgets one it has no answer to     *)
(* after 60 s: later than the 10 s a reset waits for its process here, but *)
(* a restart or a switch waits for as long as the process takes.  A stop   *)
(* ends the server's intent at once, so that a restart may follow it.      *)
(* Commands for an agent without an entry change nothing.                  *)

Command(r) == used < MaxRequest /\ r = used + 1 /\ used' = r

\* #fail, before anything is killed.
Refuse(r) == Answer(r) /\ UNCHANGED <<children, activeSessions, procs>>

\* #launchSpawn and #start; resume is locked already when it is not None.
LaunchSpawn(a, parsed, locks) ==
    \/ /\ Free(a) # {}
       /\ children' = [children EXCEPT ![a] =
            [child |-> NextPid(a), parsed |-> parsed, restarts |-> 0, stopping |-> FALSE,
             restarting |-> FALSE, cycle |-> None, kind |-> None, locked |-> parsed.resume,
             reset |-> None, timer |-> "off"]]
       /\ procs' = [procs EXCEPT ![NextPid(a)] = Launched(parsed.resume, None)]
       /\ activeSessions' = locks
       /\ Answer(parsed.request)
    \/ /\ activeSessions' = locks \ {parsed.resume}
       /\ Answer(parsed.request)
       /\ UNCHANGED <<children, procs>>

\* handleSpawn without a session.
SpawnFresh(a, r) ==
    /\ Command(r)
    /\ IF children[a] = None /\ pendingSpawns[a] = None
       THEN LaunchSpawn(a, [resume |-> None, request |-> r], activeSessions)
       ELSE Refuse(r)
    /\ UNCHANGED <<pendingSpawns, pendingSwitches, stored>>

\* handleSpawn with a session: the agent is reserved while it is looked up.
SpawnResume(a, r, s) ==
    /\ Command(r) /\ s \in stored
    /\ \/ /\ children[a] = None /\ pendingSpawns[a] = None
          /\ pendingSpawns' = [pendingSpawns EXCEPT ![a] = [resume |-> s, request |-> r]]
          /\ Mute /\ UNCHANGED <<children, activeSessions, procs>>
       \/ Refuse(r) /\ UNCHANGED pendingSpawns
    /\ UNCHANGED <<pendingSwitches, stored>>

\* The look-up ends, in #completeResumeSpawn or its error handler.
SpawnChecked(a, found) ==
    /\ pendingSpawns[a] # None
    /\ pendingSpawns' = [pendingSpawns EXCEPT ![a] = None]
    /\ IF found /\ pendingSpawns[a].resume \notin activeSessions
       THEN LaunchSpawn(a, pendingSpawns[a], activeSessions \cup {pendingSpawns[a].resume})
       ELSE Refuse(pendingSpawns[a].request)
    /\ UNCHANGED <<pendingSwitches, stored, used>>

\* handleStop.  A spawn still being looked up is cancelled; its failure goes out
\* without a request id.
Stop(a) ==
    /\ \/ /\ pendingSpawns[a] # None
          /\ pendingSpawns' = [pendingSpawns EXCEPT ![a] = None]
          /\ UNCHANGED <<children, pendingSwitches>>
       \/ /\ pendingSpawns[a] = None /\ children[a] # None
          /\ pendingSwitches' = [pendingSwitches EXCEPT ![a] = None]
          /\ children' = [children EXCEPT ![a].stopping = TRUE]
          /\ UNCHANGED pendingSpawns
    /\ Mute /\ UNCHANGED <<activeSessions, procs, stored, used>>

\* stopAll on shutdown.  The link is closed next; commands after it are harmless.
StopAll ==
    /\ pendingSpawns' = [a \in Agents |-> None]
    /\ pendingSwitches' = [a \in Agents |-> None]
    /\ children' = [a \in Agents |-> IF children[a] = None THEN None
                                     ELSE [children[a] EXCEPT !.stopping = TRUE]]
    /\ Mute /\ UNCHANGED <<activeSessions, procs, stored, used>>

\* handleRestart: refused when the checkpoint read now is blocked or the engine
\* cannot start.  The checkpoint of a process that failed to write it is not blocked.
Restart(a, r) ==
    /\ children[a] # None /\ (children[a].reset = None \/ children[a].stopping)
    /\ Command(r)
    /\ \/ /\ children' = [children EXCEPT ![a].parsed.request = r, ![a].cycle = "restart",
                                          ![a].restarting = TRUE, ![a].restarts = 0]
          /\ pendingSwitches' = [pendingSwitches EXCEPT ![a] = None]
          /\ Mute /\ UNCHANGED <<activeSessions, procs>>
       \/ Refuse(r) /\ UNCHANGED pendingSwitches
    /\ UNCHANGED <<pendingSpawns, stored>>

\* handleSwitchSession: a newer switch takes the place of one being looked up.
SwitchSession(a, r, s) ==
    /\ children[a] # None /\ children[a].reset = None
    /\ Command(r) /\ s \in stored
    /\ pendingSwitches' = [pendingSwitches EXCEPT ![a] = [resume |-> s, request |-> r]]
    /\ Mute /\ UNCHANGED <<children, activeSessions, pendingSpawns, procs, stored>>

\* #completeSwitchSession, or its error handler.  The lock moves to the new
\* session at once, before the old process has ended.
SwitchChecked(a, found) ==
    /\ pendingSwitches[a] # None
    /\ pendingSwitches' = [pendingSwitches EXCEPT ![a] = None]
    /\ LET s == pendingSwitches[a].resume
           r == pendingSwitches[a].request
           e == children[a]
       IN \/ e.stopping /\ Mute /\ UNCHANGED <<children, activeSessions, procs>>
          \/ ~e.stopping /\ Refuse(r)
          \/ /\ ~e.stopping /\ found /\ (s = e.locked \/ s \notin activeSessions)
             /\ activeSessions' = (activeSessions \ {e.locked}) \cup {s}
             /\ children' = [children EXCEPT ![a] =
                  [e EXCEPT !.parsed = [resume |-> s, request |-> r], !.locked = s,
                            !.cycle = "switch", !.kind = None, !.restarting = TRUE,
                            !.restarts = 0]]
             /\ Mute /\ UNCHANGED <<procs>>
    /\ UNCHANGED <<pendingSpawns, stored, used>>

\* Mutant: no timer is armed for SIGKILL.
MutantTerminateForReset(a, e, timer) ==
    \/ /\ children' = [children EXCEPT ![a] =
                          [e EXCEPT !.timer = IF timer = "kill" THEN "off" ELSE timer]]
       /\ Mute /\ UNCHANGED <<activeSessions, procs>>
    \/ ~procs[e.child].alive /\ OnExit(a, e, procs[e.child], procs)

\* #terminateForReset: entry e's process is signalled and timer is armed, or the
\* process is found gone and its exit handled at once.
TerminateForReset(a, e, timer) ==
    \/ /\ children' = [children EXCEPT ![a] = [e EXCEPT !.timer = timer]]
       /\ Mute /\ UNCHANGED <<activeSessions, procs>>
    \/ ~procs[e.child].alive /\ OnExit(a, e, procs[e.child], procs)

\* The session the server knows the agent to be in: the one its wrapper reports.
Reported(a) == procs[children[a].child].id

\* A reset that is turned down before anything is killed: the engine cannot start,
\* or, once a switch being looked up was cancelled, its permissions are too wide.
RefuseReset(r) == Conclude(r, "refused") /\ UNCHANGED <<children, activeSessions, procs>>

\* handleResetSession.
ResetSession(a, r) ==
    /\ children[a] # None /\ children[a].reset = None
    /\ Command(r)
    /\ \/ RefuseReset(r) /\ UNCHANGED pendingSwitches
       \/ /\ pendingSwitches' = [pendingSwitches EXCEPT ![a] = None]
          /\ \/ RefuseReset(r)
             \/ LET e == children[a] IN
                TerminateForReset(a,
                  [e EXCEPT !.reset = [request |-> r, previous |-> Reported(a),
                                       parsed |-> e.parsed],
                            !.parsed = [resume |-> None, request |-> r],
                            !.restarting = TRUE, !.restarts = 0], "term")
    /\ UNCHANGED <<pendingSpawns, stored>>

\* Mutant: the reset stays pending after its failure was reported.
MutantFailResetTermination(a, e) ==
    /\ children' = [children EXCEPT ![a] =
         [e EXCEPT !.parsed = e.reset.parsed, !.restarting = FALSE, !.timer = "off"]]
    /\ Conclude(e.reset.request, "timeout")
    /\ UNCHANGED <<activeSessions, procs>>

\* #failResetTermination: the old process stays, with its launch configuration.
FailResetTermination(a, e) ==
    /\ children' = [children EXCEPT ![a] =
         [e EXCEPT !.parsed = e.reset.parsed, !.restarting = FALSE, !.reset = None,
                   !.timer = "off"]]
    /\ Conclude(e.reset.request, "timeout")
    /\ UNCHANGED <<activeSessions, procs>>

\* The reset's termination timer: SIGKILL after SIGTERM, then failure.
ResetTimer(a) ==
    /\ children[a] # None /\ children[a].timer # "off"
    /\ IF children[a].timer = "term"
       THEN TerminateForReset(a, children[a], "kill")
       ELSE FailResetTermination(a, children[a])
    /\ DropSwitch /\ UNCHANGED <<pendingSpawns, stored, used>>

-----------------------------------------------------------------------------
(* The wrapper processes: RecoveryReporter writes the checkpoint.          *)

Writing(p) == procs[p] # None /\ procs[p].alive /\ procs[p].state # "blocked"
Set(p, proc) ==
    /\ procs' = [procs EXCEPT ![p] = proc]
    /\ Mute /\ UNCHANGED <<children, activeSessions, pendingSpawns, pendingSwitches, used>>

\* The constructor: a candidate to be resumed is known from the start.
Report(p) ==
    /\ Writing(p) /\ procs[p].state = "initial"
    /\ Set(p, [procs[p] EXCEPT !.state = "unbound",
                 !.id = IF procs[p].kind = "candidate" THEN procs[p].resume ELSE None])
    /\ UNCHANGED stored

\* observe(id): the process was given a new session.  One that resumes a session
\* takes no other until it is attached.
Observe(p, s) ==
    /\ Writing(p)
    /\ procs[p].state = "live" \/ (procs[p].state = "unbound" /\ procs[p].resume = None)
    /\ s \notin stored /\ stored' = stored \cup {s}
    /\ Set(p, [procs[p] EXCEPT !.state = "unbound", !.id = s])

\* confirm(id): the process is attached to the session it resumes or was given.
\* One that has let its candidate go writes nothing more.
Confirm(p) ==
    /\ Writing(p) /\ procs[p].state = "unbound"
    /\ procs[p].id # None \/ (procs[p].resume # None /\ procs[p].kind = None)
    /\ Set(p, [procs[p] EXCEPT !.state = "live", !.id = IF @ = None THEN procs[p].resume ELSE @])
    /\ UNCHANGED stored

\* accept(id) with another id than the one resumed, or refuseLaunch: a candidate
\* is let go, any other session blocks the recovery.
Reject(p) ==
    /\ Writing(p) /\ procs[p].state \in {"unbound", "live"} /\ procs[p].resume # None
    /\ Set(p, IF procs[p].state = "unbound" /\ procs[p].id = procs[p].resume
              THEN [procs[p] EXCEPT !.id = None]
              ELSE [procs[p] EXCEPT !.state = "blocked"])
    /\ UNCHANGED stored

\* block(reason), or a checkpoint that cannot be written.
Block(p) ==
    /\ Writing(p) /\ Set(p, [procs[p] EXCEPT !.state = "blocked"]) /\ UNCHANGED stored

\* The process ends, for whatever reason; its exit event is still to come.
Die(p) ==
    /\ procs[p] # None /\ procs[p].alive
    /\ Set(p, [procs[p] EXCEPT !.alive = FALSE]) /\ UNCHANGED stored

-----------------------------------------------------------------------------
Next ==
    \/ \E a \in Agents :
         \/ Stop(a) \/ ResetTimer(a)
         \/ \E found \in BOOLEAN : SpawnChecked(a, found) \/ SwitchChecked(a, found)
         \/ \E r \in Requests :
              \/ SpawnFresh(a, r) \/ Restart(a, r) \/ ResetSession(a, r)
              \/ \E s \in Sessions : SpawnResume(a, r, s) \/ SwitchSession(a, r, s)
    \/ \E p \in Pids :
         \/ ChildExit(p) \/ Report(p) \/ Confirm(p) \/ Reject(p) \/ Block(p)
         \/ Die(p)
         \/ \E s \in Sessions : Observe(p, s)
    \/ StopAll

Spec == Init /\ [][Next]_vars

-----------------------------------------------------------------------------
TypeOK ==
    /\ children \in [Agents -> ChildEntry \cup {None}]
    /\ activeSessions \subseteq Sessions
    /\ pendingSpawns \in [Agents -> Check \cup {None}]
    /\ pendingSwitches \in [Agents -> Check \cup {None}]
    /\ procs \in [Pids -> Process \cup {None}]
    /\ stored \subseteq Sessions /\ used \in 0..MaxRequest
    /\ answers \in [Requests -> Nat] /\ verdict \in Verdicts \cup {None}

\* No session stays locked without an owner (the leak the comments on
\* oldResumeSessionId and #remove guard against): whatever way a spawn, switch,
\* reset, rollback or crash takes, a locked session is the one some agent's entry
\* would release when it is removed.
NoLockLeaks ==
    \A s \in activeSessions : \E a \in Agents : children[a] # None /\ children[a].locked = s

\* A living wrapper is the one its agent's entry has: the supervisor never
\* replaces a process that has not ended (#terminateForReset, "two owners for one
\* agent") and never forgets one, which nothing could stop then.
OneWrapper ==
    \A p \in Pids : procs[p] # None /\ procs[p].alive =>
        children[p[1]] # None /\ children[p[1]].child = p

\* A request gets one result at most: not a timeout and then a success, not a
\* failure for a command that was already answered.
OneAnswer == \A r \in Requests : answers[r] <= 1

\* A pending reset always has its termination timer armed, also after SIGKILL and
\* after a stop: a process that ignores every signal cannot hold the reset, and the
\* server's lock with it, for longer than the two grace periods (#248).
ResetArmed ==
    \A a \in Agents :
        children[a] # None /\ children[a].reset # None => children[a].timer # "off"

\* What a reset's result says is so: ok, the agent has a fresh process that
\* carries the reset's id, by which the server recognises it; spawn_failed, it is
\* back in the session the server named; rollback_failed, it is gone; timeout, it
\* still has the process and the configuration from before the reset.
ResultsAreTrue ==
    [][\A a \in Agents : children[a] # None /\ children[a].reset # None =>
         LET e == children[a]
             new == children'[a]
             said(v) == answers'[e.reset.request] > answers[e.reset.request] /\ verdict' = v
         IN /\ said("ok") => /\ new # None /\ new.child # e.child
                             /\ procs'[new.child].resume = None
                             /\ new.parsed = [resume |-> None, request |-> e.reset.request]
            /\ said("spawn_failed") =>
                  /\ new # None /\ new.locked = e.reset.previous
                  /\ procs'[new.child].resume = e.reset.previous
            /\ said("rollback_failed") => new = None
            /\ said("timeout") => new # None /\ new.child = e.child /\ new.parsed = e.reset.parsed
      ]_vars

\* Once told to stop, an agent gets no further process, whatever reset, switch or
\* restart was under way or comes later: its entry keeps its process until that
\* ends and is then removed.
StopIsFinal ==
    [][\A a \in Agents : children[a] # None /\ children[a].stopping /\ children'[a] # None =>
         children'[a].stopping /\ children'[a].child = children[a].child]_vars

\* A wrapper that had a session and ends without being asked to leave it comes
\* back in that session or not at all (ADR-0014 F5): not in an empty one, and not
\* in the one the agent was spawned with long before.
SessionSurvives ==
    [][\A a \in Agents :
         LET e == children[a]
             new == children'[a]
         IN /\ e # None /\ e.reset = None /\ ~(e.restarting /\ e.cycle = "switch")
            /\ procs[e.child].state = "live"
            /\ new # None /\ new.child # e.child /\ used' = used
            => procs'[new.child].resume = procs[e.child].id]_vars

\* The promise of ADR-0014 F4: the runner's lock prevents that two processes
\* resume the same session at the same time.
ResumeExclusive ==
    \A p, q \in Pids :
        /\ procs[p] # None /\ procs[p].alive /\ procs[p].resume # None
        /\ procs[q] # None /\ procs[q].alive /\ procs[q].resume = procs[p].resume
        => p = q
===============================================================================
