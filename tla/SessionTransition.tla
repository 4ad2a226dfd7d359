--------------------------- MODULE SessionTransition ---------------------------
(***************************************************************************)
(* How one agent's wrapper is replaced under a planned cycle: the reset    *)
(* lock (KaoiroServer.SessionResets), the planned-disconnect intent        *)
(* (KaoiroServer.PlannedDisconnects), the notices its peers are promised   *)
(* (KaoiroServerWeb.PeerConnectivity) and the wrapper channels that join   *)
(* and end in between.  Locks and intents of different agents do not       *)
(* interact.                                                               *)
(*                                                                         *)
(* SessionResets and PlannedDisconnects answer one call at a time, but the *)
(* notices a call leads to are delivered one by one by the process that    *)
(* made it: voices holds those still to be delivered.                      *)
(***************************************************************************)
EXTENDS Naturals, FiniteSets

CONSTANTS
    None,
    Chans,         \* wrapper channel processes of the agent
    Peers,         \* {conversation, peer} pairs
    AskedKinds,    \* lifecycle commands the operator uses, among Kinds
    MaxTargets,    \* pairs an intent may hold (50)
    MaxRequest     \* bound: lifecycle commands

Requests == 1..MaxRequest
Tids == 0..MaxRequest          \* transition_id of a join, 0 when it is absent
Absent == 0
Kinds == {"reset", "switch", "restart"}
Reasons == {"spawn_failed", "rollback_failed", "timeout"}
Results == {"noop", "mismatch", "matched", "legacy_absent", "duplicate_waiter", "deleted"}
Servers == {"resets", "planned", "operator", "runner"}

ASSUME TransitionAssumption ==
    /\ AskedKinds \subseteq Kinds /\ MaxTargets \in Nat /\ MaxRequest \in Nat
    /\ None \notin Chans /\ Servers \cap Chans = {} /\ IsFiniteSet(Peers)

VARIABLES
    lock,        \* the reset lock, or None
    failing,     \* the failure SessionResets is reporting, or None
    intent,      \* the planned-disconnect intent, or None
    flow,        \* request -> how far its lifecycle command has got, or None
    chan,        \* channel -> its join and how far it has got, or None
    owner,       \* the channel AgentStates has as the agent's owner, or None
    up,          \* AgentStates shows the agent as not disconnected
    purge,       \* how far the operator's purge has got
    voices,      \* notices still to be delivered
    heard,       \* peer -> the last notice it got, or None
    outcome,     \* history: request -> how its lock ended, or None
    accepted,    \* history: request -> channels whose join completed it
    spawned,     \* history: requests the runner reported as spawned
    promised,    \* history: request and peer told to wait
    closed       \* history: request and peer told the end of the wait

resetVars == <<lock, failing, outcome, accepted, spawned>>
planVars == <<intent, promised>>
noticeVars == <<voices, heard, closed>>
agentVars == <<owner, up, purge>>
vars == <<lock, failing, intent, flow, chan, owner, up, purge, voices, heard,
          outcome, accepted, spawned, promised, closed>>

Lock == [req : Requests, phase : {"spawning", "awaiting_connect"},
         waiter : Chans \cup {None}, result : {"matched", "legacy_absent", None}]
Intent == [req : Requests, kind : Kinds, phase : {"announced", "disconnected"},
           targets : SUBSET Peers]
Flow == [kind : Kinds, stage : {"asked", "acquired", "refused", "begun", "sent", "done"}]
Channel == [tid : Tids, phase : {"asking", "waiting", "answered", "active", "ending", "speaking"},
            result : Results \cup {None}]
Voice == [by : Chans \cup Servers, kind : {"reconnecting", "closing"},
          req : Requests, to : Peers]

\* None is no lock, intent, command, channel, failure or ending.
ASSUME NoneAssumption ==
    /\ None \notin Lock /\ None \notin Intent /\ None \notin Flow /\ None \notin Channel
    /\ None \notin [req : Requests, reason : Reasons]
    /\ None \notin {"completed", "failed", "cancelled", "deleted"}

Init ==
    /\ lock = None /\ failing = None /\ intent = None
    /\ flow = [r \in Requests |-> None]
    /\ chan = [c \in Chans |-> None]
    /\ owner = None /\ up = FALSE /\ purge = "no"
    /\ voices = {} /\ heard = [p \in Peers |-> None]
    /\ outcome = [r \in Requests |-> None]
    /\ accepted = [r \in Requests |-> {}]
    /\ spawned = {} /\ promised = {} /\ closed = {}

-----------------------------------------------------------------------------
Silent(w) == \A v \in voices : v.by # w

\* SessionResets and PlannedDisconnects can take their next message.
ResetsFree == failing = None /\ Silent("resets")
PlannedFree == Silent("planned")

\* Process w starts to tell the peers in S about request r.
Speak(w, kind, r, S) == voices' = voices \cup [by : {w}, kind : {kind}, req : {r}, to : S]

\* The channels after c is answered with result.
Answer(c, result) == [chan EXCEPT ![c] = [@ EXCEPT !.phase = "answered", !.result = result]]

\* Process.alive? of the process that waits on the lock.
WaiterAlive == lock.waiter # None /\ chan[lock.waiter] # None

\* Mutant: the waiter is dropped with the lock.
MutantReplyEarly(result) == chan

\* reply_early/2: whoever waits on the lock is answered.
ReplyEarly(result) == IF WaiterAlive THEN Answer(lock.waiter, result) ELSE chan

\* commit_connection/3 and the removal of the lock: channel c completed it.
Commit(c) ==
    /\ lock' = None
    /\ outcome' = [outcome EXCEPT ![lock.req] = "completed"]
    /\ accepted' = [accepted EXCEPT ![lock.req] = @ \cup {c}]

\* Mutant: a failure is reported and the lock stays.
MutantDrop(how) ==
    /\ outcome' = [outcome EXCEPT ![lock.req] = how]
    /\ UNCHANGED <<lock, accepted>>

\* The lock is removed without a completion.
Drop(how) ==
    /\ lock' = None
    /\ outcome' = [outcome EXCEPT ![lock.req] = how]
    /\ UNCHANGED accepted

-----------------------------------------------------------------------------
(* Lifecycle commands.  The agent is found live, then the reset lock is    *)
(* taken, then the intent; each is a call of its own.  resume_session asks *)
(* for the lock to be free first (guard_instruction).                      *)

Ask(r, kind) ==
    /\ flow[r] = None /\ up
    /\ kind = "switch" => lock = None /\ ResetsFree
    /\ \A q \in Requests : q < r => flow[q] # None
    /\ flow' = [flow EXCEPT ![r] = [kind |-> kind, stage |-> "asked"]]
    /\ UNCHANGED <<resetVars, planVars, chan, agentVars, noticeVars>>

At(r, kinds, stage) == flow[r] # None /\ flow[r].kind \in kinds /\ flow[r].stage = stage

\* check_and_acquire: a second reset is refused while the lock is held.
Acquire(r) ==
    /\ At(r, {"reset"}, "asked") /\ ResetsFree
    /\ flow' = [flow EXCEPT ![r].stage = IF lock = None THEN "acquired" ELSE "done"]
    /\ lock' = IF lock = None
               THEN [req |-> r, phase |-> "spawning", waiter |-> None, result |-> None]
               ELSE lock
    /\ UNCHANGED <<failing, outcome, accepted, spawned, planVars, chan, agentVars, noticeVars>>

\* PlannedDisconnects.begin: one intent per agent.
Begin(r) ==
    /\ At(r, {"reset"}, "acquired") \/ At(r, {"switch", "restart"}, "asked")
    /\ PlannedFree
    /\ flow' = [flow EXCEPT ![r].stage = CASE intent = None -> "begun"
                                           [] flow[r].kind = "reset" -> "refused"
                                           [] OTHER -> "done"]
    /\ intent' = IF intent = None
                 THEN [req |-> r, kind |-> flow[r].kind, phase |-> "announced", targets |-> {}]
                 ELSE intent
    /\ UNCHANGED <<resetVars, promised, chan, agentVars, noticeVars>>

\* begin_planned_reset's refusal: the lock is released again.
Cancel(r) ==
    /\ At(r, {"reset"}, "refused") /\ ResetsFree
    /\ flow' = [flow EXCEPT ![r].stage = "done"]
    /\ IF lock # None /\ lock.req = r
       THEN Drop("cancelled") /\ chan' = ReplyEarly("noop")
       ELSE UNCHANGED <<lock, outcome, accepted, chan>>
    /\ UNCHANGED <<failing, spawned, planVars, agentVars, noticeVars>>

\* The command is relayed to the runner.
Relay(r) ==
    /\ At(r, Kinds, "begun")
    /\ flow' = [flow EXCEPT ![r].stage = "sent"]
    /\ UNCHANGED <<resetVars, planVars, chan, agentVars, noticeVars>>

\* Mutant: an intent whose wrapper never disconnected is cleared silently.
MutantConsume(w) ==
    /\ intent' = None
    /\ Speak(w, "closing", intent.req, IF intent.phase = "announced" THEN {} ELSE intent.targets)

\* The intent is consumed by process w, which closes it for
\* every target (close_for_authoritative_state, deliver_reconnected,
\* deliver_disconnected).
Consume(w) ==
    /\ intent' = None
    /\ Speak(w, "closing", intent.req, intent.targets)

\* abort_setup: begin_planned_switch fails before the command is relayed.
Abort(r) ==
    /\ At(r, {"switch"}, "begun") /\ PlannedFree
    /\ flow' = [flow EXCEPT ![r].stage = "done"]
    /\ IF intent # None /\ intent.req = r THEN Consume("operator") ELSE UNCHANGED <<intent, voices>>
    /\ UNCHANGED <<resetVars, promised, chan, agentVars, heard, closed>>

\* Operator stop: PeerConnectivity.stop cancels whatever intent there is.
Stop ==
    /\ PlannedFree /\ intent # None
    /\ Consume("operator")
    /\ UNCHANGED <<resetVars, promised, flow, chan, agentVars, heard, closed>>

\* The runner's session_reset_result: SessionResets.resolve.
Resolve(r, ok, reason) ==
    /\ At(r, {"reset"}, "sent") /\ ResetsFree
    /\ flow' = [flow EXCEPT ![r].stage = "done"]
    /\ spawned' = IF ok THEN spawned \cup {r} ELSE spawned
    /\ IF lock = None \/ lock.req # r
       THEN UNCHANGED <<lock, failing, outcome, accepted, chan>>
       ELSE \/ /\ ok /\ WaiterAlive
               /\ Commit(lock.waiter)
               /\ chan' = ReplyEarly(lock.result)
               /\ UNCHANGED failing
            \/ /\ ok /\ ~WaiterAlive
               /\ lock' = [lock EXCEPT !.phase = "awaiting_connect", !.waiter = None, !.result = None]
               /\ UNCHANGED <<failing, outcome, accepted, chan>>
            \/ /\ ~ok
               /\ Drop("failed")
               /\ failing' = [req |-> r, reason |-> reason]
               /\ chan' = ReplyEarly("noop")
    /\ UNCHANGED <<planVars, agentVars, noticeVars>>

\* The timer set at acquire and never restarted.
ResetTimeout ==
    /\ lock # None /\ ResetsFree
    /\ Drop("failed")
    /\ failing' = [req |-> lock.req, reason |-> "timeout"]
    /\ chan' = ReplyEarly("noop")
    /\ UNCHANGED <<spawned, planVars, flow, agentVars, noticeVars>>

\* PlannedDisconnects.fail: spawn_failed of a reset leaves the intent to the
\* rollback wrapper's join.
FailIntent(w, r, reason) ==
    IF /\ intent # None /\ intent.req = r
       /\ ~(intent.kind = "reset" /\ reason = "spawn_failed")
    THEN Consume(w)
    ELSE UNCHANGED <<intent, voices>>

\* SessionResets' failure callback, run inside its own process.
NotifyFailure ==
    /\ failing # None /\ PlannedFree
    /\ FailIntent("resets", failing.req, failing.reason)
    /\ failing' = None
    /\ UNCHANGED <<lock, outcome, accepted, spawned, promised, flow, chan, agentVars, heard, closed>>

\* The runner's failed spawn_result for a switch or restart.
SpawnFailed(r) ==
    /\ At(r, {"switch", "restart"}, "sent") /\ PlannedFree /\ Silent("runner")
    /\ flow' = [flow EXCEPT ![r].stage = "done"]
    /\ FailIntent("runner", r, "spawn_failed")
    /\ UNCHANGED <<resetVars, promised, chan, agentVars, heard, closed>>

\* Mutant: only a disconnected intent runs out.
MutantIntentTimeout ==
    /\ intent # None /\ intent.phase = "disconnected" /\ PlannedFree
    /\ Consume("planned")
    /\ UNCHANGED <<resetVars, promised, flow, chan, agentVars, heard, closed>>

\* The intent's own timer; the process is busy until the notices are out.
IntentTimeout ==
    /\ intent # None /\ PlannedFree
    /\ Consume("planned")
    /\ UNCHANGED <<resetVars, promised, flow, chan, agentVars, heard, closed>>

\* Mutant: a bounce is recorded without regard to the capacity.
MutantBounce(p) ==
    /\ intent # None /\ PlannedFree
    /\ intent' = [intent EXCEPT !.targets = @ \cup {p}]
    /\ promised' = promised \cup {<<intent.req, p>>}
    /\ UNCHANGED <<resetVars, flow, chan, agentVars, noticeVars>>

\* track_bounce from preflight_inter_agent: peer p is told to wait only if
\* it could be recorded.
Bounce(p) ==
    /\ intent # None /\ PlannedFree
    /\ p \in intent.targets \/ Cardinality(intent.targets) < MaxTargets
    /\ intent' = [intent EXCEPT !.targets = @ \cup {p}]
    /\ promised' = promised \cup {<<intent.req, p>>}
    /\ UNCHANGED <<resetVars, flow, chan, agentVars, noticeVars>>

-----------------------------------------------------------------------------
(* Wrapper channels.                                                       *)

\* A channel identifier stands for a process and is not taken again while
\* the lock still names it.
Join(c, tid) ==
    /\ chan[c] = None /\ owner = None /\ purge = "no"
    /\ lock # None => lock.waiter # c
    /\ tid # Absent => At(tid, Kinds, "sent") \/ At(tid, Kinds, "done")
    /\ chan' = [chan EXCEPT ![c] = [tid |-> tid, phase |-> "asking", result |-> None]]
    /\ UNCHANGED <<resetVars, planVars, flow, agentVars, noticeVars>>

\* Mutant: the join completes the reset before the runner has answered.
MutantStash(c, result) == Commit(c)

\* The join waits on a lock whose runner has not answered yet.
Stash(c, result) ==
    /\ lock' = [lock EXCEPT !.waiter = c, !.result = result]
    /\ UNCHANGED <<outcome, accepted>>

\* SessionResets.confirm_connection from after_join_handshake.
Confirm(c) ==
    /\ chan[c] # None /\ chan[c].phase = "asking" /\ ResetsFree
    /\ LET exact == lock # None /\ chan[c].tid = lock.req
           legacy == lock # None /\ chan[c].tid = Absent
           result == IF exact THEN "matched" ELSE "legacy_absent"
           supersedes == exact /\ WaiterAlive /\ lock.result = "legacy_absent"
           waiting == [chan EXCEPT ![c].phase = "waiting"]
       IN  \/ /\ exact \/ legacy
              /\ lock.phase = "spawning" /\ ~WaiterAlive
              /\ Stash(c, result) /\ chan' = waiting
           \/ /\ lock # None /\ lock.phase = "spawning" /\ supersedes
              /\ Stash(c, result)
              /\ chan' = [waiting EXCEPT ![lock.waiter] =
                             [@ EXCEPT !.phase = "answered", !.result = "duplicate_waiter"]]
           \/ /\ exact \/ legacy
              /\ lock.phase = "spawning" /\ WaiterAlive /\ ~supersedes
              /\ chan' = Answer(c, "duplicate_waiter")
              /\ UNCHANGED <<lock, outcome, accepted>>
           \/ /\ exact \/ legacy
              /\ lock.phase = "awaiting_connect"
              /\ Commit(c) /\ chan' = Answer(c, result)
           \/ /\ ~exact /\ ~legacy
              /\ chan' = Answer(c, IF lock = None THEN "noop" ELSE "mismatch")
              /\ UNCHANGED <<lock, outcome, accepted>>
    /\ UNCHANGED <<failing, spawned, planVars, flow, agentVars, noticeVars>>

\* The rest of after_join_handshake: a refused join stops; any other closes
\* the intent it carries the transition_id of.
Handshake(c) ==
    /\ chan[c] # None /\ chan[c].phase = "answered" /\ PlannedFree
    /\ IF chan[c].result \in {"duplicate_waiter", "deleted"}
       THEN chan' = [chan EXCEPT ![c] = None] /\ UNCHANGED <<intent, voices>>
       ELSE /\ chan' = [chan EXCEPT ![c].phase = "active"]
            /\ IF intent # None /\ intent.req = chan[c].tid
               THEN Consume(c)
               ELSE UNCHANGED <<intent, voices>>
    /\ UNCHANGED <<resetVars, promised, flow, agentVars, heard, closed>>

\* The wrapper's envelope makes its channel the owner.
Announce(c) ==
    /\ chan[c] # None /\ chan[c].phase = "active" /\ Silent(c)
    /\ owner # c \/ ~up
    /\ owner' = c /\ up' = TRUE
    /\ UNCHANGED <<resetVars, planVars, flow, chan, purge, noticeVars>>

\* The channel ends.  AgentStates.disconnect of terminate/2 adopts only the
\* owner's; any other channel is simply gone.
Close(c) ==
    /\ chan[c] # None /\ chan[c].phase \in {"asking", "answered", "active"} /\ Silent(c)
    /\ chan' = [chan EXCEPT ![c] = IF owner = c THEN [@ EXCEPT !.phase = "ending"] ELSE None]
    /\ up' = (up /\ owner # c)
    /\ UNCHANGED <<resetVars, planVars, flow, owner, purge, noticeVars>>

\* A process that waits for its answer is killed; the lock keeps naming it
\* until the monitor fires.
Die(c) ==
    /\ chan[c] # None /\ chan[c].phase = "waiting"
    /\ chan' = [chan EXCEPT ![c] = None]
    /\ UNCHANGED <<resetVars, planVars, flow, agentVars, noticeVars>>

WaiterDown ==
    /\ lock # None /\ lock.waiter # None /\ ~WaiterAlive /\ ResetsFree
    /\ lock' = [lock EXCEPT !.waiter = None, !.result = None]
    /\ UNCHANGED <<failing, outcome, accepted, spawned, planVars, flow, chan, agentVars, noticeVars>>

\* PeerConnectivity.disconnect of terminate/2: the first disconnect of an
\* announced intent takes in the peers of open conversations, as many as
\* fit, and tells those to wait that no bounce has told already.
Disconnect(c) ==
    /\ chan[c] # None /\ chan[c].phase = "ending" /\ PlannedFree
    /\ chan' = [chan EXCEPT ![c].phase = "speaking"]
    /\ IF intent # None /\ intent.phase = "announced"
       THEN \E S \in SUBSET (Peers \ intent.targets) :
               /\ S # {} => Cardinality(intent.targets \cup S) <= MaxTargets
               /\ intent' = [intent EXCEPT !.phase = "disconnected", !.targets = @ \cup S]
               /\ promised' = promised \cup ({intent.req} \X S)
               /\ Speak(c, "reconnecting", intent.req, S)
       ELSE UNCHANGED <<intent, promised, voices>>
    /\ UNCHANGED <<resetVars, flow, agentVars, heard, closed>>

\* terminate/2 returns and the process is gone.
End(c) ==
    /\ chan[c] # None /\ chan[c].phase = "speaking" /\ Silent(c)
    /\ chan' = [chan EXCEPT ![c] = None]
    /\ owner' = IF owner = c THEN None ELSE owner
    /\ UNCHANGED <<resetVars, planVars, flow, up, purge, noticeVars>>

\* SynthEnvelope.deliver of one notice.
Deliver(v) ==
    /\ voices' = voices \ {v}
    /\ heard' = [heard EXCEPT ![v.to] = [req |-> v.req, kind |-> v.kind]]
    /\ closed' = IF v.kind = "closing" THEN closed \cup {<<v.req, v.to>>} ELSE closed
    /\ UNCHANGED <<resetVars, planVars, flow, chan, agentVars>>

\* purge_agent_records: AgentStates, then the lock, then the intent.
Purge ==
    /\ purge = "no" /\ ~up
    /\ purge' = "live" /\ owner' = None
    /\ UNCHANGED <<resetVars, planVars, flow, chan, up, noticeVars>>

DeleteLock ==
    /\ purge = "live" /\ ResetsFree
    /\ purge' = "lock"
    /\ IF lock = None THEN UNCHANGED <<lock, outcome, accepted, chan>>
       ELSE Drop("deleted") /\ chan' = ReplyEarly("deleted")
    /\ UNCHANGED <<failing, spawned, planVars, flow, owner, up, noticeVars>>

DeleteIntent ==
    /\ purge = "lock" /\ PlannedFree
    /\ purge' = "done"
    /\ IF intent = None THEN UNCHANGED <<intent, voices>> ELSE Consume("operator")
    /\ UNCHANGED <<resetVars, promised, flow, chan, owner, up, heard, closed>>

-----------------------------------------------------------------------------
Next ==
    \/ \E r \in Requests, kind \in AskedKinds : Ask(r, kind)
    \/ \E r \in Requests : \/ Acquire(r)
                           \/ Begin(r)
                           \/ Cancel(r)
                           \/ Relay(r)
                           \/ Abort(r)
                           \/ SpawnFailed(r)
    \/ \E r \in Requests, ok \in BOOLEAN, reason \in Reasons : Resolve(r, ok, reason)
    \/ Stop
    \/ ResetTimeout
    \/ NotifyFailure
    \/ IntentTimeout
    \/ WaiterDown
    \/ \E p \in Peers : Bounce(p)
    \/ \E c \in Chans, tid \in Tids : Join(c, tid)
    \/ \E c \in Chans : \/ Confirm(c)
                        \/ Handshake(c)
                        \/ Announce(c)
                        \/ Close(c)
                        \/ Die(c)
                        \/ Disconnect(c)
                        \/ End(c)
    \/ \E v \in voices : Deliver(v)
    \/ Purge
    \/ DeleteLock
    \/ DeleteIntent

Spec == Init /\ [][Next]_vars

\* Timers run out, a process goes on with the notices it has begun, and the
\* failure callback is called.
Fairness ==
    /\ WF_vars(ResetTimeout) /\ WF_vars(IntentTimeout) /\ WF_vars(NotifyFailure)
    /\ WF_vars(\E v \in voices : Deliver(v))

FairSpec == Spec /\ Fairness

-----------------------------------------------------------------------------
(* Properties.                                                             *)

\* The shape of every variable; an intent never holds more pairs than the cap,
\* whether they came from bounces or from the disconnect's snapshot.
TypeOK ==
    /\ intent # None => Cardinality(intent.targets) <= MaxTargets
    /\ lock \in Lock \cup {None}
    /\ failing \in [req : Requests, reason : Reasons] \cup {None}
    /\ intent \in Intent \cup {None}
    /\ flow \in [Requests -> Flow \cup {None}]
    /\ chan \in [Chans -> Channel \cup {None}]
    /\ owner \in Chans \cup {None} /\ up \in BOOLEAN
    /\ purge \in {"no", "live", "lock", "done"}
    /\ voices \subseteq Voice
    /\ heard \in [Peers -> [req : Requests, kind : {"reconnecting", "closing"}] \cup {None}]
    /\ outcome \in [Requests -> {"completed", "failed", "cancelled", "deleted", None}]
    /\ accepted \in [Requests -> SUBSET Chans]
    /\ spawned \subseteq Requests
    /\ promised \subseteq Requests \X Peers /\ closed \subseteq Requests \X Peers

\* A channel blocked in confirm_connection is the one the lock names, so
\* whatever ends the lock answers it: supersession by the exact request, the
\* runner's answer, the timer, a cancel and a purge forget no caller.
NoWaiterStranded ==
    \A c \in Chans : chan[c] # None /\ chan[c].phase = "waiting" =>
        lock # None /\ lock.waiter = c

\* A reset is completed only if the runner reported the fresh wrapper and
\* exactly one channel was told that it is that wrapper, in whichever order
\* the report and the join arrive.
CompletedByBoth ==
    \A r \in Requests :
        IF outcome[r] = "completed" THEN r \in spawned /\ Cardinality(accepted[r]) = 1
        ELSE accepted[r] = {}

\* A reset ends once: a late runner result, timer, cancel or purge never
\* changes or repeats how it ended.
ConcludedOnce ==
    [][\A r \in Requests : outcome[r] # None =>
            outcome'[r] = outcome[r] /\ (lock' = None \/ lock'.req # r)]_vars

\* A peer that was told to wait is still known to the intent, or is about to
\* be or has been told the end: however the intent ends, and whatever joins,
\* fails, stops or times out meanwhile, no admitted peer is dropped.
PromiseHeld ==
    \A r \in Requests, p \in Peers : <<r, p>> \in promised =>
        \/ <<r, p>> \in closed
        \/ intent # None /\ intent.req = r /\ p \in intent.targets
        \/ \E v \in voices : v.req = r /\ v.to = p /\ v.kind = "closing"

\* Every peer told to wait is eventually told the end of the wait, and every
\* join that waits on the lock is eventually answered.
PromisesClosed ==
    /\ \A r \in Requests, p \in Peers : <<r, p>> \in promised ~> <<r, p>> \in closed
    /\ \A c \in Chans : (chan[c] # None /\ chan[c].phase = "waiting")
                           ~> (chan[c] = None \/ chan[c].phase # "waiting")

\* The close notice is the later one: once the intent is closed and every
\* notice is delivered, "reconnecting" is not the last a peer has heard.
CloseNoticeLast ==
    \A p \in Peers : heard[p] # None /\ heard[p].kind = "reconnecting" =>
        \/ intent # None /\ intent.req = heard[p].req
        \/ \E v \in voices : v.to = p /\ v.req = heard[p].req
=============================================================================
