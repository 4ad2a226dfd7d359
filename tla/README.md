# A TLA+ model of kaoiro

kaoiro runs, watches and orchestrates command-line AI agents. Each agent has a
*wrapper* (TypeScript) that drives its engine and keeps one channel open to the
*server* (Elixir/Phoenix); a *runner* on each host starts and stops wrappers; the
*dashboard* shows agents to the operator. Agents send messages to each other through
the server.

This directory models the five parts of the system in which several processes must agree,
or one must agree with what it was before it was killed: the delivery of inter-agent
messages; the conversation two agents hold through them; the planned replacement of an
agent's wrapper as the server and its peers see it; the runner's supervision of the
wrapper processes; and the journalled update and rollback of the server.

## Inventory

| Component | State | Operations | What makes it correct |
|---|---|---|---|
| `DeliveryStates` (server) | per recipient: generation, incarnation, binding token, outstanding / resolved / skipped numbers, acknowledged position; losses; reservations; binding owners | `bind`, `bind_resync`, `reserve`, `reserve_early`, `issue_reserved`, `issue_synthetic`, `acknowledge`, `resync`, `retire_owned_generation`, `report_stage`, `complete_loss`, `delete` | every message it took is accounted for or reported lost once; limits hold; one channel has authority |
| `DeliveryLossDispatcher` | the loss it is working on | flush: deliver, complete | a loss leaves only when its notice, at the newest revision, is in the ledger |
| `DeliveryRecovery`, `DeliveryAcknowledger` (wrapper) | held messages, gap, pending request, timer, quarantine; completed numbers, position acknowledged | receive, observe, confirm, retire, join, disconnected, request; complete, bind, observe | a message is dispatched at most once and never after it was given up; a gap is always resolved |
| `WrapperChannel` | what its socket knows of its binding | join, after_join, send, ack, resync, terminate | one connected channel for each agent |
| `SessionResets` | one lock per agent with a waiting join | acquire, resolve, confirm, cancel, delete, timeout, DOWN | a reset ends once; a waiting join is answered |
| `PlannedDisconnects`, `PeerConnectivity` | one intent per agent with its promised peers | begin, track_bounce, disconnect, confirm, fail, cancel, timeout, delete | each promised peer hears the end, after it was told to wait |
| `AgentsChannel` | none of its own | lifecycle commands, purge | the calls it makes one by one are undone when a later one is refused |
| `AgentStates` | owner and display state of each agent | put, disconnect, delete, connected? | ownership follows the connected channel |
| `ConversationStates` (server) | per conversation: status, turns, newest number, newest ordinary number of each agent, who is done | record, close by operator, GC | one order of the accepted messages; the end is the same for all |
| `InterAgentTool`, `ReplyBasisState` (wrapper) | a track for each conversation (counter, local and remote done, closed), the done gate, pending injections, what the agent has read | invoke, receiveInbound, resolveTurnEnd; begin, retire | the end it believes is the server's; a rejected send leaves no trace; no accepted message is dropped in silence |
| Server deploy CLI | journal, manifest and archives of each transaction; the lock; the tag `latest` | update (prepare, gate, commit, prune), resume, rollback, start, build | an image never runs on data it cannot read; no write is lost; an open transaction can be closed |
| Work store and reducer | event log, board | append, reduce | the board is a function of the log |
| Permission settings | revisions, ceilings | set, acknowledge | the wrapper never runs above the ceiling |
| Ingress order, session starts, watermarks | order marks per session | allocate, clear | order survives restarts |
| Runner `Supervisor` | one entry per agent (process, launch settings, crash budget, pending reset), locked sessions, session look-ups in progress | spawn, stop, restart, switch, reset, exit, reset timer, shutdown | one wrapper for each agent; a session is locked exactly while an entry has it; each request is answered once and truthfully |
| `RecoveryReporter` (wrapper) | the recovery checkpoint | constructor, observe, confirm, accept, refuseLaunch, block | a crashed wrapper comes back in the session it was live in |
| Others | see `components` in PROJECT.json | | |

The hard behaviours: every server component is a process that answers one call at a
time, and a channel makes several calls in a row, so anything may happen between two of
them; the wrapper's link breaks at any moment and loses what is in flight; wrapper and
ledger restart; the ledger writes several durable records for one call; timers race the
answers they guard; notices are delivered by whichever process ended the wait; a wrapper numbers
a message, and believes a done, before the server has accepted it; the deploy CLI may be
killed between any two of its steps. The list
of hazards, each at its line, is in PROJECT.json.

## Modules

| Module | Models |
|---|---|
| `DeliveryEntry` | one recipient's ledger record and the functions on it: issue, acknowledge, retire, bind, stage report, the losses a retirement creates |
| `DeliveryLedger` | the ledger process, the channels that call it and the loss dispatcher, with crashes between writes |
| `DeliveryProtocol` | sender channels, ledger, recipient channel, link and the wrapper's recovery and acknowledgement, for one recipient |
| `MessageFate` | abstract: what happens to a message |
| `SessionTransition` | reset lock, planned intent, notices and wrapper channels of one agent |
| `RunnerSupervisor` | the runner's supervisor, the wrapper processes with their recovery checkpoints, the lock on sessions |
| `Conversation` | one conversation of two agents: the server's entry, both wrappers' tracks and reply basis, and the messages in between |
| `ServerDeploy` | the deploy CLI's transactions, with the container, the volume and the tag they act on |
| `Deployment` | abstract: the life of a deploy transaction, and what it does to the image and the data |
| `DeliveryEntryProofs` | lemmas about the functions on entries |
| `DeliveryLedgerProofs`, `DeliveryGuaranteeProofs` | theorems about `DeliveryLedger`: types and entries; what it promises |
| `DeliveryProtocolProofs` | theorems about `DeliveryProtocol`: types; it implements `MessageFate`; no message is stuck |
| `SessionTransitionProofs`, `RunnerSupervisorProofs`, `ServerDeployProofs`, `ConversationProofs` | theorems about the module of that name; for the deploy CLI, that it implements `Deployment` |
| `MC*` | constants and symmetries for TLC |

`DeliveryLedger` and `DeliveryProtocol` both extend `DeliveryEntry`: the first puts
ledger functions under crashes, overlapping channels, quotas and purges; the second puts
the same functions behind a network and the wrapper.

### DeliveryLedger

`entries` and `losses` are the DETS table, which equals the process's copy whenever a
call can be answered. A handler that retires messages writes the loss records first and
the entry last: `job` is a handler in progress, `WriteIntent` and `CommitEntry` its
writes, and `LedgerCrash` may come between any two; it loses `owners` and
`reservations` and, as `init/1` does, drops losses whose entry was not written.
A channel is `checked` (passed `reject_if_connected`), `bound`, `joined` (past the
denylist re-check of `after_join`), or `closing`. `Purge` and `Delete` are apart because
`purge_agent_records` reaches the ledger after ten other stores.

Abstractions: a message is its recipient, number, incarnation and reply metadata; the
dispatcher takes one loss at a time (the code takes a snapshot of at most 100; as only
the dispatcher removes losses the two agree); `settled` is a history variable that
includes notices to recipients without recovery, which nobody tracks further.
A crash wipes the reservations but not the channels: `IssueForgotten` is the sender
whose `issue_reserved` then answers with no clause to match, and whose channel crashes.

### DeliveryProtocol

One recipient. Each message has a sender's channel to itself, whose `Preflight`, `Issue`, `Push`,
`ReadStatus` and `SendStatus` are separate steps, so two messages reorder; a channel that
sends two is the case in which the second is taken up after the first is done.
The wrapper's state is the fields of `DeliveryRecovery` and of
`DeliveryAcknowledgement`; each TypeScript callback runs to its end, so it is one
step. `Break` loses what is in flight, `ReplyTimeout` and `SlowReply` are the two ends of
a resync whose answer is late, and `Die` restarts the wrapper.

Assumptions: subscription and join reply are one step; a break is seen by both ends at
once; the call of `HandleAck` and `HandleResync` and their own status broadcast are one
step (stale statuses come from `ReadStatus`/`SendStatus`); one incarnation for each
generation; stage reports, ledger crashes, older handshakes and purge are left to
`DeliveryLedger`. `#quarantined` is written and never read, so it is not kept.

### SessionTransition

One agent, since locks and intents of different agents are independent. The steps of a
lifecycle command are separate calls (`Ask`, `Acquire`, `Begin`, `Cancel`, `Relay`).
A join asks `SessionResets` (`Confirm`), may wait there, and goes on (`Handshake`).
`voices` are the notices still to be delivered, by process: `SessionResets`
delivers those of a failure and `PlannedDisconnects` those of its timer inside their own
loop, and answer no call meanwhile; an ending channel delivers its own from `terminate/2`.

Abstractions: times (cooldown, ready state) become nondeterminism; `reconnected` and
`disconnected` both are "closing"; notices of unplanned disconnects are left out, and so
are a channel that owns the agent and is killed without `terminate/2`, the session
stores that `commit_connection` writes, and crashes of the two servers (in memory; the
docs accept that their intents disappear). The runner is external: at most one result for
each command, and wrappers that join with any transition id of a relayed command, or
none. Channel names are processes and are not reused while the lock names them.

### RunnerSupervisor

`children`, `activeSessions`, `pendingSpawns` and `pendingSwitches` are the supervisor's
maps; an entry's `kind`, `locked`, `reset` and `timer` are `recoveryKind`,
`lockedSession`, `pendingReset` and the reset's termination timer (`term`: SIGTERM was
sent, `kill`: SIGKILL was). `procs` are the wrapper processes, each with its checkpoint;
a process is not alive before its exit event is handled. The runner is one event loop, so
a handler is one action; a look-up of a session (`SpawnResume` and `SpawnChecked`,
`SwitchSession` and `SwitchChecked`) is two, and anything may come in between. An engine whose
look-up is synchronous is the case where the second follows the first at once.

A process may end, ignore a signal, take a new session or block its recovery at any time;
signals therefore carry no state. `launchable`, a failing launch, a permission ceiling
that is too narrow and the passing of the crash window are nondeterministic. `blocked`
stands for every checkpoint no recovery goes on from (blocked, unreadable, exit code 79);
as exit 79 leaves an older record on disk, `Restart` may also accept such a process.

The server is the environment. It sends one planned command of an agent at a time
(`PlannedDisconnects.active?`, `SessionResets`), and its timer of 60 s is longer than the two
grace periods of 5 s a reset takes; a stop ends the server's intent at once, so a restart may follow a
stop while a reset is still pending. `previous_session_id` is the session the wrapper last
reported. A command for an agent without entry changes nothing and is no action.
Session enumeration and the hot reload of the configuration are left out.

### Conversation

`conv` is the entry of `ConversationStates`: `Record` is one envelope in the sender's
channel, from preflight over the decision (`Rejection`, `Evaluated`) to the push. `track`
is the wrapper's `ConversationTrack`; `sending` is an `invoke` that holds the
conversation's lock, with the snapshots it took (`flipped`: `localDoneSnapshot` and the
done gate; `blank`: `wasBlank`; `raced`: `mutationGen` has moved on since; `ended`: the turn
it belongs to is over). An `invoke` is three steps because it awaits twice: the number is
taken (`Invoke`), the envelope leaves or is refused by the reply basis (`Dispatch`,
`RejectHere`), the answer is there (`Resolve`) or never comes (`GiveUp`). In between the
wrapper receives. `handed` is what was given to the engine and not yet read, `basis`
what was read: an ordinary send carries the latter, and the server compares it with the
peer's newest ordinary message.

Abstractions: two participants and the turn limit alone (the token and agent limits
close in the same way); the collector and the operator are one action; the sender's own
notice of a hard limit may come after its ack; an agent's host reads all that was
handed over at the start of a turn; a message is its kind, number and done flag. Left out: synchronous
waits, tickets of folded messages, the legacy wire mode, eviction of tracks and
expiry of tombstones (both 24 hours), and `unreachable` marks, which only choose who is notified.
The push reaches the peer reliably and in order: losing one is the
delivery ledger's affair, and its notice of the loss ends up outside the numbering.

*Where the two ends may disagree.* `doubt` records the events for which the code has no
remedy (`Doubts`), and each property excepts some of them:

| Event | `EndIsReal` | `DropReported` | `SomeoneCanSpeak` |
|---|---|---|---|
| `unknown`: an answer was given up | excepted | excepted | excepted |
| `restart`: of the tracker or of a wrapper | | excepted | excepted |
| `notice`: the server turned a notice down | | excepted | excepted |
| `untold`: the report of a drop was itself dropped as stale | | excepted | |
| `crossed`: a notice was dropped whose number is that of a send under way | | excepted | excepted |

With one exception the exceptions are needed: TLC refutes `DropReported` and `SomeoneCanSpeak` on the
instance of the run when any one of theirs is left out. Only `crossed` does not break `DropReported` there;
it is excepted because the invariant of its proof does not hold after it.

After `crossed` an open conversation may wedge, and the comment at `inter_agent.ts:1461-1468`
says it does not: a notice "RESYNCS the sender's track [...] so the sender's NEXT send lands past
whatever number desynced it in the first place". That holds only if its recipient takes the notice in.
Agent a has sent 2, which b drops as stale, because b is about to send 2 as well; b reports the drop
with number 3, which the server records, while a is sending its own 3. The report is stale for a, is dropped
without a further notice and does not advance `mutationGen` (the exemption at 1469 comes before
the bump at 1489). The server rejects a's 3 as `stale_turn`; since nothing seems to have come in
meanwhile, a takes its number back to 2, and each further send of a is a 3 again, rejected and
taken back. If b's own send failed as well (its reply basis lacks the message it dropped), b's next
one fails for the same reason, and nobody can go on. No fault is needed. TLC finds such a
behaviour (22 states, also with `MaxFaults = 0`) when `crossed` is not excepted.
`docs/reference/inter-agent/conversations.md:217-223` accepts that the number of a notice is not tied to
the server's acceptance, but not that its recipient is left behind. So `SomeoneCanSpeak`
says where the comment is right: whatever else crosses, is dropped or is rejected, reports of drops
that are dropped themselves included, the conversation goes on.

### ServerDeploy

`txs` are the transaction directories, with the journal's phase and the two archives;
`cli` is the command that holds the lock and the step it is at. Each write of the journal and
each external command is a step of its own, so `Kill` and `StepFails` come between any two;
after a kill the lock directory stays until the operator removes it. The table of
recoveries (`kaoiro-deploy-recovery.mjs`) is the sets `Resumable`, `NonDestructive`,
`Destructive`: what `update --transaction` and `rollback` accept in each phase.
The volume is a set of writes with the newest image that has opened it, an image the number of the
revision it was built from; a container is named by the `compose up` that made it.

Abstractions: compose plans, environment, placement and fleet checks are a refusal that may
happen or not; files are written whole (the CLI renames); the retention period is
nondeterministic. `status`, `start --initialize`, the rollback image tags and the manual
recovery of a restore that was interrupted are left out, as in the runbook that recovery is the
operator's.

`Deployment` is the promise: one transaction at a time goes from opened over prepared to live and
done; it goes live only while its backup is all that was written; a rollback that restores puts the data
aside and then gives back the old image and the backed-up data in one step. If it stops half-way
the transaction is broken, for which there is no further step. Under the refinement a
transaction's stage is read off its journalled phase and whether a command is at work on it. The data are
those the server would see: from the wipe of the volume until the old container has started, what was put aside.

## Runs

All bounds are constants of the modules (`Max...`) and the sets of nodes. A run may stop
when its bounds are used up, and a system in which nobody sends or joins is at rest, so
deadlock is not checked; the liveness runs state what must not stop.

| Run | Shows | Instance |
|---|---|---|
| `ledger_loss` | types, `EntriesConsistent`; `NothingForgotten`: whatever the ledger took charge of is accounted for, kept as a loss, or still owed to a recipient; `LossesFinal`: a loss is never recorded for a message that was confirmed | 2 agents, 2 channels, 2 numbers, 3 incarnations and bindings, 1 crash: a message, the notice of its loss, and the loss of that notice |
| `ledger_compat` | `LedgerInv`, the whole candidate inductive invariant; `SingleAuthority`, `AuthoritySurvives`: the channel that bound last, and no other, may acknowledge and retire, also after a restart that forgot the owners | 1 agent through all handshakes over 2 channels, 2 generations, 3 bindings, with notices, stage reports, purge and a crash |
| `ledger_quota` | `EarlyQuotaHeld`, `BacklogHeld` | 3 channels, so that two senders' channels reserve concurrently; limits 1 and 2, both reached |
| `protocol_fate` | `ImplementsFate`: the protocol refines `MessageFate`; `NothingStuck`: when nothing is on the way or due, the ledger has accounted for all it has issued; `EveryMessageAccounted`: every number issued is eventually accounted for | 2 messages whose channels overlap; a failure (break, slow reply, wrapper restart) with both under way, and a second one while none is (`MaxLoad`) |
| `transition_reset` | `NoWaiterStranded`, `CompletedByBoth`, `ConcludedOnce` | 2 resets, 2 channels |
| `transition_promise` | types with the cap, `PromiseHeld`, `PromisesClosed` | 1 command of any kind, 2 channels, 2 peers, cap 1 |
| `transition_last` | a finding, see below | 1 command, 2 channels, 1 peer |
| `supervisor_safety` | `NoLockLeaks`, `OneWrapper`, `OneAnswer`, `ResetArmed`, `ResultsAreTrue`, `StopIsFinal`, `SessionSurvives` | 2 agents, 2 sessions of which one exists at the start, 3 requests, 1 crash restart, 2 processes of an agent |
| `supervisor_exclusive` | a finding, see below | the same, both sessions exist |
| `deploy_recovery` | `PairHeld`: no image runs on data it cannot read, unless a journal says that a restore was interrupted; `NothingLost`; `CommitSound`; `RollbackSound`; `ImplementsDeployment`: it refines `Deployment`; `OpenIsClosed`: an open transaction can be closed | 2 transactions, 3 revisions, 2 writes, 2 faults (kill, failing command, server stopped), one generation kept |
| `deploy_pair` | a finding, see below | the same, 1 write |
| `conversation_wrappers` | `EndIsReal`: a wrapper keeps the last message from its agent only if the server has ended the conversation; `EndIsKept`: a rejected send does not undo what came in meanwhile; `DropReported`; `SomeoneCanSpeak`: an open conversation does not wedge, except after a refused notice, a notice dropped with the number of a send under way (there the code can wedge, see *Where the two ends may disagree*), an answer given up or a restart | 4 ordinary sends, hard limit 3, 1 failing turn, 1 fault (unknown answer, refusal, restart of either side) |

Three requests are a spawn, a command that is under way and one that overtakes it (or a
second agent's); two processes of an agent are one that was replaced, whose exit event is
still to come, and its successor.
Two numbers, two channels and one fault of each kind are enough for the races
listed as hazards: each needs two messages or two processes, one of which is overtaken
once. A second request matters to a reset (an old waiter, a late result) and is in
`transition_reset`; the promises are made anew by each command, so `transition_promise`
has one command and a second channel and peer instead. In `protocol_fate` a failure may hit while any steps of two channels
are pending, and another before or after both; two failures amid the same two sends are
beyond what TLC finishes in minutes and are not covered. Two transactions are needed for one
to be completed and rolled back while the other is open. Four sends cross twice in a
conversation, and a limit of three is passed by the fourth. Each property is paired with a mutant of the code it watches over (PROJECT.json
`mutants`), which the same instance rejects; so the instance reaches the case.

### Fairness

`DeliveryProtocol` assumes weak fairness of the server's processes, of the link's
delivery, of the wrapper's timers and of the host's turns; nothing makes senders send,
links break, or wrappers restart. Phoenix processes and a Node event loop run what is in their
queue, and `#schedule` arms a timer whenever a gap stays.
`SessionTransition` assumes only that timers fire (both are armed when the state they
guard is created), that the failure callback is called and that a notice begun is
delivered. It assumes no answer of the runner and no join.
`ServerDeploy` assumes that a running command goes on (weak fairness of `CliStep`; a kill
is a fault and bounded), that the operator removes a lock no process holds, and that, while a
transaction is open, the operator keeps running its rollback (strong fairness, since
other commands hold the lock in between). Nothing makes anyone run updates. `Conversation` is
checked for safety only: nothing makes an agent speak.

## Findings

`transition_last`: `PeerConnectivity.disconnect` calls `PlannedDisconnects.disconnect`
and delivers the `reconnecting` notices after it returned. An operator's stop (or the
intent's timer, or a failed relaunch) can consume the intent in between and deliver the
close notice first. The peer's last word is then `reconnecting`, which
`docs/reference/inter-agent/errors.md` tells it to wait on, although
`planned_disconnects.ex` promises "the later close notice". Every promised peer is still
told the end (`PromiseHeld`, `PromisesClosed`); it is the order that fails.

`supervisor_exclusive`: `#completeSwitchSession` moves the lock to the new session and then
signals the old wrapper. Until that wrapper has ended, another agent may be spawned with
`--resume` on the session it is still in. ADR-0014 F4 describes the lock as what
physically prevents the simultaneous resume of one session. The shortest case: agent a resumes s1,
is switched to s2, and b resumes s1 while a's first process is still alive. A reset does not
have this gap: its lock is released only after the old process has ended.

`deploy_pair`: `readRollbackDecision` reads the journal of the transaction it is asked to roll
back and no other. Transaction 1 is done, transaction 2 is open before its stop;
`rollback --transaction 1` is accepted, wipes the volume and fails. `rollback
--transaction 2` then takes the non-destructive path, on which, says the comment at
`kaoiro-server-deploy.mjs:2704`, "nothing on the volume has changed since PREFLIGHT": it starts the
old container on an empty volume and records `rolled_back`. `RollbackSound` states the
same without the case of an interrupted restore, and holds. `OpenIsClosed` names two more
cases in which a rollback is refused for good (`Refused`), for which the runbook has manual steps.

## Proofs

TLAPS checks the following for all values of the constants, and for runs of any length.
The only assumptions are those the modules name, all of which the code's use of the
constants justifies and TLC evaluates in every run: bounds are natural numbers
(`LimitAssumption`, `SupervisorAssumption`, `DeployAssumption`), sets that stand for
processes, agents and sessions do not contain `None` and do not overlap (`NoneAssumption`,
`ValueAssumption`, `TransitionAssumption`), the generations of `DeliveryProtocol` are counted from 0
(`ProtocolAssumption`) and its `None` is no number and no request (`NothingAssumption`), peers are finite in number, and a conversation has two
participants (`AgentsAssumption`). Every theorem is of the form `Spec => []Inv` or `Spec =>
[][Step]_vars`, or for `Implements` and `DeploysAtomically` a refinement; no fairness is used.

| Module | Theorems |
|---|---|
| `DeliveryLedgerProofs` | `TypeCorrect`, `EntriesAlwaysConsistent` |
| `DeliveryGuaranteeProofs` | `LedgerSound` (`LedgerInv`), `MessagesKept` (`NothingForgotten`), `LossesAreFinal` (`LossesFinal`), `OneAuthority` (`SingleAuthority`), `AuthorityKept` (`AuthoritySurvives`), `EarlyQuotasHold` (`EarlyQuotaHeld`), `BacklogBounded` (`BacklogHeld`) |
| `DeliveryProtocolProofs` | `Typed`, `Implements` (`ImplementsFate`), `Unstuck` (`NothingStuck`) |
| `SessionTransitionProofs` | `Typed`, `NobodyStranded` (`NoWaiterStranded`), `CompletedOnlyByBoth` (`CompletedByBoth`), `EndsOnce` (`ConcludedOnce`), `PromisesHeld` (`PromiseHeld`) |
| `RunnerSupervisorProofs` | `Typed`, `NeverTwoWrappers` (`OneWrapper`), `NoLockLeaked` (`NoLockLeaks`), `ResetsAreArmed` (`ResetArmed`), `StopsAreFinal` (`StopIsFinal`), `SessionsSurvive` (`SessionSurvives`), `AnswersOnce` (`OneAnswer`), `ResultsTold` (`ResultsAreTrue`) |
| `ServerDeployProofs` | `Typed`, `AllKept` (`NothingLost`), `RunsOnReadable` (`PairHeld`), `Commits` (`CommitSound`), `RollsBack` (`RollbackSound`), `DeploysAtomically` (`ImplementsDeployment`) |
| `ConversationProofs` | `Typed`, `EndTrue` (`EndIsReal`), `EndStays` (`EndIsKept`), `DropsTold` (`DropReported`), `NoWedge` (`SomeoneCanSpeak`) |

Few of these are inductive as they stand. The arguments, each from an inductive invariant:

*The ledger.* The type of an entry does not bound the numbers an acknowledgement or a
retirement computes, and an entry is written by a handler that may have started several
steps earlier. `TypeInv` therefore joins types and consistent entries with `JobShape`: what a
handler in progress will write is already well formed. `DeliveryEntryProofs` has one lemma for each
function on entries, `DeliveryLedgerProofs` one for each action.
`LedgerInv` is what else is inductive, in three groups:
- losses: numbers are given out once (`NumbersFresh`) and those of a handler are of
  its entry (`JobNumbers`); what was confirmed or reported is not deliverable any more (`KnownDead`);
  what a handler takes out of an entry has a loss record, or is about to get one, before the entry is written
  (`LossesFiled`, `JobSound`); the dispatcher works on a record that is there (`DispatchSound`).
  That order, records first and entry last, is what makes `NothingForgotten` survive a crash between two
  writes, and dropping records whose entry was not written is what keeps `LossesFinal`;
- authority (`AuthorityInv`): binding tokens are not used twice, an entry's token is
  that of its last binder, a process the ledger knows as owner has joined, the last binder of an entry is the
  owner unless the ledger forgot it, and a handler in progress was authorised. A restart of the ledger empties
  `owners` but not the entry's token, hence `AuthoritySurvives`;
- quotas (`QuotaInv`): a reservation is held by the channel that made it, early numbers are
  outstanding ones, and for each limit the entry's numbers, the reservations and what a handler is
  about to add stay within it together. The limit on the entry alone is not inductive, since
  a reservation becomes a number in a later call.

*The protocol.* The refinement has to show that `Dispatch` handles a number that was neither dispatched nor
reported, and that the prefix moves over such numbers only. `Fit` is the condition on a wrapper from
which both follow: what is in its inbox was sent and is not settled, a request (pending, or still
in the link) names nothing that was dispatched or waits in the inbox, and, once the wrapper has joined, it
knows every settled number (`Knows`: below its prefix, received, or named by the pending request), so that
pushing that number again cannot put it into the inbox. The
steps that endanger this are a request whose answer is late, and a process that has just started and knows
nothing. For the first, a request in the link is the one the wrapper waits for or has an older
`ref` (`UpFits`, `ReplyFits`); for the second, `FirstJoin`: until the process has read its first join reply nothing
goes up, and that reply covers everything settled before. It does because `JoinBind` retires what the process
before it left, in the step that takes the snapshot (`EntryInv`: the entry owes an account of each number past its prefix that
it has not skipped).
The wrapper's methods call each other four deep; those that only observe, acknowledge and schedule are
`Steady`, a relation that composes and that `Fit` survives, and the others have a lemma each.

`NothingStuck` is the safety half of `EveryMessageAccounted`: a state from which nobody has to take a step,
with a message unaccounted for, would violate both. Its invariant, `QuietInv` over `ProtocolInv`, says what an
unaccounted number has left behind:
- `Settles`, at the wrapper: a number it knows of and has not received keeps the wrapper awake, with a timer
  or a request (`Awake`); one it has received is queued, given up or completed (`Placed`); the completed prefix
  is the acknowledged one (`Counted`); and what a live wrapper has acknowledged has reached the ledger or is in the
  link (`Delivers`). The last is why the join resends or replays an acknowledgement, and why
  `ackIssued` has to be reset with the connection;
- `NewsInv`, at the server: a wrapper that does not know how many numbers there are is about to be told, by a
  status in the link or by a sender that has yet to broadcast one. The status of `after_join` is what makes this true
  of a number issued between the join's snapshot and the subscription;
- `StatusInv`: a status may be old, but it never runs ahead of the ledger; `NumberInv`: numbers are not more than
  messages.

The wrapper's methods compose by three relations: `Asks` (what only requests and schedules leaves all
counters alone), `Onward` (what confirms, completes and pushes loses nothing that was counted) and `Later` (what
may learn of new numbers too). `CompleteAll` is a recursive function; its steps exist, and are what they should be, by
least counterexample (`CompleteAllSteps`).

The premise `MaxSeq <= CompletionLimit` is needed: an acknowledger that may keep one completion, and whose host
takes three messages in another order than that of their numbers, forgets one for good (TLC finds it). In the code both limits are
1000 (`delivery_states.ex:468`, `delivery_ack.ts:4`): the server keeps no more messages outstanding than
the acknowledger completions. Numbers given up take no slot at the server and one at the acknowledger, so what happens
when more than 1000 numbers are lost behind a message that waits is covered neither by the run nor by the theorem.

*The reset lock.* `ResetInv` adds to the two properties that a held lock belongs to a
relayed command without ending, that a lock awaiting a connection was reported spawned, and that a
waiting channel is the lock's waiter (`LockInv`), and that a command which has not asked has no ending
(`FreshInv`). Without these a join could complete a reset the runner never answered.
`PromiseHeld` is inductive given the types, since each notice leaves the intent in the step
that puts it into a process's list.

*The supervisor.* `EntryInv`: an entry's process exists and is the agent's own, its reset timer is armed
exactly while a reset is pending, a look-up for a spawn is under way only without an entry, and one for a
switch only with an entry that has no reset pending. `SupervisorInv` joins it with `OneWrapper` and
`NoLockLeaks`. The actions have five shapes (`Begins`, `Keeps`, `Exits`, `Works`, `Halts`),
so that each invariant is proved for five kinds of step and not for nineteen. `AnswerInv`:
a request whose result is outstanding is held in exactly one place (a look-up or a pending
reset, of one agent) and has had none.

*The deploy CLI.* `DeployInv` says for each step of a command which phases its journal may
show (`CliInv`), which images and containers the recorded numbers name (`BuiltInv`, `ContainerInv`),
what a command under way has done that nobody else undoes while it holds the lock (`HeldInv`), that a write is on
the volume or in a forensic archive (`SavedInv`), and which archives and volumes can be read by
which image (`ReadableInv`). `CliInv` depends on nothing else and is why a kill is harmless: the journal
shows the same phase with and without the command.

`DeploysAtomically` uses these invariants for the steps in which several things must be true at once.
`Recreate` is the abstract `Restore`: `HeldInv` says that the volume is then the archive of the
transaction, that the tag is its old image and that nothing ran since the data were put aside. A kill or a
failing command between the journal entry of the restore and that step is `Interrupt`, with the volume
untouched, empty or restored, and one after it is `Fail`; at every other place it leaves the stage alone,
because the stage is that of the journalled phase. `GoLive` needs that nobody has written since the
archive was made, for which `HeldInv` keeps the container stopped.

*The conversation.* `EndIsReal` needs `OpenInv`: while the server's entry is open, each wrapper's
`localDone`, `remoteDone` and `closed`, each done on its way and each accepted answer agree
with `doneBy`. That in turn needs that an answer belongs to the one envelope that was sent for it
(`WireInv`), that only an envelope whose answer was given up is unasked (`AskedInv`), that a track a send found
blank is still so if nothing raced it (`BlankInv`), and that nobody has done anything while the first
message is still to be recorded (`OpeningInv`).

For what dropped messages and numbers do, a second invariant, `TurnInv`, holds while the conversation
is not closed and nothing is in doubt but the report of a drop (`untold`). `Held(a)` is the number a's track keeps whatever the
answer to the send under way: one less than the newest while that newest is the send's and the send
is not accepted. It never falls: a number that is taken back was not held, because a
message that came in meanwhile, or a notice of the wrapper's own, took the track past the send's
number (`Sent`). Every notice on the wire and everything that has come down carries a
number its sender holds (`Numbered`); a held number that the peer does not hold yet, or that
is behind the server's, is on its way (`Level`). With empty queues both held numbers are
therefore equal and not behind the server's. `Based` says who may speak: no agent has read
past what the server recorded, and an agent that has not read all of it is not the one that
spoke last, so one of the two has. `Told` is the dropped message: its notice is in the
queue of the one that dropped it or in that of its sender, unless it was itself dropped. A notice that is
dropped without crossing a send carries a number its recipient holds (`NoticeDropRises`), so it changes
nothing for the counters; one that crosses is above what is held, which is why `NoWedge` excepts it. That the drop was not a silent one
uses `OpenInv` (a track that is closed while the server's entry is open is one whose done gate
is shut, and a shut gate takes nothing in). Every step but an acceptance is an instance of one relation, `Rise`, and
`RiseKeeps` proves the invariant from it once; the acceptance is `AcceptedKeeps`.

Each strengthening was checked by TLC on the run's instance before it was proved (`ProtocolInv` and `QuietInv` on that of
`protocol_fate`, `TurnInv` on that of `conversation_wrappers`). `LedgerInv` is
still an invariant of `ledger_compat` (whose instance has no senders; quotas are exercised by
`ledger_quota`). The proofs found no violation of the code; what they changed is the model: the handler
in progress is named by `Idle`, and its numbers, the crash's forgetting and the
history of binders became parts of the invariants above.

Only model-checked:
- `EveryMessageAccounted` (of which `NothingStuck` is the proved safety part), `PromisesClosed`, `OpenIsClosed`:
  liveness under fairness is outside the prover, as is `ENABLED`;
- the three properties of the findings, which do not hold.

## Plan

1. (done) delivery: entry, ledger, protocol, abstract fate; the first theorems.
2. (done) session transition and the promises to peers.
3. (done) runner supervisor: spawn, stop, restart, switch, reset and rollback.
4. (done) server deploy: transactions, recoveries and their faults.
5. (done) conversation: server entry, both wrappers, reply basis.
6. (done) proofs for the ledger: all of `LedgerInv`, hence what it promises.
7. (done) proofs for session transition, supervisor, server deploy and conversation.
8. (done) the refinements of `MessageFate` and of `Deployment` as theorems; `NothingStuck`, from `QuietInv`.
9. (done) `DropReported` and `SomeoneCanSpeak` of the conversation, from `TurnInv`, each with the exceptions
   it names.
10. The supervisor in place of the external runner of `SessionTransition`.
11. Permission settings; work store against its reducer; ingress order and session starts.

## Not modelled

The dashboard, the engines' own turns, persona assets, authentication (except the
denied token of a purged agent), the runner's deployment and the build scripts: input and output, external
programs, or tables with one writer. The work board, permission settings and the session
order are state with rules of their own and are in the plan. PROJECT.json says for each component what is in
and what is out.
