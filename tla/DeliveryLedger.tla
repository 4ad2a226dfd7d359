---------------------------- MODULE DeliveryLedger ----------------------------
(***************************************************************************)
(* The delivery ledger process (KaoiroServer.DeliveryStates), the wrapper  *)
(* channels that call it and the dispatcher that turns its durable loss    *)
(* intents into notices (KaoiroServerWeb.DeliveryLossDispatcher).          *)
(*                                                                         *)
(* The ledger is a GenServer over a DETS table.  entries and losses are    *)
(* the table; the process's copies of them equal it whenever the process   *)
(* can answer a call, so they are not kept twice.  A handler that retires  *)
(* messages writes several records: job is such a handler in progress, and *)
(* the process may crash between any two writes.  owners and reservations  *)
(* are in memory only and are lost in a crash.                             *)
(***************************************************************************)
EXTENDS DeliveryEntry, Sequences

CONSTANTS
    Chans,             \* wrapper channel processes
    Senders,           \* agents that send messages
    Noticed,           \* agents the server sends first-hand notices to
    Purged,            \* agents the operator may purge
    JoinModes,         \* handshakes the wrappers use, among Modes
    Reports,           \* stage reports the wrappers send, among StageEffects
    BacklogLimit,      \* unresolved deliveries a recipient may have (1000)
    PairLimit,         \* early messages pending per sender and recipient
    RecipientLimit,    \* early messages pending per recipient
    MaxSeq,            \* bound: sequence numbers per recipient
    MaxInc,            \* bound: incarnations
    MaxToken,          \* bound: binding tokens
    MaxCrash           \* bound: crashes of the ledger

Modes == {"resync", "ack", "off"}

ASSUME LimitAssumption ==
    /\ Senders \subseteq Agents /\ Noticed \subseteq Agents /\ Purged \subseteq Agents
    /\ JoinModes \subseteq Modes /\ Reports \subseteq StageEffects
    /\ BacklogLimit \in Nat /\ PairLimit \in Nat /\ RecipientLimit \in Nat
    /\ MaxSeq \in Nat /\ MaxInc \in Nat /\ MaxToken \in Nat /\ MaxCrash \in Nat
    /\ IsFiniteSet(Chans)

VARIABLES
    entries,       \* agent -> Entry or Absent
    losses,        \* loss id -> Loss
    owners,        \* agent -> channel that bound it, or None
    reservations,  \* channel -> its reservation, or None
    job,           \* the multi-write handler in progress, or Idle
    incs, tokens,  \* incarnations and binding tokens drawn so far
    crashes,       \* crashes so far
    chan,          \* channel -> what its socket knows of its binding, or None
    known,         \* agent -> channel AgentStates has as its owner, or None
    revoked,       \* agents on the token denylist
    purging,       \* agents whose purge has not reached the ledger yet
    hold,          \* channel -> the message it is about to issue, or None
    disp,          \* the loss the dispatcher is working on, or None
    origins,       \* history: losses and messages the ledger took charge of
    settled,       \* history: those a recipient accounted for, or whose notice
                   \* went to a recipient without recovery
    confirmed,     \* history: revisions acknowledged or submitted
    binder         \* history: agent -> last channel to bind with recovery

tableVars == <<entries, losses>>
volatileVars == <<owners, reservations>>
agentVars == <<known, revoked, purging>>
historyVars == <<origins, settled, confirmed, binder>>
vars == <<entries, losses, owners, reservations, job, incs, tokens, crashes,
          chan, known, revoked, purging, hold, disp, origins, settled, confirmed, binder>>

Phases == {"checked", "bound", "joined", "closing"}
Channel == [agent : Agents, gen : Gens, token : Nat, mode : Modes, phase : Phases]
Reservation == [to : Agents, early : Agents \cup {None}]
Hold == [to : Agents, reserved : BOOLEAN, early : BOOLEAN]
ASSUME ValueAssumption == None \notin Chans \cup Channel \cup Reservation \cup Hold

Idle == [agent |-> None]    \* no handler is in progress
IsStored(e) == e = Absent \/ IsEntry(e)
IsJob(j) ==
    /\ j \in [agent : Agents, intents : SUBSET Loss, commits : {j.commits},
               client : Chans \cup {None}, bind : Channel \cup {None}]
    /\ \/ j.commits = <<j.commits[1]>>
       \/ j.commits = <<j.commits[1], j.commits[2]>> /\ IsStored(j.commits[2])
    /\ IsStored(j.commits[1])
Dispatch == [loss : Loss, phase : {"picked", "delivered"}]

Init ==
    /\ entries = [a \in Agents |-> Absent]
    /\ losses = Empty
    /\ owners = [a \in Agents |-> None]
    /\ reservations = [c \in Chans |-> None]
    /\ job = Idle
    /\ incs = 0 /\ tokens = 0 /\ crashes = 0
    /\ chan = [c \in Chans |-> None]
    /\ known = [a \in Agents |-> None] /\ revoked = {} /\ purging = {}
    /\ hold = [c \in Chans |-> None]
    /\ disp = None
    /\ origins = {} /\ settled = {} /\ confirmed = {}
    /\ binder = [a \in Agents |-> None]

-----------------------------------------------------------------------------
\* AgentStates.connected?: the owner of the agent's entry is alive, which it
\* is until the very end of terminate/2.
Connected(a) == known[a] # None

\* The owners AgentStates has once channel c is dead.
Without(c) == [a \in Agents |-> IF known[a] = c THEN None ELSE known[a]]

\* Mutants: the token is not compared; a forgotten owner owns nothing.
MutantOwnsAnyToken(c) ==
    LET a == chan[c].agent
    IN  /\ entries[a] # Absent /\ entries[a].gen = chan[c].gen /\ entries[a].resync
        /\ chan[c].mode = "resync" /\ owners[a] \in {None, c}

MutantOwnsLivePid(c) ==
    LET a == chan[c].agent
    IN  /\ entries[a] # Absent /\ entries[a].gen = chan[c].gen /\ entries[a].resync
        /\ chan[c].mode = "resync" /\ entries[a].token = chan[c].token /\ owners[a] = c

\* owns_recovery?/4 with the {pid, token} a channel presents.
OwnsRecovery(c) ==
    LET a == chan[c].agent
    IN  /\ entries[a] # Absent
        /\ entries[a].gen = chan[c].gen
        /\ entries[a].resync
        /\ chan[c].mode = "resync"
        /\ entries[a].token = chan[c].token
        /\ owners[a] \in {None, c}

\* The loss a sequence number of the recipient would be reported under.
Origin(a, e, s) == LossIntent(a, e, s).id

\* History of the numbers S of recipient a being accounted for.
Confirm(a, S) ==
    /\ settled' = settled \cup {Origin(a, entries[a], s) : s \in S}
    /\ confirmed' = confirmed \cup {RevisionOf(a, entries[a], s) : s \in S}

\* Begin a handler that may retire the metadata numbers in S of agent a and
\* then stores the entry values in commits, in that order.
Begin(a, S, commits, client, bind) ==
    job' = [agent |-> a,
            intents |-> IF entries[a] = Absent THEN {} ELSE LossIntents(a, entries[a], S),
            commits |-> commits, client |-> client, bind |-> bind]

\* retire_generation/3 in front of a handler that goes on to store final.
RetireThen(a, g, final, client, bind) ==
    LET e == entries[a]
        S == IF RetiresGeneration(e, g) THEN DOMAIN e.metadata ELSE {}
    IN  Begin(a, S,
              IF RetiresGeneration(e, g) THEN <<RecordLosses(e, S), final>> ELSE <<final>>,
              client, bind)

-----------------------------------------------------------------------------
(* Joining.  join/3 asks the denylist and AgentStates whether the agent    *)
(* may join and binds in a later call; AgentStates learns of the channel   *)
(* only with its first envelope.  So channels of one agent can overlap.    *)

Join(c, a, g, mode) ==
    /\ chan[c] = None /\ reservations[c] = None
    /\ a \notin revoked /\ ~Connected(a)
    /\ chan' = [chan EXCEPT ![c] = [agent |-> a, gen |-> g, token |-> 0,
                                    mode |-> mode, phase |-> "checked"]]
    /\ UNCHANGED <<tableVars, volatileVars, job, incs, tokens, crashes, agentVars, hold, disp, historyVars>>

\* bind_delivery, by the handshake the wrapper offers.
Bind(c) ==
    /\ job = Idle /\ chan[c] # None /\ chan[c].phase = "checked"
    /\ LET a == chan[c].agent
           g == chan[c].gen
           e == entries[a]
           bound(token) == [chan[c] EXCEPT !.token = token, !.phase = "bound"]
       IN  \/ /\ chan[c].mode = "resync" /\ incs < MaxInc /\ tokens < MaxToken
              /\ RetireThen(a, g, BindResyncEntry(e, g, incs, tokens + 1), c, bound(tokens + 1))
              /\ incs' = incs + 1 /\ tokens' = tokens + 1
           \/ /\ chan[c].mode = "ack" /\ incs < MaxInc
              /\ RetireThen(a, None,
                            BindEntry(IF e = Absent THEN Absent ELSE RecordLosses(e, DOMAIN e.metadata),
                                      g, incs),
                            c, bound(0))
              /\ incs' = incs + 1 /\ UNCHANGED tokens
           \/ /\ chan[c].mode = "off"
              /\ RetireThen(a, None, Absent, c, bound(0))
              /\ UNCHANGED <<incs, tokens>>
    /\ UNCHANGED <<tableVars, volatileVars, crashes, chan, agentVars, hold, disp, historyVars>>

\* The denylist is asked again once the channel is subscribed.
AfterJoin(c) ==
    /\ chan[c] # None /\ chan[c].phase = "bound"
    /\ chan' = [chan EXCEPT ![c] = IF @.agent \in revoked THEN None
                                   ELSE [@ EXCEPT !.phase = "joined"]]
    /\ UNCHANGED <<tableVars, volatileVars, job, incs, tokens, crashes, agentVars, hold, disp, historyVars>>

\* AgentStates.put of a channel's envelope: the channel owns the agent now.
Announce(c) ==
    /\ chan[c] # None /\ chan[c].phase = "joined"
    /\ known[chan[c].agent] # c
    /\ job # Idle => job.client # c
    /\ known' = [known EXCEPT ![chan[c].agent] = c]
    /\ UNCHANGED <<tableVars, volatileVars, job, incs, tokens, crashes, chan, revoked, purging, hold, disp, historyVars>>

\* The channel ends.  When AgentStates has it as the owner and the end was
\* intentional and unplanned, terminate/2 goes on to retire the generation
\* (CloseRetire); otherwise the process is gone.
Close(c, intentional) ==
    /\ chan[c] # None /\ chan[c].phase # "closing"
    /\ job # Idle => job.client # c
    /\ intentional => known[chan[c].agent] = c
    /\ chan' = [chan EXCEPT ![c] = IF intentional THEN [@ EXCEPT !.phase = "closing"] ELSE None]
    /\ known' = IF intentional THEN known ELSE Without(c)
    /\ hold' = [hold EXCEPT ![c] = None]
    /\ UNCHANGED <<tableVars, volatileVars, job, incs, tokens, crashes, revoked, purging, disp, historyVars>>

\* The monitor of a dead channel's reservation fires.
ReservationDown(c) ==
    /\ job = Idle /\ reservations[c] # None /\ chan[c] = None
    /\ reservations' = [reservations EXCEPT ![c] = None]
    /\ UNCHANGED <<tableVars, owners, job, incs, tokens, crashes, chan, agentVars, hold, disp, historyVars>>

-----------------------------------------------------------------------------
(* The recipient's side.                                                   *)

\* acknowledge for a channel with recovery, ack for one without.
Acknowledge(c, seq) ==
    /\ job = Idle /\ chan[c] # None /\ chan[c].phase = "joined"
    /\ LET a == chan[c].agent
           e == entries[a]
           n == AcknowledgeEntry(e, seq)
       IN  /\ IF chan[c].mode = "resync" THEN OwnsRecovery(c)
              ELSE chan[c].mode = "ack" /\ e # Absent /\ ~e.resync
           /\ entries' = [entries EXCEPT ![a] = n]
           /\ Confirm(a, DOMAIN e.metadata \ DOMAIN n.metadata)
    /\ UNCHANGED <<losses, volatileVars, job, incs, tokens, crashes, agentVars, chan, hold, disp, origins, binder>>

\* resync and retire: the channel gives up the numbers it never received or
\* will never dispatch.  Ranges beyond what was issued are refused.
Resync(c, requested) ==
    /\ job = Idle /\ chan[c] # None /\ chan[c].phase = "joined"
    /\ OwnsRecovery(c)
    /\ LET a == chan[c].agent
           e == entries[a]
           added == Unaccounted(e, requested)
       IN  /\ requested # {} /\ requested \subseteq 1..e.issued
           /\ Begin(a, added, <<RetireEntry(e, added)>>, c, None)
    /\ UNCHANGED <<tableVars, volatileVars, incs, tokens, crashes, agentVars, chan, hold, disp, historyVars>>

\* retire_owned_generation, the last call of terminate/2; a channel that no
\* longer owns the entry gets :stale_delivery_owner and just ends.
CloseRetire(c) ==
    /\ job = Idle /\ chan[c] # None /\ chan[c].phase = "closing"
    /\ LET a == chan[c].agent
           e == entries[a]
           added == Unaccounted(e, 1..e.issued)
       IN  IF OwnsRecovery(c)
           THEN /\ Begin(a, added, <<RetireEntry(e, added)>>, c, None)
                /\ UNCHANGED <<chan, known>>
           ELSE /\ chan' = [chan EXCEPT ![c] = None]
                /\ known' = Without(c)
                /\ UNCHANGED job
    /\ UNCHANGED <<tableVars, volatileVars, incs, tokens, crashes, revoked, purging, hold, disp, historyVars>>

ReportStage(c, seq, effect) ==
    /\ job = Idle /\ chan[c] # None /\ chan[c].phase = "joined"
    /\ OwnsRecovery(c)
    /\ LET a == chan[c].agent
           e == entries[a]
           n == ReportStageEntry(e, seq, effect)
       IN  /\ seq \in e.staged /\ seq <= e.issued
           /\ entries' = [entries EXCEPT ![a] = n]
           /\ Confirm(a, DOMAIN e.metadata \ DOMAIN n.metadata)
    /\ UNCHANGED <<losses, volatileVars, job, incs, tokens, crashes, agentVars, chan, hold, disp, origins, binder>>

\* The operator purges an agent whose last known state is "disconnected",
\* which it already is while its channel is closing: its token is revoked for
\* good and AgentStates forgets it, ...
Purge(a) ==
    /\ a \notin purging
    /\ known[a] # None => chan[known[a]].phase = "closing"
    /\ known' = [known EXCEPT ![a] = None]
    /\ revoked' = revoked \cup {a}
    /\ purging' = purging \cup {a}
    /\ UNCHANGED <<tableVars, volatileVars, job, incs, tokens, crashes, chan, hold, disp, historyVars>>

\* ... and the ledger after ten other stores.
Delete(a) ==
    /\ job = Idle /\ a \in purging
    /\ RetireThen(a, None, Absent, None, None)
    /\ purging' = purging \ {a}
    /\ UNCHANGED <<tableVars, volatileVars, incs, tokens, crashes, chan, known, revoked, hold, disp, historyVars>>

-----------------------------------------------------------------------------
(* The sender's side: preflight_inter_agent reserves, accept_inter_agent   *)
(* issues.  They are two calls with other stores' calls in between.        *)

\* Mutant: slots reserved and not yet issued are not counted.
MutantUsed(a) == 0

Used(a) == Cardinality({c \in Chans : reservations[c] # None /\ reservations[c].to = a})

Reserve(c, to) ==
    /\ job = Idle /\ chan[c] # None /\ chan[c].phase = "joined" /\ hold[c] = None
    /\ chan[c].agent \in Senders /\ chan[c].agent # to /\ Connected(to)
    /\ LET e == entries[to]
           tracked == e # Absent /\ e.resync
       IN  /\ tracked => Cardinality(DOMAIN e.metadata) + Cardinality(e.resolved) + Used(to)
                            < BacklogLimit
           /\ reservations' = [reservations EXCEPT ![c] =
                                  IF tracked THEN [to |-> to, early |-> None] ELSE @]
           /\ hold' = [hold EXCEPT ![c] = [to |-> to, reserved |-> tracked, early |-> FALSE]]
    /\ UNCHANGED <<tableVars, owners, job, incs, tokens, crashes, agentVars, chan, disp, historyVars>>

\* Mutant: only accepted early messages count.
MutantEarlyOf(a, s) ==
    IF entries[a] = Absent THEN 0
    ELSE Cardinality({q \in DOMAIN entries[a].early : entries[a].early[q] = s})

\* early_counts/3: accepted early messages and reservations for them.
EarlyOf(a, s) ==
    (IF entries[a] = Absent THEN 0
     ELSE Cardinality({q \in DOMAIN entries[a].early : entries[a].early[q] = s}))
    + Cardinality({c \in Chans : reservations[c] # None /\ reservations[c].to = a
                                 /\ reservations[c].early = s})
EarlyTotal(a) ==
    (IF entries[a] = Absent THEN 0 ELSE Cardinality(DOMAIN entries[a].early))
    + Cardinality({c \in Chans : reservations[c] # None /\ reservations[c].to = a
                                 /\ reservations[c].early # None})

\* A refused early reservation downgrades the message: nothing changes.
ReserveEarly(c) ==
    /\ job = Idle /\ chan[c] # None /\ hold[c] # None /\ ~hold[c].early
    /\ reservations[c] # None /\ reservations[c].to = hold[c].to /\ reservations[c].early = None
    /\ EarlyOf(hold[c].to, chan[c].agent) < PairLimit
    /\ EarlyTotal(hold[c].to) < RecipientLimit
    /\ reservations' = [reservations EXCEPT ![c].early = chan[c].agent]
    /\ hold' = [hold EXCEPT ![c].early = TRUE]
    /\ UNCHANGED <<tableVars, owners, job, incs, tokens, crashes, agentVars, chan, disp, historyVars>>

\* preflight failed after the reservation.
Release(c) ==
    /\ job = Idle /\ hold[c] # None
    /\ reservations' = [reservations EXCEPT ![c] = None]
    /\ hold' = [hold EXCEPT ![c] = None]
    /\ UNCHANGED <<tableVars, owners, job, incs, tokens, crashes, agentVars, chan, disp, historyVars>>

\* Store descriptor d as the next number of agent a, and take charge of it.
IssueTo(a, d) ==
    LET e == entries[a]
        n == IssueWithMetadata(e, d)
        tracked == e # Absent /\ e.resync /\ d # None
    IN  /\ entries' = IF e = Absent THEN entries ELSE [entries EXCEPT ![a] = n]
        /\ origins' = IF tracked THEN origins \cup {Origin(a, n, n.issued)} ELSE origins
        /\ settled' = IF ~tracked /\ d # None /\ d.loss_id # None
                      THEN settled \cup {d.loss_id} ELSE settled

CanIssue(a) == entries[a] # Absent => entries[a].issued < MaxSeq

\* issue_reserved with a reservation the ledger still knows, or with none.
IssueReserved(c) ==
    /\ job = Idle /\ chan[c] # None /\ hold[c] # None /\ CanIssue(hold[c].to)
    /\ hold[c].reserved => reservations[c] # None
    /\ IssueTo(hold[c].to,
               IF hold[c].reserved THEN MessageFrom(chan[c].agent, hold[c].early) ELSE None)
    /\ reservations' = [reservations EXCEPT ![c] = None]
    /\ hold' = [hold EXCEPT ![c] = None]
    /\ UNCHANGED <<losses, owners, job, incs, tokens, crashes, agentVars, chan, disp, confirmed, binder>>

\* The ledger restarted and forgot the reservation: the channel has no clause
\* for {:error, :invalid_delivery_reservation} and its process dies.
IssueForgotten(c) ==
    /\ job = Idle /\ hold[c] # None /\ hold[c].reserved /\ reservations[c] = None
    /\ chan' = [chan EXCEPT ![c] = None]
    /\ known' = Without(c)
    /\ hold' = [hold EXCEPT ![c] = None]
    /\ UNCHANGED <<tableVars, volatileVars, job, incs, tokens, crashes, revoked, purging, disp, historyVars>>

\* SynthEnvelope.deliver of a first-hand server notice (peer connectivity,
\* conversation closed): no reservation and no loss behind it.
IssueSynthetic(a) ==
    /\ job = Idle /\ CanIssue(a)
    /\ entries[a] # Absent
    /\ IssueTo(a, NoticeOf(None))
    /\ UNCHANGED <<losses, volatileVars, job, incs, tokens, crashes, agentVars, chan, hold, disp, confirmed, binder>>

-----------------------------------------------------------------------------
(* The loss dispatcher.  A lost message is reported to its sender; a lost  *)
(* notice is made again for the recipient it was addressed to.             *)

NotifyTarget(l) == IF l.descriptor.sender = None THEN LossRecipient(l) ELSE l.descriptor.sender

DispatchPick(id) ==
    /\ job = Idle /\ disp = None
    /\ Connected(NotifyTarget(losses[id]))
    /\ disp' = [loss |-> losses[id], phase |-> "picked"]
    /\ UNCHANGED <<tableVars, volatileVars, job, incs, tokens, crashes, agentVars, chan, hold, historyVars>>

\* The target may have gone away since it was found connected.
DispatchDeliver ==
    /\ job = Idle /\ disp # None /\ disp.phase = "picked"
    /\ LET to == NotifyTarget(disp.loss)
       IN  /\ CanIssue(to)
           /\ IssueTo(to, NoticeOf(disp.loss.id))
    /\ disp' = [disp EXCEPT !.phase = "delivered"]
    /\ UNCHANGED <<losses, volatileVars, job, incs, tokens, crashes, agentVars, chan, hold, confirmed, binder>>

\* Mutant: whatever is filed under the id is removed.
MutantCompleteLoss(l) == Drop(losses, {l.id})

\* complete_loss removes the intent only if it is still the one delivered.
CompleteLoss(l) ==
    LET id == l.id
    IN  IF id \in DOMAIN losses /\ losses[id].revision = l.revision THEN Drop(losses, {id}) ELSE losses

DispatchComplete ==
    /\ job = Idle /\ disp # None /\ disp.phase = "delivered"
    /\ losses' = CompleteLoss(disp.loss)
    /\ disp' = None
    /\ UNCHANGED <<entries, volatileVars, job, incs, tokens, crashes, agentVars, chan, hold, historyVars>>

\* The target went away before delivery, or the dispatcher crashed.
DispatchAbandon ==
    /\ disp # None
    /\ disp' = None
    /\ UNCHANGED <<tableVars, volatileVars, job, incs, tokens, crashes, agentVars, chan, hold, historyVars>>

-----------------------------------------------------------------------------
(* Writing, and crashing between writes.  persist_with_losses/4 writes the *)
(* intents one by one and the entry last.                                  *)

WriteIntent(i) ==
    /\ job # Idle /\ i \in job.intents
    /\ \A j \in job.intents : LossSeq(i) <= LossSeq(j)
    /\ losses' = Put(losses, i.id, i)
    /\ job' = [job EXCEPT !.intents = @ \ {i}]
    /\ UNCHANGED <<entries, volatileVars, incs, tokens, crashes, agentVars, chan, hold, disp, historyVars>>

\* The last write answers the call: a join learns its binding, and a channel
\* that was closing is gone.
CommitEntry ==
    /\ job # Idle /\ job.intents = {}
    /\ LET a == job.agent
           last == Len(job.commits) = 1
           bound == last /\ job.bind # None
           ends == last /\ job.client # None /\ chan[job.client].phase = "closing"
           rebound == bound \/ (last /\ Head(job.commits) = Absent)
           owner == IF bound /\ job.bind.mode = "resync" THEN job.client ELSE None
       IN  /\ entries' = [entries EXCEPT ![a] = Head(job.commits)]
           /\ job' = IF last THEN Idle ELSE [job EXCEPT !.commits = Tail(@)]
           /\ chan' = CASE bound -> [chan EXCEPT ![job.client] = job.bind]
                         [] ends -> [chan EXCEPT ![job.client] = None]
                         [] OTHER -> chan
           /\ known' = IF ends THEN Without(job.client) ELSE known
           /\ owners' = IF rebound THEN [owners EXCEPT ![a] = owner] ELSE owners
           /\ binder' = IF rebound THEN [binder EXCEPT ![a] = owner] ELSE binder
    /\ UNCHANGED <<losses, reservations, incs, tokens, crashes, revoked, purging, hold, disp, origins, settled, confirmed>>

\* init/1 after a crash: intents whose retirement never reached the entry
\* are dropped, everything in memory is gone, and the caller waiting for a
\* reply dies with the call.
UncommittedLoss(l) ==
    LET a == LossRecipient(l)
    IN  /\ entries[a] # Absent
        /\ LossSeq(l) \in DOMAIN entries[a].metadata
        /\ l.revision = RevisionOf(a, entries[a], LossSeq(l))

\* Mutant: init/1 takes every stored intent as final.
MutantCommittedLosses == losses

CommittedLosses == Restrict(losses, {id \in DOMAIN losses : ~UncommittedLoss(losses[id])})

LedgerCrash ==
    /\ crashes < MaxCrash
    /\ crashes' = crashes + 1
    /\ losses' = CommittedLosses
    /\ owners' = [a \in Agents |-> None]
    /\ reservations' = [c \in Chans |-> None]
    /\ job' = Idle
    /\ LET dead == IF job = Idle THEN {} ELSE {job.client}
       IN  /\ chan' = [c \in Chans |-> IF c \in dead THEN None ELSE chan[c]]
           /\ known' = [a \in Agents |-> IF known[a] \in dead THEN None ELSE known[a]]
           /\ hold' = [c \in Chans |-> IF c \in dead THEN None ELSE hold[c]]
    /\ UNCHANGED <<entries, incs, tokens, revoked, purging, disp, historyVars>>

-----------------------------------------------------------------------------
Next ==
    \/ \E c \in Chans, a \in Agents, g \in Gens, m \in JoinModes : Join(c, a, g, m)
    \/ \E c \in Chans : \/ Bind(c)
                        \/ AfterJoin(c)
                        \/ Announce(c)
                        \/ ReservationDown(c)
                        \/ CloseRetire(c)
                        \/ ReserveEarly(c)
                        \/ Release(c)
                        \/ IssueReserved(c)
                        \/ IssueForgotten(c)
    \/ \E c \in Chans, intentional \in BOOLEAN : Close(c, intentional)
    \/ \E c \in Chans, seq \in 1..MaxSeq : Acknowledge(c, seq)
    \/ \E c \in Chans, requested \in SUBSET (1..MaxSeq) : Resync(c, requested)
    \/ \E c \in Chans, seq \in 1..MaxSeq, effect \in Reports : ReportStage(c, seq, effect)
    \/ \E a \in Purged : Purge(a) \/ Delete(a)
    \/ \E a \in Noticed : IssueSynthetic(a)
    \/ \E c \in Chans, to \in Agents : Reserve(c, to)
    \/ \E id \in DOMAIN losses : DispatchPick(id)
    \/ DispatchDeliver
    \/ DispatchComplete
    \/ DispatchAbandon
    \/ (job # Idle /\ \E i \in job.intents : WriteIntent(i))
    \/ CommitEntry
    \/ LedgerCrash

Spec == Init /\ [][Next]_vars

-----------------------------------------------------------------------------
(* Properties.                                                             *)

\* The shape of every variable.
TypeOK ==
    /\ entries = [a \in Agents |-> entries[a]] /\ \A a \in Agents : IsStored(entries[a])
    /\ IsMap(losses, Revision, Loss)
    /\ owners \in [Agents -> Chans \cup {None}]
    /\ reservations \in [Chans -> Reservation \cup {None}]
    /\ job # Idle => IsJob(job)
    /\ incs \in Nat /\ tokens \in Nat /\ crashes \in Nat
    /\ chan \in [Chans -> Channel \cup {None}]
    /\ known \in [Agents -> Chans \cup {None}] /\ revoked \subseteq Agents /\ purging \subseteq Agents
    /\ hold \in [Chans -> Hold \cup {None}]
    /\ disp \in Dispatch \cup {None}
    /\ origins \subseteq Revision
    /\ settled \subseteq Revision
    /\ confirmed \subseteq Revision
    /\ binder \in [Agents -> Chans \cup {None}]

\* Every stored entry is consistent after any mixture of acknowledgements,
\* stage reports, retirements, re-binds and crashes: above the confirmed
\* prefix the owed, the submitted and the retired numbers are disjoint, the
\* prefix never stalls in front of a retired number, and pending_since says
\* exactly that something is outstanding.
EntriesConsistent ==
    \A a \in Agents : entries[a] # Absent => EntryShape(entries[a])

\* Recipients that still owe an account of loss or message id.
Owed(id) ==
    \E a \in Agents :
        /\ entries[a] # Absent
        /\ \E s \in DOMAIN entries[a].metadata : Origin(a, entries[a], s) = id

\* A message the ledger took charge of is never forgotten: until a recipient
\* accounts for it, or for a notice of its loss, it is in some entry's
\* metadata or in a durable loss intent, whatever crashes in between.
NothingForgotten ==
    \A id \in origins : id \in settled \/ id \in DOMAIN losses \/ Owed(id)

\* A loss intent the dispatcher can see is final: its message was never
\* acknowledged or submitted and can no longer be delivered, so no sender is
\* told of the loss of a message that its recipient goes on to confirm.
LossesFinal ==
    \A id \in DOMAIN losses :
        /\ losses[id].revision \notin confirmed
        /\ job = Idle => ~UncommittedLoss(losses[id])

\* At most one channel may acknowledge or retire for an agent, also after the
\* ledger has forgotten which process had bound it.
SingleAuthority ==
    \A c, d \in Chans :
        (/\ chan[c] # None /\ chan[d] # None /\ chan[c].agent = chan[d].agent
         /\ OwnsRecovery(c) /\ OwnsRecovery(d)) => c = d

\* The channel that bound last keeps its authority across a ledger restart:
\* otherwise its acknowledgements would be refused until it reconnects.
AuthoritySurvives ==
    \A a \in Agents :
        LET c == binder[a]
        IN  (/\ job = Idle /\ c # None
             /\ chan[c] # None /\ chan[c].agent = a /\ chan[c].phase # "checked") => OwnsRecovery(c)

\* The early quotas hold at every moment although they are checked when a
\* slot is reserved and the slot is consumed in a later call.
EarlyQuotaHeld ==
    \A a \in Agents : entries[a] # Absent =>
        LET early == entries[a].early
        IN  /\ Cardinality(DOMAIN early) <= RecipientLimit
            /\ \A s \in Agents : Cardinality({q \in DOMAIN early : early[q] = s}) <= PairLimit

\* The backlog limit, checked at reserve, bounds the messages an entry ever
\* holds plus those about to be issued; server notices are not limited.
BacklogHeld ==
    \A a \in Agents : entries[a] # Absent =>
        Cardinality({s \in DOMAIN entries[a].metadata : entries[a].metadata[s].sender # None})
            + Cardinality({c \in Chans : reservations[c] # None /\ reservations[c].to = a})
            <= BacklogLimit

-----------------------------------------------------------------------------
(* The inductive strengthening behind NothingForgotten and LossesFinal.    *)

\* Revisions the ledger has dealt with: lost, confirmed or being reported.
KnownRevisions ==
    {losses[id].revision : id \in DOMAIN losses} \cup confirmed
    \cup {d.loss.revision : d \in {disp} \ {None}}

\* The message of revision r can still be delivered under it.
Deliverable(r) ==
    LET a == r[1]
    IN  /\ entries[a] # Absent
        /\ r[4] \in DOMAIN entries[a].metadata
        /\ r = RevisionOf(a, entries[a], r[4])

\* Entry value e of agent a hands out numbers nothing known has used.
Unused(a, e) ==
    /\ e.inc < incs
    /\ \A r \in KnownRevisions : (r[1] = a /\ r[2] = e.inc) => r[4] <= e.issued

\* Incarnations and numbers are never used twice.
NumbersFresh ==
    /\ \A a \in Agents : entries[a] # Absent => Unused(a, entries[a])
    /\ \A r \in KnownRevisions : r[2] < incs
    /\ job # Idle => \A k \in DOMAIN job.commits :
            job.commits[k] # Absent => Unused(job.agent, job.commits[k])

\* What was confirmed, or is being reported, is not deliverable any more.
KnownDead ==
    /\ \A r \in confirmed : ~Deliverable(r)
    /\ disp # None => ~Deliverable(disp.loss.revision)

\* Intents are filed under their own id; while a handler runs, the ones it
\* has written ahead of the entry describe messages the entry still holds.
LossesFiled ==
    \A id \in DOMAIN losses :
        /\ losses[id].id = id
        /\ UncommittedLoss(losses[id]) =>
              /\ job # Idle /\ job.agent = LossRecipient(losses[id])
              /\ losses[id] = LossIntent(job.agent, entries[job.agent], LossSeq(losses[id]))

\* What the handler in progress will store is consistent.
JobShape ==
    job # Idle =>
        \A k \in DOMAIN job.commits : job.commits[k] # Absent => EntryShape(job.commits[k])

\* The handler in progress: what it will store adds no metadata, and every
\* number it takes out of the entry has an intent, written or to be written.
Keeps(n, s) == n # Absent /\ s \in DOMAIN n.metadata

JobSound ==
    job # Idle =>
        LET a == job.agent
            e == entries[a]
            n == job.commits[1]
        IN  /\ n # Absent => \A s \in DOMAIN n.metadata :
                  /\ e # Absent /\ s \in DOMAIN e.metadata
                  /\ n.metadata[s] = e.metadata[s] /\ n.inc = e.inc /\ n.gen = e.gen
            /\ Len(job.commits) = 2 =>
                  /\ n # Absent /\ DOMAIN n.metadata = {}
                  /\ job.commits[2] # Absent => DOMAIN job.commits[2].metadata = {}
            /\ \A i \in job.intents :
                  /\ e # Absent /\ LossSeq(i) \in DOMAIN e.metadata
                  /\ i = LossIntent(a, e, LossSeq(i))
                  /\ ~Keeps(n, LossSeq(i))
            /\ \A id \in DOMAIN losses :
                  UncommittedLoss(losses[id]) => ~Keeps(n, LossSeq(losses[id]))
            /\ e # Absent => \A s \in DOMAIN e.metadata :
                  \/ Keeps(n, s)
                  \/ LossIntent(a, e, s) \in job.intents
                  \/ /\ Origin(a, e, s) \in DOMAIN losses
                     /\ UncommittedLoss(losses[Origin(a, e, s)])
            /\ job.bind # None => job.client # None

\* An entry value the handler will store hands out no number again; the
\* first of two is the entry itself without its metadata.
JobNumbers ==
    job # Idle =>
        LET e == entries[job.agent]
            n == job.commits[1]
        IN  /\ \A k \in DOMAIN job.commits :
                  (e # Absent /\ job.commits[k] # Absent /\ job.commits[k].inc = e.inc)
                      => e.issued <= job.commits[k].issued
            /\ Len(job.commits) = 2 =>
                  e # Absent /\ n # Absent /\ n.inc = e.inc /\ n.issued = e.issued

\* Between delivering a notice and completing its loss, the loss is covered
\* by something else than the intent that is about to be removed.
DispatchSound ==
    disp # None /\ disp.phase = "delivered" =>
        LET id == disp.loss.id
        IN  \/ id \in settled
            \/ Owed(id)
            \/ id \in DOMAIN losses /\ losses[id].revision # disp.loss.revision

-----------------------------------------------------------------------------
(* The strengthening behind SingleAuthority and AuthoritySurvives.         *)

\* Binding tokens are drawn once: a channel that is only checked has none,
\* and no two channels have the same.
ChannelTokens ==
    /\ \A c \in Chans : chan[c] # None =>
          chan[c].token <= tokens /\ (chan[c].phase = "checked" => chan[c].token = 0)
    /\ \A c, d \in Chans :
          (chan[c] # None /\ chan[d] # None /\ chan[c].token = chan[d].token /\ chan[c].token # 0) => c = d

\* An entry with recovery names the token of some binding.
HasToken(e) == e # Absent /\ e.resync => e.token # 0
EntryTokens == \A a \in Agents : HasToken(entries[a])

\* AgentStates has only channels that got through after_join as owners.
KnownJoined ==
    \A a \in Agents : known[a] # None =>
        /\ chan[known[a]] # None /\ chan[known[a]].agent = a
        /\ chan[known[a]].phase \in {"joined", "closing"}

\* The ledger's owners are the last binders, as far as it remembers them.
OwnersBound == \A a \in Agents : owners[a] \in {None, binder[a]}

\* AuthoritySurvives also while a handler is in progress.
BinderOwns ==
    \A a \in Agents :
        LET c == binder[a]
        IN  (c # None /\ chan[c] # None /\ chan[c].agent = a /\ chan[c].phase # "checked") => OwnsRecovery(c)

\* Entry n is bound as e is.
SameBinding(e, n) ==
    /\ e # Absent /\ n # Absent
    /\ n.gen = e.gen /\ n.token = e.token /\ n.resync = e.resync

\* The handler in progress stores what the binding it answers with names, and
\* any value before that, or without a binding, is bound as the entry is.
JobAuthority ==
    job # Idle =>
        LET n == job.commits[1]
            two == Len(job.commits) = 2
            f == IF two THEN job.commits[2] ELSE n
        IN  /\ job.bind # None =>
                  /\ job.client # None /\ chan[job.client] # None /\ chan[job.client].phase = "checked"
                  /\ job.bind.agent = job.agent /\ job.bind.phase = "bound" /\ job.bind.token <= tokens
                  /\ job.bind.token # 0 => \A c \in Chans : chan[c] # None => chan[c].token # job.bind.token
                  /\ job.bind.mode = "resync" =>
                        f # Absent /\ f.gen = job.bind.gen /\ f.resync /\ f.token = job.bind.token
            /\ two \/ (job.bind = None /\ n # Absent) => SameBinding(entries[job.agent], n)
            /\ two /\ job.bind = None => f = Absent
            /\ HasToken(n) /\ HasToken(f)

AuthorityInv ==
    ChannelTokens /\ EntryTokens /\ KnownJoined /\ OwnersBound /\ BinderOwns /\ JobAuthority

-----------------------------------------------------------------------------
(* The strengthening behind EarlyQuotaHeld and BacklogHeld.                *)

\* A channel that holds a message has joined; what is reserved for it is what
\* it is about to issue, unless the channel has ended and the reservation is
\* about to be taken down.
HoldsReserved ==
    \A c \in Chans :
        /\ hold[c] # None => chan[c] # None /\ chan[c].phase = "joined"
        /\ reservations[c] # None =>
              IF hold[c] = None THEN chan[c] = None \/ chan[c].phase = "closing"
              ELSE /\ hold[c].reserved
                   /\ reservations[c].to = hold[c].to
                   /\ reservations[c].early = IF hold[c].early THEN chan[c].agent ELSE None

\* The early marks of f are some of those of e.
FewerEarly(e, f) ==
    f # Absent /\ DOMAIN f.early # {} =>
        /\ e # Absent /\ DOMAIN f.early \subseteq DOMAIN e.early
        /\ \A s \in DOMAIN f.early : f.early[s] = e.early[s]

EarlyFinite == \A a \in Agents : entries[a] # Absent => IsFiniteSet(DOMAIN entries[a].early)

\* A handler adds no early mark.
JobEarly ==
    job # Idle =>
        /\ FewerEarly(entries[job.agent], job.commits[1])
        /\ Len(job.commits) = 2 => FewerEarly(job.commits[1], job.commits[2])

\* The quotas with what is reserved.
EarlyWithin ==
    \A a \in Agents :
        /\ EarlyTotal(a) <= RecipientLimit
        /\ \A s \in Agents : EarlyOf(a, s) <= PairLimit

\* The messages, other than server notices, an entry holds.
SentTo(e) == IF e = Absent THEN {} ELSE {s \in DOMAIN e.metadata : e.metadata[s].sender # None}

BacklogWithin == \A a \in Agents : Cardinality(SentTo(entries[a])) + Used(a) <= BacklogLimit

QuotaInv == HoldsReserved /\ EarlyFinite /\ JobEarly /\ EarlyWithin /\ BacklogWithin

-----------------------------------------------------------------------------
\* The inductive invariant.
LedgerInv ==
    /\ TypeOK
    /\ EntriesConsistent
    /\ NumbersFresh
    /\ KnownDead
    /\ LossesFiled
    /\ JobShape
    /\ JobNumbers
    /\ JobSound
    /\ DispatchSound
    /\ LossesFinal
    /\ NothingForgotten
    /\ AuthorityInv
    /\ QuotaInv
=============================================================================
