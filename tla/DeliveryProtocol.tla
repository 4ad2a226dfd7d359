--------------------------- MODULE DeliveryProtocol ---------------------------
(***************************************************************************)
(* The end-to-end delivery of inter-agent messages to one recipient:       *)
(*                                                                         *)
(*   sender channels -> ledger entry -> link -> DeliveryRecovery           *)
(*   (wrapper/core) -> host -> DeliveryAcknowledgement (agent-common)      *)
(*   -> link -> ledger entry                                               *)
(*                                                                         *)
(* A sender's channel numbers a message, pushes it and broadcasts the      *)
(* entry's status in separate steps, so messages of two senders, and       *)
(* statuses, overtake each other; once sent, the link is in order until it *)
(* breaks, and then everything in it is gone.  The recipient's wrapper     *)
(* must dispatch each message once, confirm it, and give up the numbers    *)
(* that never reached it.                                                  *)
(*                                                                         *)
(* Not in this module: the ledger's own crashes and durable intents        *)
(* (DeliveryLedger), recipients without recovery, and the operator's purge *)
(* of an agent, so a wrapper sees one incarnation.                         *)
(***************************************************************************)
EXTENDS DeliveryEntry, Sequences

CONSTANTS
    Recipient,      \* the receiving agent
    Sender,         \* a sending agent (who sends makes no difference here)
    RangeLimit,     \* numbers one delivery_resync may name (256)
    CompletionLimit,\* out-of-order completions the acknowledger keeps (1000)
    MaxSeq,         \* bound: messages
    MaxLoad,        \* bound: two for each failure so far and one for each message
                    \* under way, when the connection breaks, a reply is slower
                    \* than the client's timeout or the wrapper ends
    MaxDeaths       \* bound: wrapper processes that end

ASSUME ProtocolAssumption ==
    /\ Recipient \in Agents /\ Sender \in Agents
    /\ RangeLimit \in Nat \ {0} /\ CompletionLimit \in Nat
    /\ MaxSeq \in Nat /\ MaxLoad \in Nat /\ MaxDeaths \in Nat
    /\ Gens = 0..MaxDeaths

VARIABLES
    entry,      \* the ledger entry of the recipient, or Absent
    server,     \* the recipient's channel: "off", "bound", "subscribed", "live"
    snap,       \* the status the join reply will carry
    down, up,   \* the link, server to wrapper and back
    sends,      \* the messages taken up, each at a step of accept_inter_agent
    w,          \* the wrapper process
    breaks, timeouts,   \* how often the bounded failures have happened
    handled,    \* history: numbers the host dispatched
    reported,   \* history: numbers retired with a durable loss intent
    abandoned   \* history: those of them retired because a wrapper ended

vars == <<entry, server, snap, down, up, sends, w, breaks, timeouts,
          handled, reported, abandoned>>

StatusOf(e) == [issued |-> e.issued, acked |-> e.acked]
Status == [issued : Nat, acked : Nat]
Request == [cutoff : Nat, missing : SUBSET Seqs]

\* "Nothing" is no number and no request.
ASSUME NothingAssumption == None \notin Nat /\ None \notin Request

UpMessage == [type : {"ack"}, seq : Seqs] \cup [type : {"resync"}, ref : Nat, request : Request]

\* A wrapper process: DeliveryRecovery, DeliveryAcknowledgement, the
\* transport's ackIssued and live flag, and the host's queue (inbox).  out
\* collects what a handler pushes; it is empty between handlers.
Wrapper ==
    [gen : Nat, live : BOOLEAN, inbox : SUBSET Seqs, out : Seq(UpMessage), ackIssued : Nat,
     resolved : Nat, issued : Nat, received : SUBSET Seqs, retiring : SUBSET Seqs,
     supported : BOOLEAN, connected : BOOLEAN, timer : Nat \cup {None},
     pending : Request \cup {None}, inFlight : BOOLEAN, ref : Nat,
     acked : Nat, completed : SUBSET Seqs, pendingAck : Nat]

NewWrapper(g) ==
    [gen |-> g, live |-> FALSE, inbox |-> {}, out |-> <<>>, ackIssued |-> 0,
     resolved |-> 0, issued |-> 0, received |-> {}, retiring |-> {},
     supported |-> FALSE, connected |-> FALSE, timer |-> None,
     pending |-> None, inFlight |-> FALSE, ref |-> 0,
     acked |-> 0, completed |-> {}, pendingAck |-> 0]

Init ==
    /\ entry = Absent /\ server = "off" /\ snap = None
    /\ down = <<>> /\ up = <<>>
    /\ sends = <<>>
    /\ w = NewWrapper(0)
    /\ breaks = 0 /\ timeouts = 0
    /\ handled = {} /\ reported = {} /\ abandoned = {}

-----------------------------------------------------------------------------
(* DeliveryRecovery: every definition maps a wrapper to the wrapper after  *)
(* the method of that name: Method(arguments)[r].  They are functions so   *)
(* that TLC evaluates a chain of them once.                                *)

\* The least n members of a set of numbers.
Least(S, n) == {s \in S : Cardinality({t \in S : t < s}) < n}

Missing(r, cutoff) == Least(((r.resolved + 1)..cutoff) \ r.received, RangeLimit)

Idle(r) == r.pending = None /\ r.retiring = {} /\ Missing(r, r.issued) = {}

Schedule[r \in Wrapper] ==
    CASE ~(r.connected /\ r.supported) -> r
      [] r.connected /\ r.supported /\ Idle(r) -> [r EXCEPT !.timer = None]
      [] r.connected /\ r.supported /\ ~Idle(r) ->
            IF r.timer # None \/ r.inFlight THEN r ELSE [r EXCEPT !.timer = r.issued]

\* #request: one request at a time, and only over a joined connection.
Send[r \in Wrapper] ==
    IF r.pending = None \/ r.inFlight \/ ~r.connected THEN r
    ELSE [r EXCEPT !.inFlight = TRUE, !.ref = r.ref + 1,
                   !.out = Append(@, [type |-> "resync", ref |-> r.ref + 1, request |-> r.pending])]

\* #start: numbers the host gave up go first, then the missing ones.
Numbers(r, cutoff) ==
    LET retiring == Least({s \in r.retiring : s > r.resolved /\ s <= cutoff}, RangeLimit)
    IN  IF retiring # {} THEN retiring ELSE Missing(r, cutoff)

Start(cutoff) == [r \in Wrapper |->
    IF Numbers(r, cutoff) = {} THEN r
    ELSE Send[[r EXCEPT !.pending = [cutoff |-> cutoff, missing |-> Numbers(r, cutoff)]]]]

Larger(m, n) == IF m > n THEN m ELSE n

\* confirm: forget the numbers the prefix has passed.
ConfirmThrough(seq) == [r \in Wrapper |->
    LET gone == 1..Larger(seq, r.resolved)
    IN  Schedule[[r EXCEPT !.resolved = Larger(seq, @),
                           !.received = @ \ gone, !.retiring = @ \ gone]]]

ObserveStatus(status) == [r \in Wrapper |->
    ConfirmThrough(status.acked)[[r EXCEPT !.issued = Larger(status.issued, @)]]]

\* Mutant: the confirmed prefix is not consulted.
MutantReceive(r, seq) ==
    IF r.supported /\ seq \in r.received THEN r
    ELSE Schedule[[r EXCEPT !.issued = Larger(seq, @), !.received = @ \cup {seq},
                            !.inbox = @ \cup {seq}]]

\* receive: an accounted number is a duplicate, and one that a request in
\* progress has given up is quarantined; neither reaches the host.
Receive(r, seq) ==
    IF \/ r.supported /\ (seq <= r.resolved \/ seq \in r.received)
       \/ r.pending # None /\ seq \in r.pending.missing
    THEN r
    ELSE Schedule[[r EXCEPT !.issued = Larger(seq, @),
                            !.received = @ \cup {seq},
                            !.inbox = @ \cup {seq}]]

StartIfFree[r \in Wrapper] ==
    IF r.connected /\ r.pending = None THEN Start(r.issued)[r] ELSE r

Retire(r, S) ==
    StartIfFree[[r EXCEPT !.retiring = @ \cup {s \in S : s > r.resolved /\ s \in r.received}]]

\* The timer's callback.
TimerCallback(r) ==
    Schedule[IF r.pending # None THEN Send[[r EXCEPT !.timer = None]]
                                 ELSE Start(r.timer)[[r EXCEPT !.timer = None]]]

Disconnected(r) == [r EXCEPT !.connected = FALSE, !.timer = None, !.live = FALSE]

-----------------------------------------------------------------------------
(* DeliveryAcknowledgement.                                                *)

\* The transport's acknowledgeInterAgentDelivery.
PushNewer(seq) == [r \in Wrapper |->
    IF seq <= r.ackIssued THEN r
    ELSE [r EXCEPT !.ackIssued = seq, !.out = Append(@, [type |-> "ack", seq |-> seq])]]
PushAck(r, seq) == IF seq > r.issued THEN r ELSE PushNewer(seq)[ConfirmThrough(seq)[r]]

\* #advance: the prefix through completed numbers; those it passes leave.
Advance[r \in Wrapper] ==
    LET acked == ConsumeSkipped(r.acked, r.completed)
    IN  [r EXCEPT !.acked = acked, !.completed = @ \ ((r.acked + 1)..acked)]

Complete(seq) == [r \in Wrapper |->
    IF \/ seq <= r.acked
       \/ seq # r.acked + 1 /\ seq \notin r.completed /\ Cardinality(r.completed) >= CompletionLimit
    THEN r
    ELSE Advance[[r EXCEPT !.completed = @ \cup {seq}]]]

\* #sendIfAdvanced, for a ledger that was at base.
SendIfAdvanced(base) == [r \in Wrapper |-> IF r.acked > base THEN PushAck(r, r.acked) ELSE r]

BindAcked(acked) == [r \in Wrapper |->
    IF acked < r.acked THEN r ELSE SendIfAdvanced(acked)[Advance[[r EXCEPT !.acked = acked]]]]

\* The skipped numbers of a reply, in ascending order, each its own complete.
CompleteAll(S) == [r \in Wrapper |->
    LET step[k \in 0..MaxSeq] ==
            IF k = 0 THEN r
            ELSE IF k \in S THEN SendIfAdvanced(step[k - 1].acked)[Complete(k)[step[k - 1]]]
                            ELSE step[k - 1]
    IN  step[MaxSeq]]

\* observe, up to scheduling the replay of an acknowledgement made while
\* disconnected; the replay is a microtask and runs after the handler.
ObserveAcked(acked, skipped) == [r \in Wrapper |->
    CompleteAll(skipped)[BindAcked(acked)[[r EXCEPT !.pendingAck = IF @ <= acked THEN 0 ELSE @]]]]

ReplayPendingAck[r \in Wrapper] == IF r.pendingAck # 0 THEN PushAck(r, r.pendingAck) ELSE r

\* acknowledgeEnvelope, at dispatch.
AcknowledgeEnvelope(r, seq) ==
    IF r.live THEN SendIfAdvanced(r.acked)[Complete(seq)[r]]
    ELSE LET acked == Complete(seq)[r].acked
         IN  [Complete(seq)[r] EXCEPT !.pendingAck = IF acked > r.acked THEN acked ELSE @]

-----------------------------------------------------------------------------
(* What the wrapper does with each message of the server.                  *)

\* DeliveryRecovery.join, once the status is observed.
ResumeRecovery(status) == [r \in Wrapper |->
    IF r.pending # None THEN Send[r] ELSE Start(status.issued)[r]]

\* Mutant: an acknowledgement that was lost with the link is not pushed again.
MutantResendAck(status) == [r \in Wrapper |-> r]
ResendAck(status) == [r \in Wrapper |->
    IF r.resolved > status.acked THEN PushAck(r, r.resolved) ELSE r]
JoinRecovery(status) == [r \in Wrapper |->
    ResumeRecovery(status)[ResendAck(status)[ObserveStatus(status)[
        [r EXCEPT !.supported = TRUE, !.connected = TRUE]]]]]

OnJoinReply(r, status) ==
    ReplayPendingAck[JoinRecovery(status)[ObserveAcked(status.acked, {})[
        [r EXCEPT !.ackIssued = 0, !.live = TRUE]]]]

OnStatus(r, status) == ReplayPendingAck[ObserveAcked(status.acked, {})[ObserveStatus(status)[r]]]

\* The end of #request, when the reply has been applied or given up.
Finish[r \in Wrapper] ==
    Schedule[IF r.pending = None /\ r.retiring # {}
             THEN Start(r.issued)[[r EXCEPT !.inFlight = FALSE]]
             ELSE [r EXCEPT !.inFlight = FALSE]]

\* A reply whose push has timed out is not delivered to the request.
OnReply(r, m) ==
    IF ~r.inFlight \/ m.ref # r.ref THEN r
    ELSE IF ~m.ok THEN Finish[r]
    ELSE ReplayPendingAck[Finish[ObserveAcked(m.status.acked, m.skipped)[
            ObserveStatus(m.status)[[r EXCEPT !.received = @ \cup m.skipped,
                                              !.retiring = @ \ m.skipped,
                                              !.pending = None]]]]]

OnMessage(r, m) ==
    CASE m.type = "join" -> OnJoinReply(r, m.status)
      [] m.type = "status" -> OnStatus(r, m.status)
      [] m.type = "envelope" -> Receive(r, m.seq)
      [] m.type = "reply" -> OnReply(r, m)

-----------------------------------------------------------------------------
(* Steps.  A handler of the wrapper runs to completion and then what it    *)
(* pushed is in the link.                                                  *)

Run(r) ==
    /\ w' = [r EXCEPT !.out = <<>>]
    /\ up' = up \o r.out

Subscribed == server \in {"subscribed", "live"}
Broadcast(msgs) == down' = IF Subscribed THEN down \o msgs ELSE down
StatusMessage(status) == [type |-> "status", status |-> status]
EnvelopeMessage(seq) == [type |-> "envelope", seq |-> seq]

MayFail ==
    2 * (breaks + timeouts + w.gen) + Cardinality({i \in DOMAIN sends : sends[i].at # "done"})
        <= MaxLoad

\* join: bind_resync.  A wrapper process that replaces another retires what
\* the other left.  The status snapshot in the reply is read here, ...
JoinBind ==
    /\ server = "off"
    /\ LET rest == IF RetiresGeneration(entry, w.gen) THEN DOMAIN entry.metadata ELSE {}
       IN  /\ reported' = reported \cup rest
           /\ abandoned' = abandoned \cup rest
    /\ entry' = BindResyncEntry(entry, w.gen, w.gen, 0)
    /\ snap' = StatusOf(entry')
    /\ server' = "bound"
    /\ UNCHANGED <<down, up, sends, w, breaks, timeouts, handled>>

\* ... the channel subscribes and answers only now, so a broadcast in
\* between reaches nobody, ...
Subscribe ==
    /\ server = "bound"
    /\ server' = "subscribed" /\ snap' = None
    /\ down' = Append(down, [type |-> "join", status |-> snap])
    /\ UNCHANGED <<entry, up, sends, w, breaks, timeouts, handled, reported, abandoned>>

\* Mutant: no status follows the join reply.
MutantAfterJoin ==
    /\ server = "subscribed" /\ server' = "live"
    /\ UNCHANGED <<entry, snap, down, up, sends, w, breaks, timeouts, handled, reported, abandoned>>

\* ... and after_join broadcasts the status once more.
AfterJoin ==
    /\ server = "subscribed"
    /\ server' = "live"
    /\ Broadcast(<<StatusMessage(StatusOf(entry))>>)
    /\ UNCHANGED <<entry, snap, up, sends, w, breaks, timeouts, handled, reported, abandoned>>

\* A message passes preflight while the recipient is connected. Each message
\* has a channel to itself: one channel that sends two is the case in which
\* the second is taken up after the first is done.
Preflight ==
    /\ server = "live"
    /\ Len(sends) < MaxSeq
    /\ sends' = Append(sends, [at |-> "issue"])
    /\ UNCHANGED <<entry, server, snap, down, up, w, breaks, timeouts, handled, reported, abandoned>>

At(i, step) == i \in DOMAIN sends /\ sends[i].at = step

Issue(i) ==
    /\ At(i, "issue")
    /\ entry' = IssueWithMetadata(entry, MessageFrom(Sender, FALSE))
    /\ sends' = [sends EXCEPT ![i] = [at |-> "push", seq |-> entry'.issued]]
    /\ UNCHANGED <<server, snap, down, up, w, breaks, timeouts, handled, reported, abandoned>>

Push(i) ==
    /\ At(i, "push")
    /\ Broadcast(<<EnvelopeMessage(sends[i].seq)>>)
    /\ sends' = [sends EXCEPT ![i] = [at |-> "status"]]
    /\ UNCHANGED <<entry, server, snap, up, w, breaks, timeouts, handled, reported, abandoned>>

\* broadcast_delivery_status reads the entry in one call ...
ReadStatus(i) ==
    /\ At(i, "status")
    /\ sends' = [sends EXCEPT ![i] = [at |-> "broadcast", status |-> StatusOf(entry)]]
    /\ UNCHANGED <<entry, server, snap, down, up, w, breaks, timeouts, handled, reported, abandoned>>

\* ... and broadcasts what it read, which may be old by then.
SendStatus(i) ==
    /\ At(i, "broadcast")
    /\ Broadcast(<<StatusMessage(sends[i].status)>>)
    /\ sends' = [sends EXCEPT ![i] = [at |-> "done"]]
    /\ UNCHANGED <<entry, server, snap, up, w, breaks, timeouts, handled, reported, abandoned>>

\* The recipient's channel handles the next message of the wrapper.
HandleAck ==
    /\ server = "live" /\ up # <<>> /\ Head(up).type = "ack"
    /\ entry' = AcknowledgeEntry(entry, Head(up).seq)
    /\ up' = Tail(up)
    /\ Broadcast(<<StatusMessage(StatusOf(entry'))>>)
    /\ UNCHANGED <<server, snap, sends, w, breaks, timeouts, handled, reported, abandoned>>

HandleResync ==
    /\ server = "live" /\ up # <<>> /\ Head(up).type = "resync"
    /\ LET m == Head(up)
           valid == m.request.cutoff <= entry.issued
           added == Unaccounted(entry, m.request.missing)
       IN  /\ entry' = IF valid THEN RetireEntry(entry, added) ELSE entry
           /\ reported' = IF valid THEN reported \cup (added \cap DOMAIN entry.metadata) ELSE reported
           /\ Broadcast((IF valid THEN <<StatusMessage(StatusOf(entry'))>> ELSE <<>>)
                        \o <<[type |-> "reply", ref |-> m.ref, ok |-> valid,
                              status |-> StatusOf(entry'), skipped |-> m.request.missing]>>)
    /\ up' = Tail(up)
    /\ UNCHANGED <<server, snap, sends, w, breaks, timeouts, handled, abandoned>>

\* The wrapper handles the next message of the server.
Deliver ==
    /\ down # <<>>
    /\ Run(OnMessage(w, Head(down)))
    /\ down' = Tail(down)
    /\ UNCHANGED <<entry, server, snap, sends, breaks, timeouts, handled, reported, abandoned>>

TimerFires ==
    /\ w.timer # None
    /\ Run(TimerCallback(w))
    /\ UNCHANGED <<entry, server, snap, down, sends, breaks, timeouts, handled, reported, abandoned>>

\* The push of a request times out: its answer is gone or merely slow.
Answerable ==
    \/ \E i \in DOMAIN up : up[i].type = "resync" /\ up[i].ref = w.ref
    \/ \E i \in DOMAIN down : down[i].type = "reply" /\ down[i].ref = w.ref

ReplyTimeout ==
    /\ w.inFlight /\ ~Answerable
    /\ Run(Finish[w])
    /\ UNCHANGED <<entry, server, snap, down, sends, breaks, timeouts, handled, reported, abandoned>>

SlowReply ==
    /\ w.inFlight /\ Answerable /\ MayFail
    /\ timeouts' = timeouts + 1
    /\ Run(Finish[w])
    /\ UNCHANGED <<entry, server, snap, down, sends, breaks, handled, reported, abandoned>>

\* The host starts a turn with a queued message, connected or not ...
Dispatch(seq) ==
    /\ seq \in w.inbox
    /\ Run(AcknowledgeEnvelope([w EXCEPT !.inbox = @ \ {seq}], seq))
    /\ handled' = handled \cup {seq}
    /\ UNCHANGED <<entry, server, snap, down, sends, breaks, timeouts, reported, abandoned>>

\* ... or an interrupt makes it give up everything queued.
Interrupt ==
    /\ w.inbox # {} /\ w.supported
    /\ Run(Retire([w EXCEPT !.inbox = {}], w.inbox))
    /\ UNCHANGED <<entry, server, snap, down, sends, breaks, timeouts, handled, reported, abandoned>>

\* The connection breaks: what is in the link is lost.
Break ==
    /\ server # "off" /\ MayFail
    /\ breaks' = breaks + 1
    /\ server' = "off" /\ snap' = None
    /\ down' = <<>> /\ up' = <<>>
    /\ w' = Disconnected(w)
    /\ UNCHANGED <<entry, sends, timeouts, handled, reported, abandoned>>

\* The wrapper process ends and another is started.  An orderly end of a
\* connection retires what is unaccounted for at once (terminate/2).
Die(orderly) ==
    /\ w.gen < MaxDeaths /\ MayFail
    /\ LET retires == orderly /\ server = "live"
           added == Unaccounted(entry, 1..entry.issued)
           rest == IF retires THEN added \cap DOMAIN entry.metadata ELSE {}
       IN  /\ entry' = IF retires THEN RetireEntry(entry, added) ELSE entry
           /\ reported' = reported \cup rest
           /\ abandoned' = abandoned \cup rest
    /\ w' = NewWrapper(w.gen + 1)
    /\ server' = "off" /\ snap' = None
    /\ down' = <<>> /\ up' = <<>>
    /\ UNCHANGED <<sends, breaks, timeouts, handled>>

-----------------------------------------------------------------------------
Next ==
    \/ JoinBind \/ Subscribe \/ AfterJoin
    \/ Preflight
    \/ \E i \in 1..MaxSeq : Issue(i) \/ Push(i) \/ ReadStatus(i) \/ SendStatus(i)
    \/ HandleAck \/ HandleResync
    \/ Deliver \/ TimerFires \/ ReplyTimeout \/ SlowReply
    \/ \E seq \in 1..MaxSeq : Dispatch(seq)
    \/ Interrupt
    \/ Break
    \/ \E orderly \in BOOLEAN : Die(orderly)

\* A process keeps running: a channel takes its steps, the client reconnects,
\* what is on the way arrives, armed timers fire, the host gets to its queue.
\* Sending, interrupting and failing are never required.
SenderStep(i) == Issue(i) \/ Push(i) \/ ReadStatus(i) \/ SendStatus(i)
ChannelStep == JoinBind \/ Subscribe \/ AfterJoin \/ HandleAck \/ HandleResync

Fairness ==
    /\ \A i \in 1..MaxSeq : WF_vars(SenderStep(i))
    /\ WF_vars(ChannelStep)
    /\ WF_vars(Deliver) /\ WF_vars(TimerFires) /\ WF_vars(ReplyTimeout)
    /\ \A seq \in 1..MaxSeq : WF_vars(Dispatch(seq))

Spec == Init /\ [][Next]_vars /\ Fairness

-----------------------------------------------------------------------------
(* Properties.                                                             *)

Accounted == IF entry = Absent THEN 0 ELSE entry.acked
Sent == IF entry = Absent THEN 0 ELSE entry.issued

\* The shape of the variables, and that handlers leave nothing unsent.
TypeOK ==
    /\ entry # Absent => IsEntry(entry) /\ EntryShape(entry)
    /\ server \in {"off", "bound", "subscribed", "live"}
    /\ w \in Wrapper /\ w.out = <<>>
    /\ (server = "off" => down = <<>> /\ up = <<>>)

\* The protocol implements MessageFate: each message is dispatched at most
\* once over reconnects, resyncs, late pushes and wrapper restarts, never
\* after it was reported lost, and the ledger's prefix covers only messages
\* that were dispatched or reported.
Fate == INSTANCE MessageFate WITH
    sent <- Sent, accounted <- Accounted,
    handled <- handled, reported <- reported, abandoned <- abandoned
ImplementsFate == Fate!Safe

\* Nothing is on the way or due: the channel is joined, the link is empty, no
\* sender is at work, the wrapper waits for no timer and no reply, and its host
\* has emptied its queue.
Quiet ==
    /\ server = "live" /\ down = <<>> /\ up = <<>>
    /\ \A i \in DOMAIN sends : sends[i].at = "done"
    /\ w.timer = None /\ ~w.inFlight /\ w.inbox = {}

\* No message is stuck: when nothing is on the way or due any more, the ledger has
\* accounted for all it has issued.  Nobody would ask again for one that it has
\* not, so whatever was lost or overtaken has left a timer, a request or an
\* acknowledgement behind.  The acknowledger keeps CompletionLimit completions
\* and forgets any further one, hence the second condition.
NothingStuck == Quiet /\ MaxSeq <= CompletionLimit => Accounted = Sent

\* The prefix never stalls: whatever is outstanding, the ledger has accounted
\* for everything in the end (sends are bounded, so none comes in for ever), by
\* an acknowledgement or a reported loss, although both are lost with the
\* connection that carried them and a push may miss the wrapper altogether.
EveryMessageAccounted == (Accounted < Sent) ~> (Accounted = Sent)
=============================================================================
