---------------------------- MODULE Conversation ----------------------------
(* One conversation of two agents: the server's entry for it                *)
(* (ConversationStates), the track each wrapper keeps of it (InterAgentTool) *)
(* and the reply basis that guards an ordinary send. The server decides one  *)
(* message at a time; a wrapper numbers its messages before it knows whether *)
(* they are accepted, and takes messages in while it waits for the answer.   *)
EXTENDS Integers, Sequences, FiniteSets

CONSTANTS
    Agents,         \* the two participants
    Starter,        \* the one that opens the conversation
    None,           \* no send is under way
    MaxTurns,       \* the server's hard limit on turns
    MaxSends,       \* bound: ordinary sends of the two agents together
    MaxFailures,    \* bound: turns of an agent that end in an error
    MaxFaults       \* bound: unanswered sends, refusals, restarts

ASSUME AgentsAssumption ==
    Starter \in Agents /\ IsFiniteSet(Agents) /\ Cardinality(Agents) = 2

VARIABLES
    conv,       \* the server's entry
    track,      \* each wrapper's ConversationTrack
    sending,    \* the send a wrapper holds its conversation lock for
    basis,      \* the newest ordinary message of the peer its agent has read
    handed,     \* what was handed to the host since: newest turn, and whether any
    owed,       \* the agent is in a turn a message of the peer started
    knows,      \* the agents that know the conversation's id
    up,         \* envelopes on the way to the server
    down,       \* envelopes of the peer's channel on the way to a wrapper
    closing,    \* the server's own notice of the end is on its way
    sends, failures, faults,
    silenced,   \* history: the end of the conversation was kept from the agent
    unheard,    \* history: an accepted message was dropped and its sender not told
    doubt       \* history: why the two ends may disagree (Doubts)

serverVars == <<conv>>
wrapperVars == <<track, sending, basis, handed, owed, knows>>
wireVars == <<up, down, closing>>
budgets == <<sends, failures, faults>>
history == <<silenced, unheard, doubt>>
vars == <<serverVars, wrapperVars, wireVars, budgets, history>>

Peer(a) == CHOOSE b \in Agents : b # a
MaxOf(m, n) == IF m > n THEN m ELSE n

Outcomes == {"none", "accepted", "refused", "conversation_closed", "unknown_conversation_id",
             "stale_reply_basis", "stale_turn"}
NoticeKinds == {"stale_delivery", "turn_failure"}

Sending == [turn : Nat, done : BOOLEAN, basis : Nat, new : BOOLEAN, flipped : BOOLEAN,
            blank : BOOLEAN, raced : BOOLEAN, ended : BOOLEAN, outcome : Outcomes]
Envelope == [kind : NoticeKinds \cup {"ordinary"}, turn : Nat \ {0}, done : BOOLEAN,
             basis : Nat, new : BOOLEAN, asked : BOOLEAN]
Inbound == [kind : NoticeKinds \cup {"ordinary", "end"}, turn : Nat, done : BOOLEAN]

ASSUME NoneAssumption == None \notin Sending

(* What the code gives no remedy for: a notice was refused; a report of a dropped *)
(* message, or a notice with the very number of a send under way, was dropped as   *)
(* stale; an answer did not come; one side restarted.                              *)
Doubts == {"notice", "untold", "crossed", "unknown", "restart"}

FreshTrack == [turn |-> 0, localDone |-> FALSE, remoteDone |-> FALSE, closed |-> FALSE]
NoConversation == [status |-> "none", turns |-> 0, max |-> 0,
                   ordinary |-> [a \in Agents |-> 0], doneBy |-> {}]

-----------------------------------------------------------------------------
(* The server                                                               *)

(* decide_record/9: why a message is turned down, in the order of the checks. *)
Rejection(a, m) ==
    IF conv.status = "closed" THEN "conversation_closed"
    ELSE IF conv.status = "none" /\ ~m.new THEN "unknown_conversation_id"
    ELSE IF m.kind = "ordinary" /\ m.basis # conv.ordinary[Peer(a)] THEN "stale_reply_basis"
    ELSE IF conv.status = "open" /\ m.turn <= conv.max THEN "stale_turn"
    ELSE "none"

Recorded(a, m) ==
    [status |-> "open",
     turns |-> conv.turns + 1,
     max |-> m.turn,
     ordinary |-> IF m.kind = "ordinary" THEN [conv.ordinary EXCEPT ![a] = m.turn]
                  ELSE conv.ordinary,
     doneBy |-> IF m.done THEN conv.doneBy \cup {a} ELSE conv.doneBy]

Exceeded(entry) == entry.turns > MaxTurns

Evaluated(entry) ==
    IF Exceeded(entry) \/ entry.doneBy = Agents THEN [entry EXCEPT !.status = "closed"]
    ELSE entry

(* The answer reaches the wrapper only if the send still waits for it. *)
Answered(a, m, outcome) ==
    IF m.asked THEN [sending EXCEPT ![a].outcome = outcome] ELSE sending

EndNotice == [kind |-> "end", turn |-> 0, done |-> TRUE]

(* The channel of a takes its next envelope: preflight, the decision, and for  *)
(* an accepted one the push to the peer, with the notices of a hard limit.     *)
Record(a) ==
    /\ up[a] # <<>>
    /\ LET m == Head(up[a])
           why == Rejection(a, m)
           entry == Recorded(a, m)
           sent == [kind |-> m.kind, turn |-> m.turn, done |-> m.done]
       IN /\ up' = [up EXCEPT ![a] = Tail(@)]
          /\ IF why # "none"
             THEN /\ sending' = Answered(a, m, why)
                  /\ doubt' = IF m.kind = "ordinary" THEN doubt ELSE doubt \cup {"notice"}
                  /\ UNCHANGED <<conv, down, closing>>
             ELSE /\ sending' = Answered(a, m, "accepted")
                  /\ conv' = Evaluated(entry)
                  /\ down' = [down EXCEPT ![Peer(a)] =
                                @ \o <<sent>> \o (IF Exceeded(entry) THEN <<EndNotice>> ELSE <<>>)]
                  /\ closing' = [closing EXCEPT ![a] = @ \/ Exceeded(entry)]
                  /\ UNCHANGED doubt
    /\ UNCHANGED <<track, basis, handed, owed, knows, budgets, silenced, unheard>>

(* Preflight refuses before the tracker is asked (recipient disconnected or    *)
(* reconnecting, backlog full). Nobody hears of a notice that is refused.      *)
Refuse(a) ==
    /\ up[a] # <<>>
    /\ faults < MaxFaults
    /\ faults' = faults + 1
    /\ up' = [up EXCEPT ![a] = Tail(@)]
    /\ sending' = Answered(a, Head(up[a]), "refused")
    /\ doubt' = IF Head(up[a]).kind = "ordinary" THEN doubt ELSE doubt \cup {"notice"}
    /\ UNCHANGED <<conv, track, basis, handed, owed, knows, down, closing, sends, failures,
                   silenced, unheard>>

(* The operator closes the conversation, or the collector finds it too old;    *)
(* both tell each participant.                                                 *)
CloseByServer ==
    /\ conv.status = "open"
    /\ conv' = [conv EXCEPT !.status = "closed"]
    /\ closing' = [a \in Agents |-> TRUE]
    /\ UNCHANGED <<wrapperVars, up, down, budgets, history>>

(* The tracker's process restarts: it keeps its entries in memory only.        *)
TrackerRestart ==
    /\ conv.status # "none"
    /\ faults < MaxFaults
    /\ faults' = faults + 1
    /\ conv' = NoConversation
    /\ doubt' = doubt \cup {"restart"}
    /\ UNCHANGED <<wrapperVars, wireVars, sends, failures, silenced, unheard>>

-----------------------------------------------------------------------------
(* A wrapper sends                                                          *)

MutantNextTurn(t) == t.turn

(* A message's number is one past the newest its wrapper has sent or seen. *)
NextTurn(t) == t.turn + 1

Gated(a) == sending[a] # None /\ sending[a].flipped

(* invoke under the conversation's lock: the number is taken and a done is      *)
(* believed before the answer. `raced` is `mutationGen # genAtDispatch`;         *)
(* `ended`, that the turn of the agent the send belongs to is over.             *)
Invoke(a) ==
    /\ sends < MaxSends
    /\ sending[a] = None
    /\ ~track[a].closed
    /\ a = Starter \/ a \in knows
    /\ knows' = knows \cup {a}
    /\ sends' = sends + 1
    /\ \E done \in BOOLEAN :
          LET t == track[a]
              flips == done /\ ~t.localDone
          IN /\ track' = [track EXCEPT ![a] =
                           [t EXCEPT !.turn = NextTurn(t),
                                     !.localDone = @ \/ done,
                                     !.closed = flips /\ t.remoteDone]]
             /\ sending' = [sending EXCEPT ![a] =
                             [turn |-> NextTurn(t), done |-> done, basis |-> basis[a],
                              new |-> a \notin knows,
                              flipped |-> flips, blank |-> t = FreshTrack,
                              raced |-> FALSE, ended |-> FALSE, outcome |-> "none"]]
    /\ UNCHANGED <<serverVars, basis, handed, owed, wireVars, failures, faults, history>>

Dispatched(a) == \E i \in DOMAIN up[a] : up[a][i].asked

(* After validateBeforeSend, which the wrapper awaits, the envelope leaves ...  *)
Prepared(a) == sending[a] # None /\ sending[a].outcome = "none" /\ ~Dispatched(a)

Dispatch(a) ==
    /\ Prepared(a)
    /\ ~sending[a].ended
    /\ up' = [up EXCEPT ![a] = Append(@,
               [kind |-> "ordinary", turn |-> sending[a].turn, done |-> sending[a].done,
                basis |-> sending[a].basis, new |-> sending[a].new, asked |-> TRUE])]
    /\ UNCHANGED <<serverVars, wrapperVars, down, closing, budgets, history>>

(* ... unless its turn has ended: beforeSend rejects it.                        *)
RejectHere(a) ==
    /\ Prepared(a)
    /\ sending[a].ended
    /\ sending' = [sending EXCEPT ![a].outcome = "refused"]
    /\ UNCHANGED <<serverVars, track, basis, handed, owed, knows, wireVars, budgets, history>>

MutantRolledBack(t, s) == t

(* A rejected number is taken back, unless something came in meanwhile or the   *)
(* track has gone past it.                                                      *)
RolledBack(t, s) == IF ~s.raced /\ t.turn = s.turn THEN [t EXCEPT !.turn = @ - 1] ELSE t

MutantAfterRejection(t, s) ==
    IF s.outcome = "conversation_closed" THEN [RolledBack(t, s) EXCEPT !.closed = TRUE]
    ELSE IF s.blank THEN FreshTrack
    ELSE IF s.flipped THEN [RolledBack(t, s) EXCEPT !.localDone = FALSE, !.closed = FALSE]
    ELSE RolledBack(t, s)

(* A closed conversation is learned; a track on which nothing had happened is   *)
(* blank again; a done that was not accepted was not said.                      *)
AfterRejection(t, s) ==
    IF s.outcome = "conversation_closed" THEN [RolledBack(t, s) EXCEPT !.closed = TRUE]
    ELSE IF s.blank /\ ~s.raced THEN FreshTrack
    ELSE IF s.flipped THEN [RolledBack(t, s) EXCEPT !.localDone = FALSE, !.closed = FALSE]
    ELSE RolledBack(t, s)

(* A send that may have arrived answers the message its turn began with. *)
Settled(a) == [owed EXCEPT ![a] = @ /\ sending[a].ended]

(* The answer arrives: invoke goes on, then opens its gate and its lock.        *)
Resolve(a) ==
    /\ sending[a] # None
    /\ sending[a].outcome # "none"
    /\ sending' = [sending EXCEPT ![a] = None]
    /\ IF sending[a].outcome = "accepted"
       THEN /\ owed' = Settled(a)
            /\ UNCHANGED track
       ELSE /\ track' = [track EXCEPT ![a] = AfterRejection(@, sending[a])]
            /\ UNCHANGED owed
    /\ UNCHANGED <<serverVars, basis, handed, knows, wireVars, budgets, history>>

(* No answer in time: the outcome is unknown and the track stays as it is. The  *)
(* envelope may be lost or may still be recorded, and its answer is ignored.    *)
GiveUp(a) ==
    /\ Dispatched(a) \/ (sending[a] # None /\ sending[a].outcome # "none")
    /\ faults < MaxFaults
    /\ faults' = faults + 1
    /\ sending' = [sending EXCEPT ![a] = None]
    /\ owed' = Settled(a)
    /\ doubt' = doubt \cup {"unknown"}
    /\ \/ up' = [up EXCEPT ![a] = [i \in DOMAIN @ |-> [@[i] EXCEPT !.asked = FALSE]]]
       \/ up' = [up EXCEPT ![a] = <<>>]
    /\ UNCHANGED <<serverVars, track, basis, handed, knows, down, closing, sends, failures,
                   silenced, unheard>>

-----------------------------------------------------------------------------
(* A wrapper receives                                                       *)

(* mutationGen advances: the send under way is told so. *)
Raced(a) == IF sending[a] = None THEN sending ELSE [sending EXCEPT ![a].raced = TRUE]

Notice(kind, turn) ==
    [kind |-> kind, turn |-> turn, done |-> FALSE, basis |-> 0, new |-> FALSE, asked |-> FALSE]

MutantMayReceive(a) == TRUE

(* The done gate: nothing is taken in while a done of its own is unconfirmed. *)
MayReceive(a) == ~Gated(a)

Stale(a, m) == m.kind # "end" /\ m.turn <= track[a].turn

MutantIsSilent(a, m) == TRUE

(* A notice about a notice would never end; a closed conversation needs none. *)
IsSilent(a, m) == m.kind \in NoticeKinds \/ track[a].closed

(* The number of a notice is the one the send under way was given; since the      *)
(* server has recorded the notice, that send is or will be turned down.            *)
Crosses(a, m) ==
    /\ m.kind \in NoticeKinds
    /\ sending[a] # None /\ sending[a].outcome # "accepted"
    /\ m.turn = sending[a].turn /\ m.turn = track[a].turn

(* What stays unknown to a when the notice m is dropped.                          *)
Missed(a, m) ==
    {d \in Doubts : \/ d = "untold" /\ m.kind = "stale_delivery"
                    \/ d = "crossed" /\ Crosses(a, m)}

(* A stale message is dropped. Its sender is told, with a number of this         *)
(* wrapper's own, unless it is a notice or the conversation is over here.       *)
Drop(a, m) ==
    /\ Stale(a, m)
    /\ IF IsSilent(a, m)
       THEN /\ doubt' = doubt \cup Missed(a, m)
            /\ UNCHANGED <<track, sending, up>>
       ELSE /\ track' = [track EXCEPT ![a].turn = NextTurn(track[a])]
            /\ sending' = Raced(a)
            /\ up' = [up EXCEPT ![a] = Append(@, Notice("stale_delivery", NextTurn(track[a])))]
            /\ UNCHANGED doubt
    /\ unheard' = IF m.kind = "ordinary" THEN unheard \cup {Peer(a)} ELSE unheard
    /\ UNCHANGED <<handed, silenced>>

Heard(t, m) ==
    LET remote == t.remoteDone \/ m.done
    IN [t EXCEPT !.turn = MaxOf(@, m.turn),
                 !.remoteDone = remote,
                 !.closed = @ \/ (t.localDone /\ remote) \/ m.kind = "end"]

(* A message that is not stale is learned from, and handed to the agent unless  *)
(* the conversation is over.                                                    *)
Take(a, m) ==
    /\ ~Stale(a, m)
    /\ LET t == Heard(track[a], m)
       IN /\ track' = [track EXCEPT ![a] = t]
          /\ sending' = IF t = track[a] THEN sending ELSE Raced(a)
          /\ IF t.closed
             THEN /\ silenced' = silenced \cup {a}
                  /\ UNCHANGED handed
             ELSE /\ handed' = [handed EXCEPT ![a] =
                        [wake |-> TRUE,
                         turn |-> IF m.kind = "ordinary" THEN MaxOf(@.turn, m.turn) ELSE @.turn]]
                  /\ UNCHANGED silenced
    /\ unheard' = IF m.kind = "stale_delivery" THEN unheard \ {a} ELSE unheard
    /\ UNCHANGED <<up, doubt>>

(* receiveInbound: the wrapper takes the peer's next envelope, or the server's   *)
(* notice of the end, but not while a done of its own is unconfirmed.           *)
Receive(a) ==
    /\ MayReceive(a)
    /\ \/ /\ down[a] # <<>>
          /\ Drop(a, Head(down[a])) \/ Take(a, Head(down[a]))
          /\ down' = [down EXCEPT ![a] = Tail(@)]
          /\ UNCHANGED closing
       \/ /\ closing[a]
          /\ Take(a, EndNotice)
          /\ closing' = [closing EXCEPT ![a] = FALSE]
          /\ UNCHANGED down
    /\ UNCHANGED <<serverVars, basis, owed, knows, budgets>>

Ended(a) == IF sending[a] = None THEN sending ELSE [sending EXCEPT ![a].ended = TRUE]

(* The agent's next turn begins with what was handed over; only now does it      *)
(* count as read, and the turn before has ended.                                *)
BeginTurn(a) ==
    /\ handed[a].wake
    /\ handed' = [handed EXCEPT ![a] = [wake |-> FALSE, turn |-> 0]]
    /\ basis' = [basis EXCEPT ![a] = MaxOf(@, handed[a].turn)]
    /\ owed' = [owed EXCEPT ![a] = TRUE]
    /\ knows' = knows \cup {a}
    /\ sending' = Ended(a)
    /\ UNCHANGED <<serverVars, track, wireVars, budgets, history>>

(* resolveTurnEnd: the turn ends in an error before the agent has answered; the  *)
(* peer is told. The number is taken and mutationGen is not advanced.           *)
TurnFails(a) ==
    /\ owed[a]
    /\ failures < MaxFailures
    /\ failures' = failures + 1
    /\ owed' = [owed EXCEPT ![a] = FALSE]
    /\ track' = [track EXCEPT ![a].turn = NextTurn(track[a])]
    /\ up' = [up EXCEPT ![a] = Append(@, Notice("turn_failure", NextTurn(track[a])))]
    /\ sending' = Ended(a)
    /\ UNCHANGED <<serverVars, basis, handed, knows, down, closing, sends, faults, history>>

(* The wrapper process is replaced: tracks, reply basis and sends are gone, what *)
(* the server has for it is delivered again.                                    *)
WrapperRestart(a) ==
    /\ track[a] # FreshTrack
    /\ faults < MaxFaults
    /\ faults' = faults + 1
    /\ track' = [track EXCEPT ![a] = FreshTrack]
    /\ sending' = [sending EXCEPT ![a] = None]
    /\ basis' = [basis EXCEPT ![a] = 0]
    /\ handed' = [handed EXCEPT ![a] = [wake |-> FALSE, turn |-> 0]]
    /\ owed' = [owed EXCEPT ![a] = FALSE]
    /\ up' = [up EXCEPT ![a] = <<>>]
    /\ silenced' = silenced \ {a}
    /\ doubt' = doubt \cup {"restart"}
    /\ UNCHANGED <<serverVars, knows, down, closing, sends, failures, unheard>>

-----------------------------------------------------------------------------
Init ==
    /\ conv = NoConversation
    /\ track = [a \in Agents |-> FreshTrack]
    /\ sending = [a \in Agents |-> None]
    /\ basis = [a \in Agents |-> 0]
    /\ handed = [a \in Agents |-> [wake |-> FALSE, turn |-> 0]]
    /\ owed = [a \in Agents |-> FALSE]
    /\ knows = {}
    /\ up = [a \in Agents |-> <<>>]
    /\ down = [a \in Agents |-> <<>>]
    /\ closing = [a \in Agents |-> FALSE]
    /\ sends = 0 /\ failures = 0 /\ faults = 0
    /\ silenced = {} /\ unheard = {} /\ doubt = {}

Next ==
    \/ CloseByServer
    \/ TrackerRestart
    \/ \E a \in Agents :
          \/ Record(a) \/ Refuse(a)
          \/ Invoke(a) \/ Dispatch(a) \/ RejectHere(a) \/ Resolve(a) \/ GiveUp(a)
          \/ Receive(a) \/ BeginTurn(a) \/ TurnFails(a) \/ WrapperRestart(a)

Spec == Init /\ [][Next]_vars

-----------------------------------------------------------------------------
(* The types of the variables. The numbers on the wire are positive: zero is the  *)
(* server's own.                                                                   *)
TypeOK ==
    /\ conv \in [status : {"none", "open", "closed"}, turns : Nat, max : Nat,
                 ordinary : [Agents -> Nat], doneBy : SUBSET Agents]
    /\ track \in [Agents -> [turn : Nat, localDone : BOOLEAN, remoteDone : BOOLEAN,
                             closed : BOOLEAN]]
    /\ sending \in [Agents -> Sending \cup {None}]
    /\ basis \in [Agents -> Nat]
    /\ handed \in [Agents -> [wake : BOOLEAN, turn : Nat]]
    /\ owed \in [Agents -> BOOLEAN] /\ knows \in SUBSET Agents
    /\ up \in [Agents -> Seq(Envelope)] /\ down \in [Agents -> Seq(Inbound)]
    /\ closing \in [Agents -> BOOLEAN]
    /\ silenced \in SUBSET Agents /\ unheard \in SUBSET Agents
    /\ doubt \in SUBSET Doubts

(* When a wrapper takes the conversation as over, and keeps the message that     *)
(* says so from its agent, the server has ended it: a done that is believed       *)
(* before it is accepted never passes for an agreement. A send whose outcome is   *)
(* unknown is the exception, since a done may have been lost.                      *)
EndIsReal ==
    "unknown" \notin doubt =>
        \A a \in Agents :
            a \in silenced \/ (track[a].closed /\ ~Gated(a)) => conv.status # "open"

(* What a wrapper has learned about the end is never undone by the answer to a   *)
(* send that was under way (inter_agent.ts, review notes at genAtDispatch).        *)
EndIsKept ==
    [][\A a \in Agents : track[a].closed /\ ~Gated(a) =>
          track'[a].closed \/ WrapperRestart(a)]_vars

(* Nothing is on its way and nobody is about to read or hear anything. *)
Quiet ==
    \A a \in Agents : sending[a] = None /\ up[a] = <<>> /\ down[a] = <<>> /\ ~closing[a]
                      /\ ~handed[a].wake

(* The drop of a message that was accepted is not silent: once all is quiet its  *)
(* sender has been told. The exceptions are those of Doubts: the report was itself *)
(* refused or dropped as stale, an answer was given up, or a side restarted.       *)
DropReported ==
    Quiet /\ conv.status = "open" /\ doubt = {} => unheard = {}

(* The next ordinary send of a is accepted and is not stale at its peer. *)
CanSpeak(a) ==
    /\ track[a].turn >= conv.max
    /\ basis[a] = conv.ordinary[Peer(a)]
    /\ track[Peer(a)].turn <= track[a].turn

(* An open conversation does not wedge: once all is quiet both counters are level *)
(* with the server's and one of the agents can go on, also after sends that        *)
(* crossed, were dropped or rejected, and after reports that were dropped. Not so   *)
(* after four events. A notice that is refused, an answer that is given up and a    *)
(* restart leave the counters apart. And a notice dropped with the very number of a *)
(* send under way can wedge a conversation in the code: the drop does not advance  *)
(* mutationGen, the send is rejected as stale_turn, and its number is taken back    *)
(* below one the server has recorded, for good if the peer does not speak.          *)
SomeoneCanSpeak ==
    Quiet /\ conv.status = "open" /\ doubt \subseteq {"untold"} =>
        /\ \E a \in Agents : CanSpeak(a)
        /\ \A a \in Agents : track[a].turn >= conv.max

=============================================================================
