------------------------- MODULE DeliveryLedgerProofs -------------------------
(***************************************************************************)
(* The ledger's type invariant and the consistency of its entries, for any *)
(* agents, channels, generations and limits.                               *)
(*                                                                         *)
(* Neither is inductive alone: the prefix of an entry is a natural number  *)
(* after advance_skipped only because the accounted numbers are bounded    *)
(* (EntryShape), and an entry is consistent after a multi-write handler    *)
(* only because what the handler is about to store is (JobShape).          *)
(***************************************************************************)
EXTENDS DeliveryLedger, DeliveryEntryProofs, SequenceTheorems

Stored(e) == e = Absent \/ Good(e)

EntriesOK ==
    /\ entries = [a \in Agents |-> entries[a]]
    /\ \A a \in Agents : Stored(entries[a])

JobOK == job # Idle => IsJob(job) /\ JobShape

LossesOK == IsMap(losses, Revision, Loss)

CallersOK ==
    /\ owners \in [Agents -> Chans \cup {None}]
    /\ reservations \in [Chans -> Reservation \cup {None}]
    /\ incs \in Nat /\ tokens \in Nat /\ crashes \in Nat
    /\ chan \in [Chans -> Channel \cup {None}]
    /\ known \in [Agents -> Chans \cup {None}] /\ revoked \subseteq Agents /\ purging \subseteq Agents
    /\ hold \in [Chans -> Hold \cup {None}]
    /\ disp \in Dispatch \cup {None}
    /\ binder \in [Agents -> Chans \cup {None}]

HistoryOK == origins \subseteq Revision /\ settled \subseteq Revision /\ confirmed \subseteq Revision

TypeInv == EntriesOK /\ JobOK /\ LossesOK /\ CallersOK /\ HistoryOK

\* TypeInv is the two invariants of the runs and JobShape.
LEMMA TypeInvMeans == TypeInv <=> TypeOK /\ EntriesConsistent /\ JobShape
  BY DEF TypeInv, EntriesOK, JobOK, LossesOK, CallersOK, HistoryOK, TypeOK,
         EntriesConsistent, JobShape, Stored, IsStored, Good

\* The ledger starts empty.
LEMMA InitTyped == Init => TypeInv
<1> SUFFICES ASSUME Init PROVE TypeInv
  OBVIOUS
<1>1. EntriesOK
  BY DEF Init, EntriesOK, Stored
<1>2. JobOK
  BY DEF Init, JobOK
<1>3. LossesOK
  BY EmptyIsMap DEF Init, LossesOK
<1>4. CallersOK
  BY DEF Init, CallersOK
<1>5. HistoryOK
  BY DEF Init, HistoryOK
<1> QED  BY <1>1, <1>2, <1>3, <1>4, <1>5 DEF TypeInv

-----------------------------------------------------------------------------
(* Typing of the pieces handlers compute.                                  *)

\* The revision of an issued number is a revision.
LEMMA RevisionTyped ==
  ASSUME NEW a \in Agents, NEW e, IsEntry(e), NEW s \in Seqs
  PROVE  RevisionOf(a, e, s) \in Revision
<1>1. e.inc \in Nat /\ e.gen \in Gens
  BY EntryFields
<1> QED  BY <1>1 DEF RevisionOf, Revision

\* A retired number's intent is a loss.
LEMMA IntentTyped ==
  ASSUME NEW a \in Agents, NEW e, IsEntry(e), NEW s \in DOMAIN e.metadata
  PROVE  LossIntent(a, e, s) \in Loss /\ Origin(a, e, s) \in Revision /\ s \in Seqs
<1>1. IsMap(e.metadata, Seqs, Descriptor)
  BY EntryFields
<1>2. s \in Seqs /\ e.metadata[s] \in Descriptor
  BY <1>1 DEF IsMap
<1>3. RevisionOf(a, e, s) \in Revision
  BY <1>2, RevisionTyped
<1>4. e.metadata[s].loss_id # None => e.metadata[s].loss_id \in Revision
  BY <1>2 DEF Descriptor
<1> HIDE DEF Revision, Descriptor
<1> QED  BY <1>2, <1>3, <1>4 DEF LossIntent, Loss, Origin

\* So is the set of intents of a handler.
LEMMA IntentsTyped ==
  ASSUME NEW a \in Agents, NEW e, IsEntry(e), NEW S
  PROVE  LossIntents(a, e, S) \in SUBSET Loss
  BY IntentTyped DEF LossIntents

\* A handler that begins is a well-formed job.
LEMMA BeginTyped ==
  ASSUME EntriesOK, NEW a \in Agents, NEW S, NEW commits,
         \/ \E x : Stored(x) /\ commits = <<x>>
         \/ \E x, y : Stored(x) /\ Stored(y) /\ commits = <<x, y>>,
         NEW client \in Chans \cup {None}, NEW bind \in Channel \cup {None},
         Begin(a, S, commits, client, bind)
  PROVE  JobOK'
<1> DEFINE I == IF entries[a] = Absent THEN {} ELSE LossIntents(a, entries[a], S)
<1>1. I \in SUBSET Loss
  <2>1. CASE entries[a] = Absent
    BY <2>1
  <2>2. CASE entries[a] # Absent
    <3>1. IsEntry(entries[a])
      BY <2>2 DEF EntriesOK, Stored, Good
    <3>2. LossIntents(a, entries[a], S) \in SUBSET Loss
      BY <3>1, IntentsTyped
    <3> QED  BY <2>2, <3>2
  <2> QED  BY <2>1, <2>2
<1>2. job' = [agent |-> a, intents |-> I, commits |-> commits, client |-> client, bind |-> bind]
  BY DEF Begin
<1> HIDE DEF I
<1>3. job' \in [agent : Agents, intents : SUBSET Loss, commits : {job'.commits},
                client : Chans \cup {None}, bind : Channel \cup {None}]
  BY <1>1, <1>2
<1>4. job'.commits = commits
  BY <1>2
<1>5. CASE \E x : Stored(x) /\ commits = <<x>>
  <2>1. PICK x : Stored(x) /\ commits = <<x>>
    BY <1>5
  <2>2. commits[1] = x /\ DOMAIN commits = {1}
    BY <2>1
  <2>3. IsJob(job')
    BY <1>3, <1>4, <2>1, <2>2 DEF IsJob, Stored, IsStored, Good
  <2>4. JobShape'
    BY <1>4, <2>1, <2>2 DEF JobShape, Stored, Good
  <2> QED  BY <2>3, <2>4 DEF JobOK
<1>6. CASE \E x, y : Stored(x) /\ Stored(y) /\ commits = <<x, y>>
  <2>1. PICK x, y : Stored(x) /\ Stored(y) /\ commits = <<x, y>>
    BY <1>6
  <2>2. commits[1] = x /\ commits[2] = y /\ DOMAIN commits = {1, 2}
    BY <2>1
  <2>3. IsJob(job')
    BY <1>3, <1>4, <2>1, <2>2 DEF IsJob, Stored, IsStored, Good
  <2>4. JobShape'
    BY <1>4, <2>1, <2>2 DEF JobShape, Stored, Good
  <2> QED  BY <2>3, <2>4 DEF JobOK
<1> QED  BY <1>5, <1>6

\* retire_generation/3 in front of storing final is a well-formed job.
LEMMA RetireThenTyped ==
  ASSUME EntriesOK, NEW a \in Agents, NEW g, NEW final, Stored(final),
         NEW client \in Chans \cup {None}, NEW bind \in Channel \cup {None},
         RetireThen(a, g, final, client, bind)
  PROVE  JobOK'
<1> DEFINE e == entries[a]
<1>1. CASE RetiresGeneration(e, g)
  <2>1. Good(e)
    BY <1>1 DEF EntriesOK, Stored, RetiresGeneration
  <2>2. Stored(RecordLosses(e, DOMAIN e.metadata))
    BY <2>1, RecordAllGood DEF Stored
  <2>3. Begin(a, DOMAIN e.metadata, <<RecordLosses(e, DOMAIN e.metadata), final>>, client, bind)
    BY <1>1 DEF RetireThen
  <2> QED  BY <2>2, <2>3, BeginTyped
<1>2. CASE ~RetiresGeneration(e, g)
  <2>1. Begin(a, {}, <<final>>, client, bind)
    BY <1>2 DEF RetireThen
  <2> QED  BY <2>1, BeginTyped
<1> QED  BY <1>1, <1>2

\* Storing a well-formed entry for an agent keeps the table well formed.
LEMMA StoreTyped ==
  ASSUME EntriesOK, NEW a \in Agents, NEW n, Stored(n), entries' = [entries EXCEPT ![a] = n]
  PROVE  EntriesOK'
<1>1. \A b \in Agents : entries'[b] = IF b = a THEN n ELSE entries[b]
  BY DEF EntriesOK
<1>2. entries' = [b \in Agents |-> entries'[b]]
  BY DEF EntriesOK
<1> QED  BY <1>1, <1>2 DEF EntriesOK

\* The history of confirmed numbers stays within the revisions.
LEMMA ConfirmTyped ==
  ASSUME HistoryOK, NEW a \in Agents, IsEntry(entries[a]), NEW S, S \subseteq DOMAIN entries[a].metadata,
         Confirm(a, S), UNCHANGED origins
  PROVE  HistoryOK'
<1>1. \A s \in S : Origin(a, entries[a], s) \in Revision /\ RevisionOf(a, entries[a], s) \in Revision
  BY IntentTyped, RevisionTyped
<1> QED  BY <1>1 DEF Confirm, HistoryOK

\* Numbering a message keeps the table and the history well formed.
LEMMA IssueToTyped ==
  ASSUME EntriesOK, HistoryOK, NEW a \in Agents, NEW d \in Descriptor \cup {None},
         d # None => d \in Descriptor /\ (d.early => d.sender \in Agents),
         IssueTo(a, d), UNCHANGED confirmed
  PROVE  EntriesOK' /\ HistoryOK'
<1> DEFINE e == entries[a]
           n == IssueWithMetadata(e, d)
<1>1. CASE e = Absent
  <2>1. entries' = entries
    BY <1>1 DEF IssueTo
  <2>2. settled' \subseteq settled \cup {d.loss_id} /\ (settled' # settled => d # None /\ d.loss_id # None)
    BY <1>1 DEF IssueTo
  <2>3. origins' = origins
    BY <1>1 DEF IssueTo
  <2>4. d # None /\ d.loss_id # None => d.loss_id \in Revision
    BY DEF Descriptor
  <2>5. settled' \subseteq Revision
    BY <2>2, <2>4 DEF HistoryOK
  <2> QED  BY <2>1, <2>3, <2>5 DEF EntriesOK, HistoryOK
<1>2. CASE e # Absent
  <2>1. Good(e)
    BY <1>2 DEF EntriesOK, Stored
  <2>2. Good(n)
    BY <2>1, IssueGood
  <2>3. EntriesOK'
    <3>1. entries' = [entries EXCEPT ![a] = n]
      BY <1>2 DEF IssueTo
    <3> HIDE DEF n
    <3> QED  BY <2>2, <3>1, StoreTyped DEF Stored
  <2>4. settled' \subseteq Revision
    <3>1. settled' \subseteq settled \cup {d.loss_id} /\ (settled' # settled => d # None /\ d.loss_id # None)
      BY <1>2 DEF IssueTo
    <3>2. d # None /\ d.loss_id # None => d.loss_id \in Revision
      BY DEF Descriptor
    <3> QED  BY <3>1, <3>2 DEF HistoryOK
  <2>5. origins' \subseteq Revision
    <3>1. CASE e.resync /\ d # None
      <4>1. origins' = origins \cup {Origin(a, n, n.issued)}
        BY <1>2, <3>1 DEF IssueTo
      <4>2. n.issued = e.issued + 1 /\ n.metadata = Put(e.metadata, e.issued + 1, d)
        <5>1. IsEntry(e)
          BY <2>1 DEF Good
        <5> QED  BY <3>1, <5>1 DEF IssueWithMetadata, IsEntry
      <4>3. n.issued \in DOMAIN n.metadata
        BY <4>2 DEF Put
      <4> HIDE DEF n
      <4>4. Origin(a, n, n.issued) \in Revision
        BY <2>2, <4>3, IntentTyped DEF Good
      <4> QED  BY <4>1, <4>4 DEF HistoryOK
    <3>2. CASE ~(e.resync /\ d # None)
      <4>1. origins' = origins
        BY <1>2, <3>2 DEF IssueTo
      <4> QED  BY <4>1 DEF HistoryOK
    <3> QED  BY <3>1, <3>2
  <2> QED  BY <2>3, <2>4, <2>5 DEF HistoryOK
<1> QED  BY <1>1, <1>2

-----------------------------------------------------------------------------
(* One lemma per action, or per group of actions that touch the same parts. *)

USE DEF tableVars, volatileVars, agentVars, historyVars

\* Joining begins with the check.
LEMMA JoinTyped ==
  ASSUME TypeInv, NEW c \in Chans, NEW a \in Agents, NEW g \in Gens, NEW m \in Modes, Join(c, a, g, m)
  PROVE  TypeInv'
<1> DEFINE r == [agent |-> a, gen |-> g, token |-> 0, mode |-> m, phase |-> "checked"]
<1>1. r \in Channel
  BY DEF Channel, Phases
<1>2. chan' = [chan EXCEPT ![c] = r]
  BY DEF Join
<1> HIDE DEF r
<1>3. chan' \in [Chans -> Channel \cup {None}]
  BY <1>1, <1>2 DEF TypeInv, CallersOK
<1>4. UNCHANGED <<entries, losses, owners, reservations, job, incs, tokens, crashes, known, revoked, purging,
                  hold, disp, origins, settled, confirmed, binder>>
  BY DEF Join
<1> QED  BY <1>3, <1>4 DEF TypeInv, EntriesOK, JobOK, JobShape, LossesOK, CallersOK, HistoryOK

\* Binding starts a job and draws an incarnation and a token.
LEMMA BindTyped ==
  ASSUME TypeInv, NEW c \in Chans, Bind(c)
  PROVE  TypeInv'
<1> DEFINE a == chan[c].agent
           g == chan[c].gen
           m == chan[c].mode
           b(t) == [chan[c] EXCEPT !.token = t, !.phase = "bound"]
<1>0. chan[c] \in Channel
  BY DEF Bind, TypeInv, CallersOK
<1>1. a \in Agents /\ g \in Gens
  BY <1>0 DEF Channel
<1>3. EntriesOK /\ incs \in Nat /\ tokens \in Nat
  BY DEF TypeInv, CallersOK
<1>4. entries[a] # Absent => Good(entries[a])
  BY <1>1, <1>3 DEF EntriesOK, Stored
<1>5. JobOK' /\ incs' \in Nat /\ tokens' \in Nat
  <2>1. CASE m = "resync"
    <3> DEFINE final == BindResyncEntry(entries[a], g, incs, tokens + 1)
    <3>1. RetireThen(a, g, final, c, b(tokens + 1)) /\ incs' = incs + 1 /\ tokens' = tokens + 1
      BY <2>1 DEF Bind
    <3>2. Stored(final)
      <4>1. tokens + 1 \in Nat
        BY <1>3
      <4> HIDE DEF a, g
      <4> QED  BY <1>1, <1>3, <1>4, <4>1, BindResyncGood DEF Stored
    <3>3. b(tokens + 1) \in Channel
      <4>1. tokens + 1 \in Nat
        BY <1>3
      <4> QED  BY <1>0, <4>1 DEF Channel, Phases
    <3>4. incs' \in Nat /\ tokens' \in Nat
      BY <1>3, <3>1
    <3> HIDE DEF final, a, g, b
    <3> QED  BY <1>1, <1>3, <3>1, <3>2, <3>3, <3>4, RetireThenTyped
  <2>2. CASE m = "ack"
    <3> DEFINE old == IF entries[a] = Absent THEN Absent
                      ELSE RecordLosses(entries[a], DOMAIN entries[a].metadata)
               final == BindEntry(old, g, incs)
    <3>1. RetireThen(a, None, final, c, b(0)) /\ incs' = incs + 1 /\ tokens' = tokens
      BY <2>2 DEF Bind
    <3>2. Stored(final)
      <4>1. old # Absent => Good(old) /\ DOMAIN old.metadata = {}
        BY <1>4, RecordAllGood
      <4> HIDE DEF old, a, g
      <4> QED  BY <1>1, <1>3, <4>1, BindGood DEF Stored
    <3>3. b(0) \in Channel
      BY <1>0 DEF Channel, Phases
    <3>4. incs' \in Nat /\ tokens' \in Nat
      BY <1>3, <3>1
    <3> HIDE DEF final, a, g, b
    <3> QED  BY <1>1, <1>3, <3>1, <3>2, <3>3, <3>4, RetireThenTyped
  <2>3. CASE m = "off"
    <3>1. RetireThen(a, None, Absent, c, b(0)) /\ incs' = incs /\ tokens' = tokens
      BY <2>3 DEF Bind
    <3>2. Stored(Absent)
      BY DEF Stored
    <3>3. b(0) \in Channel
      BY <1>0 DEF Channel, Phases
    <3>4. incs' \in Nat /\ tokens' \in Nat
      BY <1>3, <3>1
    <3> HIDE DEF a, b
    <3> QED  BY <1>1, <1>3, <3>1, <3>2, <3>3, <3>4, RetireThenTyped
  <2>4. m = "resync" \/ m = "ack" \/ m = "off"
    BY <1>0 DEF Channel, Modes
  <2> QED  BY <2>1, <2>2, <2>3, <2>4
<1>6. UNCHANGED <<entries, losses, owners, reservations, crashes, known, revoked, purging, chan, hold, disp,
                  origins, settled, confirmed, binder>>
  BY DEF Bind
<1> QED  BY <1>5, <1>6 DEF TypeInv, EntriesOK, LossesOK, CallersOK, HistoryOK

\* Forgetting a dead channel keeps AgentStates well formed.
LEMMA WithoutTyped ==
  ASSUME CallersOK, NEW c
  PROVE  Without(c) \in [Agents -> Chans \cup {None}]
  BY DEF CallersOK, Without

\* The channel's own steps change only what is known of the channel.
LEMMA ChannelTyped ==
  ASSUME TypeInv, NEW c \in Chans,
         AfterJoin(c) \/ Announce(c) \/ Close(c, TRUE) \/ Close(c, FALSE)
         \/ ReservationDown(c) \/ IssueForgotten(c) \/ Release(c)
  PROVE  TypeInv'
<1>1. UNCHANGED <<entries, losses, owners, job, incs, tokens, crashes, revoked, purging, disp,
                  origins, settled, confirmed, binder>>
  BY DEF AfterJoin, Announce, Close, ReservationDown, IssueForgotten, Release
<1>2. chan' \in [Chans -> Channel \cup {None}]
  <2>1. chan \in [Chans -> Channel \cup {None}]
    BY DEF TypeInv, CallersOK
  <2>2. CASE Close(c, TRUE)
    <3>1. chan[c] \in Channel
      BY <2>1, <2>2 DEF Close
    <3>2. [chan[c] EXCEPT !.phase = "closing"] \in Channel
      BY <3>1 DEF Channel, Phases
    <3> QED  BY <2>1, <2>2, <3>2 DEF Close
  <2>3. CASE Close(c, FALSE) \/ IssueForgotten(c)
    BY <2>1, <2>3 DEF Close, IssueForgotten
  <2>4. CASE Announce(c) \/ ReservationDown(c) \/ Release(c)
    BY <2>1, <2>4 DEF Announce, ReservationDown, Release
  <2>5. CASE AfterJoin(c)
    <3>1. chan[c] \in Channel
      BY <2>1, <2>5 DEF AfterJoin
    <3>2. [chan[c] EXCEPT !.phase = "joined"] \in Channel
      BY <3>1 DEF Channel, Phases
    <3> QED  BY <2>1, <2>5, <3>2 DEF AfterJoin
  <2> QED  BY <2>2, <2>3, <2>4, <2>5
<1>3. known' \in [Agents -> Chans \cup {None}]
  <2>1. known \in [Agents -> Chans \cup {None}] /\ Without(c) \in [Agents -> Chans \cup {None}]
    BY WithoutTyped DEF TypeInv, CallersOK
  <2>2. CASE Announce(c)
    BY <2>1, <2>2 DEF Announce
  <2>3. CASE ~Announce(c)
    <3>1. known' = known \/ known' = Without(c)
      BY <2>3 DEF AfterJoin, agentVars, Close, ReservationDown, IssueForgotten, Release
    <3> QED  BY <2>1, <3>1
  <2> QED  BY <2>2, <2>3
<1>4. hold' \in [Chans -> Hold \cup {None}]
  BY DEF TypeInv, CallersOK, AfterJoin, Announce, Close, ReservationDown, IssueForgotten, Release
<1>5. reservations' \in [Chans -> Reservation \cup {None}]
  BY DEF TypeInv, CallersOK, AfterJoin, Announce, Close, ReservationDown, IssueForgotten, Release
<1> QED  BY <1>1, <1>2, <1>3, <1>4, <1>5
         DEF TypeInv, EntriesOK, JobOK, JobShape, LossesOK, CallersOK, HistoryOK

\* A recipient's acknowledgement.
LEMMA AcknowledgeTyped ==
  ASSUME TypeInv, NEW c \in Chans, NEW seq \in Nat, Acknowledge(c, seq)
  PROVE  TypeInv'
<1> DEFINE a == chan[c].agent
           n == AcknowledgeEntry(entries[a], seq)
<1>1. a \in Agents /\ entries[a] # Absent
  BY DEF Acknowledge, TypeInv, CallersOK, Channel, OwnsRecovery
<1>2. Good(entries[a])
  BY <1>1 DEF TypeInv, EntriesOK, Stored
<1>3. Stored(n)
  BY <1>2, AcknowledgeGood DEF Stored
<1>4. /\ entries' = [entries EXCEPT ![a] = n]
      /\ Confirm(a, DOMAIN entries[a].metadata \ DOMAIN n.metadata)
  BY DEF Acknowledge
<1>5. UNCHANGED <<losses, owners, reservations, job, incs, tokens, crashes, known, revoked, purging, chan, hold, disp, origins, binder>>
  BY DEF Acknowledge
<1> HIDE DEF a, n
<1>6. EntriesOK'
  BY <1>1, <1>3, <1>4, StoreTyped DEF TypeInv
<1>7. HistoryOK'
  <2>1. IsEntry(entries[a]) /\ DOMAIN entries[a].metadata \ DOMAIN n.metadata \subseteq DOMAIN entries[a].metadata
    BY <1>2 DEF Good
  <2> QED  BY <1>1, <1>4, <1>5, <2>1, ConfirmTyped DEF TypeInv
<1> QED  BY <1>5, <1>6, <1>7 DEF TypeInv, JobOK, JobShape, LossesOK, CallersOK

\* A stage report.
LEMMA ReportStageTyped ==
  ASSUME TypeInv, NEW c \in Chans, NEW seq \in Seqs, NEW effect, ReportStage(c, seq, effect)
  PROVE  TypeInv'
<1> DEFINE a == chan[c].agent
           n == ReportStageEntry(entries[a], seq, effect)
<1>1. a \in Agents /\ entries[a] # Absent
  BY DEF ReportStage, TypeInv, CallersOK, Channel, OwnsRecovery
<1>2. Good(entries[a])
  BY <1>1 DEF TypeInv, EntriesOK, Stored
<1>3. seq <= entries[a].issued /\ entries[a].resync
  BY DEF ReportStage, OwnsRecovery
<1>4. entries[a].resync = TRUE
  BY <1>2, <1>3, EntryFields DEF Good
<1>5. Stored(n)
  BY <1>2, <1>3, <1>4, ReportStageGood DEF Stored
<1>6. /\ entries' = [entries EXCEPT ![a] = n]
      /\ Confirm(a, DOMAIN entries[a].metadata \ DOMAIN n.metadata)
  BY DEF ReportStage
<1>7. UNCHANGED <<losses, owners, reservations, job, incs, tokens, crashes, known, revoked, purging, chan, hold, disp, origins, binder>>
  BY DEF ReportStage
<1> HIDE DEF a, n
<1>8. EntriesOK'
  BY <1>1, <1>5, <1>6, StoreTyped DEF TypeInv
<1>9. HistoryOK'
  <2>1. IsEntry(entries[a]) /\ DOMAIN entries[a].metadata \ DOMAIN n.metadata \subseteq DOMAIN entries[a].metadata
    BY <1>2 DEF Good
  <2> QED  BY <1>1, <1>6, <1>7, <2>1, ConfirmTyped DEF TypeInv
<1> QED  BY <1>7, <1>8, <1>9 DEF TypeInv, JobOK, JobShape, LossesOK, CallersOK

\* The numbers a request or a closing channel retires are not accounted for.
LEMMA UnaccountedSpec ==
  ASSUME NEW e, Good(e), NEW requested, requested \subseteq 1..e.issued
  PROVE  /\ Unaccounted(e, requested) \subseteq (e.acked + 1)..e.issued
         /\ Unaccounted(e, requested) \cap (e.skipped \cup e.resolved) = {}
<1>1. e.acked \in Nat /\ e.issued \in Nat
  BY EntryFields DEF Good
<1>2. \A s \in 1..e.issued : s > e.acked => s \in (e.acked + 1)..e.issued
  BY <1>1
<1>3. \A s \in Unaccounted(e, requested) : s \in requested /\ s > e.acked /\ s \notin e.skipped \cup e.resolved
  BY DEF Unaccounted
<1> QED  BY <1>2, <1>3

\* resync, retire and the end of a channel: jobs that retire numbers.
LEMMA RetireStepTyped ==
  ASSUME TypeInv, NEW c \in Chans, chan[c] # None, OwnsRecovery(c),
         NEW requested, requested \subseteq 1..entries[chan[c].agent].issued,
         NEW client \in Chans \cup {None},
         Begin(chan[c].agent, Unaccounted(entries[chan[c].agent], requested),
               <<RetireEntry(entries[chan[c].agent], Unaccounted(entries[chan[c].agent], requested))>>,
               client, None)
  PROVE  JobOK'
<1> DEFINE a == chan[c].agent
           e == entries[a]
           added == Unaccounted(e, requested)
<1>1. a \in Agents /\ e # Absent /\ e.resync
  BY DEF TypeInv, CallersOK, Channel, OwnsRecovery
<1>2. Good(e)
  BY <1>1 DEF TypeInv, EntriesOK, Stored
<1>3. e.resync = TRUE
  BY <1>1, <1>2, EntryFields DEF Good
<1>4. added \subseteq (e.acked + 1)..e.issued /\ added \cap (e.skipped \cup e.resolved) = {}
  BY <1>2, UnaccountedSpec
<1>5. Begin(a, added, <<RetireEntry(e, added)>>, client, None)
  OBVIOUS
<1> HIDE DEF added, e, a
<1>6. Stored(RetireEntry(e, added))
  BY <1>2, <1>3, <1>4, RetireGood DEF Stored
<1> QED  BY <1>1, <1>5, <1>6, BeginTyped DEF TypeInv

\* resync and retire.
LEMMA ResyncTyped ==
  ASSUME TypeInv, NEW c \in Chans, NEW requested, Resync(c, requested)
  PROVE  TypeInv'
<1>1. JobOK'
  <2>1. chan[c] # None /\ OwnsRecovery(c) /\ requested \subseteq 1..entries[chan[c].agent].issued
        /\ Begin(chan[c].agent, Unaccounted(entries[chan[c].agent], requested),
                 <<RetireEntry(entries[chan[c].agent], Unaccounted(entries[chan[c].agent], requested))>>,
                 c, None)
    BY DEF Resync
  <2> QED  BY <2>1, RetireStepTyped
<1>2. UNCHANGED <<entries, losses, owners, reservations, incs, tokens, crashes, known, revoked, purging, chan, hold, disp,
                  origins, settled, confirmed, binder>>
  BY DEF Resync
<1> QED  BY <1>1, <1>2 DEF TypeInv, EntriesOK, LossesOK, CallersOK, HistoryOK

\* The last call of terminate/2.
LEMMA CloseRetireTyped ==
  ASSUME TypeInv, NEW c \in Chans, CloseRetire(c)
  PROVE  TypeInv'
<1> DEFINE e == entries[chan[c].agent]
<1>1. JobOK'
  <2>1. CASE OwnsRecovery(c)
    <3>1. chan[c] # None /\ Begin(chan[c].agent, Unaccounted(e, 1..e.issued),
                 <<RetireEntry(e, Unaccounted(e, 1..e.issued))>>, c, None)
      BY <2>1 DEF CloseRetire
    <3> QED  BY <2>1, <3>1, RetireStepTyped
  <2>2. CASE ~OwnsRecovery(c)
    BY <2>2 DEF CloseRetire, TypeInv, JobOK, JobShape
  <2> QED  BY <2>1, <2>2
<1>2. chan' \in [Chans -> Channel \cup {None}]
  <2>1. chan' = chan \/ chan' = [chan EXCEPT ![c] = None]
    BY DEF CloseRetire
  <2> QED  BY <2>1 DEF TypeInv, CallersOK
<1>3. known' \in [Agents -> Chans \cup {None}]
  <2>1. known' = known \/ known' = Without(c)
    BY DEF CloseRetire
  <2> QED  BY <2>1, WithoutTyped DEF TypeInv, CallersOK
<1>4. UNCHANGED <<entries, losses, owners, reservations, incs, tokens, crashes, revoked, purging, hold, disp,
                  origins, settled, confirmed, binder>>
  BY DEF CloseRetire
<1> QED  BY <1>1, <1>2, <1>3, <1>4 DEF TypeInv, EntriesOK, LossesOK, CallersOK, HistoryOK

\* The operator's purge, its first and its last store.
LEMMA PurgeTyped ==
  ASSUME TypeInv, NEW a \in Agents, Purge(a)
  PROVE  TypeInv'
<1>1. known' \in [Agents -> Chans \cup {None}] /\ revoked' \subseteq Agents /\ purging' \subseteq Agents
  BY DEF Purge, TypeInv, CallersOK
<1>2. UNCHANGED <<entries, losses, owners, reservations, job, incs, tokens, crashes, chan, hold, disp,
                  origins, settled, confirmed, binder>>
  BY DEF Purge
<1> QED  BY <1>1, <1>2 DEF TypeInv, EntriesOK, JobOK, JobShape, LossesOK, CallersOK, HistoryOK

\* The agent is deleted: its reservation is retired and its deliveries purged.
LEMMA DeleteTyped ==
  ASSUME TypeInv, NEW a \in Agents, Delete(a)
  PROVE  TypeInv'
<1>1. JobOK'
  <2>1. RetireThen(a, None, Absent, None, None) /\ Stored(Absent) /\ EntriesOK
    BY DEF Delete, Stored, TypeInv
  <2> QED  BY <2>1, RetireThenTyped
<1>2. purging' \subseteq Agents
  BY DEF Delete, TypeInv, CallersOK
<1>3. UNCHANGED <<entries, losses, owners, reservations, incs, tokens, crashes, known, revoked, chan, hold, disp,
                  origins, settled, confirmed, binder>>
  BY DEF Delete
<1> QED  BY <1>1, <1>2, <1>3 DEF TypeInv, EntriesOK, LossesOK, CallersOK, HistoryOK

\* Reserving a slot, ordinary or early.
LEMMA ReserveTyped ==
  ASSUME TypeInv, NEW c \in Chans, NEW to \in Agents, Reserve(c, to) \/ ReserveEarly(c)
  PROVE  TypeInv'
<1>1. UNCHANGED <<entries, losses, owners, job, incs, tokens, crashes, known, revoked, purging, chan, disp,
                  origins, settled, confirmed, binder>>
  BY DEF Reserve, ReserveEarly
<1>2. reservations' \in [Chans -> Reservation \cup {None}]
  <2>1. reservations \in [Chans -> Reservation \cup {None}] /\ chan \in [Chans -> Channel \cup {None}]
    BY DEF TypeInv, CallersOK
  <2>2. CASE Reserve(c, to)
    <3>1. [to |-> to, early |-> None] \in Reservation
      BY DEF Reservation
    <3>2. PICK x \in {[to |-> to, early |-> None], reservations[c]} : reservations' = [reservations EXCEPT ![c] = x]
      BY <2>2 DEF Reserve
    <3> QED  BY <2>1, <3>1, <3>2
  <2>3. CASE ReserveEarly(c)
    <3>1. reservations[c] \in Reservation
      BY <2>1, <2>3 DEF ReserveEarly
    <3>2. PICK x \in Agents \cup {None} : reservations' = [reservations EXCEPT ![c].early = x]
      <4>1. chan[c].agent \in Agents
        BY <2>1, <2>3 DEF Channel, ReserveEarly
      <4> QED  BY <2>3, <4>1 DEF ReserveEarly
    <3>3. [reservations[c] EXCEPT !.early = x] \in Reservation
      BY <3>1 DEF Reservation
    <3> QED  BY <2>1, <3>2, <3>3
  <2> QED  BY <2>2, <2>3
<1>3. hold' \in [Chans -> Hold \cup {None}]
  <2>1. hold \in [Chans -> Hold \cup {None}]
    BY DEF TypeInv, CallersOK
  <2>2. CASE Reserve(c, to)
    <3>1. PICK t \in BOOLEAN : hold' = [hold EXCEPT ![c] = [to |-> to, reserved |-> t, early |-> FALSE]]
      BY <2>2 DEF Reserve
    <3>2. [to |-> to, reserved |-> t, early |-> FALSE] \in Hold
      BY DEF Hold
    <3> QED  BY <2>1, <3>1, <3>2
  <2>3. CASE ReserveEarly(c)
    <3>1. hold[c] \in Hold
      BY <2>1, <2>3 DEF ReserveEarly
    <3>2. [hold[c] EXCEPT !.early = TRUE] \in Hold
      BY <3>1 DEF Hold
    <3> QED  BY <2>1, <2>3, <3>2 DEF ReserveEarly
  <2> QED  BY <2>2, <2>3
<1> QED  BY <1>1, <1>2, <1>3
         DEF TypeInv, EntriesOK, JobOK, JobShape, LossesOK, CallersOK, HistoryOK

\* The descriptors the ledger stores are descriptors.
LEMMA DescriptorsTyped ==
  /\ \A s \in Agents, t \in BOOLEAN : MessageFrom(s, t) \in Descriptor /\ MessageFrom(s, t).sender = s
  /\ \A id \in Revision \cup {None} : NoticeOf(id) \in Descriptor /\ NoticeOf(id).early = FALSE
<1> HIDE DEF Revision
<1> QED  BY DEF MessageFrom, NoticeOf, Descriptor

\* Issuing the message a channel was about to issue.
LEMMA IssueReservedTyped ==
  ASSUME TypeInv, NEW c \in Chans, IssueReserved(c)
  PROVE  TypeInv'
<1> DEFINE d == IF hold[c].reserved THEN MessageFrom(chan[c].agent, hold[c].early) ELSE None
<1>1. hold[c] \in Hold /\ chan[c] \in Channel
  BY DEF TypeInv, CallersOK, IssueReserved
<1>2. hold[c].to \in Agents /\ hold[c].early \in BOOLEAN /\ chan[c].agent \in Agents
  BY <1>1 DEF Hold, Channel
<1>3. IssueTo(hold[c].to, d) /\ UNCHANGED confirmed
  BY DEF IssueReserved
<1>4. d \in Descriptor \cup {None} /\ (d # None => d \in Descriptor /\ d.sender \in Agents)
  BY <1>2, DescriptorsTyped
<1> HIDE DEF d
<1>5. EntriesOK' /\ HistoryOK'
  BY <1>2, <1>3, <1>4, IssueToTyped DEF TypeInv
<1>6. /\ reservations' = [reservations EXCEPT ![c] = None] /\ hold' = [hold EXCEPT ![c] = None]
      /\ UNCHANGED <<losses, owners, job, incs, tokens, crashes, known, revoked, purging, chan, disp, binder>>
  BY DEF IssueReserved
<1> QED  BY <1>5, <1>6 DEF TypeInv, JobOK, JobShape, LossesOK, CallersOK

\* Issuing a first-hand notice.
LEMMA IssueSyntheticTyped ==
  ASSUME TypeInv, NEW a \in Agents, IssueSynthetic(a)
  PROVE  TypeInv'
<1>1. IssueTo(a, NoticeOf(None)) /\ UNCHANGED confirmed
  BY DEF IssueSynthetic
<1>2. NoticeOf(None) \in Descriptor /\ NoticeOf(None).early = FALSE
  BY DescriptorsTyped
<1>3. EntriesOK' /\ HistoryOK'
  BY <1>1, <1>2, IssueToTyped DEF TypeInv
<1>4. UNCHANGED <<losses, owners, reservations, job, incs, tokens, crashes, known, revoked, purging, chan, hold, disp, binder>>
  BY DEF IssueSynthetic
<1> QED  BY <1>3, <1>4 DEF TypeInv, JobOK, JobShape, LossesOK, CallersOK

\* The fields of a loss.
LEMMA LossFields ==
  ASSUME NEW l \in Loss
  PROVE  /\ l.id \in Revision /\ l.revision \in Revision /\ l.descriptor \in Descriptor
         /\ LossRecipient(l) \in Agents /\ LossSeq(l) \in Seqs /\ NotifyTarget(l) \in Agents
<1>1. l.id \in Revision /\ l.revision \in Revision /\ l.descriptor \in Descriptor
  BY DEF Loss
<1>2. LossRecipient(l) \in Agents /\ LossSeq(l) \in Seqs
  BY <1>1 DEF LossRecipient, LossSeq, Revision
<1>3. NotifyTarget(l) \in Agents
  BY <1>1, <1>2 DEF NotifyTarget, Descriptor
<1> QED  BY <1>1, <1>2, <1>3

\* The dispatcher takes up a loss or gives it up.
LEMMA DispatchPickTyped ==
  ASSUME TypeInv, DispatchAbandon \/ \E id \in DOMAIN losses : DispatchPick(id)
  PROVE  TypeInv'
<1>1. disp' \in Dispatch \cup {None}
  <2>1. CASE DispatchAbandon
    BY <2>1 DEF DispatchAbandon
  <2>2. ASSUME NEW id \in DOMAIN losses, DispatchPick(id)
        PROVE  disp' \in Dispatch \cup {None}
    <3>1. losses[id] \in Loss
      BY DEF TypeInv, LossesOK, IsMap
    <3>2. disp' = [loss |-> losses[id], phase |-> "picked"]
      BY <2>2 DEF DispatchPick
    <3> QED  BY <3>1, <3>2 DEF Dispatch
  <2> QED  BY <2>1, <2>2
<1>2. UNCHANGED <<entries, losses, owners, reservations, job, incs, tokens, crashes, known, revoked, purging, chan, hold,
                  origins, settled, confirmed, binder>>
  BY DEF DispatchAbandon, DispatchPick
<1> QED  BY <1>1, <1>2 DEF TypeInv, EntriesOK, JobOK, JobShape, LossesOK, CallersOK, HistoryOK

\* It delivers the notice.
LEMMA DispatchDeliverTyped ==
  ASSUME TypeInv, DispatchDeliver
  PROVE  TypeInv'
<1> DEFINE to == NotifyTarget(disp.loss)
<1>1. disp \in Dispatch
  BY DEF TypeInv, CallersOK, DispatchDeliver
<1>2. disp.loss \in Loss
  BY <1>1 DEF Dispatch
<1>3. to \in Agents /\ disp.loss.id \in Revision
  BY <1>2, LossFields
<1>4. NoticeOf(disp.loss.id) \in Descriptor /\ NoticeOf(disp.loss.id).early = FALSE
  BY <1>3, DescriptorsTyped
<1>5. IssueTo(to, NoticeOf(disp.loss.id)) /\ UNCHANGED confirmed
  BY DEF DispatchDeliver
<1>6. EntriesOK' /\ HistoryOK'
  BY <1>3, <1>4, <1>5, IssueToTyped DEF TypeInv
<1>7. disp' \in Dispatch
  <2>1. disp' = [disp EXCEPT !.phase = "delivered"]
    BY DEF DispatchDeliver
  <2> QED  BY <1>1, <2>1 DEF Dispatch
<1>8. UNCHANGED <<losses, owners, reservations, job, incs, tokens, crashes, known, revoked, purging, chan, hold, binder>>
  BY DEF DispatchDeliver
<1> QED  BY <1>6, <1>7, <1>8 DEF TypeInv, JobOK, JobShape, LossesOK, CallersOK

\* It completes the loss.
LEMMA DispatchCompleteTyped ==
  ASSUME TypeInv, DispatchComplete
  PROVE  TypeInv'
<1>1. LossesOK'
  <2>1. losses' = losses \/ losses' = Drop(losses, {disp.loss.id})
    BY DEF DispatchComplete, CompleteLoss
  <2>2. IsMap(losses, Revision, Loss)
    BY DEF TypeInv, LossesOK
  <2>3. IsMap(Drop(losses, {disp.loss.id}), Revision, Loss)
    BY <2>2, DropIsMap
  <2>4. IsMap(losses', Revision, Loss)
    BY <2>1, <2>2, <2>3
  <2> QED  BY <2>4 DEF LossesOK
<1>2. disp' = None
  BY DEF DispatchComplete
<1>3. UNCHANGED <<entries, owners, reservations, job, incs, tokens, crashes, known, revoked, purging, chan, hold,
                  origins, settled, confirmed, binder>>
  BY DEF DispatchComplete
<1> QED  BY <1>1, <1>2, <1>3 DEF TypeInv, EntriesOK, JobOK, JobShape, CallersOK, HistoryOK

\* The job's parts.
LEMMA JobFields ==
  ASSUME TypeInv, job # Idle
  PROVE  /\ job.agent \in Agents /\ job.intents \in SUBSET Loss
         /\ job.client \in Chans \cup {None} /\ job.bind \in Channel \cup {None}
         /\ Stored(job.commits[1])
         /\ \/ job.commits = <<job.commits[1]>>
            \/ job.commits = <<job.commits[1], job.commits[2]>> /\ Stored(job.commits[2])
<1>1. IsJob(job) /\ JobShape
  BY DEF TypeInv, JobOK
<1>2. job.agent \in Agents /\ job.intents \in SUBSET Loss
      /\ job.client \in Chans \cup {None} /\ job.bind \in Channel \cup {None}
  BY <1>1 DEF IsJob
<1>3. \A k \in DOMAIN job.commits : job.commits[k] # Absent => EntryShape(job.commits[k])
  BY <1>1 DEF JobShape
<1>4. IsStored(job.commits[1])
  BY <1>1 DEF IsJob
<1>5. CASE job.commits = <<job.commits[1]>>
  <2>1. 1 \in DOMAIN job.commits
    BY <1>5
  <2> QED  BY <1>2, <1>3, <1>4, <1>5, <2>1 DEF Stored, IsStored, Good
<1>6. CASE job.commits = <<job.commits[1], job.commits[2]>> /\ IsStored(job.commits[2])
  <2>1. 1 \in DOMAIN job.commits /\ 2 \in DOMAIN job.commits
    BY <1>6
  <2> QED  BY <1>2, <1>3, <1>4, <1>6, <2>1 DEF Stored, IsStored, Good
<1> QED  BY <1>1, <1>5, <1>6 DEF IsJob

\* One intent reaches the table.
LEMMA WriteIntentTyped ==
  ASSUME TypeInv, job # Idle, NEW i \in job.intents, WriteIntent(i)
  PROVE  TypeInv'
<1>1. i \in Loss /\ i.id \in Revision
  BY JobFields, LossFields
<1>2. LossesOK'
  <2>1. IsMap(Put(losses, i.id, i), Revision, Loss)
    BY <1>1, PutIsMap DEF TypeInv, LossesOK
  <2>2. losses' = Put(losses, i.id, i)
    BY DEF WriteIntent
  <2> QED  BY <2>1, <2>2 DEF LossesOK
<1>3. JobOK'
  <2>1. IsJob(job) /\ JobShape
    BY DEF TypeInv, JobOK
  <2>2. job' = [job EXCEPT !.intents = job.intents \ {i}]
    BY DEF WriteIntent
  <2>3. job'.commits = job.commits
    BY <2>1, <2>2 DEF IsJob
  <2>4. job' \in [agent : Agents, intents : SUBSET Loss, commits : {job'.commits},
                  client : Chans \cup {None}, bind : Channel \cup {None}]
    <3> HIDE DEF Loss
    <3> QED  BY <2>1, <2>2, <2>3 DEF IsJob
  <2>5. IsJob(job')
    <3> HIDE DEF IsStored
    <3> QED  BY <2>1, <2>3, <2>4 DEF IsJob
  <2>6. JobShape'
    BY <2>1, <2>3 DEF JobShape
  <2> QED  BY <2>5, <2>6 DEF JobOK
<1>4. UNCHANGED <<entries, owners, reservations, incs, tokens, crashes, known, revoked, purging, chan, hold, disp,
                  origins, settled, confirmed, binder>>
  BY DEF WriteIntent
<1> QED  BY <1>2, <1>3, <1>4 DEF TypeInv, EntriesOK, CallersOK, HistoryOK

\* What is left of a job of two writes after the first.
LEMMA TailPair ==
  ASSUME NEW x, NEW y
  PROVE  Tail(<<x, y>>) = <<y>>
<1> DEFINE s == <<x, y>>
<1>1. s \in Seq({x, y}) /\ Len(s) = 2 /\ s[2] = y
  OBVIOUS
<1>2. Tail(s) \in Seq({x, y}) /\ Len(Tail(s)) = 1 /\ Tail(s)[1] = s[2]
  BY <1>1
<1>3. <<y>> \in Seq({x, y}) /\ Len(<<y>>) = 1 /\ <<y>>[1] = y
  OBVIOUS
<1> HIDE DEF s
<1>4. \A i \in 1..1 : Tail(s)[i] = <<y>>[i]
  BY <1>1, <1>2, <1>3
<1> QED  BY <1>1, <1>2, <1>3, <1>4, SeqEqual DEF s

\* An entry value reaches the table.
LEMMA CommitEntryTyped ==
  ASSUME TypeInv, CommitEntry
  PROVE  TypeInv'
<1> DEFINE n == job.commits[1]
<1>1. job # Idle
  BY DEF CommitEntry
<1>2. /\ job.agent \in Agents /\ job.client \in Chans \cup {None} /\ job.bind \in Channel \cup {None}
      /\ Stored(n)
      /\ \/ job.commits = <<n>>
         \/ job.commits = <<n, job.commits[2]>> /\ Stored(job.commits[2])
  BY <1>1, JobFields
<1>3. Head(job.commits) = n
  BY <1>2
<1>4. EntriesOK'
  <2>1. entries' = [entries EXCEPT ![job.agent] = n]
    BY <1>3 DEF CommitEntry
  <2> HIDE DEF n
  <2> QED  BY <1>2, <2>1, StoreTyped DEF TypeInv
<1>5. JobOK'
  <2>1. CASE Len(job.commits) = 1
    <3>1. job' = Idle
      BY <2>1 DEF CommitEntry
    <3> QED  BY <3>1 DEF JobOK
  <2>2. CASE Len(job.commits) # 1
    <3> DEFINE m == job.commits[2]
    <3>1. job.commits = <<n, m>> /\ Stored(m)
      BY <1>2, <2>2
    <3>2. Tail(job.commits) = <<m>>
      <4> HIDE DEF m, n
      <4> QED  BY <3>1, TailPair
    <3>3. job' = [job EXCEPT !.commits = <<m>>]
      BY <2>2, <3>2 DEF CommitEntry
    <3>4. IsJob(job)
      BY <1>1 DEF TypeInv, JobOK
    <3> HIDE DEF m, n
    <3>5. job'.commits = <<m>> /\ job'.commits[1] = m
      BY <3>3, <3>4 DEF IsJob
    <3>6. job' \in [agent : Agents, intents : SUBSET Loss, commits : {job'.commits},
                    client : Chans \cup {None}, bind : Channel \cup {None}]
      <4> HIDE DEF Loss
      <4> QED  BY <3>3, <3>4, <3>5 DEF IsJob
    <3>7. IsJob(job')
      <4>1. IsStored(m)
        BY <3>1 DEF Stored, IsStored, Good
      <4> QED  BY <3>5, <3>6, <4>1 DEF IsJob
    <3>8. JobShape'
      <4>1. DOMAIN job'.commits = {1}
        BY <3>5
      <4> QED  BY <3>1, <3>5, <4>1 DEF JobShape, Stored, Good
    <3> QED  BY <3>7, <3>8 DEF JobOK
  <2> QED  BY <2>1, <2>2
<1>6. chan' \in [Chans -> Channel \cup {None}]
  <2>1. PICK x \in {job.bind, None} : chan' = chan \/ chan' = [chan EXCEPT ![job.client] = x]
    BY DEF CommitEntry
  <2> QED  BY <1>2, <2>1 DEF TypeInv, CallersOK
<1>7. owners' \in [Agents -> Chans \cup {None}]
  <2>1. PICK x \in {job.client, None} : owners' \in {owners, [owners EXCEPT ![job.agent] = x]}
    BY DEF CommitEntry
  <2> QED  BY <1>2, <2>1 DEF TypeInv, CallersOK
<1>8. binder' \in [Agents -> Chans \cup {None}]
  <2>1. PICK x \in {job.client, None} : binder' \in {binder, [binder EXCEPT ![job.agent] = x]}
    BY DEF CommitEntry
  <2> QED  BY <1>2, <2>1 DEF TypeInv, CallersOK
<1>9. known' \in [Agents -> Chans \cup {None}]
  <2>1. known' = known \/ known' = Without(job.client)
    BY DEF CommitEntry
  <2> QED  BY <2>1, WithoutTyped DEF TypeInv, CallersOK
<1>10. UNCHANGED <<losses, reservations, incs, tokens, crashes, revoked, purging, hold, disp, origins, settled, confirmed>>
  BY DEF CommitEntry
<1> QED  BY <1>4, <1>5, <1>6, <1>7, <1>8, <1>9, <1>10 DEF TypeInv, LossesOK, CallersOK, HistoryOK

\* A crash and restart of the ledger.
LEMMA LedgerCrashTyped ==
  ASSUME TypeInv, LedgerCrash
  PROVE  TypeInv'
<1>1. LossesOK'
  <2> DEFINE S == {id \in DOMAIN losses : ~UncommittedLoss(losses[id])}
  <2>1. IsMap(losses, Revision, Loss) /\ S \subseteq DOMAIN losses
    BY DEF TypeInv, LossesOK
  <2>2. losses' = Restrict(losses, S)
    BY DEF LedgerCrash, CommittedLosses
  <2> HIDE DEF S
  <2>3. IsMap(Restrict(losses, S), Revision, Loss)
    BY <2>1, RestrictIsMap
  <2> QED  BY <2>2, <2>3 DEF LossesOK
<1>2. chan' \in [Chans -> Channel \cup {None}]
  BY DEF TypeInv, CallersOK, LedgerCrash
<1>3. hold' \in [Chans -> Hold \cup {None}]
  BY DEF TypeInv, CallersOK, LedgerCrash
<1>4. known' \in [Agents -> Chans \cup {None}]
  BY DEF TypeInv, CallersOK, LedgerCrash
<1>5. /\ owners' \in [Agents -> Chans \cup {None}] /\ reservations' \in [Chans -> Reservation \cup {None}]
      /\ job' = Idle /\ crashes' = crashes + 1
      /\ UNCHANGED <<entries, incs, tokens, revoked, purging, disp, origins, settled, confirmed, binder>>
  BY DEF LedgerCrash
<1>6. crashes' \in Nat
  BY <1>5 DEF TypeInv, CallersOK
<1> QED  BY <1>1, <1>2, <1>3, <1>4, <1>5, <1>6 DEF TypeInv, EntriesOK, JobOK, CallersOK, HistoryOK

-----------------------------------------------------------------------------
\* Every step keeps the invariant.
LEMMA NextTyped == TypeInv /\ [Next]_vars => TypeInv'
<1> SUFFICES ASSUME TypeInv, [Next]_vars PROVE TypeInv'
  OBVIOUS
<1>1. JoinModes \subseteq Modes /\ Noticed \subseteq Agents /\ Purged \subseteq Agents
  BY LimitAssumption
<1>2. 1..MaxSeq \subseteq Seqs
  BY LimitAssumption DEF Seqs
<1>3. ASSUME NEW c \in Chans, NEW a \in Agents, NEW g \in Gens, NEW m \in JoinModes, Join(c, a, g, m)
      PROVE  TypeInv'
  BY <1>1, <1>3, JoinTyped
<1>4. ASSUME NEW c \in Chans,
             AfterJoin(c) \/ Announce(c) \/ ReservationDown(c) \/ Release(c) \/ IssueForgotten(c)
      PROVE  TypeInv'
  BY <1>4, ChannelTyped
<1>5. ASSUME NEW c \in Chans, Bind(c) \/ CloseRetire(c)
      PROVE  TypeInv'
  BY <1>5, BindTyped, CloseRetireTyped
<1>6. ASSUME NEW c \in Chans, ReserveEarly(c)
      PROVE  TypeInv'
  <2>1. hold[c].to \in Agents
    BY <1>6 DEF TypeInv, CallersOK, Hold, ReserveEarly
  <2> QED  BY <1>6, <2>1, ReserveTyped
<1>7. ASSUME NEW c \in Chans, IssueReserved(c)
      PROVE  TypeInv'
  BY <1>7, IssueReservedTyped
<1>8. ASSUME NEW c \in Chans, NEW intentional \in BOOLEAN, Close(c, intentional)
      PROVE  TypeInv'
  <2>1. Close(c, TRUE) \/ Close(c, FALSE)
    <3>1. intentional = TRUE \/ intentional = FALSE
      OBVIOUS
    <3> QED  BY <1>8, <3>1
  <2> QED  BY <2>1, ChannelTyped
<1>9. ASSUME NEW c \in Chans, NEW seq \in 1..MaxSeq, Acknowledge(c, seq)
      PROVE  TypeInv'
  <2>1. seq \in Nat
    OBVIOUS
  <2> QED  BY <1>9, <2>1, AcknowledgeTyped
<1>10. ASSUME NEW c \in Chans, NEW requested \in SUBSET (1..MaxSeq), Resync(c, requested)
       PROVE  TypeInv'
  BY <1>10, ResyncTyped
<1>11. ASSUME NEW c \in Chans, NEW seq \in 1..MaxSeq, NEW effect \in Reports, ReportStage(c, seq, effect)
       PROVE  TypeInv'
  BY <1>2, <1>11, ReportStageTyped
<1>12. ASSUME NEW a \in Purged, Purge(a) \/ Delete(a)
       PROVE  TypeInv'
  BY <1>1, <1>12, PurgeTyped, DeleteTyped
<1>13. ASSUME NEW a \in Noticed, IssueSynthetic(a)
       PROVE  TypeInv'
  BY <1>1, <1>13, IssueSyntheticTyped
<1>14. ASSUME NEW c \in Chans, NEW to \in Agents, Reserve(c, to)
       PROVE  TypeInv'
  BY <1>14, ReserveTyped
<1>15. ASSUME DispatchAbandon \/ \E id \in DOMAIN losses : DispatchPick(id)
       PROVE  TypeInv'
  BY <1>15, DispatchPickTyped
<1>16. CASE DispatchDeliver
  BY <1>16, DispatchDeliverTyped
<1>17. CASE DispatchComplete
  BY <1>17, DispatchCompleteTyped
<1>18. ASSUME job # Idle, NEW i \in job.intents, WriteIntent(i)
       PROVE  TypeInv'
  BY <1>18, WriteIntentTyped
<1>19. CASE CommitEntry
  BY <1>19, CommitEntryTyped
<1>20. CASE LedgerCrash
  BY <1>20, LedgerCrashTyped
<1>21. CASE UNCHANGED vars
  BY <1>21 DEF vars, TypeInv, EntriesOK, JobOK, JobShape, LossesOK, CallersOK, HistoryOK
<1> QED  BY <1>3, <1>4, <1>5, <1>6, <1>7, <1>8, <1>9, <1>10, <1>11, <1>12, <1>13, <1>14,
            <1>15, <1>16, <1>17, <1>18, <1>19, <1>20, <1>21 DEF Next

\* In every reachable state of the ledger its table, its callers' sockets and
\* the handler in progress have their types.
THEOREM TypeCorrect == Spec => []TypeOK
<1>1. TypeInv => TypeOK
  BY TypeInvMeans
<1> QED  BY InitTyped, NextTyped, <1>1, PTL DEF Spec

\* Every stored entry is consistent, whatever mixture of acknowledgements,
\* stage reports, retirements, re-binds and crashes produced it.
THEOREM EntriesAlwaysConsistent == Spec => []EntriesConsistent
<1>1. TypeInv => EntriesConsistent
  BY TypeInvMeans
<1> QED  BY InitTyped, NextTyped, <1>1, PTL DEF Spec
=============================================================================
