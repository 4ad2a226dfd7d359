---------------------------- MODULE DeliveryEntry ----------------------------
(***************************************************************************)
(* The per-recipient entry of the inter-agent delivery ledger              *)
(* (server/lib/kaoiro_server/delivery_states.ex) and the pure functions    *)
(* its handlers apply to it.                                               *)
(*                                                                         *)
(* A recipient's messages are numbered 1, 2, ... (issued).  The ledger     *)
(* keeps a confirmed prefix (acked) and, above it, three disjoint kinds of *)
(* sequence number: those it still owes an account of (metadata), those    *)
(* the recipient submitted to its engine out of order (resolved) and those *)
(* retired as lost (skipped).  Timestamps, wording and the dashboard's     *)
(* counters other than lost_count are left out.                            *)
(***************************************************************************)
EXTENDS Integers, FiniteSets, Functions

CONSTANTS
    Agents,    \* agent ids
    Gens,      \* delivery generations: one per wrapper process
    None       \* "no value"

Seqs == Nat \ {0}

(***************************************************************************)
(* loss_revision/4 hashes exactly these four; the hash is taken injective. *)
(* The binding token and the incarnation are random in the code: here they *)
(* are drawn from counters, so they are fresh rather than random.          *)
(***************************************************************************)
Revision == Agents \X Nat \X Gens \X Seqs
RevisionOf(a, e, s) == <<a, e.inc, e.gen, s>>

\* What is kept of a message: its sender (None for a server-synthesized
\* notice), the loss it reports, if any, and whether it was granted "early".
Descriptor == [sender : Agents \cup {None},
               loss_id : Revision \cup {None},
               early : BOOLEAN]

ASSUME NoneAssumption == None \notin Agents \cup Gens \cup Revision \cup Descriptor

MessageFrom(s, early) == [sender |-> s, loss_id |-> None, early |-> early]
NoticeOf(id) == [sender |-> None, loss_id |-> id, early |-> FALSE]

\* A durable loss intent: recipient and seq are part of the revision.
Loss == [id : Revision, revision : Revision, descriptor : Descriptor]
LossRecipient(l) == l.revision[1]
LossSeq(l) == l.revision[4]

\* Elixir maps are functions with a finite domain.
IsMap(f, D, R) ==
    /\ f = [x \in DOMAIN f |-> f[x]]
    /\ DOMAIN f \subseteq D
    /\ \A x \in DOMAIN f : f[x] \in R
Empty == [s \in {} |-> None]
Put(f, k, v) == [x \in DOMAIN f \cup {k} |-> IF x = k THEN v ELSE f[x]]
Drop(f, S) == Restrict(f, DOMAIN f \ S)

\* A stored entry (entry_record/2).
IsEntry(e) ==
    /\ e \in [gen : Gens, inc : Nat, token : Nat, resync : BOOLEAN,
               issued : Nat, acked : Nat, pending : {"nil", "since"}, lost : Nat,
               metadata : {e.metadata}, early : {e.early},
               skipped : SUBSET Seqs, resolved : SUBSET Seqs, staged : SUBSET Seqs]
    /\ IsMap(e.metadata, Seqs, Descriptor)
    /\ IsMap(e.early, Seqs, Agents)

Absent == [gen |-> None]    \* no entry for the agent

\* recovery_defaults/0 around a fresh incarnation: nothing outstanding.
FreshEntry(g, inc, token, resync, n) ==
    [gen |-> g, inc |-> inc, token |-> token, resync |-> resync,
     issued |-> n, acked |-> n, pending |-> "nil", lost |-> 0,
     metadata |-> Empty, early |-> Empty,
     skipped |-> {}, resolved |-> {}, staged |-> {}]

-----------------------------------------------------------------------------
(* The confirmed prefix.                                                   *)

\* The prefix runs through every retired or resolved number that follows it.
ConsumeSkipped(acked, S) ==
    CHOOSE n \in {acked} \cup S :
        /\ n >= acked
        /\ \A k \in (acked + 1)..n : k \in S
        /\ n + 1 \notin S

AdvanceSkipped(e) ==
    LET acked == ConsumeSkipped(e.acked, e.skipped \cup e.resolved)
    IN  [e EXCEPT !.acked = acked,
                  !.skipped = {s \in e.skipped : s > acked},
                  !.resolved = {s \in e.resolved : s > acked},
                  !.pending = IF acked = e.issued THEN "nil" ELSE e.pending]

\* Mutant: the metadata of confirmed numbers is kept.
MutantAcknowledgeEntry(e, seq) ==
    IF e.acked < seq /\ seq <= e.issued THEN AdvanceSkipped([e EXCEPT !.acked = seq]) ELSE e

\* acknowledge_entry/3: a stale or future number changes nothing.
\* early_pending is left alone: only a stage report releases it.
AcknowledgeEntry(e, seq) ==
    IF e.acked < seq /\ seq <= e.issued
    THEN LET n == AdvanceSkipped([e EXCEPT !.acked = seq,
                                           !.pending = IF seq = e.issued THEN "nil" ELSE e.pending])
         IN  [n EXCEPT !.metadata = Restrict(n.metadata, {s \in DOMAIN n.metadata : s > n.acked})]
    ELSE e

-----------------------------------------------------------------------------
(* Issuing.  A message sent without a reservation has no descriptor (None) *)
(* and leaves no metadata; so does any message to a recipient that did not *)
(* negotiate recovery.                                                     *)

IssueWithMetadata(e, d) ==
    LET seq == e.issued + 1
    IN  [e EXCEPT !.issued = seq,
                  !.pending = "since",
                  !.metadata = IF e.resync /\ d # None THEN Put(e.metadata, seq, d) ELSE e.metadata,
                  !.early = IF d # None /\ d.early THEN Put(e.early, seq, d.sender) ELSE e.early,
                  !.staged = IF d # None THEN e.staged \cup {seq} ELSE e.staged]

-----------------------------------------------------------------------------
(* Retiring.                                                               *)

\* Mutant: the loss of a first-hand message gets no id.
MutantLossIntent(a, e, s) ==
    [id |-> e.metadata[s].loss_id, revision |-> RevisionOf(a, e, s), descriptor |-> e.metadata[s]]

\* The intents record_losses/5 makes: one per retired number that has a
\* descriptor.  A lost loss notice keeps the id of the loss it reports.
LossIntent(a, e, s) ==
    [id |-> IF e.metadata[s].loss_id # None THEN e.metadata[s].loss_id ELSE RevisionOf(a, e, s),
     revision |-> RevisionOf(a, e, s),
     descriptor |-> e.metadata[s]]

LossIntents(a, e, S) == {LossIntent(a, e, s) : s \in S \cap DOMAIN e.metadata}

RecordLosses(e, S) ==
    [e EXCEPT !.metadata = Drop(e.metadata, S), !.early = Drop(e.early, S)]

\* The numbers of a request that are not accounted for yet: repeating a
\* request, or naming an acknowledged number, adds nothing.
Unaccounted(e, requested) ==
    {s \in requested : s > e.acked} \ (e.skipped \cup e.resolved)

\* Mutant: the prefix is not advanced over what was just retired.
MutantRetireEntry(e, added) ==
    RecordLosses([e EXCEPT !.skipped = @ \cup added, !.lost = @ + Cardinality(added)], added)

RetireEntry(e, added) ==
    AdvanceSkipped(RecordLosses([e EXCEPT !.skipped = e.skipped \cup added,
                                          !.lost = e.lost + Cardinality(added)], added))

\* retire_generation/3: a recipient that comes back as another process (or
\* goes away for good) leaves its unaccounted messages behind as losses.
RetiresGeneration(e, g) == e # Absent /\ e.gen # g

-----------------------------------------------------------------------------
(* Binding.                                                                *)

BindResyncEntry(old, g, inc, token) ==
    IF old # Absent /\ old.gen = g
    THEN [old EXCEPT !.resync = TRUE, !.token = token]
    ELSE FreshEntry(g, inc, token, TRUE, IF old # Absent THEN old.issued ELSE 0)

\* Mutant: leaving recovery keeps what recovery had accounted for.
MutantBindEntry(old, g, inc) ==
    IF old # Absent /\ old.gen = g THEN [old EXCEPT !.resync = FALSE]
    ELSE FreshEntry(g, inc, 0, FALSE, IF old # Absent THEN old.issued ELSE 0)

\* The older handshake without recovery; the caller has retired all metadata.
BindEntry(old, g, inc) ==
    CASE old = Absent -> FreshEntry(g, inc, 0, FALSE, 0)
      [] old # Absent /\ old.gen # g -> FreshEntry(g, inc, old.token, FALSE, old.issued)
      [] old # Absent /\ old.gen = g /\ old.resync ->
            [old EXCEPT !.resync = FALSE, !.acked = old.issued, !.pending = "nil",
                        !.skipped = {}, !.resolved = {}]
      [] old # Absent /\ old.gen = g /\ ~old.resync -> old

-----------------------------------------------------------------------------
(* Stage reports (report_stage).  Their record is reduced to the numbers   *)
(* that have one (staged); pruning it (bound_stage_histories) only makes   *)
(* the ledger refuse a later report, which is as if it were not sent.  The *)
(* four effects a report can have on the entry are kept:                   *)
(*   "progress"  queued, included              nothing                     *)
(*   "release"   settled, unknown              frees the early slot        *)
(*   "submitted" submitted                     frees it and resolves       *)
(*   "uncertain" unknown after a doubtful steer, :resolve, likewise        *)

StageEffects == {"progress", "release", "submitted", "uncertain"}

ReportStageEntry(e, seq, effect) ==
    LET resolving == /\ effect \in {"submitted", "uncertain"}
                     /\ seq > e.acked
                     /\ seq \notin e.resolved
                     /\ seq \notin e.skipped
    IN  [e EXCEPT !.early = IF effect = "progress" THEN e.early ELSE Drop(e.early, {seq}),
                  !.metadata = IF resolving THEN Drop(e.metadata, {seq}) ELSE e.metadata,
                  !.resolved = IF resolving THEN e.resolved \cup {seq} ELSE e.resolved]

-----------------------------------------------------------------------------
(* What every stored entry satisfies.                                      *)

EntryShape(e) ==
    /\ e.acked <= e.issued
    /\ DOMAIN e.metadata \subseteq (e.acked + 1)..e.issued
    /\ e.skipped \subseteq (e.acked + 1)..e.issued
    /\ e.resolved \subseteq (e.acked + 1)..e.issued
    /\ e.skipped \cap e.resolved = {}
    /\ DOMAIN e.metadata \cap (e.skipped \cup e.resolved) = {}
    /\ e.acked + 1 \notin e.skipped
    /\ e.pending = IF e.acked = e.issued THEN "nil" ELSE "since"
    /\ e.resync \/ (DOMAIN e.metadata = {} /\ e.skipped = {} /\ e.resolved = {})
=============================================================================
