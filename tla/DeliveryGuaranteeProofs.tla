------------------------ MODULE DeliveryGuaranteeProofs ------------------------
(***************************************************************************)
(* What the delivery ledger promises, for any agents, channels,            *)
(* generations and limits: nothing it took charge of is forgotten, a loss  *)
(* the dispatcher can see is final, one channel at a time may account for  *)
(* an agent's messages and keeps that right across restarts, and quotas    *)
(* checked when a slot is reserved hold of what is stored.                 *)
(***************************************************************************)
EXTENDS DeliveryLedgerProofs

USE DEF tableVars, volatileVars, agentVars, historyVars

LossInv ==
    /\ NumbersFresh
    /\ JobNumbers
    /\ KnownDead
    /\ LossesFiled
    /\ JobSound
    /\ DispatchSound
    /\ LossesFinal
    /\ NothingForgotten

-----------------------------------------------------------------------------
(* Entries, revisions and intents.                                         *)

\* What an entry of the table offers.
LEMMA StoredEntry ==
  ASSUME TypeInv, NEW a \in Agents, entries[a] # Absent
  PROVE  LET e == entries[a]
         IN  /\ Good(e) /\ IsEntry(e)
             /\ e.issued \in Nat /\ e.inc \in Nat /\ e.gen \in Gens
             /\ IsMap(e.metadata, Seqs, Descriptor)
             /\ \A s \in DOMAIN e.metadata : s \in Seqs /\ s <= e.issued /\ e.metadata[s] \in Descriptor
<1> DEFINE e == entries[a]
<1>1. Good(e)
  BY DEF TypeInv, EntriesOK, Stored
<1>2. IsEntry(e) /\ DOMAIN e.metadata \subseteq (e.acked + 1)..e.issued
  BY <1>1 DEF Good, EntryShape
<1> HIDE DEF e
<1>3. e.issued \in Nat /\ e.inc \in Nat /\ e.gen \in Gens /\ IsMap(e.metadata, Seqs, Descriptor) /\ e.acked \in Nat
  BY <1>2, EntryFields
<1>4. \A s \in DOMAIN e.metadata : s \in Seqs /\ s <= e.issued /\ e.metadata[s] \in Descriptor
  BY <1>2, <1>3 DEF IsMap, Seqs
<1> QED  BY <1>1, <1>2, <1>3, <1>4 DEF e

\* The parts of a revision.
LEMMA RevisionParts ==
  ASSUME NEW a, NEW e, NEW s
  PROVE  /\ RevisionOf(a, e, s)[1] = a /\ RevisionOf(a, e, s)[2] = e.inc
         /\ RevisionOf(a, e, s)[3] = e.gen /\ RevisionOf(a, e, s)[4] = s
  BY DEF RevisionOf

\* The parts of an intent.
LEMMA IntentParts ==
  ASSUME NEW a, NEW e, NEW s
  PROVE  /\ LossIntent(a, e, s).id = Origin(a, e, s)
         /\ LossIntent(a, e, s).revision = RevisionOf(a, e, s)
         /\ LossRecipient(LossIntent(a, e, s)) = a
         /\ LossSeq(LossIntent(a, e, s)) = s
  BY RevisionParts DEF LossIntent, Origin, LossRecipient, LossSeq

\* init/1 drops an intent exactly if the message it describes can still be
\* delivered.
LEMMA UncommittedMeans ==
  ASSUME NEW l
  PROVE  /\ UncommittedLoss(l) <=> Deliverable(l.revision)
         /\ UncommittedLoss(l)' <=> Deliverable(l.revision)'
  BY DEF UncommittedLoss, Deliverable, LossRecipient, LossSeq

\* A number in the metadata is deliverable under its revision.
LEMMA NumberDeliverable ==
  ASSUME NEW a, entries[a] # Absent, NEW s \in DOMAIN entries[a].metadata
  PROVE  Deliverable(RevisionOf(a, entries[a], s))
  BY RevisionParts DEF Deliverable

\* Deliverable by name.
LEMMA DeliverableIs ==
  ASSUME NEW r, Deliverable(r)
  PROVE  /\ entries[r[1]] # Absent /\ r[4] \in DOMAIN entries[r[1]].metadata
         /\ r[2] = entries[r[1]].inc /\ r = RevisionOf(r[1], entries[r[1]], r[4])
  BY RevisionParts DEF Deliverable

\* With no handler in progress no stored loss is uncommitted.
LEMMA NoneUncommitted ==
  ASSUME LossInv, job = Idle, NEW id \in DOMAIN losses
  PROVE  ~UncommittedLoss(losses[id]) /\ ~Deliverable(losses[id].revision)
  BY UncommittedMeans DEF LossInv, LossesFinal
-----------------------------------------------------------------------------
(* Steps by what they do to the invariant.                                 *)

\* A step that does not touch the table, the handler in progress or the
\* history, and with which the dispatcher at most takes up or drops a loss.
LEMMA QuietKeeps ==
  ASSUME LossInv,
         UNCHANGED <<entries, losses, job, incs, origins, settled, confirmed>>,
         \/ disp' = disp
         \/ disp' = None
         \/ job = Idle /\ \E id \in DOMAIN losses : disp' = [loss |-> losses[id], phase |-> "picked"]
  PROVE  LossInv'
<1>1. KnownRevisions' \subseteq KnownRevisions
  <2>1. \A d \in {disp'} \ {None} : d.loss.revision \in KnownRevisions
    <3>1. CASE disp' = disp
      BY <3>1 DEF KnownRevisions
    <3>2. CASE \E id \in DOMAIN losses : disp' = [loss |-> losses[id], phase |-> "picked"]
      BY <3>2 DEF KnownRevisions
    <3> QED  BY <3>1, <3>2
  <2> QED  BY <2>1 DEF KnownRevisions
<1>2. NumbersFresh'
  BY <1>1 DEF LossInv, NumbersFresh, Unused
<1>3. KnownDead'
  <2>1. \A r : Deliverable(r)' <=> Deliverable(r)
    BY DEF Deliverable
  <2>2. CASE disp' = disp \/ disp' = None
    BY <2>1, <2>2 DEF LossInv, KnownDead
  <2>3. ASSUME job = Idle, NEW id \in DOMAIN losses, disp' = [loss |-> losses[id], phase |-> "picked"]
        PROVE  KnownDead'
    <3>1. ~Deliverable(losses[id].revision)
      BY <2>3, NoneUncommitted
    <3>2. disp'.loss = losses[id]
      BY <2>3
    <3> QED  BY <2>1, <3>1, <3>2 DEF LossInv, KnownDead
  <2> QED  BY <2>2, <2>3
<1>4. DispatchSound'
  <2>1. CASE disp' = disp
    BY <2>1 DEF LossInv, DispatchSound, Owed
  <2>2. CASE disp' = None \/ \E id \in DOMAIN losses : disp' = [loss |-> losses[id], phase |-> "picked"]
    BY <2>2 DEF DispatchSound
  <2> QED  BY <2>1, <2>2
<1>5. JobNumbers' /\ LossesFiled' /\ JobSound' /\ LossesFinal' /\ NothingForgotten'
  <2>1. JobNumbers'
    BY DEF LossInv, JobNumbers
  <2>5. LossesFinal'
    BY DEF LossInv, LossesFinal, UncommittedLoss
  <2>2. LossesFiled'
    BY DEF LossInv, LossesFiled, UncommittedLoss
  <2>3. JobSound'
    BY DEF LossInv, JobSound, UncommittedLoss, Keeps
  <2>4. NothingForgotten'
    BY DEF LossInv, NothingForgotten, Owed
  <2> QED  BY <2>1, <2>2, <2>3, <2>4, <2>5
<1> QED  BY <1>2, <1>3, <1>4, <1>5 DEF LossInv

\* A recipient accounts for the numbers that leave the metadata of its entry.
LEMMA AccountKeeps ==
  ASSUME TypeInv, LossInv, job = Idle, NEW a \in Agents, entries[a] # Absent, NEW n,
         entries' = [entries EXCEPT ![a] = n], n # Absent,
         n.inc = entries[a].inc, n.gen = entries[a].gen, n.issued = entries[a].issued,
         DOMAIN n.metadata \subseteq DOMAIN entries[a].metadata,
         \A s \in DOMAIN n.metadata : n.metadata[s] = entries[a].metadata[s],
         Confirm(a, DOMAIN entries[a].metadata \ DOMAIN n.metadata),
         UNCHANGED <<losses, job, incs, disp, origins>>
  PROVE  LossInv'
<1> DEFINE e == entries[a]
           R == DOMAIN e.metadata \ DOMAIN n.metadata
<1>0. \A b \in Agents : entries'[b] = IF b = a THEN n ELSE entries[b]
  BY DEF TypeInv, EntriesOK
<1>1. /\ settled' = settled \cup {Origin(a, e, s) : s \in R}
      /\ confirmed' = confirmed \cup {RevisionOf(a, e, s) : s \in R}
  BY DEF Confirm
<1>2. \A s \in DOMAIN e.metadata : s \in Seqs /\ s <= e.issued
  BY StoredEntry
<1>3. \A r \in Revision : Deliverable(r)' => Deliverable(r)
  <2> SUFFICES ASSUME NEW r \in Revision, Deliverable(r)' PROVE Deliverable(r)
    OBVIOUS
  <2>1. r[1] \in Agents
    BY DEF Revision
  <2> QED  BY <1>0, <2>1 DEF Deliverable, RevisionOf
<1>4. \A r : \A s \in R : r = RevisionOf(a, e, s) => ~Deliverable(r)' /\ Deliverable(r)
  <2> SUFFICES ASSUME NEW r, NEW s \in R, r = RevisionOf(a, e, s)
               PROVE  ~Deliverable(r)' /\ Deliverable(r)
    OBVIOUS
  <2>1. Deliverable(r)
    BY NumberDeliverable
  <2>2. r[1] = a /\ r[4] = s
    BY RevisionParts
  <2>3. ~Deliverable(r)'
    BY <1>0, <2>2 DEF Deliverable
  <2> QED  BY <2>1, <2>3
<1>5. \A s \in DOMAIN n.metadata : Origin(a, n, s) = Origin(a, e, s)
  BY DEF Origin, LossIntent, RevisionOf
<1>6. \A id : Owed(id) => Owed(id)' \/ id \in settled'
  <2> SUFFICES ASSUME NEW id, NEW b \in Agents, entries[b] # Absent,
                      NEW s \in DOMAIN entries[b].metadata, Origin(b, entries[b], s) = id
               PROVE  Owed(id)' \/ id \in settled'
    BY DEF Owed
  <2>1. CASE b # a
    BY <1>0, <2>1 DEF Owed
  <2>2. CASE b = a /\ s \in DOMAIN n.metadata
    BY <1>0, <1>5, <2>2 DEF Owed
  <2>3. CASE b = a /\ s \notin DOMAIN n.metadata
    BY <1>1, <2>3
  <2> QED  BY <2>1, <2>2, <2>3
<1>7. KnownRevisions' = KnownRevisions \cup {RevisionOf(a, e, s) : s \in R}
  BY <1>1 DEF KnownRevisions
<1>8. NumbersFresh'
  <2>1. \A r \in KnownRevisions' \ KnownRevisions :
             r[1] = a /\ r[2] = e.inc /\ r[4] <= e.issued
    BY <1>2, <1>7, RevisionParts
  <2>2. \A b \in Agents : entries[b] # Absent => Unused(b, entries[b])
    BY DEF LossInv, NumbersFresh
  <2>3. \A r \in KnownRevisions' : r[2] < incs
    BY <2>1, <2>2 DEF LossInv, NumbersFresh, Unused
  <2>4. ASSUME NEW b \in Agents, entries'[b] # Absent PROVE Unused(b, entries[b])'
    <3>1. entries[b] # Absent /\ entries'[b].inc = entries[b].inc /\ entries'[b].issued = entries[b].issued
      BY <1>0, <2>4
    <3>2. Unused(b, entries[b])
      BY <2>2, <3>1
    <3> QED  BY <2>1, <3>1, <3>2 DEF Unused
  <2> QED  BY <2>3, <2>4 DEF NumbersFresh
<1>9. KnownDead'
  <2>1. confirmed \subseteq Revision /\ (disp # None => disp.loss.revision \in Revision)
    BY DEF TypeInv, HistoryOK, CallersOK, Dispatch, Loss
  <2> QED  BY <1>1, <1>3, <1>4, <2>1 DEF LossInv, KnownDead
<1>10. \A id \in DOMAIN losses : ~UncommittedLoss(losses[id])' /\ losses[id].revision \notin confirmed'
  <2> SUFFICES ASSUME NEW id \in DOMAIN losses
               PROVE  ~UncommittedLoss(losses[id])' /\ losses[id].revision \notin confirmed'
    OBVIOUS
  <2>1. losses[id].revision \in Revision
    BY DEF TypeInv, LossesOK, IsMap, Loss
  <2>2. ~Deliverable(losses[id].revision)
    BY NoneUncommitted
  <2>3. ~Deliverable(losses[id].revision)'
    BY <1>3, <2>1, <2>2
  <2>4. losses[id].revision \notin confirmed'
    BY <1>1, <1>4, <2>2 DEF LossInv, LossesFinal
  <2>5. UncommittedLoss(losses[id])' <=> Deliverable(losses[id].revision)'
    BY DEF UncommittedLoss, Deliverable, LossRecipient, LossSeq
  <2> QED  BY <2>3, <2>4, <2>5
<1>11. LossesFiled' /\ LossesFinal'
  BY <1>10 DEF LossInv, LossesFiled, LossesFinal
<1>12. DispatchSound'
  BY <1>1, <1>6 DEF LossInv, DispatchSound
<1>13. NothingForgotten'
  BY <1>1, <1>6 DEF LossInv, NothingForgotten
<1>14. JobNumbers' /\ JobSound'
  BY DEF JobNumbers, JobSound
<1> QED  BY <1>8, <1>9, <1>11, <1>12, <1>13, <1>14 DEF LossInv

\* A message, with or without a descriptor, gets the next number of its
\* recipient; a loss the dispatcher has delivered is the one it reports.
LEMMA IssueKeeps ==
  ASSUME TypeInv, LossInv, job = Idle, NEW a \in Agents, NEW d \in Descriptor \cup {None},
         IssueTo(a, d), UNCHANGED <<losses, job, incs, confirmed>>,
         \/ disp' = disp
         \/ /\ disp # None /\ disp' = [disp EXCEPT !.phase = "delivered"]
            /\ d = NoticeOf(disp.loss.id)
  PROVE  LossInv'
<1> DEFINE e == entries[a]
           n == IssueWithMetadata(e, d)
           q == e.issued + 1
           tracked == e # Absent /\ e.resync /\ d # None
<1>1. \A b \in Agents : b # a \/ e = Absent => entries'[b] = entries[b]
  BY DEF IssueTo, TypeInv, EntriesOK
<1>2. e # Absent =>
         /\ entries'[a] = n /\ n # Absent
         /\ n.inc = e.inc /\ n.gen = e.gen /\ n.issued = q
         /\ n.metadata = IF e.resync /\ d # None THEN Put(e.metadata, q, d) ELSE e.metadata
         /\ e.issued \in Nat /\ \A s \in DOMAIN e.metadata : s <= e.issued
  <2> SUFFICES ASSUME e # Absent PROVE
         /\ entries'[a] = n /\ n # Absent
         /\ n.inc = e.inc /\ n.gen = e.gen /\ n.issued = q
         /\ n.metadata = IF e.resync /\ d # None THEN Put(e.metadata, q, d) ELSE e.metadata
         /\ e.issued \in Nat /\ \A s \in DOMAIN e.metadata : s <= e.issued
    OBVIOUS
  <2>1. IsEntry(e) /\ e.issued \in Nat /\ e.gen \in Gens /\ \A s \in DOMAIN e.metadata : s <= e.issued
    BY StoredEntry
  <2>2. /\ n.inc = e.inc /\ n.gen = e.gen /\ n.issued = q
        /\ n.metadata = IF e.resync /\ d # None THEN Put(e.metadata, q, d) ELSE e.metadata
    BY <2>1 DEF IssueWithMetadata, IsEntry
  <2>3. n # Absent
    BY <2>1, <2>2, NoneAssumption DEF Absent
  <2>4. entries'[a] = n
    BY DEF IssueTo, TypeInv, EntriesOK
  <2> QED  BY <2>1, <2>2, <2>3, <2>4
<1> HIDE DEF n
<1>3. e # Absent /\ tracked =>
         /\ DOMAIN n.metadata = DOMAIN e.metadata \cup {q} /\ n.metadata[q] = d
         /\ \A s \in DOMAIN e.metadata : n.metadata[s] = e.metadata[s]
  BY <1>2 DEF Put
<1>4. e # Absent /\ ~tracked => n.metadata = e.metadata
  BY <1>2
<1>5. e # Absent => /\ DOMAIN e.metadata \subseteq DOMAIN n.metadata
                    /\ \A s \in DOMAIN e.metadata :
                          n.metadata[s] = e.metadata[s] /\ Origin(a, n, s) = Origin(a, e, s)
                    /\ \A s \in DOMAIN n.metadata : s \in DOMAIN e.metadata \/ s = q
  BY <1>2, <1>3, <1>4 DEF Origin, LossIntent, RevisionOf
<1>6. KnownRevisions' \subseteq KnownRevisions
  <2>1. disp # None /\ disp' # disp => disp'.loss = disp.loss
    BY DEF TypeInv, CallersOK, Dispatch
  <2> QED  BY <2>1 DEF KnownRevisions
<1>7. KnownRevisions \subseteq Revision
  BY DEF KnownRevisions, TypeInv, LossesOK, HistoryOK, CallersOK, IsMap, Dispatch, Loss
<1>8. \A r \in KnownRevisions : Deliverable(r)' => Deliverable(r)
  <2> SUFFICES ASSUME NEW r \in KnownRevisions, Deliverable(r)' PROVE Deliverable(r)
    OBVIOUS
  <2>1. r[1] \in Agents
    BY <1>7 DEF Revision
  <2>2. CASE r[1] # a \/ e = Absent
    BY <1>1, <2>1, <2>2 DEF Deliverable, RevisionOf
  <2>3. CASE r[1] = a /\ e # Absent
    <3>1. r[4] \in DOMAIN n.metadata /\ r = <<a, e.inc, e.gen, r[4]>>
      BY <1>2, <2>3 DEF Deliverable, RevisionOf
    <3>2. r[4] <= e.issued
      BY <2>3, <3>1 DEF LossInv, NumbersFresh, Unused
    <3>3. r[4] \in DOMAIN e.metadata
      BY <1>2, <1>5, <2>3, <3>1, <3>2
    <3> QED  BY <2>3, <3>1, <3>3 DEF Deliverable, RevisionOf
  <2> QED  BY <2>2, <2>3
<1>9. \A id : Owed(id) => Owed(id)'
  <2> SUFFICES ASSUME NEW id, NEW b \in Agents, entries[b] # Absent,
                      NEW s \in DOMAIN entries[b].metadata, Origin(b, entries[b], s) = id
               PROVE  Owed(id)'
    BY DEF Owed
  <2>1. CASE b # a
    BY <1>1, <2>1 DEF Owed
  <2>2. CASE b = a
    BY <1>2, <1>5, <2>2 DEF Owed
  <2> QED  BY <2>1, <2>2
<1>10. \A id : tracked /\ id = Origin(a, n, q) => Owed(id)'
  BY <1>2, <1>3 DEF Owed
<1>11. NumbersFresh'
  <2>1. ASSUME NEW b \in Agents, entries'[b] # Absent PROVE Unused(b, entries[b])'
    <3>1. entries[b] # Absent /\ entries'[b].inc = entries[b].inc
          /\ (entries'[b].issued = entries[b].issued
              \/ (entries'[b].issued = entries[b].issued + 1 /\ entries[b].issued \in Nat))
      BY <1>1, <1>2, <2>1
    <3>2. Unused(b, entries[b])
      BY <3>1 DEF LossInv, NumbersFresh
    <3>3. \A r \in KnownRevisions : r[4] \in Nat
      BY <1>7 DEF Revision, Seqs
    <3> QED  BY <1>6, <3>1, <3>2, <3>3 DEF Unused
  <2> QED  BY <1>6, <2>1 DEF LossInv, NumbersFresh
<1>12. KnownDead'
  <2>1. \A r \in confirmed : ~Deliverable(r)'
    BY <1>8 DEF LossInv, KnownDead, KnownRevisions
  <2>2. disp' # None => disp # None /\ disp'.loss = disp.loss
    BY DEF TypeInv, CallersOK, Dispatch
  <2>3. disp # None => disp.loss.revision \in KnownRevisions
    BY DEF KnownRevisions
  <2>4. \A r : disp # None /\ r = disp.loss.revision => ~Deliverable(r)'
    BY <1>8, <2>3 DEF LossInv, KnownDead
  <2> QED  BY <2>1, <2>2, <2>4 DEF KnownDead, Deliverable, RevisionOf
<1>13. \A id \in DOMAIN losses : ~UncommittedLoss(losses[id])'
  <2> SUFFICES ASSUME NEW id \in DOMAIN losses PROVE ~UncommittedLoss(losses[id])'
    OBVIOUS
  <2>1. losses[id].revision \in KnownRevisions
    BY DEF KnownRevisions
  <2>2. ~Deliverable(losses[id].revision)
    BY NoneUncommitted
  <2>3. ~Deliverable(losses[id].revision)'
    BY <1>8, <2>1, <2>2
  <2> QED  BY <2>3 DEF UncommittedLoss, Deliverable, LossRecipient, LossSeq
<1>14. LossesFiled' /\ LossesFinal'
  BY <1>13 DEF LossInv, LossesFiled, LossesFinal
<1>15. settled \subseteq settled'
  BY DEF IssueTo
<1>16. DispatchSound'
  <2>1. CASE disp' = disp
    BY <1>9, <1>15, <2>1 DEF LossInv, DispatchSound
  <2>2. CASE disp # None /\ disp' = [disp EXCEPT !.phase = "delivered"] /\ d = NoticeOf(disp.loss.id)
    <3>1. disp'.loss = disp.loss /\ disp.loss.id \in Revision
      BY <2>2 DEF TypeInv, CallersOK, Dispatch, Loss
    <3>2. d # None /\ d.loss_id = disp.loss.id /\ d.loss_id # None
      <4>1. NoticeOf(disp.loss.id) \in Descriptor
        BY <3>1, DescriptorsTyped
      <4> QED  BY <2>2, <3>1, <4>1, NoneAssumption DEF NoticeOf
    <3>3. CASE tracked
      <4>1. Origin(a, n, q) = disp.loss.id
        BY <1>3, <3>2, <3>3 DEF Origin, LossIntent
      <4>2. \A id : id = disp.loss.id => Owed(id)'
        BY <1>10, <3>3, <4>1
      <4> QED  BY <3>1, <4>2 DEF DispatchSound
    <3>4. CASE ~tracked
      <4>1. disp.loss.id \in settled'
        BY <3>2, <3>4 DEF IssueTo
      <4> QED  BY <3>1, <4>1 DEF DispatchSound
    <3> QED  BY <3>3, <3>4
  <2> QED  BY <2>1, <2>2
<1>17. NothingForgotten'
  <2>1. \A id \in origins' : id \in origins \/ (tracked /\ id = Origin(a, n, q))
    BY <1>2 DEF IssueTo, n
  <2> QED  BY <1>9, <1>10, <1>15, <2>1 DEF LossInv, NothingForgotten
<1>18. JobNumbers' /\ JobSound'
  BY DEF JobNumbers, JobSound
<1> QED  BY <1>11, <1>12, <1>14, <1>16, <1>17, <1>18 DEF LossInv

\* The dispatcher removes the loss it has reported.
LEMMA CompleteKeeps ==
  ASSUME TypeInv, LossInv, DispatchComplete
  PROVE  LossInv'
<1> DEFINE l == disp.loss
<1>1. job = Idle /\ disp # None /\ disp.phase = "delivered" /\ disp' = None
      /\ losses' = CompleteLoss(l)
      /\ UNCHANGED <<entries, job, incs, origins, settled, confirmed>>
  BY DEF DispatchComplete
<1>2. /\ DOMAIN losses' \subseteq DOMAIN losses
      /\ \A id \in DOMAIN losses' : losses'[id] = losses[id]
      /\ \A id \in DOMAIN losses \ DOMAIN losses' : id = l.id /\ losses[id].revision = l.revision
  <2>1. CASE losses' = losses
    BY <2>1
  <2>2. CASE losses' = Drop(losses, {l.id}) /\ losses[l.id].revision = l.revision
    <3>1. IsMap(losses, Revision, Loss)
      BY DEF TypeInv, LossesOK
    <3>2. /\ DOMAIN Drop(losses, {l.id}) = DOMAIN losses \ {l.id}
          /\ \A x \in DOMAIN losses \ {l.id} : Drop(losses, {l.id})[x] = losses[x]
      BY <3>1, DropIsMap
    <3> QED  BY <2>2, <3>2
  <2> QED  BY <1>1, <2>1, <2>2 DEF CompleteLoss
<1>3. KnownRevisions' \subseteq KnownRevisions
  BY <1>1, <1>2 DEF KnownRevisions
<1>4. NumbersFresh'
  BY <1>1, <1>3 DEF LossInv, NumbersFresh, Unused
<1>5. KnownDead'
  BY <1>1 DEF LossInv, KnownDead, Deliverable, RevisionOf
<1>6. LossesFiled' /\ LossesFinal'
  BY <1>1, <1>2 DEF LossInv, LossesFiled, LossesFinal, UncommittedLoss, RevisionOf
<1>7. DispatchSound' /\ JobNumbers' /\ JobSound'
  BY <1>1 DEF DispatchSound, JobNumbers, JobSound
<1>8. NothingForgotten'
  <2>1. \A id : Owed(id)' <=> Owed(id)
    BY <1>1 DEF Owed, Origin, LossIntent, RevisionOf
  <2>2. ASSUME NEW id \in DOMAIN losses \ DOMAIN losses' PROVE id \in settled \/ Owed(id)
    BY <1>1, <1>2, <2>2 DEF LossInv, DispatchSound
  <2> QED  BY <1>1, <2>1, <2>2 DEF LossInv, NothingForgotten
<1> QED  BY <1>4, <1>5, <1>6, <1>7, <1>8 DEF LossInv

\* A restart drops exactly the intents whose message its entry still holds.
LEMMA CrashKeeps ==
  ASSUME TypeInv, LossInv, LedgerCrash
  PROVE  LossInv'
<1> DEFINE S == {id \in DOMAIN losses : ~UncommittedLoss(losses[id])}
<1>1. job' = Idle /\ UNCHANGED <<entries, incs, disp, origins, settled, confirmed>>
  BY DEF LedgerCrash
<1>2. DOMAIN losses' = S /\ \A id \in S : losses'[id] = losses[id]
  <2>1. IsMap(losses, Revision, Loss) /\ S \subseteq DOMAIN losses
    BY DEF TypeInv, LossesOK
  <2>2. losses' = Restrict(losses, S)
    BY DEF LedgerCrash, CommittedLosses
  <2> HIDE DEF S
  <2> QED  BY <2>1, <2>2, RestrictIsMap
<1>3. KnownRevisions' \subseteq KnownRevisions
  BY <1>1, <1>2 DEF KnownRevisions
<1>4. NumbersFresh'
  BY <1>1, <1>3 DEF LossInv, NumbersFresh, Unused
<1>5. KnownDead'
  BY <1>1 DEF LossInv, KnownDead, Deliverable, RevisionOf
<1>6. \A id \in DOMAIN losses' : ~UncommittedLoss(losses[id])'
  <2> SUFFICES ASSUME NEW id \in DOMAIN losses' PROVE ~UncommittedLoss(losses[id])'
    OBVIOUS
  <2>1. ~UncommittedLoss(losses[id]) /\ losses'[id] = losses[id]
    BY <1>2
  <2> QED  BY <1>1, <2>1 DEF UncommittedLoss, RevisionOf
<1>7. LossesFiled' /\ LossesFinal'
  BY <1>1, <1>2, <1>6 DEF LossInv, LossesFiled, LossesFinal
<1>8. \A id : Owed(id)' <=> Owed(id)
  BY <1>1 DEF Owed, Origin, LossIntent, RevisionOf
<1>9. ASSUME NEW id \in DOMAIN losses \ DOMAIN losses' PROVE Owed(id)
  <2> DEFINE l == losses[id]
             b == LossRecipient(l)
             s == LossSeq(l)
  <2>1. UncommittedLoss(l)
    BY <1>2, <1>9
  <2>2. l.id = id /\ l = LossIntent(job.agent, entries[job.agent], s) /\ job.agent = b
    BY <2>1 DEF LossInv, LossesFiled
  <2>3. entries[b] # Absent /\ s \in DOMAIN entries[b].metadata /\ b \in Agents
    <3>1. l \in Loss
      BY DEF TypeInv, LossesOK, IsMap
    <3> QED  BY <2>1, <3>1, LossFields DEF UncommittedLoss
  <2>4. Origin(b, entries[b], s) = id
    BY <2>2 DEF Origin
  <2> QED  BY <2>3, <2>4 DEF Owed
<1>10. DispatchSound'
  <2>1. disp # None /\ disp.phase = "delivered" =>
           \/ disp.loss.id \in settled
           \/ Owed(disp.loss.id)
           \/ /\ disp.loss.id \in DOMAIN losses'
              /\ losses'[disp.loss.id].revision # disp.loss.revision
    BY <1>2, <1>9 DEF LossInv, DispatchSound
  <2>2. Owed(disp.loss.id)' <=> Owed(disp.loss.id)
    BY <1>1 DEF Owed, Origin, LossIntent, RevisionOf
  <2> QED  BY <1>1, <2>1, <2>2 DEF DispatchSound
<1>11. NothingForgotten'
  BY <1>1, <1>8, <1>9 DEF LossInv, NothingForgotten
<1>12. JobNumbers' /\ JobSound'
  BY <1>1 DEF JobNumbers, JobSound
<1> QED  BY <1>4, <1>5, <1>7, <1>10, <1>11, <1>12 DEF LossInv

\* One intent is written: its message is still in the entry, so the intent is
\* uncommitted, describes it, and cannot be the loss that is being reported.
LEMMA WriteKeeps ==
  ASSUME TypeInv, LossInv, job # Idle, NEW i \in job.intents, WriteIntent(i)
  PROVE  LossInv'
<1> DEFINE a == job.agent
           e == entries[a]
           n == job.commits[1]
           s0 == LossSeq(i)
<1>1. /\ losses' = Put(losses, i.id, i)
      /\ job' = [job EXCEPT !.intents = job.intents \ {i}]
      /\ UNCHANGED <<entries, incs, disp, origins, settled, confirmed>>
  BY DEF WriteIntent
<1>2. /\ job'.agent = a /\ job'.commits = job.commits /\ job'.bind = job.bind /\ job'.client = job.client
      /\ job'.intents = job.intents \ {i} /\ job' # Idle /\ a \in Agents
  <2>1. IsJob(job)
    BY DEF TypeInv, JobOK
  <2>2. job'.agent = a /\ a \in Agents
    BY <1>1, <2>1 DEF IsJob
  <2> QED  BY <1>1, <2>1, <2>2, NoneAssumption DEF IsJob, Idle
<1>3. e # Absent /\ s0 \in DOMAIN e.metadata /\ i = LossIntent(a, e, s0) /\ ~Keeps(n, s0)
  BY DEF LossInv, JobSound
<1>4. i.id = Origin(a, e, s0) /\ i.revision = RevisionOf(a, e, s0) /\ LossRecipient(i) = a
  BY <1>3, IntentParts
<1>5. /\ DOMAIN losses' = DOMAIN losses \cup {i.id} /\ losses'[i.id] = i
      /\ \A id \in DOMAIN losses : id = i.id \/ losses'[id] = losses[id]
  BY <1>1 DEF Put
<1>6. Deliverable(i.revision)
  BY <1>3, <1>4, NumberDeliverable
<1>7. KnownRevisions' \subseteq KnownRevisions \cup {i.revision}
  BY <1>1, <1>5 DEF KnownRevisions
<1>8. \A l : UncommittedLoss(l)' <=> UncommittedLoss(l)
  BY <1>1 DEF UncommittedLoss, RevisionOf
<1>9. UncommittedLoss(i)
  BY <1>6 DEF UncommittedLoss, Deliverable, LossRecipient, LossSeq
<1>10. \A id \in DOMAIN losses' :
          UncommittedLoss(losses[id])' => (id = i.id \/ (id \in DOMAIN losses /\ losses'[id] = losses[id] /\ UncommittedLoss(losses[id])))
  BY <1>1, <1>5 DEF UncommittedLoss, RevisionOf
<1>11. i.revision[1] = a /\ i.revision[2] = e.inc /\ i.revision[4] = s0 /\ s0 <= e.issued /\ s0 \in Nat
       /\ e.issued \in Nat
  BY <1>2, <1>3, <1>4, StoredEntry, RevisionParts DEF Seqs
<1>12. NumbersFresh'
  <2>1. ASSUME NEW b \in Agents, entries[b] # Absent PROVE Unused(b, entries[b])'
    <3>1. Unused(b, entries[b])
      BY <2>1 DEF LossInv, NumbersFresh
    <3> QED  BY <1>1, <1>7, <1>11, <3>1 DEF Unused
  <2>2. \A r \in KnownRevisions' : r[2] < incs
    <3>1. Unused(a, e)
      BY <1>2, <1>3 DEF LossInv, NumbersFresh
    <3> QED  BY <1>7, <1>11, <3>1 DEF LossInv, NumbersFresh, Unused
  <2>3. ASSUME NEW k \in DOMAIN job.commits, job.commits[k] # Absent
        PROVE  Unused(a, job.commits[k])'
    <3> DEFINE x == job.commits[k]
    <3>1. Unused(a, x)
      BY <2>3 DEF LossInv, NumbersFresh
    <3>2. x.inc = e.inc => s0 <= x.issued
      <4>1. x.inc = e.inc => e.issued <= x.issued
        BY <1>3, <2>3 DEF LossInv, JobNumbers
      <4>2. x.issued \in Nat
        <5>1. Good(x)
          <6>1. Stored(n) /\ (job.commits = <<n>> \/ (job.commits = <<n, job.commits[2]>> /\ Stored(job.commits[2])))
            BY JobFields
          <6>2. k = 1 \/ (k = 2 /\ Stored(job.commits[2]))
            BY <2>3, <6>1
          <6> QED  BY <2>3, <6>1, <6>2 DEF Stored
        <5> QED  BY <5>1, EntryFields DEF Good
      <4> QED  BY <1>11, <4>1, <4>2
    <3>3. \A r \in KnownRevisions' : (r[1] = a /\ r[2] = x.inc) => r[4] <= x.issued
      BY <1>7, <1>11, <3>1, <3>2 DEF Unused
    <3> QED  BY <1>1, <1>2, <3>1, <3>3 DEF Unused
  <2> QED  BY <1>1, <1>2, <2>1, <2>2, <2>3 DEF NumbersFresh
<1>13. JobNumbers'
  BY <1>1, <1>2 DEF LossInv, JobNumbers
<1>14. KnownDead'
  BY <1>1 DEF LossInv, KnownDead, Deliverable, RevisionOf
<1>15. LossesFiled'
  <2> SUFFICES ASSUME NEW id \in DOMAIN losses'
               PROVE  /\ losses'[id].id = id
                      /\ UncommittedLoss(losses[id])' =>
                           /\ a = LossRecipient(losses'[id])
                           /\ losses'[id] = LossIntent(a, e, LossSeq(losses'[id]))
    BY <1>1, <1>2 DEF LossesFiled
  <2>1. CASE id = i.id
    BY <1>3, <1>4, <1>5, <2>1
  <2>2. CASE id # i.id
    <3>1. id \in DOMAIN losses /\ losses'[id] = losses[id]
      BY <1>5, <2>2
    <3> QED  BY <1>10, <2>2, <3>1 DEF LossInv, LossesFiled
  <2> QED  BY <2>1, <2>2
<1>16. JobSound'
  <2>1. \A s : Keeps(n, s)' <=> Keeps(n, s)
    BY <1>2 DEF Keeps
  <2>2. \A id \in DOMAIN losses' : UncommittedLoss(losses[id])' => ~Keeps(n, LossSeq(losses'[id]))
    <3> SUFFICES ASSUME NEW id \in DOMAIN losses', UncommittedLoss(losses[id])'
                 PROVE  ~Keeps(n, LossSeq(losses'[id]))
      OBVIOUS
    <3>1. CASE id = i.id
      BY <1>3, <1>5, <3>1
    <3>2. CASE id # i.id
      BY <1>10, <3>2 DEF LossInv, JobSound
    <3> QED  BY <3>1, <3>2
  <2>3. ASSUME NEW s \in DOMAIN e.metadata
        PROVE  \/ Keeps(n, s)
               \/ LossIntent(a, e, s) \in job'.intents
               \/ /\ Origin(a, e, s) \in DOMAIN losses'
                  /\ \A l : l = losses'[Origin(a, e, s)] => UncommittedLoss(l)
    <3>1. CASE Keeps(n, s)
      BY <3>1
    <3>2. CASE LossIntent(a, e, s) \in job.intents \ {i}
      BY <1>2, <3>2
    <3>3. CASE LossIntent(a, e, s) = i
      <4>1. Origin(a, e, s) = i.id
        BY <3>3 DEF Origin
      <4> QED  BY <1>5, <1>9, <4>1
    <3>4. CASE Origin(a, e, s) \in DOMAIN losses /\ UncommittedLoss(losses[Origin(a, e, s)])
      <4>1. CASE Origin(a, e, s) = i.id
        BY <1>5, <1>9, <4>1
      <4>2. CASE Origin(a, e, s) # i.id
        BY <1>5, <3>4, <4>2
      <4> QED  BY <4>1, <4>2
    <3> QED  BY <1>3, <2>3, <3>1, <3>2, <3>3, <3>4 DEF LossInv, JobSound
  <2>4. \A id : UncommittedLoss(losses'[id]) <=> UncommittedLoss(losses[id])'
    BY <1>1 DEF UncommittedLoss, RevisionOf, LossRecipient, LossSeq
  <2>5. entries' = entries
    BY <1>1
  <2> DEFINE E == e # Absent
             M1 == n # Absent => \A s \in DOMAIN n.metadata :
                     /\ e # Absent /\ s \in DOMAIN e.metadata
                     /\ n.metadata[s] = e.metadata[s] /\ n.inc = e.inc /\ n.gen = e.gen
             M2 == Len(job.commits) = 2 =>
                     /\ n # Absent /\ DOMAIN n.metadata = {}
                     /\ job.commits[2] # Absent => DOMAIN job.commits[2].metadata = {}
             M3 == \A j \in job'.intents :
                     /\ e # Absent /\ LossSeq(j) \in DOMAIN e.metadata
                     /\ j = LossIntent(a, e, LossSeq(j))
                     /\ ~Keeps(n, LossSeq(j))
             M4 == job.bind # None => job.client # None
  <2>6. M1 /\ M2 /\ M3 /\ M4
    BY <1>2 DEF LossInv, JobSound
  <2> DEFINE M5 == \A id \in DOMAIN losses' : UncommittedLoss(losses[id])' => ~Keeps(n, LossSeq(losses'[id]))
             M6 == e # Absent => \A s \in DOMAIN e.metadata :
                     \/ Keeps(n, s)
                     \/ LossIntent(a, e, s) \in job'.intents
                     \/ \E id \in DOMAIN losses' : id = Origin(a, e, s) /\ UncommittedLoss(losses[id])'
  <2>7. M5
    BY <2>2, <2>4
  <2>8. M6
    <3> SUFFICES ASSUME NEW s \in DOMAIN e.metadata
                 PROVE  \/ Keeps(n, s)
                        \/ LossIntent(a, e, s) \in job'.intents
                        \/ \E id \in DOMAIN losses' : id = Origin(a, e, s) /\ UncommittedLoss(losses[id])'
      OBVIOUS
    <3>1. CASE /\ Origin(a, e, s) \in DOMAIN losses'
               /\ \A l : l = losses'[Origin(a, e, s)] => UncommittedLoss(l)
      <4> DEFINE o == Origin(a, e, s)
      <4>1. o \in DOMAIN losses' /\ UncommittedLoss(losses'[o])
        BY <3>1
      <4> HIDE DEF o
      <4>2. PICK id : id = o
        OBVIOUS
      <4>3. UncommittedLoss(losses[id])'
        BY <2>4, <4>1, <4>2
      <4> QED  BY <4>1, <4>2, <4>3 DEF o
    <3> QED  BY <2>3, <3>1
  <2>9. /\ job'.agent = a /\ entries'[a] = e /\ job'.commits = job.commits /\ job'.bind = job.bind
        /\ job'.client = job.client
    BY <1>1, <1>2
  <2> QED  BY <2>6, <2>7, <2>8, <2>9 DEF JobSound
<1>17. DispatchSound'
  <2>1. \A id : Owed(id)' <=> Owed(id)
    BY <1>1 DEF Owed, Origin, LossIntent, RevisionOf
  <2>2. disp # None => ~Deliverable(disp.loss.revision)
    BY DEF LossInv, KnownDead
  <2>3. \A id \in DOMAIN losses : (disp # None /\ losses[id].revision # disp.loss.revision)
                                      => losses'[id].revision # disp.loss.revision
    BY <1>5, <1>6, <2>2
  <2>4. disp # None /\ disp.phase = "delivered" =>
           \/ disp.loss.id \in settled
           \/ Owed(disp.loss.id)
           \/ /\ disp.loss.id \in DOMAIN losses'
              /\ losses'[disp.loss.id].revision # disp.loss.revision
    BY <1>5, <2>3 DEF LossInv, DispatchSound
  <2>5. Owed(disp.loss.id)' <=> Owed(disp.loss.id)
    BY <1>1 DEF Owed, Origin, LossIntent, RevisionOf
  <2> QED  BY <1>1, <2>4, <2>5 DEF DispatchSound
<1>18. LossesFinal'
  <2>1. i.revision \notin confirmed
    BY <1>6 DEF LossInv, KnownDead
  <2> QED  BY <1>1, <1>2, <1>5, <2>1 DEF LossInv, LossesFinal
<1>19. NothingForgotten'
  <2>1. \A id : Owed(id)' <=> Owed(id)
    BY <1>1 DEF Owed, Origin, LossIntent, RevisionOf
  <2> QED  BY <1>1, <1>5, <2>1 DEF LossInv, NothingForgotten
<1> QED  BY <1>12, <1>13, <1>14, <1>15, <1>16, <1>17, <1>18, <1>19 DEF LossInv

\* The entry value a handler stores adds nothing deliverable, and each number
\* it takes out has its intent in the table by now.
LEMMA CommitKeeps ==
  ASSUME TypeInv, LossInv, CommitEntry
  PROVE  LossInv'
<1> DEFINE a == job.agent
           e == entries[a]
           n == job.commits[1]
           two == Len(job.commits) = 2
           m == job.commits[2]
<1>1. /\ job # Idle /\ job.intents = {} /\ a \in Agents
      /\ job.commits = <<n>> \/ job.commits = <<n, m>>
      /\ DOMAIN job.commits = 1..Len(job.commits) /\ (Len(job.commits) = 1 \/ two)
      /\ UNCHANGED <<losses, incs, disp, origins, settled, confirmed>>
  <2>1. job # Idle /\ job.intents = {} /\ UNCHANGED <<losses, incs, disp, origins, settled, confirmed>>
    BY DEF CommitEntry
  <2>2. a \in Agents /\ (job.commits = <<n>> \/ job.commits = <<n, m>>)
    BY <2>1, JobFields
  <2>3. DOMAIN job.commits = 1..Len(job.commits) /\ (Len(job.commits) = 1 \/ two)
    <3> HIDE DEF n, m
    <3>1. CASE job.commits = <<n>>
      BY <3>1
    <3>2. CASE job.commits = <<n, m>>
      BY <3>2
    <3> QED  BY <2>2, <3>1, <3>2
  <2> QED  BY <2>1, <2>2, <2>3
<1>2. \A b \in Agents : entries'[b] = IF b = a THEN n ELSE entries[b]
  <2>1. Head(job.commits) = n
    BY <1>1
  <2>2. entries' = [entries EXCEPT ![a] = n]
    BY <2>1 DEF CommitEntry
  <2> QED  BY <1>1, <2>2 DEF TypeInv, EntriesOK
<1>3. ~two => job' = Idle
  BY <1>1 DEF CommitEntry
<1>4. two => /\ job'.agent = a /\ job'.commits = <<m>> /\ job'.intents = {}
             /\ job'.client = job.client /\ job'.bind = job.bind
  <2> SUFFICES ASSUME two PROVE
             /\ job'.agent = a /\ job'.commits = <<m>> /\ job'.intents = {}
             /\ job'.client = job.client /\ job'.bind = job.bind
    OBVIOUS
  <2>1. job.commits = <<n, m>>
    BY <1>1
  <2>2. Tail(job.commits) = <<m>>
    <3> HIDE DEF n, m
    <3> QED  BY <2>1, TailPair
  <2>3. job' = [job EXCEPT !.commits = <<m>>]
    <3>1. job' = IF Len(job.commits) = 1 THEN Idle ELSE [job EXCEPT !.commits = Tail(job.commits)]
      BY DEF CommitEntry
    <3> QED  BY <2>2, <3>1
  <2>4. IsJob(job)
    BY <1>1 DEF TypeInv, JobOK
  <2> QED  BY <1>1, <2>3, <2>4 DEF IsJob
<1>5. n # Absent => \A s \in DOMAIN n.metadata :
         /\ e # Absent /\ s \in DOMAIN e.metadata
         /\ n.metadata[s] = e.metadata[s] /\ n.inc = e.inc /\ n.gen = e.gen
  BY <1>1 DEF LossInv, JobSound
<1>6. \A r \in Revision : Deliverable(r)' => Deliverable(r) /\ (r[1] = a => Keeps(n, r[4]))
  <2> SUFFICES ASSUME NEW r \in Revision, Deliverable(r)'
               PROVE  Deliverable(r) /\ (r[1] = a => Keeps(n, r[4]))
    OBVIOUS
  <2>1. r[1] \in Agents
    BY DEF Revision
  <2>2. CASE r[1] # a
    BY <1>2, <2>1, <2>2 DEF Deliverable, RevisionOf
  <2>3. CASE r[1] = a
    <3>1. n # Absent /\ r[4] \in DOMAIN n.metadata /\ r = <<a, n.inc, n.gen, r[4]>>
      BY <1>2, <2>1, <2>3 DEF Deliverable, RevisionOf
    <3>2. e # Absent /\ r[4] \in DOMAIN e.metadata /\ n.inc = e.inc /\ n.gen = e.gen
      BY <1>5, <3>1
    <3>3. RevisionOf(r[1], e, r[4]) = <<a, n.inc, n.gen, r[4]>>
      BY <2>3, <3>2 DEF RevisionOf
    <3> QED  BY <2>3, <3>1, <3>2, <3>3 DEF Deliverable, Keeps
  <2> QED  BY <2>2, <2>3
<1>7. KnownRevisions' = KnownRevisions /\ KnownRevisions \subseteq Revision
  BY <1>1 DEF KnownRevisions, TypeInv, LossesOK, HistoryOK, CallersOK, IsMap, Dispatch, Loss
<1>8. NumbersFresh'
  <2>1. \A k \in DOMAIN job.commits : job.commits[k] # Absent => Unused(a, job.commits[k])
    BY <1>1 DEF LossInv, NumbersFresh
  <2>2. \A b, x : Unused(b, x)' <=> Unused(b, x)
    BY <1>1, <1>7 DEF Unused
  <2>3. ASSUME NEW b \in Agents, entries'[b] # Absent PROVE Unused(b, entries'[b])
    BY <1>1, <1>2, <2>1, <2>3 DEF LossInv, NumbersFresh
  <2>4. two => /\ \A k \in DOMAIN job'.commits : k = 1 /\ job'.commits[k] = m
               /\ m # Absent => Unused(a, m)
    BY <1>1, <1>4, <2>1
  <2>5. \A r \in KnownRevisions' : r[2] < incs
    BY <1>7 DEF LossInv, NumbersFresh
  <2>6. job' # Idle => two
    BY <1>3
  <2> QED  BY <1>1, <1>4, <2>2, <2>3, <2>4, <2>5, <2>6 DEF NumbersFresh
<1>9. JobNumbers'
  <2> SUFFICES ASSUME two PROVE JobNumbers'
    BY <1>3 DEF JobNumbers
  <2>1. e # Absent /\ n # Absent /\ n.inc = e.inc /\ n.issued = e.issued
        /\ (m # Absent /\ m.inc = e.inc => e.issued <= m.issued)
    BY <1>1 DEF LossInv, JobNumbers
  <2>2. DOMAIN job'.commits = {1} /\ job'.commits[1] = m /\ Len(job'.commits) = 1
    BY <1>4
  <2>3. entries'[job'.agent] = n
    BY <1>1, <1>2, <1>4
  <2> QED  BY <2>1, <2>2, <2>3 DEF JobNumbers
<1>10. KnownDead'
  <2>1. confirmed \subseteq Revision /\ (disp # None => disp.loss.revision \in Revision)
    BY DEF TypeInv, HistoryOK, CallersOK, Dispatch, Loss
  <2> QED  BY <1>1, <1>6, <2>1 DEF LossInv, KnownDead
<1>11. \A id \in DOMAIN losses : ~UncommittedLoss(losses[id])'
  <2> SUFFICES ASSUME NEW id \in DOMAIN losses, NEW l, l = losses[id], UncommittedLoss(l)' PROVE FALSE
    BY <1>1
  <2>1. l \in Loss /\ l.revision \in Revision /\ LossRecipient(l) = l.revision[1] /\ LossSeq(l) = l.revision[4]
    BY DEF TypeInv, LossesOK, IsMap, Loss, LossRecipient, LossSeq
  <2>2. Deliverable(l.revision)'
    BY UncommittedMeans
  <2>3. Deliverable(l.revision) /\ (l.revision[1] = a => Keeps(n, l.revision[4]))
    BY <1>6, <2>1, <2>2
  <2>4. UncommittedLoss(l)
    BY <2>3, UncommittedMeans
  <2>5. a = l.revision[1] /\ ~Keeps(n, l.revision[4])
    BY <1>1, <2>1, <2>4 DEF LossInv, LossesFiled, JobSound
  <2> QED  BY <2>3, <2>5
<1>12. LossesFiled' /\ LossesFinal'
  BY <1>1, <1>11 DEF LossInv, LossesFiled, LossesFinal
<1>13. JobSound'
  <2> SUFFICES ASSUME two PROVE JobSound'
    BY <1>3 DEF JobSound
  <2>1. /\ n # Absent /\ DOMAIN n.metadata = {}
        /\ m # Absent => DOMAIN m.metadata = {}
        /\ job.bind # None => job.client # None
    BY <1>1 DEF LossInv, JobSound
  <2>2. entries'[job'.agent] = n /\ job'.commits[1] = m /\ Len(job'.commits) = 1
    BY <1>1, <1>2, <1>4
  <2> QED  BY <1>1, <1>4, <1>11, <2>1, <2>2 DEF JobSound
<1>14. \A id : Owed(id) => Owed(id)' \/ (id \in DOMAIN losses /\ UncommittedLoss(losses[id]))
  <2> SUFFICES ASSUME NEW id, NEW b \in Agents, entries[b] # Absent,
                      NEW s \in DOMAIN entries[b].metadata, Origin(b, entries[b], s) = id
               PROVE  Owed(id)' \/ (id \in DOMAIN losses /\ UncommittedLoss(losses[id]))
    BY DEF Owed
  <2>1. CASE b # a
    BY <1>2, <2>1 DEF Owed
  <2>2. CASE b = a /\ Keeps(n, s)
    <3>1. n # Absent /\ s \in DOMAIN n.metadata /\ n.metadata[s] = e.metadata[s] /\ n.inc = e.inc /\ n.gen = e.gen
      BY <1>5, <2>2 DEF Keeps
    <3>2. Origin(a, n, s) = id
      BY <2>2, <3>1 DEF Origin, LossIntent, RevisionOf
    <3> QED  BY <1>1, <1>2, <3>1, <3>2 DEF Owed
  <2>3. CASE b = a /\ ~Keeps(n, s)
    BY <1>1, <2>3 DEF LossInv, JobSound
  <2> QED  BY <2>1, <2>2, <2>3
<1>15. DispatchSound'
  <2>1. disp # None => ~Deliverable(disp.loss.revision)
    BY DEF LossInv, KnownDead
  <2>2. \A id \in DOMAIN losses : UncommittedLoss(losses[id]) => Deliverable(losses[id].revision)
    BY UncommittedMeans
  <2> QED  BY <1>1, <1>14, <2>1, <2>2 DEF LossInv, DispatchSound
<1>16. NothingForgotten'
  BY <1>1, <1>14 DEF LossInv, NothingForgotten
<1> QED  BY <1>8, <1>9, <1>10, <1>12, <1>13, <1>15, <1>16 DEF LossInv

-----------------------------------------------------------------------------
(* A handler begins.                                                       *)

\* The incarnation and numbers of a value to be stored: the entry's own, or
\* an incarnation that was just drawn.
NumberedLike(e, x) ==
    x # Absent => \/ e # Absent /\ x.inc = e.inc /\ x.issued = e.issued
                  \/ x.inc = incs /\ incs' = incs + 1

\* Value x keeps the metadata of entry e except the numbers in S.
KeepsBut(e, x, S) ==
    /\ x # Absent => \A s \in DOMAIN x.metadata :
          /\ e # Absent /\ s \in DOMAIN e.metadata \ S
          /\ x.metadata[s] = e.metadata[s] /\ x.inc = e.inc /\ x.gen = e.gen
    /\ e # Absent => \A s \in DOMAIN e.metadata \ S : x # Absent /\ s \in DOMAIN x.metadata

\* A handler that will store x, having retired S, or that will first store
\* the entry without its metadata and then y.
LEMMA BeginKeeps ==
  ASSUME TypeInv, LossInv, job = Idle, NEW a \in Agents, NEW S, NEW commits, NEW client, NEW bind,
         Begin(a, S, commits, client, bind), bind # None => client # None,
         UNCHANGED <<entries, losses, disp, origins, settled, confirmed>>,
         incs' = incs \/ incs' = incs + 1,
         NEW x, NumberedLike(entries[a], x), KeepsBut(entries[a], x, S),
         \/ commits = <<x>>
         \/ \E y : /\ commits = <<x, y>> /\ NumberedLike(entries[a], y)
                   /\ entries[a] # Absent /\ x # Absent /\ DOMAIN x.metadata = {}
                   /\ x.inc = entries[a].inc /\ x.issued = entries[a].issued
                   /\ y # Absent => DOMAIN y.metadata = {}
  PROVE  LossInv'
<1> DEFINE e == entries[a]
           I == IF e = Absent THEN {} ELSE LossIntents(a, e, S)
<1>1. /\ job'.agent = a /\ job'.intents = I /\ job'.commits = commits
      /\ job'.client = client /\ job'.bind = bind /\ job' # Idle
  <2>1. job' = [agent |-> a, intents |-> I, commits |-> commits, client |-> client, bind |-> bind]
    BY DEF Begin
  <2> HIDE DEF I
  <2> QED  BY <2>1, NoneAssumption DEF Idle
<1>2. /\ \A k \in DOMAIN commits : NumberedLike(e, commits[k])
      /\ commits[1] = x /\ (Len(commits) = 1 \/ Len(commits) = 2)
      /\ Len(commits) = 2 =>
            /\ e # Absent /\ x # Absent /\ DOMAIN x.metadata = {}
            /\ x.inc = e.inc /\ x.issued = e.issued
            /\ commits[2] # Absent => DOMAIN commits[2].metadata = {}
  <2>1. CASE commits = <<x>>
    BY <2>1
  <2>2. ASSUME NEW y, commits = <<x, y>>, NumberedLike(e, y),
               e # Absent, x # Absent, DOMAIN x.metadata = {}, x.inc = e.inc, x.issued = e.issued,
               y # Absent => DOMAIN y.metadata = {}
        PROVE  /\ \A k \in DOMAIN commits : NumberedLike(e, commits[k])
               /\ commits[1] = x /\ (Len(commits) = 1 \/ Len(commits) = 2)
               /\ commits[2] # Absent => DOMAIN commits[2].metadata = {}
    <3>1. DOMAIN commits = {1, 2} /\ commits[1] = x /\ commits[2] = y /\ Len(commits) = 2
      BY <2>2
    <3> QED  BY <2>2, <3>1
  <2> QED  BY <2>1, <2>2
<1>3. KnownRevisions' = KnownRevisions /\ incs \in Nat /\ incs' \in Nat /\ incs <= incs'
      /\ \A r \in KnownRevisions : r[2] < incs /\ r[2] \in Nat
  <2>1. KnownRevisions' = KnownRevisions
    BY DEF KnownRevisions
  <2>2. KnownRevisions \subseteq Revision
    BY DEF KnownRevisions, TypeInv, LossesOK, HistoryOK, CallersOK, IsMap, Dispatch, Loss
  <2>3. \A r \in KnownRevisions : r[2] \in Nat
    BY <2>2 DEF Revision
  <2>4. incs \in Nat
    BY DEF TypeInv, CallersOK
  <2> QED  BY <2>1, <2>3, <2>4 DEF LossInv, NumbersFresh
<1>4. NumbersFresh'
  <2>1. ASSUME NEW b \in Agents, entries[b] # Absent PROVE Unused(b, entries[b]) /\ Unused(b, entries[b])'
    <3>1. Unused(b, entries[b]) /\ entries[b].inc \in Nat
      BY <2>1, StoredEntry DEF LossInv, NumbersFresh
    <3> QED  BY <1>3, <3>1 DEF Unused
  <2>2. ASSUME NEW k \in DOMAIN commits, commits[k] # Absent PROVE Unused(a, commits[k])'
    <3>1. CASE e # Absent /\ commits[k].inc = e.inc /\ commits[k].issued = e.issued
      BY <1>3, <2>1, <3>1 DEF Unused
    <3>2. CASE commits[k].inc = incs /\ incs' = incs + 1
      BY <1>3, <3>2 DEF Unused
    <3> QED  BY <1>2, <2>2, <3>1, <3>2 DEF NumberedLike
  <2>3. \A r \in KnownRevisions' : r[2] < incs'
    BY <1>3
  <2> QED  BY <1>1, <2>1, <2>2, <2>3 DEF NumbersFresh
<1>5. JobNumbers'
  <2>1. ASSUME NEW k \in DOMAIN commits, e # Absent, commits[k] # Absent, commits[k].inc = e.inc
        PROVE  e.issued <= commits[k].issued
    <3>1. e.issued \in Nat /\ e.inc \in Nat /\ e.inc < incs
      BY <2>1, StoredEntry DEF LossInv, NumbersFresh, Unused
    <3> QED  BY <1>2, <1>3, <2>1, <3>1 DEF NumberedLike
  <2> QED  BY <1>1, <1>2, <2>1 DEF JobNumbers
<1>6. KnownDead'
  BY DEF LossInv, KnownDead, Deliverable
<1>7. \A id \in DOMAIN losses : ~UncommittedLoss(losses[id])'
  BY NoneUncommitted DEF UncommittedLoss
<1>8. LossesFiled'
  BY <1>7 DEF LossInv, LossesFiled
<1>9. JobSound'
  <2>1. \A i \in I : /\ e # Absent /\ LossSeq(i) \in DOMAIN e.metadata \cap S
                     /\ i = LossIntent(a, e, LossSeq(i))
    BY IntentParts DEF LossIntents
  <2>2. \A s : Keeps(x, s) => s \notin S
    BY DEF Keeps, KeepsBut
  <2>3. e # Absent => \A s \in DOMAIN e.metadata : Keeps(x, s) \/ LossIntent(a, e, s) \in I
    BY DEF Keeps, KeepsBut, LossIntents
  <2>4. x # Absent => \A s \in DOMAIN x.metadata :
           /\ e # Absent /\ s \in DOMAIN e.metadata
           /\ x.metadata[s] = e.metadata[s] /\ x.inc = e.inc /\ x.gen = e.gen
    BY DEF KeepsBut
  <2>5. job'.commits[1] = x /\ entries'[job'.agent] = e
    BY <1>1, <1>2
  <2> HIDE DEF I, e
  <2> QED  BY <1>1, <1>2, <1>7, <2>1, <2>2, <2>3, <2>4, <2>5 DEF JobSound
<1>10. DispatchSound'
  BY DEF LossInv, DispatchSound, Owed
<1>11. LossesFinal'
  BY <1>1 DEF LossInv, LossesFinal
<1>12. NothingForgotten'
  BY DEF LossInv, NothingForgotten, Owed
<1> QED  BY <1>4, <1>5, <1>6, <1>8, <1>9, <1>10, <1>11, <1>12 DEF LossInv

-----------------------------------------------------------------------------
(* The actions.                                                            *)

\* acknowledge, ack and report_stage.
LEMMA AccountActions ==
  ASSUME TypeInv, LossInv, NEW c \in Chans, NEW seq \in Seqs, NEW effect,
         Acknowledge(c, seq) \/ ReportStage(c, seq, effect)
  PROVE  LossInv'
<1> DEFINE a == chan[c].agent
           e == entries[a]
<1>1. chan[c] # None /\ e # Absent /\ job = Idle
      /\ UNCHANGED <<losses, job, incs, disp, origins>>
  BY DEF Acknowledge, ReportStage, OwnsRecovery
<1>2. a \in Agents
  BY <1>1 DEF TypeInv, CallersOK, Channel
<1>3. Good(e) /\ IsEntry(e)
  BY <1>1, <1>2, StoredEntry
<1>4. PICK n : /\ entries' = [entries EXCEPT ![a] = n] /\ Less(e, n)
               /\ Confirm(a, DOMAIN e.metadata \ DOMAIN n.metadata)
  <2>1. CASE Acknowledge(c, seq)
    <3> DEFINE n == AcknowledgeEntry(e, seq)
    <3>1. /\ entries' = [entries EXCEPT ![a] = n]
          /\ Confirm(a, DOMAIN e.metadata \ DOMAIN n.metadata)
      BY <2>1 DEF Acknowledge
    <3>2. seq \in Nat
      BY DEF Seqs
    <3>3. Less(e, n)
      BY <1>3, <3>2, AcknowledgeLess
    <3> QED  BY <3>1, <3>3
  <2>2. CASE ReportStage(c, seq, effect)
    <3> DEFINE n == ReportStageEntry(e, seq, effect)
    <3>1. /\ entries' = [entries EXCEPT ![a] = n]
          /\ Confirm(a, DOMAIN e.metadata \ DOMAIN n.metadata)
      BY <2>2 DEF ReportStage
    <3>2. Less(e, n)
      BY <1>3, ReportLess
    <3> QED  BY <3>1, <3>2
  <2> QED  BY <2>1, <2>2
<1> HIDE DEF a
<1> QED  BY <1>1, <1>2, <1>4, AccountKeeps DEF Less

\* resync, retire and the end of a channel.
LEMMA RetireActions ==
  ASSUME TypeInv, LossInv, NEW c \in Chans, chan[c] # None, OwnsRecovery(c), job = Idle,
         NEW requested, requested \subseteq 1..entries[chan[c].agent].issued,
         Begin(chan[c].agent, Unaccounted(entries[chan[c].agent], requested),
               <<RetireEntry(entries[chan[c].agent], Unaccounted(entries[chan[c].agent], requested))>>,
               c, None),
         UNCHANGED <<entries, losses, incs, disp, origins, settled, confirmed>>
  PROVE  LossInv'
<1> DEFINE a == chan[c].agent
           e == entries[a]
           S == Unaccounted(e, requested)
           x == RetireEntry(e, S)
<1>1. a \in Agents /\ e # Absent
  BY DEF OwnsRecovery, TypeInv, CallersOK, Channel
<1>2. Good(e)
  BY <1>1, StoredEntry
<1>3. S \subseteq (e.acked + 1)..e.issued
  BY <1>2, UnaccountedSpec
<1>4. Begin(a, S, <<x>>, c, None)
  OBVIOUS
<1> HIDE DEF S
<1>5. Less(e, x) /\ DOMAIN x.metadata = DOMAIN e.metadata \ S
  BY <1>2, <1>3, RetireLess
<1> HIDE DEF a, x
<1>6. NumberedLike(e, x) /\ KeepsBut(e, x, S)
  BY <1>1, <1>5 DEF Less, NumberedLike, KeepsBut
<1> QED  BY <1>1, <1>4, <1>6, BeginKeeps

\* A handler that retires the generation before it stores final.
LEMMA RetireThenKeeps ==
  ASSUME TypeInv, LossInv, job = Idle, NEW a \in Agents, NEW g, NEW final, NEW client, NEW bind,
         RetireThen(a, g, final, client, bind), bind # None => client # None,
         UNCHANGED <<entries, losses, disp, origins, settled, confirmed>>,
         incs' = incs \/ incs' = incs + 1,
         NumberedLike(entries[a], final),
         RetiresGeneration(entries[a], g) /\ final # Absent => DOMAIN final.metadata = {},
         ~RetiresGeneration(entries[a], g) => KeepsBut(entries[a], final, {})
  PROVE  LossInv'
<1> DEFINE e == entries[a]
           x == RecordLosses(e, DOMAIN e.metadata)
<1>1. CASE RetiresGeneration(e, g)
  <2>1. e # Absent /\ IsEntry(e)
    BY <1>1, StoredEntry DEF RetiresGeneration
  <2>2. Less(e, x) /\ DOMAIN x.metadata = {}
    BY <2>1, RecordLess
  <2>3. Begin(a, DOMAIN e.metadata, <<x, final>>, client, bind)
    BY <1>1 DEF RetireThen
  <2> HIDE DEF x
  <2>4. NumberedLike(e, x) /\ KeepsBut(e, x, DOMAIN e.metadata)
    BY <2>1, <2>2 DEF Less, NumberedLike, KeepsBut
  <2>5. /\ <<x, final>> = <<x, final>> /\ NumberedLike(e, final)
        /\ e # Absent /\ x # Absent /\ DOMAIN x.metadata = {}
        /\ x.inc = e.inc /\ x.issued = e.issued
        /\ final # Absent => DOMAIN final.metadata = {}
    BY <1>1, <2>1, <2>2 DEF Less
  <2> QED  BY <2>3, <2>4, <2>5, BeginKeeps
<1>2. CASE ~RetiresGeneration(e, g)
  <2>1. Begin(a, {}, <<final>>, client, bind)
    BY <1>2 DEF RetireThen
  <2> QED  BY <1>2, <2>1, BeginKeeps
<1> QED  BY <1>1, <1>2

\* What bind_resync stores.
LEMMA BindResyncSound ==
  ASSUME TypeInv, NEW a \in Agents, NEW g \in Gens, NEW token \in Nat, incs' = incs + 1
  PROVE  LET e == entries[a]
             x == BindResyncEntry(e, g, incs, token)
         IN  /\ x # Absent /\ x.gen = g /\ x.token = token /\ x.resync = TRUE
             /\ NumberedLike(e, x)
             /\ RetiresGeneration(e, g) => DOMAIN x.metadata = {}
             /\ ~RetiresGeneration(e, g) => KeepsBut(e, x, {})
<1> DEFINE e == entries[a]
           x == BindResyncEntry(e, g, incs, token)
           k == IF e # Absent THEN e.issued ELSE 0
<1>1. CASE e # Absent /\ e.gen = g
  <2>1. x = [e EXCEPT !.resync = TRUE, !.token = token]
    BY <1>1 DEF BindResyncEntry
  <2>2. IsEntry(e) /\ e.gen \in Gens
    BY <1>1, StoredEntry
  <2> HIDE DEF x, e
  <2>3. /\ x.gen = g /\ x.token = token /\ x.resync = TRUE
        /\ x.inc = e.inc /\ x.issued = e.issued /\ x.metadata = e.metadata
    BY <1>1, <2>1, <2>2 DEF IsEntry
  <2>4. x # Absent
    BY <2>3, NoneAssumption DEF Absent
  <2>5. NumberedLike(e, x) /\ KeepsBut(e, x, {})
    BY <1>1, <2>3, <2>4 DEF NumberedLike, KeepsBut
  <2>6. ~RetiresGeneration(e, g)
    BY <1>1 DEF RetiresGeneration
  <2> QED  BY <2>3, <2>4, <2>5, <2>6 DEF x, e
<1>2. CASE ~(e # Absent /\ e.gen = g)
  <2>1. x = FreshEntry(g, incs, token, TRUE, k)
    BY <1>2 DEF BindResyncEntry
  <2> HIDE DEF x, e, k
  <2>2. x.gen = g /\ x.token = token /\ x.resync = TRUE /\ x.inc = incs /\ x.metadata = Empty
    BY <2>1 DEF FreshEntry
  <2>3. DOMAIN x.metadata = {} /\ x # Absent
    BY <2>2, EmptyIsMap, NoneAssumption DEF Absent
  <2>4. NumberedLike(e, x)
    BY <2>2 DEF NumberedLike
  <2>5. ~RetiresGeneration(e, g) => KeepsBut(e, x, {})
    BY <1>2, <2>3 DEF RetiresGeneration, KeepsBut
  <2> QED  BY <2>2, <2>3, <2>4, <2>5 DEF x, e
<1> QED  BY <1>1, <1>2

\* The fields of an entry bound as asked.
StoredBound(x, g, token) == x # Absent /\ x.gen = g /\ x.token = token /\ x.resync = TRUE

\* The generation and the token bind_resync stores.
LEMMA BindResyncFields ==
  ASSUME TypeInv, NEW a \in Agents, NEW g \in Gens, NEW token \in Nat, incs' = incs + 1
  PROVE  StoredBound(BindResyncEntry(entries[a], g, incs, token), g, token)
  BY BindResyncSound DEF StoredBound

\* What bind stores; it retires any generation.
LEMMA BindSound ==
  ASSUME TypeInv, NEW a \in Agents, NEW g \in Gens, incs' = incs + 1
  PROVE  LET e == entries[a]
             old == IF e = Absent THEN Absent ELSE RecordLosses(e, DOMAIN e.metadata)
             x == BindEntry(old, g, incs)
         IN  /\ x # Absent /\ x.resync = FALSE
             /\ NumberedLike(e, x)
             /\ DOMAIN x.metadata = {}
             /\ ~RetiresGeneration(e, None) => KeepsBut(e, x, {})
<1> DEFINE e == entries[a]
           old == IF e = Absent THEN Absent ELSE RecordLosses(e, DOMAIN e.metadata)
           x == BindEntry(old, g, incs)
<1>1. CASE e = Absent
  <2>1. x = FreshEntry(g, incs, 0, FALSE, 0)
    BY <1>1 DEF BindEntry
  <2> HIDE DEF x, e
  <2>2. x.gen = g /\ x.resync = FALSE /\ x.inc = incs /\ x.metadata = Empty
    BY <2>1 DEF FreshEntry
  <2>3. DOMAIN x.metadata = {} /\ x # Absent
    BY <2>2, EmptyIsMap, NoneAssumption DEF Absent
  <2>4. NumberedLike(e, x) /\ KeepsBut(e, x, {})
    BY <1>1, <2>2, <2>3 DEF NumberedLike, KeepsBut
  <2> QED  BY <2>2, <2>3, <2>4 DEF x, e
<1>2. CASE e # Absent
  <2>1. IsEntry(e) /\ e.gen \in Gens /\ Good(e)
    BY <1>2, StoredEntry
  <2>2. RetiresGeneration(e, None)
    BY <1>2, <2>1, NoneAssumption DEF RetiresGeneration
  <2>3. old = RecordLosses(e, DOMAIN e.metadata)
    BY <1>2
  <2>4. Less(e, old) /\ DOMAIN old.metadata = {} /\ Good(old)
    BY <2>1, <2>3, RecordLess, RecordAllGood
  <2> HIDE DEF old, e
  <2>5. IsEntry(old) /\ old # Absent /\ old.inc = e.inc /\ old.issued = e.issued /\ old.gen \in Gens
        /\ old.resync \in BOOLEAN
    BY <2>1, <2>4, EntryFields DEF Good, Less
  <2>6. CASE old.gen # g
    <3>1. x = FreshEntry(g, incs, old.token, FALSE, old.issued)
      BY <2>5, <2>6 DEF BindEntry
    <3> HIDE DEF x
    <3>2. x.gen = g /\ x.resync = FALSE /\ x.inc = incs /\ x.metadata = Empty
      BY <3>1 DEF FreshEntry
    <3>3. DOMAIN x.metadata = {} /\ x # Absent
      BY <3>2, EmptyIsMap, NoneAssumption DEF Absent
    <3>4. NumberedLike(e, x)
      BY <3>2 DEF NumberedLike
    <3> QED  BY <2>2, <3>2, <3>3, <3>4 DEF x, e, old
  <2>7. CASE old.gen = g /\ old.resync
    <3>1. x = [old EXCEPT !.resync = FALSE, !.acked = old.issued, !.pending = "nil",
                          !.skipped = {}, !.resolved = {}]
      BY <2>5, <2>7 DEF BindEntry
    <3> HIDE DEF x
    <3>2. x.gen = g /\ x.resync = FALSE /\ x.inc = old.inc /\ x.issued = old.issued /\ x.metadata = old.metadata
      BY <2>5, <2>7, <3>1 DEF IsEntry
    <3>3. DOMAIN x.metadata = {} /\ x # Absent
      BY <2>4, <3>2, NoneAssumption DEF Absent
    <3>4. NumberedLike(e, x)
      BY <1>2, <2>5, <3>2 DEF NumberedLike
    <3> QED  BY <2>2, <3>2, <3>3, <3>4 DEF x, e, old
  <2>8. CASE old.gen = g /\ ~old.resync
    <3>1. x = old
      BY <2>5, <2>8 DEF BindEntry
    <3> HIDE DEF x
    <3>2. NumberedLike(e, x) /\ DOMAIN x.metadata = {} /\ x.resync = FALSE
      BY <1>2, <2>4, <2>5, <2>8, <3>1 DEF NumberedLike
    <3> QED  BY <2>2, <2>5, <3>1, <3>2 DEF x, e, old
  <2> QED  BY <2>6, <2>7, <2>8
<1> QED  BY <1>1, <1>2

\* The three handshakes.
LEMMA BindKeeps ==
  ASSUME TypeInv, LossInv, NEW c \in Chans, Bind(c)
  PROVE  LossInv'
<1> DEFINE a == chan[c].agent
           g == chan[c].gen
           e == entries[a]
           b(t) == [chan[c] EXCEPT !.token = t, !.phase = "bound"]
<1>1. /\ job = Idle /\ chan[c] \in Channel
      /\ UNCHANGED <<entries, losses, disp, origins, settled, confirmed>>
  BY DEF Bind, TypeInv, CallersOK
<1>2. a \in Agents /\ g \in Gens /\ c # None /\ tokens + 1 \in Nat
  BY <1>1, ValueAssumption DEF Channel, TypeInv, CallersOK
<1>3. CASE chan[c].mode = "resync"
  <2> DEFINE x == BindResyncEntry(e, g, incs, tokens + 1)
  <2>1. RetireThen(a, g, x, c, b(tokens + 1)) /\ incs' = incs + 1
    BY <1>3 DEF Bind
  <2>2. /\ NumberedLike(e, x)
        /\ RetiresGeneration(e, g) => DOMAIN x.metadata = {}
        /\ ~RetiresGeneration(e, g) => KeepsBut(e, x, {})
    BY <1>2, <2>1, BindResyncSound
  <2> HIDE DEF x, a, g, b
  <2> QED  BY <1>1, <1>2, <2>1, <2>2, RetireThenKeeps
<1>4. CASE chan[c].mode = "ack"
  <2> DEFINE old == IF e = Absent THEN Absent ELSE RecordLosses(e, DOMAIN e.metadata)
             x == BindEntry(old, g, incs)
  <2>1. RetireThen(a, None, x, c, b(0)) /\ incs' = incs + 1
    BY <1>4 DEF Bind
  <2>2. NumberedLike(e, x) /\ DOMAIN x.metadata = {}
        /\ (~RetiresGeneration(e, None) => KeepsBut(e, x, {}))
    BY <1>2, <2>1, BindSound
  <2> HIDE DEF x, a, g, b
  <2> QED  BY <1>1, <1>2, <2>1, <2>2, RetireThenKeeps
<1>5. CASE chan[c].mode = "off"
  <2>1. RetireThen(a, None, Absent, c, b(0)) /\ incs' = incs
    BY <1>5 DEF Bind
  <2>2. NumberedLike(e, Absent)
    BY DEF NumberedLike
  <2>3. ~RetiresGeneration(e, None) => KeepsBut(e, Absent, {})
    <3>1. e # Absent => e.gen \in Gens
      BY <1>2, StoredEntry
    <3> QED  BY <3>1, NoneAssumption DEF RetiresGeneration, KeepsBut
  <2> HIDE DEF a, g, b
  <2> QED  BY <1>1, <1>2, <2>1, <2>2, <2>3, RetireThenKeeps
<1>6. chan[c].mode = "resync" \/ chan[c].mode = "ack" \/ chan[c].mode = "off"
  BY <1>1 DEF Channel, Modes
<1> QED  BY <1>3, <1>4, <1>5, <1>6

\* The last store of a purge.
LEMMA DeleteKeeps ==
  ASSUME TypeInv, LossInv, NEW a \in Agents, Delete(a)
  PROVE  LossInv'
<1> DEFINE e == entries[a]
<1>1. /\ job = Idle /\ RetireThen(a, None, Absent, None, None)
      /\ UNCHANGED <<entries, losses, incs, disp, origins, settled, confirmed>>
  BY DEF Delete
<1>2. NumberedLike(e, Absent)
  BY DEF NumberedLike
<1>3. ~RetiresGeneration(e, None) => KeepsBut(e, Absent, {})
  <2>1. e # Absent => e.gen \in Gens
    BY StoredEntry
  <2> QED  BY <2>1, NoneAssumption DEF RetiresGeneration, KeepsBut
<1> QED  BY <1>1, <1>2, <1>3, RetireThenKeeps

\* Issuing, by a channel, the server or the dispatcher.
LEMMA IssueActions ==
  ASSUME TypeInv, LossInv,
         \/ \E c \in Chans : IssueReserved(c)
         \/ \E a \in Agents : IssueSynthetic(a)
         \/ DispatchDeliver
  PROVE  LossInv'
<1>1. ASSUME NEW c \in Chans, IssueReserved(c) PROVE LossInv'
  <2> DEFINE d == IF hold[c].reserved THEN MessageFrom(chan[c].agent, hold[c].early) ELSE None
  <2>1. hold[c].to \in Agents /\ hold[c].early \in BOOLEAN /\ chan[c].agent \in Agents
    BY <1>1 DEF IssueReserved, TypeInv, CallersOK, Hold, Channel
  <2>2. d \in Descriptor \cup {None}
    BY <2>1, DescriptorsTyped
  <2>3. IssueTo(hold[c].to, d) /\ job = Idle /\ UNCHANGED <<losses, job, incs, confirmed, disp>>
    BY <1>1 DEF IssueReserved
  <2> HIDE DEF d
  <2> QED  BY <2>1, <2>2, <2>3, IssueKeeps
<1>2. ASSUME NEW a \in Agents, IssueSynthetic(a) PROVE LossInv'
  <2>1. NoticeOf(None) \in Descriptor
    BY DescriptorsTyped
  <2>2. IssueTo(a, NoticeOf(None)) /\ job = Idle /\ UNCHANGED <<losses, job, incs, confirmed, disp>>
    BY <1>2 DEF IssueSynthetic
  <2> QED  BY <2>1, <2>2, IssueKeeps
<1>3. CASE DispatchDeliver
  <2>1. disp \in Dispatch
    BY <1>3 DEF DispatchDeliver, TypeInv, CallersOK
  <2>2. disp.loss \in Loss
    BY <2>1 DEF Dispatch
  <2>3. NotifyTarget(disp.loss) \in Agents /\ disp.loss.id \in Revision
    BY <2>2, LossFields
  <2>4. NoticeOf(disp.loss.id) \in Descriptor
    BY <2>3, DescriptorsTyped
  <2>5. /\ IssueTo(NotifyTarget(disp.loss), NoticeOf(disp.loss.id)) /\ job = Idle
        /\ UNCHANGED <<losses, job, incs, confirmed>>
        /\ disp # None /\ disp' = [disp EXCEPT !.phase = "delivered"]
    BY <1>3 DEF DispatchDeliver
  <2> QED  BY <2>3, <2>4, <2>5, IssueKeeps
<1> QED  BY <1>1, <1>2, <1>3

\* Steps of channels and callers that change neither table nor history.
LEMMA QuietActions ==
  ASSUME TypeInv, LossInv, NEW c \in Chans,
         \/ \E a \in Agents, g \in Gens, m \in Modes : Join(c, a, g, m)
         \/ AfterJoin(c) \/ Announce(c) \/ ReservationDown(c) \/ ReserveEarly(c) \/ Release(c)
         \/ IssueForgotten(c) \/ \E t \in BOOLEAN : Close(c, t)
         \/ \E a \in Agents : Reserve(c, a)
  PROVE  LossInv'
<1>1. UNCHANGED <<entries, losses, job, incs, disp, origins, settled, confirmed>>
  BY DEF Join, AfterJoin, Announce, ReservationDown, ReserveEarly, Release, IssueForgotten, Close, Reserve
<1> QED  BY <1>1, QuietKeeps

\* The ledger starts with nothing in its charge.
LEMMA InitKeeps == Init => LossInv
<1> SUFFICES ASSUME Init PROVE LossInv
  OBVIOUS
<1>1. DOMAIN losses = {} /\ KnownRevisions = {}
  BY EmptyIsMap DEF Init, KnownRevisions
<1> QED  BY <1>1 DEF Init, LossInv, NumbersFresh, JobNumbers, KnownDead, LossesFiled, JobSound,
                     DispatchSound, LossesFinal, NothingForgotten

\* Every step keeps the invariant.
LEMMA NextKeeps == TypeInv /\ LossInv /\ [Next]_vars => LossInv'
<1> SUFFICES ASSUME TypeInv, LossInv, [Next]_vars PROVE LossInv'
  OBVIOUS
<1>1. JoinModes \subseteq Modes /\ Noticed \subseteq Agents /\ Purged \subseteq Agents
      /\ 1..MaxSeq \subseteq Seqs
  BY LimitAssumption DEF Seqs
<1>2. ASSUME NEW c \in Chans,
             \/ \E a \in Agents, g \in Gens, m \in JoinModes : Join(c, a, g, m)
             \/ AfterJoin(c) \/ Announce(c) \/ ReservationDown(c) \/ ReserveEarly(c) \/ Release(c)
             \/ IssueForgotten(c) \/ \E t \in BOOLEAN : Close(c, t)
             \/ \E a \in Agents : Reserve(c, a)
      PROVE  LossInv'
  BY <1>1, <1>2, QuietActions
<1>3. ASSUME NEW a \in Purged, Purge(a) PROVE LossInv'
  <2>1. UNCHANGED <<entries, losses, job, incs, disp, origins, settled, confirmed>>
    BY <1>3 DEF Purge
  <2> QED  BY <2>1, QuietKeeps
<1>4. ASSUME NEW c \in Chans, Bind(c) PROVE LossInv'
  BY <1>4, BindKeeps
<1>5. ASSUME NEW c \in Chans, CloseRetire(c) PROVE LossInv'
  <2> DEFINE e == entries[chan[c].agent]
  <2>1. UNCHANGED <<entries, losses, incs, disp, origins, settled, confirmed>> /\ chan[c] # None /\ job = Idle
    BY <1>5 DEF CloseRetire
  <2>2. CASE OwnsRecovery(c)
    <3>1. Begin(chan[c].agent, Unaccounted(e, 1..e.issued),
                <<RetireEntry(e, Unaccounted(e, 1..e.issued))>>, c, None)
      BY <1>5, <2>2 DEF CloseRetire
    <3> QED  BY <2>1, <2>2, <3>1, RetireActions
  <2>3. CASE ~OwnsRecovery(c)
    <3>1. UNCHANGED job
      BY <1>5, <2>3 DEF CloseRetire
    <3> QED  BY <2>1, <3>1, QuietKeeps
  <2> QED  BY <2>2, <2>3
<1>6. ASSUME NEW c \in Chans, NEW requested, Resync(c, requested) PROVE LossInv'
  <2> DEFINE e == entries[chan[c].agent]
  <2>1. /\ UNCHANGED <<entries, losses, incs, disp, origins, settled, confirmed>> /\ chan[c] # None /\ job = Idle
        /\ OwnsRecovery(c) /\ requested \subseteq 1..e.issued
        /\ Begin(chan[c].agent, Unaccounted(e, requested),
                <<RetireEntry(e, Unaccounted(e, requested))>>, c, None)
    BY <1>6 DEF Resync
  <2> QED  BY <2>1, RetireActions
<1>7. ASSUME NEW c \in Chans, NEW seq \in 1..MaxSeq, NEW effect,
             Acknowledge(c, seq) \/ ReportStage(c, seq, effect)
      PROVE  LossInv'
  BY <1>1, <1>7, AccountActions
<1>8. ASSUME NEW a \in Purged, Delete(a) PROVE LossInv'
  BY <1>1, <1>8, DeleteKeeps
<1>9. ASSUME (\E c \in Chans : IssueReserved(c)) \/ (\E a \in Noticed : IssueSynthetic(a)) \/ DispatchDeliver
      PROVE  LossInv'
  BY <1>1, <1>9, IssueActions
<1>10. ASSUME DispatchAbandon \/ \E id \in DOMAIN losses : DispatchPick(id) PROVE LossInv'
  <2>1. UNCHANGED <<entries, losses, job, incs, origins, settled, confirmed>>
    BY <1>10 DEF DispatchAbandon, DispatchPick
  <2>2. \/ disp' = None
        \/ job = Idle /\ \E id \in DOMAIN losses : disp' = [loss |-> losses[id], phase |-> "picked"]
    BY <1>10 DEF DispatchAbandon, DispatchPick
  <2> QED  BY <2>1, <2>2, QuietKeeps
<1>11. CASE DispatchComplete
  BY <1>11, CompleteKeeps
<1>12. ASSUME job # Idle, NEW i \in job.intents, WriteIntent(i) PROVE LossInv'
  BY <1>12, WriteKeeps
<1>13. CASE CommitEntry
  BY <1>13, CommitKeeps
<1>14. CASE LedgerCrash
  BY <1>14, CrashKeeps
<1>15. CASE UNCHANGED vars
  <2>1. UNCHANGED <<entries, losses, job, incs, disp, origins, settled, confirmed>>
    BY <1>15 DEF vars
  <2> QED  BY <2>1, QuietKeeps
<1> QED  BY <1>2, <1>3, <1>4, <1>5, <1>6, <1>7, <1>8, <1>9, <1>10, <1>11, <1>12, <1>13, <1>14, <1>15 DEF Next

-----------------------------------------------------------------------------
(* Who may account for an agent's messages.                               *)

\* Numbering a message does not touch the binding.
LEMMA IssueBinding ==
  ASSUME NEW e, Good(e), NEW d
  PROVE  SameBinding(e, IssueWithMetadata(e, d)) /\ IssueWithMetadata(e, d).early =
            IF d # None /\ d.early THEN Put(e.early, e.issued + 1, d.sender) ELSE e.early
<1> DEFINE n == IssueWithMetadata(e, d)
<1>1. IsEntry(e) /\ e # Absent /\ e.gen \in Gens
  BY GoodPresent, EntryFields DEF Good
<1>2. /\ n.gen = e.gen /\ n.token = e.token /\ n.resync = e.resync
      /\ n.early = IF d # None /\ d.early THEN Put(e.early, e.issued + 1, d.sender) ELSE e.early
  BY <1>1 DEF IssueWithMetadata, IsEntry
<1>3. n # Absent
  BY <1>1, <1>2, NoneAssumption DEF Absent
<1> QED  BY <1>1, <1>2, <1>3 DEF SameBinding

\* A channel in its next phase.
LEMMA PhaseFields ==
  ASSUME TypeInv, NEW c \in Chans, chan[c] # None,
         NEW p \in Phases, NEW x, x = [chan[c] EXCEPT !.phase = p]
  PROVE  /\ x \in Channel /\ x # None /\ x.phase = p /\ x.token = chan[c].token
         /\ x.agent = chan[c].agent /\ x.gen = chan[c].gen /\ x.mode = chan[c].mode
         /\ chan[c].agent \in Agents
<1>1. chan[c] \in Channel
  BY DEF TypeInv, CallersOK
<1>2. x \in Channel
  BY <1>1 DEF Channel
<1> QED  BY <1>1, <1>2, ValueAssumption DEF Channel

\* A step that changes neither entries nor channels; a handler in progress
\* goes on with the same writes.
LEMMA AuthorityQuiet ==
  ASSUME AuthorityInv, UNCHANGED <<entries, owners, tokens, chan, known, binder>>,
         \/ job' = job
         \/ /\ job # Idle
            /\ job'.agent = job.agent /\ job'.commits = job.commits
            /\ job'.client = job.client /\ job'.bind = job.bind
  PROVE  AuthorityInv'
<1>1. ChannelTokens' /\ EntryTokens' /\ KnownJoined' /\ OwnersBound'
  BY DEF AuthorityInv, ChannelTokens, EntryTokens, HasToken, KnownJoined, OwnersBound
<1>2. BinderOwns'
  BY DEF AuthorityInv, BinderOwns, OwnsRecovery
<1>3. JobAuthority'
  BY DEF AuthorityInv, JobAuthority, SameBinding, HasToken
<1> QED  BY <1>1, <1>2, <1>3 DEF AuthorityInv

\* A step that changes one entry and leaves its binding.
LEMMA AuthorityEntry ==
  ASSUME TypeInv, AuthorityInv, job = Idle, NEW a \in Agents, NEW n, SameBinding(entries[a], n),
         entries' = [entries EXCEPT ![a] = n],
         UNCHANGED <<owners, tokens, chan, known, binder, job>>
  PROVE  AuthorityInv'
<1>0. \A b \in Agents : entries'[b] = IF b = a THEN n ELSE entries[b]
  BY DEF TypeInv, EntriesOK
<1>1. ChannelTokens' /\ KnownJoined' /\ OwnersBound' /\ JobAuthority'
  BY DEF AuthorityInv, ChannelTokens, KnownJoined, OwnersBound, JobAuthority
<1>2. EntryTokens'
  BY <1>0 DEF AuthorityInv, EntryTokens, HasToken, SameBinding
<1>3. BinderOwns'
  <2> SUFFICES ASSUME NEW b \in Agents, NEW c, c = binder[b], c # None, chan[c] # None, chan[c].agent = b,
                      chan[c].phase # "checked"
               PROVE  OwnsRecovery(c)'
    BY DEF BinderOwns
  <2>1. OwnsRecovery(c)
    BY DEF AuthorityInv, BinderOwns
  <2>2. entries'[b].gen = entries[b].gen /\ entries'[b].token = entries[b].token
        /\ entries'[b].resync = entries[b].resync /\ (entries[b] # Absent => entries'[b] # Absent)
    BY <1>0 DEF SameBinding
  <2> QED  BY <2>1, <2>2 DEF OwnsRecovery
<1> QED  BY <1>1, <1>2, <1>3 DEF AuthorityInv

\* A step of channels: each stays, ends, comes in unbound, or goes on under
\* the same binding; the caller of a handler that binds stays.
LEMMA AuthorityChannels ==
  ASSUME TypeInv, AuthorityInv, UNCHANGED <<entries, owners, tokens, binder, job>>, KnownJoined',
         \A c \in Chans :
            \/ chan'[c] = None
            \/ chan'[c] = chan[c]
            \/ chan[c] = None /\ chan'[c].token = 0 /\ chan'[c].phase = "checked"
            \/ /\ chan[c] # None /\ chan[c].phase # "checked" /\ chan'[c].phase # "checked"
               /\ chan'[c].agent = chan[c].agent /\ chan'[c].gen = chan[c].gen
               /\ chan'[c].token = chan[c].token /\ chan'[c].mode = chan[c].mode,
         job # Idle /\ job.bind # None => chan'[job.client] = chan[job.client]
  PROVE  AuthorityInv'
<1>1. ChannelTokens'
  BY DEF AuthorityInv, ChannelTokens, TypeInv, CallersOK
<1>2. EntryTokens' /\ OwnersBound'
  BY DEF AuthorityInv, EntryTokens, HasToken, OwnersBound
<1>3. BinderOwns'
  <2> SUFFICES ASSUME NEW b \in Agents, NEW c, c = binder[b], c # None, chan'[c] # None, chan'[c].agent = b,
                      chan'[c].phase # "checked"
               PROVE  OwnsRecovery(c)'
    BY DEF BinderOwns
  <2>1. c \in Chans
    BY DEF TypeInv, CallersOK
  <2>2. chan[c] # None /\ chan[c].phase # "checked"
        /\ chan'[c].agent = chan[c].agent /\ chan'[c].gen = chan[c].gen
        /\ chan'[c].token = chan[c].token /\ chan'[c].mode = chan[c].mode
    BY <2>1
  <2>3. OwnsRecovery(c)
    BY <2>2 DEF AuthorityInv, BinderOwns
  <2> QED  BY <2>2, <2>3 DEF OwnsRecovery
<1>4. JobAuthority'
  <2> SUFFICES ASSUME job # Idle PROVE JobAuthority'
    BY DEF JobAuthority
  <2>1. job.bind # None /\ job.bind.token # 0 => \A c \in Chans : chan'[c] # None => chan'[c].token # job.bind.token
    <3>1. ASSUME job.bind # None, job.bind.token # 0, NEW c \in Chans, chan'[c] # None
          PROVE  chan'[c].token # job.bind.token
      <4>1. chan[c] # None => chan[c].token # job.bind.token
        BY <3>1 DEF AuthorityInv, JobAuthority
      <4> QED  BY <3>1, <4>1
    <3> QED  BY <3>1
  <2> QED  BY <2>1 DEF AuthorityInv, JobAuthority, SameBinding, HasToken
<1> QED  BY <1>1, <1>2, <1>3, <1>4 DEF AuthorityInv

\* The owners AgentStates has once a channel is gone.
LEMMA WithoutKnown ==
  ASSUME TypeInv, AuthorityInv, NEW c \in Chans, known' = Without(c), chan' = [chan EXCEPT ![c] = None]
  PROVE  KnownJoined'
<1>1. \A d \in Chans : chan'[d] = IF d = c THEN None ELSE chan[d]
  BY DEF TypeInv, CallersOK
<1>2. \A a \in Agents : known'[a] = IF known[a] = c THEN None ELSE known[a]
  BY DEF Without
<1>3. \A a \in Agents : known[a] \in Chans \cup {None}
  BY DEF TypeInv, CallersOK
<1> QED  BY <1>1, <1>2, <1>3 DEF AuthorityInv, KnownJoined

\* Channels come, go on and end.
LEMMA AuthorityCallers ==
  ASSUME TypeInv, AuthorityInv, NEW c \in Chans,
         \/ \E a \in Agents, g \in Gens, m \in Modes : Join(c, a, g, m)
         \/ AfterJoin(c) \/ Announce(c) \/ IssueForgotten(c) \/ \E t \in BOOLEAN : Close(c, t)
         \/ CloseRetire(c) /\ ~OwnsRecovery(c)
  PROVE  AuthorityInv'
<1>0. /\ \A d \in Chans : chan[d] = None \/ chan[d] \in Channel
      /\ \A x : chan' = [chan EXCEPT ![c] = x] => \A d \in Chans : chan'[d] = IF d = c THEN x ELSE chan[d]
      /\ \A a \in Agents : known[a] \in Chans \cup {None}
  BY DEF TypeInv, CallersOK
<1>1. job # Idle /\ job.bind # None =>
         job.client \in Chans /\ chan[job.client] # None /\ chan[job.client].phase = "checked"
  BY JobFields DEF AuthorityInv, JobAuthority
<1>2. ASSUME NEW a \in Agents, NEW g \in Gens, NEW m \in Modes, Join(c, a, g, m) PROVE AuthorityInv'
  <2> DEFINE x == [agent |-> a, gen |-> g, token |-> 0, mode |-> m, phase |-> "checked"]
  <2>1. /\ chan[c] = None /\ chan' = [chan EXCEPT ![c] = x] /\ x.token = 0 /\ x.phase = "checked"
        /\ UNCHANGED <<entries, owners, tokens, binder, job, known>>
    BY <1>2 DEF Join
  <2> HIDE DEF x
  <2>2. \A d \in Chans : chan'[d] = IF d = c THEN x ELSE chan[d]
    BY <1>0, <2>1
  <2>3. KnownJoined'
    BY <1>0, <2>1, <2>2 DEF AuthorityInv, KnownJoined
  <2> QED  BY <1>1, <2>1, <2>2, <2>3, AuthorityChannels
<1>3. CASE AfterJoin(c)
  <2> DEFINE x == IF chan[c].agent \in revoked THEN None ELSE [chan[c] EXCEPT !.phase = "joined"]
  <2>1. /\ chan[c] # None /\ chan[c].phase = "bound" /\ chan' = [chan EXCEPT ![c] = x]
        /\ UNCHANGED <<entries, owners, tokens, binder, job, known>>
    BY <1>3 DEF AfterJoin
  <2>0. "joined" \in Phases
    BY DEF Phases
  <2>2. x = None \/ (/\ x.phase = "joined" /\ x.token = chan[c].token /\ x.agent = chan[c].agent
                     /\ x.gen = chan[c].gen /\ x.mode = chan[c].mode)
    <3>1. CASE chan[c].agent \in revoked
      BY <3>1
    <3>2. CASE chan[c].agent \notin revoked
      <4>1. x = [chan[c] EXCEPT !.phase = "joined"]
        BY <3>2
      <4> HIDE DEF x
      <4> QED  BY <2>0, <2>1, <4>1, PhaseFields
    <3> QED  BY <3>1, <3>2
  <2> HIDE DEF x
  <2>3. \A d \in Chans : chan'[d] = IF d = c THEN x ELSE chan[d]
    BY <1>0, <2>1
  <2>4. KnownJoined'
    BY <1>0, <2>1, <2>3 DEF AuthorityInv, KnownJoined
  <2> QED  BY <1>1, <2>1, <2>2, <2>3, <2>4, AuthorityChannels
<1>4. CASE Announce(c)
  <2>1. /\ chan[c] # None /\ chan[c].phase = "joined" /\ known' = [known EXCEPT ![chan[c].agent] = c]
        /\ UNCHANGED <<entries, owners, tokens, binder, job, chan>>
    BY <1>4 DEF Announce
  <2>2. \A a \in Agents : known'[a] = IF a = chan[c].agent THEN c ELSE known[a]
    BY <2>1 DEF TypeInv, CallersOK
  <2>3. KnownJoined'
    BY <2>1, <2>2 DEF AuthorityInv, KnownJoined
  <2> QED  BY <2>1, <2>3, AuthorityChannels
<1>5. CASE IssueForgotten(c)
  <2>1. /\ job = Idle /\ chan' = [chan EXCEPT ![c] = None] /\ known' = Without(c)
        /\ UNCHANGED <<entries, owners, tokens, binder, job>>
    BY <1>5 DEF IssueForgotten
  <2>2. \A d \in Chans : chan'[d] = IF d = c THEN None ELSE chan[d]
    BY <1>0, <2>1
  <2> QED  BY <2>1, <2>2, WithoutKnown, AuthorityChannels
<1>6. CASE Close(c, FALSE)
  <2>1. /\ chan' = [chan EXCEPT ![c] = None] /\ known' = Without(c)
        /\ UNCHANGED <<entries, owners, tokens, binder, job>>
        /\ job # Idle => job.client # c
    BY <1>6 DEF Close
  <2>2. \A d \in Chans : chan'[d] = IF d = c THEN None ELSE chan[d]
    BY <1>0, <2>1
  <2> QED  BY <1>1, <2>1, <2>2, WithoutKnown, AuthorityChannels
<1>7. CASE Close(c, TRUE)
  <2> DEFINE x == [chan[c] EXCEPT !.phase = "closing"]
  <2>1. /\ chan[c] # None /\ chan' = [chan EXCEPT ![c] = x] /\ known[chan[c].agent] = c
        /\ UNCHANGED <<entries, owners, tokens, binder, job, known>>
        /\ job # Idle => job.client # c
    BY <1>7 DEF Close
  <2>0. "closing" \in Phases /\ x = [chan[c] EXCEPT !.phase = "closing"]
    BY DEF Phases
  <2>2. x # None /\ x.phase = "closing" /\ x.token = chan[c].token /\ x.agent = chan[c].agent
        /\ x.gen = chan[c].gen /\ x.mode = chan[c].mode /\ chan[c].agent \in Agents
    <3> HIDE DEF x
    <3> QED  BY <2>0, <2>1, PhaseFields
  <2> HIDE DEF x
  <2>3. \A d \in Chans : chan'[d] = IF d = c THEN x ELSE chan[d]
    BY <1>0, <2>1
  <2>4. c # None
    BY ValueAssumption
  <2>5. chan[c].phase # "checked"
    BY <2>1, <2>2, <2>4 DEF AuthorityInv, KnownJoined
  <2>6. KnownJoined'
    BY <1>0, <2>1, <2>2, <2>3 DEF AuthorityInv, KnownJoined
  <2> QED  BY <1>1, <2>1, <2>2, <2>3, <2>5, <2>6, AuthorityChannels
<1>8. CASE CloseRetire(c) /\ ~OwnsRecovery(c)
  <2>1. /\ job = Idle /\ chan' = [chan EXCEPT ![c] = None] /\ known' = Without(c)
        /\ UNCHANGED <<entries, owners, tokens, binder, job>>
    BY <1>8 DEF CloseRetire
  <2>2. \A d \in Chans : chan'[d] = IF d = c THEN None ELSE chan[d]
    BY <1>0, <2>1
  <2> QED  BY <2>1, <2>2, WithoutKnown, AuthorityChannels
<1> QED  BY <1>2, <1>3, <1>4, <1>5, <1>6, <1>7, <1>8

\* A purge only forgets an owner.
LEMMA AuthorityPurge ==
  ASSUME TypeInv, AuthorityInv, NEW a \in Agents, Purge(a)
  PROVE  AuthorityInv'
<1>1. known' = [known EXCEPT ![a] = None] /\ UNCHANGED <<entries, owners, tokens, binder, job, chan>>
  BY DEF Purge
<1>2. \A b \in Agents : known'[b] = IF b = a THEN None ELSE known[b]
  BY <1>1 DEF TypeInv, CallersOK
<1>3. KnownJoined'
  BY <1>1, <1>2 DEF AuthorityInv, KnownJoined
<1> QED  BY <1>1, <1>3, AuthorityChannels

\* What a handler must bring along to begin: the values it stores are bound
\* as the entry is, until the last, which is bound as its channel will be.
BoundAs(a, c, b, f) ==
    b # None =>
        /\ c # None /\ chan[c] # None /\ chan[c].phase = "checked"
        /\ b.agent = a /\ b.phase = "bound" /\ b.token <= tokens'
        /\ b.token # 0 => \A d \in Chans : chan[d] # None => chan[d].token # b.token
        /\ b.mode = "resync" => f # Absent /\ f.gen = b.gen /\ f.resync /\ f.token = b.token

\* A handler begins.
LEMMA AuthorityBegin ==
  ASSUME TypeInv, AuthorityInv, job = Idle, NEW a, NEW S, NEW commits, NEW client, NEW bind,
         Begin(a, S, commits, client, bind),
         UNCHANGED <<entries, owners, chan, known, binder>>, tokens' \in Nat, tokens <= tokens',
         NEW x, NEW f, HasToken(x), HasToken(f), BoundAs(a, client, bind, f),
         \/ /\ commits = <<x>> /\ f = x
            /\ bind = None /\ x # Absent => SameBinding(entries[a], x)
         \/ /\ commits = <<x, f>> /\ SameBinding(entries[a], x)
            /\ bind = None => f = Absent
  PROVE  AuthorityInv'
<1>1. ChannelTokens'
  BY DEF AuthorityInv, ChannelTokens, TypeInv, CallersOK, Channel
<1>2. EntryTokens' /\ KnownJoined' /\ OwnersBound'
  BY DEF AuthorityInv, EntryTokens, HasToken, KnownJoined, OwnersBound
<1>3. BinderOwns'
  BY DEF AuthorityInv, BinderOwns, OwnsRecovery
<1>4. job'.agent = a /\ job'.commits = commits /\ job'.client = client /\ job'.bind = bind
  BY DEF Begin
<1>5. /\ commits[1] = x
      /\ Len(commits) = 2 => commits = <<x, f>> /\ commits[2] = f
      /\ Len(commits) # 2 => commits = <<x>> /\ f = x
  OBVIOUS
<1>6. JobAuthority'
  <2> DEFINE two == Len(commits) = 2
  <2>1. bind # None =>
           /\ client # None /\ chan'[client] # None /\ chan'[client].phase = "checked"
           /\ bind.agent = a /\ bind.phase = "bound" /\ bind.token <= tokens'
           /\ bind.token # 0 => \A d \in Chans : chan'[d] # None => chan'[d].token # bind.token
           /\ bind.mode = "resync" => f # Absent /\ f.gen = bind.gen /\ f.resync /\ f.token = bind.token
    BY DEF BoundAs
  <2>2. two \/ (bind = None /\ x # Absent) => SameBinding(entries'[a], x)
    BY <1>5
  <2>3. two /\ bind = None => f = Absent
    BY <1>5
  <2>4. f = IF two THEN commits[2] ELSE x
    BY <1>5
  <2> QED  BY <1>4, <1>5, <2>1, <2>2, <2>3, <2>4 DEF JobAuthority, SameBinding, HasToken
<1> QED  BY <1>1, <1>2, <1>3, <1>6 DEF AuthorityInv

\* A handler that retires the generation first.
LEMMA AuthorityRetireThen ==
  ASSUME TypeInv, AuthorityInv, job = Idle, NEW a \in Agents, NEW g, NEW f, NEW client, NEW bind,
         RetireThen(a, g, f, client, bind),
         UNCHANGED <<entries, owners, chan, known, binder>>, tokens' \in Nat, tokens <= tokens',
         HasToken(f), BoundAs(a, client, bind, f), bind = None => f = Absent
  PROVE  AuthorityInv'
<1> DEFINE e == entries[a]
           x == RecordLosses(e, DOMAIN e.metadata)
<1>1. CASE RetiresGeneration(e, g)
  <2>1. IsEntry(e) /\ e # Absent
    BY <1>1, StoredEntry DEF RetiresGeneration
  <2>2. SameBinding(e, x)
    BY <2>1, RecordLess DEF Less, SameBinding
  <2>3. HasToken(x)
    BY <2>2 DEF SameBinding, HasToken, AuthorityInv, EntryTokens
  <2>4. Begin(a, DOMAIN e.metadata, <<x, f>>, client, bind)
    BY <1>1 DEF RetireThen
  <2> HIDE DEF x
  <2> QED  BY <2>2, <2>3, <2>4, AuthorityBegin
<1>2. CASE ~RetiresGeneration(e, g)
  <2>1. Begin(a, {}, <<f>>, client, bind)
    BY <1>2 DEF RetireThen
  <2> QED  BY <2>1, AuthorityBegin
<1> QED  BY <1>1, <1>2

\* The three handshakes.
LEMMA AuthorityBind ==
  ASSUME TypeInv, AuthorityInv, NEW c \in Chans, Bind(c)
  PROVE  AuthorityInv'
<1> DEFINE a == chan[c].agent
           g == chan[c].gen
           e == entries[a]
           b(t) == [chan[c] EXCEPT !.token = t, !.phase = "bound"]
<1>1. /\ job = Idle /\ chan[c] # None /\ chan[c].phase = "checked"
      /\ UNCHANGED <<entries, owners, chan, known, binder>>
  BY DEF Bind
<1>2. a \in Agents /\ g \in Gens /\ c # None /\ chan[c].mode \in Modes /\ tokens \in Nat
  BY <1>1, ValueAssumption DEF TypeInv, CallersOK, Channel
<1>3. ASSUME NEW t \in Nat, NEW y, y = b(t)
      PROVE  /\ y # None /\ y.phase = "bound" /\ y.token = t
             /\ y.agent = a /\ y.gen = g /\ y.mode = chan[c].mode
  <2>1. chan[c] \in Channel
    BY <1>1 DEF TypeInv, CallersOK
  <2>2. y \in Channel
    BY <1>3, <2>1 DEF Channel, Phases
  <2> QED  BY <1>3, <2>1, <2>2, ValueAssumption DEF Channel
<1>4. \A d \in Chans : chan[d] # None => chan[d].token # tokens + 1
  BY <1>2 DEF AuthorityInv, ChannelTokens, TypeInv, CallersOK, Channel
<1>5. CASE chan[c].mode = "resync"
  <2> DEFINE f == BindResyncEntry(e, g, incs, tokens + 1)
             y == b(tokens + 1)
  <2>1. RetireThen(a, g, f, c, y) /\ incs' = incs + 1 /\ tokens' = tokens + 1
    BY <1>5 DEF Bind
  <2>2. tokens + 1 \in Nat
    BY <1>2
  <2>3. f # Absent /\ f.gen = g /\ f.token = tokens + 1 /\ f.resync = TRUE
    <3>1. incs' = incs + 1
      BY <2>1
    <3> DEFINE t == tokens + 1
               x == BindResyncEntry(entries[a], g, incs, t)
    <3>3. t \in Nat /\ a \in Agents /\ g \in Gens
      BY <1>2, <2>2
    <3>4. x # Absent /\ x.gen = g /\ x.token = t /\ x.resync = TRUE
      <4> HIDE DEF a, g, e, b, f, y, t
      <4> QED  BY <3>1, <3>3, BindResyncFields DEF StoredBound
    <3> QED  BY <3>4
  <2>4. /\ y # None /\ y.phase = "bound" /\ y.token = tokens + 1 /\ y.agent = a /\ y.gen = g
    <3> HIDE DEF b, a, g
    <3> QED  BY <1>3, <2>2
  <2> HIDE DEF f, y
  <2>5. BoundAs(a, c, y, f)
    BY <1>1, <1>2, <1>4, <2>1, <2>3, <2>4 DEF BoundAs
  <2>6. HasToken(f) /\ tokens' \in Nat /\ tokens <= tokens'
    BY <1>2, <2>1, <2>2, <2>3 DEF HasToken
  <2> HIDE DEF a, g
  <2> QED  BY <1>1, <1>2, <2>1, <2>4, <2>5, <2>6, AuthorityRetireThen
<1>6. CASE chan[c].mode # "resync"
  <2> DEFINE y == b(0)
  <2>1. y.phase = "bound" /\ y.token = 0 /\ y.agent = a /\ y.gen = g /\ y.mode = chan[c].mode
    BY <1>3
  <2>2. y # None
    BY <1>3
  <2> HIDE DEF y
  <2>3. \A f : tokens' = tokens => BoundAs(a, c, y, f)
    BY <1>1, <1>2, <1>6, <2>1 DEF BoundAs
  <2>4. CASE chan[c].mode = "ack"
    <3> DEFINE old == IF e = Absent THEN Absent ELSE RecordLosses(e, DOMAIN e.metadata)
               f == BindEntry(old, g, incs)
    <3>1. RetireThen(a, None, f, c, y) /\ incs' = incs + 1 /\ tokens' = tokens
      BY <1>6, <2>4 DEF Bind, y
    <3>2. f # Absent /\ f.resync = FALSE
      BY <1>2, <3>1, BindSound
    <3> HIDE DEF f, a, g
    <3>3. HasToken(f) /\ BoundAs(a, c, y, f)
      BY <2>3, <3>1, <3>2 DEF HasToken
    <3> QED  BY <1>1, <1>2, <2>2, <3>1, <3>3, AuthorityRetireThen
  <2>5. CASE chan[c].mode = "off"
    <3>1. RetireThen(a, None, Absent, c, y) /\ tokens' = tokens
      BY <1>6, <2>5 DEF Bind, y
    <3>2. HasToken(Absent) /\ BoundAs(a, c, y, Absent)
      BY <2>3, <3>1 DEF HasToken
    <3> HIDE DEF a, g
    <3> QED  BY <1>1, <1>2, <2>2, <3>1, <3>2, AuthorityRetireThen
  <2> QED  BY <1>2, <1>6, <2>4, <2>5 DEF Modes
<1> QED  BY <1>5, <1>6

\* An owner's retirement leaves the binding; a purge removes it.
LEMMA AuthorityRetire ==
  ASSUME TypeInv, AuthorityInv,
         \/ \E c \in Chans : \/ CloseRetire(c) /\ OwnsRecovery(c)
                             \/ \E requested : Resync(c, requested)
         \/ \E a \in Agents : Delete(a)
  PROVE  AuthorityInv'
<1>1. ASSUME NEW c \in Chans, (CloseRetire(c) /\ OwnsRecovery(c)) \/ \E requested : Resync(c, requested)
      PROVE  AuthorityInv'
  <2> DEFINE a == chan[c].agent
             e == entries[a]
  <2>1. /\ job = Idle /\ chan[c] # None /\ OwnsRecovery(c)
        /\ UNCHANGED <<entries, owners, chan, known, binder, tokens>>
    BY <1>1 DEF CloseRetire, Resync
  <2>2. a \in Agents /\ e # Absent /\ tokens \in Nat
    BY <2>1 DEF TypeInv, CallersOK, Channel, OwnsRecovery
  <2>3. PICK added : /\ added \subseteq (e.acked + 1)..e.issued
                     /\ Begin(a, added, <<RetireEntry(e, added)>>, c, None)
    <3>1. CASE CloseRetire(c) /\ OwnsRecovery(c)
      <4>1. Begin(a, Unaccounted(e, 1..e.issued), <<RetireEntry(e, Unaccounted(e, 1..e.issued))>>, c, None)
        BY <3>1 DEF CloseRetire
      <4>2. Unaccounted(e, 1..e.issued) \subseteq (e.acked + 1)..e.issued
        BY <2>2, StoredEntry, UnaccountedSpec
      <4> QED  BY <4>1, <4>2
    <3>2. ASSUME NEW requested, Resync(c, requested)
          PROVE  \E added : /\ added \subseteq (e.acked + 1)..e.issued
                            /\ Begin(a, added, <<RetireEntry(e, added)>>, c, None)
      <4>1. /\ Begin(a, Unaccounted(e, requested), <<RetireEntry(e, Unaccounted(e, requested))>>, c, None)
            /\ requested \subseteq 1..e.issued
        BY <3>2 DEF Resync
      <4>2. Unaccounted(e, requested) \subseteq (e.acked + 1)..e.issued
        BY <2>2, <4>1, StoredEntry, UnaccountedSpec
      <4> QED  BY <4>1, <4>2
    <3> QED  BY <1>1, <3>1, <3>2
  <2> DEFINE x == RetireEntry(e, added)
  <2>4. SameBinding(e, x)
    BY <2>2, <2>3, StoredEntry, RetireLess DEF Less, SameBinding
  <2>5. HasToken(x) /\ BoundAs(a, c, None, x)
    BY <2>2, <2>4 DEF SameBinding, HasToken, AuthorityInv, EntryTokens, BoundAs
  <2> HIDE DEF x, a
  <2> QED  BY <2>1, <2>2, <2>3, <2>4, <2>5, AuthorityBegin DEF x
<1>2. ASSUME NEW a \in Agents, Delete(a) PROVE AuthorityInv'
  <2>1. /\ job = Idle /\ RetireThen(a, None, Absent, None, None)
        /\ UNCHANGED <<entries, owners, chan, known, binder, tokens>>
    BY <1>2 DEF Delete
  <2>2. HasToken(Absent) /\ BoundAs(a, None, None, Absent) /\ tokens \in Nat
    BY DEF HasToken, BoundAs, TypeInv, CallersOK
  <2> QED  BY <2>1, <2>2, AuthorityRetireThen
<1> QED  BY <1>1, <1>2

\* The ledger restarts: it has forgotten who owns what, and the caller of the
\* handler it was running dies.
LEMMA AuthorityCrash ==
  ASSUME TypeInv, AuthorityInv, LedgerCrash
  PROVE  AuthorityInv'
<1> DEFINE dead == IF job = Idle THEN {} ELSE {job.client}
<1>1. /\ job' = Idle /\ UNCHANGED <<entries, tokens, binder>>
      /\ \A a \in Agents : owners'[a] = None
      /\ \A c \in Chans : chan'[c] = IF c \in dead THEN None ELSE chan[c]
      /\ \A a \in Agents : known'[a] = IF known[a] \in dead THEN None ELSE known[a]
  BY DEF LedgerCrash
<1> HIDE DEF dead
<1>2. \A a \in Agents : known[a] \in Chans \cup {None} /\ binder[a] \in Chans \cup {None}
  BY DEF TypeInv, CallersOK, HistoryOK
<1>3. ChannelTokens'
  BY <1>1 DEF AuthorityInv, ChannelTokens
<1>4. EntryTokens' /\ OwnersBound' /\ JobAuthority'
  BY <1>1 DEF AuthorityInv, EntryTokens, HasToken, OwnersBound, JobAuthority
<1>5. KnownJoined'
  BY <1>1, <1>2 DEF AuthorityInv, KnownJoined
<1>6. BinderOwns'
  <2> SUFFICES ASSUME NEW b \in Agents, NEW c, c = binder[b], c # None, chan'[c] # None, chan'[c].agent = b,
                      chan'[c].phase # "checked"
               PROVE  OwnsRecovery(c)'
    BY <1>1 DEF BinderOwns
  <2>1. chan'[c] = chan[c]
    BY <1>1, <1>2
  <2>2. OwnsRecovery(c)
    BY <2>1 DEF AuthorityInv, BinderOwns
  <2> QED  BY <1>1, <2>1, <2>2 DEF OwnsRecovery
<1> QED  BY <1>3, <1>4, <1>5, <1>6 DEF AuthorityInv

\* A store, and with the last one the answer.
LEMMA AuthorityCommit ==
  ASSUME TypeInv, AuthorityInv, CommitEntry
  PROVE  AuthorityInv'
<1> DEFINE a == job.agent
           e == entries[a]
           n == job.commits[1]
           m == job.commits[2]
           c == job.client
           ends == c # None /\ chan[c].phase = "closing"
<1>1. /\ job # Idle /\ a \in Agents /\ c \in Chans \cup {None} /\ job.bind \in Channel \cup {None}
      /\ job.commits = <<n>> \/ job.commits = <<n, m>>
  BY JobFields DEF CommitEntry
<1>2. UNCHANGED <<tokens>> /\ \A b \in Agents : entries'[b] = IF b = a THEN n ELSE entries[b]
  <2>1. entries' = [entries EXCEPT ![a] = Head(job.commits)] /\ UNCHANGED tokens
    BY DEF CommitEntry
  <2>2. Head(job.commits) = n
    BY <1>1
  <2> QED  BY <2>1, <2>2 DEF TypeInv, EntriesOK
<1>3. /\ \A x \in Chans \cup {None} : \A b \in Agents :
            /\ owners' = [owners EXCEPT ![a] = x] => owners'[b] = IF b = a THEN x ELSE owners[b]
            /\ binder' = [binder EXCEPT ![a] = x] => binder'[b] = IF b = a THEN x ELSE binder[b]
      /\ \A b \in Agents : binder[b] \in Chans \cup {None} /\ owners[b] \in Chans \cup {None}
                           /\ known[b] \in Chans \cup {None}
  BY DEF TypeInv, CallersOK, HistoryOK
<1>4. CASE job.commits = <<n, m>>
  <2>1. Len(job.commits) = 2 /\ Tail(job.commits) = <<m>> /\ <<m>>[1] = m /\ Len(<<m>>) = 1
    BY <1>4, TailPair
  <2>2. /\ job' = [job EXCEPT !.commits = Tail(job.commits)]
        /\ UNCHANGED <<chan, known, owners, binder>>
    BY <2>1 DEF CommitEntry
  <2>3. job' = [job EXCEPT !.commits = <<m>>]
    BY <2>1, <2>2
  <2>4. job'.agent = a /\ job'.client = c /\ job'.bind = job.bind /\ job'.commits = <<m>>
    <3>1. IsJob(job)
      BY <1>1 DEF TypeInv, JobOK
    <3> QED  BY <2>3, <3>1 DEF IsJob
  <2>5. SameBinding(e, n) /\ HasToken(n) /\ HasToken(m)
    BY <1>1, <2>1 DEF AuthorityInv, JobAuthority
  <2>6. ChannelTokens' /\ KnownJoined' /\ OwnersBound'
    BY <1>2, <2>2 DEF AuthorityInv, ChannelTokens, KnownJoined, OwnersBound
  <2>7. EntryTokens'
    BY <1>2, <2>5 DEF AuthorityInv, EntryTokens, HasToken
  <2>8. BinderOwns'
    <3> SUFFICES ASSUME NEW b \in Agents, NEW d, d = binder[b], d # None, chan[d] # None, chan[d].agent = b,
                        chan[d].phase # "checked"
                 PROVE  OwnsRecovery(d)'
      BY <2>2 DEF BinderOwns
    <3>1. OwnsRecovery(d)
      BY DEF AuthorityInv, BinderOwns
    <3> QED  BY <1>2, <2>2, <2>5, <3>1 DEF OwnsRecovery, SameBinding
  <2>9. JobAuthority'
    <3>1. /\ job.bind # None =>
                /\ c # None /\ chan[c] # None /\ chan[c].phase = "checked"
                /\ job.bind.agent = a /\ job.bind.phase = "bound" /\ job.bind.token <= tokens
                /\ job.bind.token # 0 => \A d \in Chans : chan[d] # None => chan[d].token # job.bind.token
                /\ job.bind.mode = "resync" =>
                      m # Absent /\ m.gen = job.bind.gen /\ m.resync /\ m.token = job.bind.token
          /\ job.bind = None => m = Absent
      BY <1>1, <2>1 DEF AuthorityInv, JobAuthority
    <3>2. /\ Len(job'.commits) = 1 /\ job'.commits[1] = m /\ job'.agent = a /\ job'.client = c
          /\ job'.bind = job.bind /\ chan' = chan /\ tokens' = tokens
      BY <1>2, <2>1, <2>2, <2>4
    <3> HIDE DEF a, c, m
    <3> QED  BY <2>5, <3>1, <3>2 DEF JobAuthority
  <2> QED  BY <2>6, <2>7, <2>8, <2>9 DEF AuthorityInv
<1>5. CASE job.commits = <<n>> /\ job.bind # None
  <2> DEFINE w == job.bind
             o == IF w.mode = "resync" THEN c ELSE None
  <2>1. Len(job.commits) = 1 /\ Head(job.commits) = n
    BY <1>5
  <2>2. /\ c # None /\ chan[c] # None /\ chan[c].phase = "checked" /\ w \in Channel
        /\ w.agent = a /\ w.phase = "bound" /\ w.token <= tokens
        /\ w.token # 0 => \A d \in Chans : chan[d] # None => chan[d].token # w.token
        /\ w.mode = "resync" => n # Absent /\ n.gen = w.gen /\ n.resync /\ n.token = w.token
        /\ HasToken(n)
    BY <1>1, <1>5, <2>1 DEF AuthorityInv, JobAuthority
  <2>3. /\ job' = Idle /\ chan' = [chan EXCEPT ![c] = w] /\ known' = known
        /\ owners' = [owners EXCEPT ![a] = o] /\ binder' = [binder EXCEPT ![a] = o]
    BY <1>5, <2>1, <2>2 DEF CommitEntry
  <2>4. o \in Chans \cup {None}
    BY <1>1
  <2> HIDE DEF w
  <2>5. \A d \in Chans : chan'[d] = IF d = c THEN w ELSE chan[d]
    BY <2>3 DEF TypeInv, CallersOK
  <2> HIDE DEF o
  <2>6. \A b \in Agents : /\ owners'[b] = IF b = a THEN o ELSE owners[b]
                          /\ binder'[b] = IF b = a THEN o ELSE binder[b]
    BY <1>3, <2>3, <2>4
  <2> USE DEF o
  <2>7. ChannelTokens'
    BY <1>1, <1>2, <2>2, <2>5 DEF AuthorityInv, ChannelTokens
  <2>8. EntryTokens'
    BY <1>2, <2>2 DEF AuthorityInv, EntryTokens, HasToken
  <2>9. KnownJoined'
    BY <1>3, <2>2, <2>3, <2>5 DEF AuthorityInv, KnownJoined
  <2>10. OwnersBound' /\ JobAuthority'
    BY <2>3, <2>6 DEF AuthorityInv, OwnersBound, JobAuthority
  <2>11. BinderOwns'
    <3> SUFFICES ASSUME NEW b \in Agents, NEW d, d = binder'[b], d # None, chan'[d] # None, chan'[d].agent = b,
                        chan'[d].phase # "checked"
                 PROVE  OwnsRecovery(d)'
      BY DEF BinderOwns
    <3>1. CASE b = a
      <4>1. d = c /\ w.mode = "resync" /\ owners'[a] = c /\ chan'[d] = w /\ entries'[a] = n
        BY <1>1, <1>2, <2>2, <2>4, <2>5, <2>6, <3>1
      <4> QED  BY <2>2, <3>1, <4>1 DEF OwnsRecovery
    <3>2. CASE b # a
      <4>1. d = binder[b] /\ d \in Chans /\ d # c
        BY <1>3, <2>2, <2>5, <2>6, <3>2
      <4>2. chan'[d] = chan[d] /\ entries'[b] = entries[b] /\ owners'[b] = owners[b]
        BY <1>2, <2>5, <2>6, <3>2, <4>1
      <4>3. OwnsRecovery(d)
        BY <4>1, <4>2 DEF AuthorityInv, BinderOwns
      <4> QED  BY <4>2, <4>3 DEF OwnsRecovery
    <3> QED  BY <3>1, <3>2
  <2> QED  BY <2>7, <2>8, <2>9, <2>10, <2>11 DEF AuthorityInv
<1>6. CASE job.commits = <<n>> /\ job.bind = None
  <2>1. Len(job.commits) = 1 /\ Head(job.commits) = n
    BY <1>6
  <2>2. /\ job' = Idle
        /\ chan' = IF ends THEN [chan EXCEPT ![c] = None] ELSE chan
        /\ known' = IF ends THEN Without(c) ELSE known
        /\ owners' = IF n = Absent THEN [owners EXCEPT ![a] = None] ELSE owners
        /\ binder' = IF n = Absent THEN [binder EXCEPT ![a] = None] ELSE binder
    BY <1>6, <2>1 DEF CommitEntry
  <2>3. HasToken(n) /\ (n # Absent => SameBinding(e, n))
    BY <1>1, <1>6, <2>1 DEF AuthorityInv, JobAuthority
  <2>4. \A d \in Chans : chan'[d] = chan[d] \/ chan'[d] = None
    BY <2>2 DEF TypeInv, CallersOK
  <2>5. KnownJoined'
    <3>1. CASE ends
      BY <1>1, <2>2, <3>1, WithoutKnown
    <3>2. CASE ~ends
      BY <2>2, <3>2 DEF AuthorityInv, KnownJoined
    <3> QED  BY <3>1, <3>2
  <2>6. ChannelTokens'
    BY <1>2, <2>4 DEF AuthorityInv, ChannelTokens
  <2>7. EntryTokens'
    BY <1>2, <2>3 DEF AuthorityInv, EntryTokens, HasToken
  <2>8. \A b \in Agents : \/ b = a /\ n = Absent /\ owners'[b] = None /\ binder'[b] = None
                          \/ (b # a \/ n # Absent) /\ owners'[b] = owners[b] /\ binder'[b] = binder[b]
    BY <1>3, <2>2
  <2>9. OwnersBound' /\ JobAuthority'
    BY <2>2, <2>8 DEF AuthorityInv, OwnersBound, JobAuthority
  <2>10. BinderOwns'
    <3> SUFFICES ASSUME NEW b \in Agents, NEW d, d = binder'[b], d # None, chan'[d] # None, chan'[d].agent = b,
                        chan'[d].phase # "checked"
                 PROVE  OwnsRecovery(d)'
      BY DEF BinderOwns
    <3>1. d = binder[b] /\ d \in Chans /\ owners'[b] = owners[b] /\ (b # a \/ n # Absent)
      BY <1>3, <2>8
    <3>2. chan'[d] = chan[d]
      BY <2>4, <3>1
    <3>3. OwnsRecovery(d)
      BY <3>1, <3>2 DEF AuthorityInv, BinderOwns
    <3>4. entries'[b].gen = entries[b].gen /\ entries'[b].token = entries[b].token
          /\ entries'[b].resync = entries[b].resync /\ (entries[b] # Absent => entries'[b] # Absent)
      BY <1>2, <2>3, <3>1 DEF SameBinding
    <3> QED  BY <3>1, <3>2, <3>3, <3>4 DEF OwnsRecovery
  <2> QED  BY <2>5, <2>6, <2>7, <2>9, <2>10 DEF AuthorityInv
<1> QED  BY <1>1, <1>4, <1>5, <1>6

\* Accounting for a message and issuing one leave the binding.
LEMMA AuthorityMessages ==
  ASSUME TypeInv, AuthorityInv,
         \/ \E c \in Chans, seq \in Seqs : Acknowledge(c, seq) \/ \E effect : ReportStage(c, seq, effect)
         \/ \E c \in Chans : IssueReserved(c)
         \/ \E a \in Agents : IssueSynthetic(a)
         \/ DispatchDeliver
  PROVE  AuthorityInv'
<1>1. ASSUME NEW c \in Chans, NEW seq \in Seqs, Acknowledge(c, seq) \/ \E effect : ReportStage(c, seq, effect)
      PROVE  AuthorityInv'
  <2> DEFINE a == chan[c].agent
             e == entries[a]
  <2>1. /\ job = Idle /\ chan[c] # None /\ e # Absent
        /\ UNCHANGED <<owners, tokens, chan, known, binder, job>>
    BY <1>1 DEF Acknowledge, ReportStage, OwnsRecovery
  <2>2. a \in Agents /\ Good(e) /\ IsEntry(e)
    <3>1. a \in Agents
      BY <2>1 DEF TypeInv, CallersOK, Channel
    <3> QED  BY <2>1, <3>1, StoredEntry
  <2>3. PICK n : SameBinding(e, n) /\ entries' = [entries EXCEPT ![a] = n]
    <3>1. CASE Acknowledge(c, seq)
      <4>1. entries' = [entries EXCEPT ![a] = AcknowledgeEntry(e, seq)]
        BY <3>1 DEF Acknowledge
      <4>2. SameBinding(e, AcknowledgeEntry(e, seq))
        BY <2>1, <2>2, AcknowledgeLess DEF Less, SameBinding, Seqs
      <4> QED  BY <4>1, <4>2
    <3>2. ASSUME NEW effect, ReportStage(c, seq, effect)
          PROVE  \E n : SameBinding(e, n) /\ entries' = [entries EXCEPT ![a] = n]
      <4>1. entries' = [entries EXCEPT ![a] = ReportStageEntry(e, seq, effect)]
        BY <3>2 DEF ReportStage
      <4>2. SameBinding(e, ReportStageEntry(e, seq, effect))
        BY <2>1, <2>2, ReportLess DEF Less, SameBinding
      <4> QED  BY <4>1, <4>2
    <3> QED  BY <1>1, <3>1, <3>2
  <2> QED  BY <2>1, <2>2, <2>3, AuthorityEntry
<1>2. ASSUME NEW a \in Agents, NEW d, IssueTo(a, d), job = Idle,
             UNCHANGED <<owners, tokens, chan, known, binder, job>>
      PROVE  AuthorityInv'
  <2>1. CASE entries[a] = Absent
    <3>1. entries' = entries
      BY <1>2, <2>1 DEF IssueTo
    <3> QED  BY <1>2, <3>1, AuthorityQuiet
  <2>2. CASE entries[a] # Absent
    <3>1. entries' = [entries EXCEPT ![a] = IssueWithMetadata(entries[a], d)]
      BY <1>2, <2>2 DEF IssueTo
    <3>2. SameBinding(entries[a], IssueWithMetadata(entries[a], d))
      BY <2>2, StoredEntry, IssueBinding
    <3> QED  BY <1>2, <3>1, <3>2, AuthorityEntry
  <2> QED  BY <2>1, <2>2
<1>3. ASSUME NEW c \in Chans, IssueReserved(c) PROVE AuthorityInv'
  <2>1. hold[c].to \in Agents
    BY <1>3 DEF IssueReserved, TypeInv, CallersOK, Hold
  <2>2. /\ IssueTo(hold[c].to, IF hold[c].reserved THEN MessageFrom(chan[c].agent, hold[c].early) ELSE None)
        /\ job = Idle /\ UNCHANGED <<owners, tokens, chan, known, binder, job>>
    BY <1>3 DEF IssueReserved
  <2> QED  BY <1>2, <2>1, <2>2
<1>4. ASSUME NEW a \in Agents, IssueSynthetic(a) PROVE AuthorityInv'
  <2>1. IssueTo(a, NoticeOf(None)) /\ job = Idle /\ UNCHANGED <<owners, tokens, chan, known, binder, job>>
    BY <1>4 DEF IssueSynthetic
  <2> QED  BY <1>2, <2>1
<1>5. CASE DispatchDeliver
  <2>1. NotifyTarget(disp.loss) \in Agents
    BY <1>5, LossFields DEF DispatchDeliver, TypeInv, CallersOK, Dispatch
  <2>2. /\ IssueTo(NotifyTarget(disp.loss), NoticeOf(disp.loss.id))
        /\ job = Idle /\ UNCHANGED <<owners, tokens, chan, known, binder, job>>
    BY <1>5 DEF DispatchDeliver
  <2> QED  BY <1>2, <2>1, <2>2
<1> QED  BY <1>1, <1>3, <1>4, <1>5

\* Nothing is bound at the start.
LEMMA InitAuthority == Init => AuthorityInv
<1> SUFFICES ASSUME Init PROVE AuthorityInv
  OBVIOUS
<1>1. ChannelTokens /\ EntryTokens /\ KnownJoined /\ OwnersBound /\ BinderOwns
  BY DEF Init, ChannelTokens, EntryTokens, HasToken, KnownJoined, OwnersBound, BinderOwns
<1>2. JobAuthority
  BY DEF Init, JobAuthority
<1> QED  BY <1>1, <1>2 DEF AuthorityInv

\* Every step keeps the authority invariant.
LEMMA NextAuthority == TypeInv /\ AuthorityInv /\ [Next]_vars => AuthorityInv'
<1> SUFFICES ASSUME TypeInv, AuthorityInv, [Next]_vars PROVE AuthorityInv'
  OBVIOUS
<1>1. JoinModes \subseteq Modes /\ Noticed \subseteq Agents /\ Purged \subseteq Agents
      /\ 1..MaxSeq \subseteq Seqs
  BY LimitAssumption DEF Seqs
<1>2. ASSUME NEW c \in Chans,
             \/ \E a \in Agents, g \in Gens, m \in JoinModes : Join(c, a, g, m)
             \/ AfterJoin(c) \/ Announce(c) \/ IssueForgotten(c) \/ \E t \in BOOLEAN : Close(c, t)
      PROVE  AuthorityInv'
  BY <1>1, <1>2, AuthorityCallers
<1>3. ASSUME NEW c \in Chans, Bind(c) PROVE AuthorityInv'
  BY <1>3, AuthorityBind
<1>4. ASSUME NEW c \in Chans, CloseRetire(c) PROVE AuthorityInv'
  <2>1. CASE OwnsRecovery(c)
    BY <1>4, <2>1, AuthorityRetire
  <2>2. CASE ~OwnsRecovery(c)
    BY <1>4, <2>2, AuthorityCallers
  <2> QED  BY <2>1, <2>2
<1>5. ASSUME NEW c \in Chans, NEW requested, Resync(c, requested) PROVE AuthorityInv'
  BY <1>5, AuthorityRetire
<1>6. ASSUME NEW a \in Purged, Purge(a) \/ Delete(a) PROVE AuthorityInv'
  BY <1>1, <1>6, AuthorityPurge, AuthorityRetire
<1>7. ASSUME \/ \E c \in Chans, seq \in 1..MaxSeq :
                  Acknowledge(c, seq) \/ \E effect \in Reports : ReportStage(c, seq, effect)
             \/ \E c \in Chans : IssueReserved(c)
             \/ \E a \in Noticed : IssueSynthetic(a)
             \/ DispatchDeliver
      PROVE  AuthorityInv'
  BY <1>1, <1>7, AuthorityMessages
<1>8. ASSUME \/ \E c \in Chans : \/ ReservationDown(c) \/ ReserveEarly(c) \/ Release(c)
                                 \/ \E a \in Agents : Reserve(c, a)
             \/ \E id \in DOMAIN losses : DispatchPick(id)
             \/ DispatchComplete \/ DispatchAbandon \/ UNCHANGED vars
      PROVE  AuthorityInv'
  <2>1. UNCHANGED <<entries, owners, tokens, chan, known, binder, job>>
    BY <1>8 DEF ReservationDown, ReserveEarly, Release, Reserve, DispatchPick, DispatchComplete, DispatchAbandon, vars
  <2> QED  BY <2>1, AuthorityQuiet
<1>9. ASSUME job # Idle, NEW i \in job.intents, WriteIntent(i) PROVE AuthorityInv'
  <2>1. /\ job' = [job EXCEPT !.intents = job.intents \ {i}]
        /\ UNCHANGED <<entries, owners, tokens, chan, known, binder>>
    BY <1>9 DEF WriteIntent
  <2>2. IsJob(job)
    BY <1>9 DEF TypeInv, JobOK
  <2>3. job'.agent = job.agent /\ job'.commits = job.commits /\ job'.client = job.client /\ job'.bind = job.bind
    BY <2>1, <2>2 DEF IsJob
  <2> QED  BY <1>9, <2>1, <2>3, AuthorityQuiet
<1>10. CASE CommitEntry
  BY <1>10, AuthorityCommit
<1>11. CASE LedgerCrash
  BY <1>11, AuthorityCrash
<1> QED  BY <1>2, <1>3, <1>4, <1>5, <1>6, <1>7, <1>8, <1>9, <1>10, <1>11 DEF Next

-----------------------------------------------------------------------------
(* Quotas.                                                                 *)

\* The early marks of an entry, and the channels that have reserved one of
\* agent a's slots under reservations r.
Marks(e, s) == IF e = Absent THEN {} ELSE {q \in DOMAIN e.early : e.early[q] = s}
AllMarks(e) == IF e = Absent THEN {} ELSE DOMAIN e.early
Booked(r, a) == {c \in Chans : r[c] # None /\ r[c].to = a}
BookedEarly(r, a, s) == {c \in Chans : r[c] # None /\ r[c].to = a /\ r[c].early = s}
BookedAny(r, a) == {c \in Chans : r[c] # None /\ r[c].to = a /\ r[c].early # None}

\* The quotas of agent a, for its entry e and reservations r.
Within(e, r, a) ==
    /\ Cardinality(AllMarks(e)) + Cardinality(BookedAny(r, a)) <= RecipientLimit
    /\ \A s \in Agents : Cardinality(Marks(e, s)) + Cardinality(BookedEarly(r, a, s)) <= PairLimit
    /\ Cardinality(SentTo(e)) + Cardinality(Booked(r, a)) <= BacklogLimit

\* The two quota invariants say that every agent's quotas hold.
LEMMA WithinMeans ==
  /\ (EarlyWithin /\ BacklogWithin) <=> \A a \in Agents : Within(entries[a], reservations, a)
  /\ (EarlyWithin /\ BacklogWithin)' <=> \A a \in Agents : Within(entries'[a], reservations', a)
<1>1. \A a : /\ EarlyTotal(a) = Cardinality(AllMarks(entries[a])) + Cardinality(BookedAny(reservations, a))
             /\ Used(a) = Cardinality(Booked(reservations, a))
  BY FS_EmptySet DEF EarlyTotal, Used, AllMarks, BookedAny, Booked
<1>2. \A a, s : EarlyOf(a, s) = Cardinality(Marks(entries[a], s)) + Cardinality(BookedEarly(reservations, a, s))
  BY FS_EmptySet DEF EarlyOf, Marks, BookedEarly
<1>3. \A a : /\ EarlyTotal(a)' = Cardinality(AllMarks(entries'[a])) + Cardinality(BookedAny(reservations', a))
             /\ Used(a)' = Cardinality(Booked(reservations', a))
  BY FS_EmptySet DEF EarlyTotal, Used, AllMarks, BookedAny, Booked
<1>4. \A a, s : EarlyOf(a, s)' = Cardinality(Marks(entries'[a], s)) + Cardinality(BookedEarly(reservations', a, s))
  BY FS_EmptySet DEF EarlyOf, Marks, BookedEarly
<1>5. (EarlyWithin /\ BacklogWithin) <=> \A a \in Agents : Within(entries[a], reservations, a)
  BY <1>1, <1>2 DEF EarlyWithin, BacklogWithin, Within
<1>6. (EarlyWithin /\ BacklogWithin)' <=> \A a \in Agents : Within(entries'[a], reservations', a)
  BY <1>3, <1>4 DEF EarlyWithin, BacklogWithin, Within
<1> QED  BY <1>5, <1>6

\* Everything counted is finite.
LEMMA Countable ==
  ASSUME NEW e, IsFiniteSet(AllMarks(e)), NEW r, NEW a
  PROVE  /\ Cardinality(AllMarks(e)) \in Nat
         /\ IsFiniteSet(BookedAny(r, a)) /\ Cardinality(BookedAny(r, a)) \in Nat
         /\ IsFiniteSet(Booked(r, a)) /\ Cardinality(Booked(r, a)) \in Nat
         /\ \A s : /\ IsFiniteSet(Marks(e, s)) /\ Cardinality(Marks(e, s)) \in Nat
                   /\ IsFiniteSet(BookedEarly(r, a, s)) /\ Cardinality(BookedEarly(r, a, s)) \in Nat
<1>1. \A T : T \subseteq Chans => IsFiniteSet(T) /\ Cardinality(T) \in Nat
  BY LimitAssumption, FS_Subset, FS_CardinalityType
<1>2. \A T : T \subseteq AllMarks(e) => IsFiniteSet(T) /\ Cardinality(T) \in Nat
  BY FS_Subset, FS_CardinalityType
<1>3. BookedAny(r, a) \subseteq Chans /\ Booked(r, a) \subseteq Chans
      /\ \A s : BookedEarly(r, a, s) \subseteq Chans
  BY DEF BookedAny, Booked, BookedEarly
<1>4. \A s : Marks(e, s) \subseteq AllMarks(e)
  BY DEF Marks, AllMarks
<1> QED  BY <1>1, <1>2, <1>3, <1>4

\* A stored entry's messages are finitely many.
LEMMA SentFinite ==
  ASSUME TypeInv, NEW a \in Agents
  PROVE  IsFiniteSet(SentTo(entries[a])) /\ Cardinality(SentTo(entries[a])) \in Nat
<1>1. CASE entries[a] = Absent
  BY <1>1, FS_EmptySet DEF SentTo
<1>2. CASE entries[a] # Absent
  <2>1. Good(entries[a]) /\ entries[a].issued \in Nat
    BY <1>2, StoredEntry
  <2>2. entries[a].acked \in Nat
    BY <2>1, EntryFields DEF Good
  <2>3. SentTo(entries[a]) \subseteq 1..entries[a].issued
    BY <1>2, <2>1, <2>2 DEF Good, EntryShape, SentTo
  <2> QED  BY <2>1, <2>3, IssuedFinite
<1> QED  BY <1>1, <1>2

\* The quotas hold of less.
LEMMA WithinFewer ==
  ASSUME NEW a, NEW e, NEW f, NEW r, NEW q, FewerEarly(e, f), IsFiniteSet(AllMarks(e)),
         IsFiniteSet(SentTo(e)), SentTo(f) \subseteq SentTo(e),
         \A c \in Chans : q[c] = None \/ q[c] = r[c],
         Within(e, r, a)
  PROVE  Within(f, q, a) /\ IsFiniteSet(AllMarks(f))
<1>1. \A S, T : IsFiniteSet(S) /\ T \subseteq S =>
         /\ IsFiniteSet(T) /\ Cardinality(T) \in Nat /\ Cardinality(S) \in Nat
         /\ Cardinality(T) <= Cardinality(S)
  BY FS_Subset, FS_CardinalityType
<1>2. /\ IsFiniteSet(BookedAny(r, a)) /\ IsFiniteSet(Booked(r, a))
      /\ \A s : IsFiniteSet(Marks(e, s)) /\ IsFiniteSet(BookedEarly(r, a, s))
  BY Countable
<1>3. /\ BookedAny(q, a) \subseteq BookedAny(r, a) /\ Booked(q, a) \subseteq Booked(r, a)
      /\ \A s : BookedEarly(q, a, s) \subseteq BookedEarly(r, a, s)
  BY DEF BookedAny, Booked, BookedEarly
<1>4. AllMarks(f) \subseteq AllMarks(e) /\ \A s : Marks(f, s) \subseteq Marks(e, s)
  BY DEF AllMarks, Marks, FewerEarly
<1>5. RecipientLimit \in Nat /\ PairLimit \in Nat /\ BacklogLimit \in Nat
  BY LimitAssumption
<1>6. Cardinality(AllMarks(f)) + Cardinality(BookedAny(q, a)) <= RecipientLimit /\ IsFiniteSet(AllMarks(f))
  <2>1. /\ IsFiniteSet(AllMarks(f)) /\ Cardinality(AllMarks(f)) \in Nat /\ Cardinality(AllMarks(e)) \in Nat
        /\ Cardinality(AllMarks(f)) <= Cardinality(AllMarks(e))
    BY <1>1, <1>4
  <2>2. /\ Cardinality(BookedAny(q, a)) \in Nat /\ Cardinality(BookedAny(r, a)) \in Nat
        /\ Cardinality(BookedAny(q, a)) <= Cardinality(BookedAny(r, a))
    BY <1>1, <1>2, <1>3
  <2> QED  BY <1>5, <2>1, <2>2 DEF Within
<1>7. ASSUME NEW s \in Agents
      PROVE  Cardinality(Marks(f, s)) + Cardinality(BookedEarly(q, a, s)) <= PairLimit
  <2>1. /\ Cardinality(Marks(f, s)) \in Nat /\ Cardinality(Marks(e, s)) \in Nat
        /\ Cardinality(Marks(f, s)) <= Cardinality(Marks(e, s))
    BY <1>1, <1>2, <1>4
  <2>2. /\ Cardinality(BookedEarly(q, a, s)) \in Nat /\ Cardinality(BookedEarly(r, a, s)) \in Nat
        /\ Cardinality(BookedEarly(q, a, s)) <= Cardinality(BookedEarly(r, a, s))
    BY <1>1, <1>2, <1>3
  <2> QED  BY <1>5, <2>1, <2>2 DEF Within
<1>8. Cardinality(SentTo(f)) + Cardinality(Booked(q, a)) <= BacklogLimit
  <2>1. /\ Cardinality(SentTo(f)) \in Nat /\ Cardinality(SentTo(e)) \in Nat
        /\ Cardinality(SentTo(f)) <= Cardinality(SentTo(e))
    BY <1>1
  <2>2. /\ Cardinality(Booked(q, a)) \in Nat /\ Cardinality(Booked(r, a)) \in Nat
        /\ Cardinality(Booked(q, a)) <= Cardinality(Booked(r, a))
    BY <1>1, <1>2, <1>3
  <2> QED  BY <1>5, <2>1, <2>2 DEF Within
<1> QED  BY <1>6, <1>7, <1>8 DEF Within

\* Counting with one more, and with one less.
LEMMA CountStep ==
  ASSUME NEW T, IsFiniteSet(T), NEW k
  PROVE  /\ \A U : U \subseteq T \cup {k} =>
               IsFiniteSet(U) /\ Cardinality(U) \in Nat /\ Cardinality(U) <= Cardinality(T) + 1
         /\ k \in T => IsFiniteSet(T \ {k}) /\ Cardinality(T \ {k}) = Cardinality(T) - 1
         /\ Cardinality(T) \in Nat
<1>1. IsFiniteSet(T \cup {k}) /\ Cardinality(T \cup {k}) <= Cardinality(T) + 1 /\ Cardinality(T) \in Nat
  BY FS_AddElement, FS_CardinalityType
<1>2. \A U : U \subseteq T \cup {k} =>
          /\ IsFiniteSet(U) /\ Cardinality(U) \in Nat
          /\ Cardinality(U) <= Cardinality(T \cup {k}) /\ Cardinality(T \cup {k}) \in Nat
  BY <1>1, FS_Subset, FS_CardinalityType
<1>3. k \in T => IsFiniteSet(T \ {k}) /\ Cardinality(T \ {k}) = Cardinality(T) - 1
  BY FS_RemoveElement
<1> QED  BY <1>1, <1>2, <1>3

\* A slot is reserved below the backlog limit.
LEMMA WithinReserve ==
  ASSUME NEW a \in Agents, NEW e, NEW r, NEW q, NEW c \in Chans, NEW v,
         IsFiniteSet(AllMarks(e)), Cardinality(SentTo(e)) \in Nat,
         r[c] = None, v # None, v.early = None,
         \A d \in Chans : q[d] = IF d = c THEN v ELSE r[d],
         Within(e, r, a),
         v.to = a => Cardinality(SentTo(e)) + Cardinality(Booked(r, a)) < BacklogLimit
  PROVE  Within(e, q, a)
<1>1. BookedAny(q, a) = BookedAny(r, a)
  BY DEF BookedAny
<1>2. \A s \in Agents : BookedEarly(q, a, s) = BookedEarly(r, a, s)
  BY NoneAssumption DEF BookedEarly
<1>3. Cardinality(SentTo(e)) + Cardinality(Booked(q, a)) <= BacklogLimit
  <2>1. IsFiniteSet(Booked(r, a))
    BY Countable
  <2>2. CASE v.to = a
    <3>1. Booked(q, a) \subseteq Booked(r, a) \cup {c}
      BY DEF Booked
    <3>2. /\ Cardinality(Booked(q, a)) \in Nat /\ Cardinality(Booked(r, a)) \in Nat
          /\ Cardinality(Booked(q, a)) <= Cardinality(Booked(r, a)) + 1
      BY <2>1, <3>1, CountStep
    <3>3. BacklogLimit \in Nat
      BY LimitAssumption
    <3> QED  BY <2>2, <3>2, <3>3
  <2>3. CASE v.to # a
    <3>1. Booked(q, a) = Booked(r, a)
      BY <2>3 DEF Booked
    <3> QED  BY <3>1 DEF Within
  <2> QED  BY <2>2, <2>3
<1> QED  BY <1>1, <1>2, <1>3 DEF Within

\* An early slot is reserved below both early quotas.
LEMMA WithinReserveEarly ==
  ASSUME NEW a \in Agents, NEW e, NEW r, NEW q, NEW c \in Chans, NEW v,
         IsFiniteSet(AllMarks(e)),
         r[c] # None, v # None, v.to = r[c].to, r[c].early = None, v.early \in Agents,
         \A d \in Chans : q[d] = IF d = c THEN v ELSE r[d],
         Within(e, r, a),
         v.to = a => /\ Cardinality(Marks(e, v.early)) + Cardinality(BookedEarly(r, a, v.early)) < PairLimit
                     /\ Cardinality(AllMarks(e)) + Cardinality(BookedAny(r, a)) < RecipientLimit
  PROVE  Within(e, q, a)
<1>1. Booked(q, a) = Booked(r, a)
  BY DEF Booked
<1>2. /\ IsFiniteSet(BookedAny(r, a)) /\ Cardinality(AllMarks(e)) \in Nat
      /\ \A s : IsFiniteSet(BookedEarly(r, a, s)) /\ Cardinality(Marks(e, s)) \in Nat
  BY Countable
<1>3. RecipientLimit \in Nat /\ PairLimit \in Nat
  BY LimitAssumption
<1>4. Cardinality(AllMarks(e)) + Cardinality(BookedAny(q, a)) <= RecipientLimit
  <2>1. CASE v.to = a
    <3>1. BookedAny(q, a) \subseteq BookedAny(r, a) \cup {c}
      BY DEF BookedAny
    <3>2. /\ Cardinality(BookedAny(q, a)) \in Nat /\ Cardinality(BookedAny(r, a)) \in Nat
          /\ Cardinality(BookedAny(q, a)) <= Cardinality(BookedAny(r, a)) + 1
      BY <1>2, <3>1, CountStep
    <3> QED  BY <1>2, <1>3, <2>1, <3>2
  <2>2. CASE v.to # a
    <3>1. BookedAny(q, a) = BookedAny(r, a)
      BY <2>2 DEF BookedAny
    <3> QED  BY <3>1 DEF Within
  <2> QED  BY <2>1, <2>2
<1>5. ASSUME NEW s \in Agents
      PROVE  Cardinality(Marks(e, s)) + Cardinality(BookedEarly(q, a, s)) <= PairLimit
  <2>1. CASE v.to = a /\ v.early = s
    <3>1. BookedEarly(q, a, s) \subseteq BookedEarly(r, a, s) \cup {c}
      BY DEF BookedEarly
    <3>2. /\ Cardinality(BookedEarly(q, a, s)) \in Nat /\ Cardinality(BookedEarly(r, a, s)) \in Nat
          /\ Cardinality(BookedEarly(q, a, s)) <= Cardinality(BookedEarly(r, a, s)) + 1
      BY <1>2, <3>1, CountStep
    <3> QED  BY <1>2, <1>3, <2>1, <3>2
  <2>2. CASE ~(v.to = a /\ v.early = s)
    <3>1. BookedEarly(q, a, s) = BookedEarly(r, a, s)
      BY <2>2, NoneAssumption DEF BookedEarly
    <3> QED  BY <3>1 DEF Within
  <2> QED  BY <2>1, <2>2
<1> QED  BY <1>1, <1>4, <1>5 DEF Within

\* A message takes up the slots that were reserved for it.
LEMMA WithinIssue ==
  ASSUME NEW a \in Agents, NEW e, NEW f, NEW r, NEW q, NEW c \in Chans, NEW k, NEW s0 \in Agents,
         IsFiniteSet(AllMarks(e)), IsFiniteSet(SentTo(e)), e # Absent, f # Absent,
         r[c] # None, r[c].to = a, q[c] = None, \A d \in Chans \ {c} : q[d] = r[d],
         SentTo(f) \subseteq SentTo(e) \cup {k},
         \/ f.early = e.early
         \/ f.early = Put(e.early, k, s0) /\ r[c].early = s0,
         Within(e, r, a)
  PROVE  Within(f, q, a) /\ IsFiniteSet(AllMarks(f))
<1>1. /\ IsFiniteSet(BookedAny(r, a)) /\ Cardinality(AllMarks(e)) \in Nat
      /\ IsFiniteSet(Booked(r, a))
      /\ \A s : IsFiniteSet(BookedEarly(r, a, s)) /\ IsFiniteSet(Marks(e, s))
  BY Countable
<1>2. RecipientLimit \in Nat /\ PairLimit \in Nat /\ BacklogLimit \in Nat
  BY LimitAssumption
<1>3. \A S, T : IsFiniteSet(S) /\ T \subseteq S =>
         /\ Cardinality(T) \in Nat /\ Cardinality(S) \in Nat /\ Cardinality(T) <= Cardinality(S)
  BY FS_Subset, FS_CardinalityType
<1>4. Cardinality(SentTo(f)) + Cardinality(Booked(q, a)) <= BacklogLimit
  <2>1. Booked(q, a) = Booked(r, a) \ {c} /\ c \in Booked(r, a)
    BY DEF Booked
  <2>2. Cardinality(Booked(q, a)) = Cardinality(Booked(r, a)) - 1 /\ Cardinality(Booked(r, a)) \in Nat
    BY <1>1, <2>1, CountStep
  <2>3. /\ Cardinality(SentTo(f)) \in Nat /\ Cardinality(SentTo(e)) \in Nat
        /\ Cardinality(SentTo(f)) <= Cardinality(SentTo(e)) + 1
    BY CountStep
  <2> QED  BY <1>2, <2>2, <2>3 DEF Within
<1>5. CASE f.early = e.early
  <2>1. AllMarks(f) = AllMarks(e) /\ \A s : Marks(f, s) = Marks(e, s)
    BY <1>5 DEF AllMarks, Marks
  <2>2. /\ BookedAny(q, a) \subseteq BookedAny(r, a)
        /\ \A s : BookedEarly(q, a, s) \subseteq BookedEarly(r, a, s)
    BY DEF BookedAny, BookedEarly
  <2>3. Cardinality(AllMarks(f)) + Cardinality(BookedAny(q, a)) <= RecipientLimit
    <3>1. /\ Cardinality(BookedAny(q, a)) \in Nat /\ Cardinality(BookedAny(r, a)) \in Nat
          /\ Cardinality(BookedAny(q, a)) <= Cardinality(BookedAny(r, a))
      BY <1>1, <1>3, <2>2
    <3> QED  BY <1>1, <1>2, <2>1, <3>1 DEF Within
  <2>4. ASSUME NEW s \in Agents
        PROVE  Cardinality(Marks(f, s)) + Cardinality(BookedEarly(q, a, s)) <= PairLimit
    <3>1. /\ Cardinality(BookedEarly(q, a, s)) \in Nat /\ Cardinality(BookedEarly(r, a, s)) \in Nat
          /\ Cardinality(BookedEarly(q, a, s)) <= Cardinality(BookedEarly(r, a, s))
      BY <1>1, <1>3, <2>2
    <3>2. Cardinality(Marks(e, s)) \in Nat
      BY Countable
    <3> QED  BY <1>2, <2>1, <3>1, <3>2 DEF Within
  <2> QED  BY <1>4, <2>1, <2>3, <2>4 DEF Within
<1>6. CASE f.early = Put(e.early, k, s0) /\ r[c].early = s0
  <2>1. /\ DOMAIN f.early = DOMAIN e.early \cup {k}
        /\ \A s \in DOMAIN f.early : f.early[s] = IF s = k THEN s0 ELSE e.early[s]
    BY <1>6 DEF Put
  <2>2. /\ AllMarks(f) \subseteq AllMarks(e) \cup {k}
        /\ Marks(f, s0) \subseteq Marks(e, s0) \cup {k}
        /\ \A s : s # s0 => Marks(f, s) \subseteq Marks(e, s)
    BY <2>1 DEF AllMarks, Marks
  <2>3. s0 # None
    BY NoneAssumption
  <2>4. /\ BookedAny(q, a) = BookedAny(r, a) \ {c} /\ c \in BookedAny(r, a)
        /\ BookedEarly(q, a, s0) = BookedEarly(r, a, s0) \ {c} /\ c \in BookedEarly(r, a, s0)
        /\ \A s : BookedEarly(q, a, s) \subseteq BookedEarly(r, a, s)
    BY <1>6, <2>3 DEF BookedAny, BookedEarly
  <2>5. Cardinality(AllMarks(f)) + Cardinality(BookedAny(q, a)) <= RecipientLimit /\ IsFiniteSet(AllMarks(f))
    <3>1. Cardinality(BookedAny(q, a)) = Cardinality(BookedAny(r, a)) - 1 /\ Cardinality(BookedAny(r, a)) \in Nat
      BY <1>1, <2>4, CountStep
    <3>2. /\ IsFiniteSet(AllMarks(f)) /\ Cardinality(AllMarks(f)) \in Nat
          /\ Cardinality(AllMarks(f)) <= Cardinality(AllMarks(e)) + 1
      BY <2>2, CountStep
    <3> QED  BY <1>1, <1>2, <3>1, <3>2 DEF Within
  <2>6. ASSUME NEW s \in Agents
        PROVE  Cardinality(Marks(f, s)) + Cardinality(BookedEarly(q, a, s)) <= PairLimit
    <3>0. Cardinality(Marks(e, s)) \in Nat
      BY Countable
    <3>1. CASE s = s0
      <4>1. Cardinality(BookedEarly(q, a, s)) = Cardinality(BookedEarly(r, a, s)) - 1
            /\ Cardinality(BookedEarly(r, a, s)) \in Nat
        BY <1>1, <2>4, <3>1, CountStep
      <4>2. /\ Cardinality(Marks(f, s)) \in Nat
            /\ Cardinality(Marks(f, s)) <= Cardinality(Marks(e, s)) + 1
        BY <1>1, <2>2, <3>1, CountStep
      <4> QED  BY <1>2, <3>0, <4>1, <4>2 DEF Within
    <3>2. CASE s # s0
      <4>1. /\ Cardinality(BookedEarly(q, a, s)) \in Nat /\ Cardinality(BookedEarly(r, a, s)) \in Nat
            /\ Cardinality(BookedEarly(q, a, s)) <= Cardinality(BookedEarly(r, a, s))
        BY <1>1, <1>3, <2>4
      <4>2. /\ Cardinality(Marks(f, s)) \in Nat
            /\ Cardinality(Marks(f, s)) <= Cardinality(Marks(e, s))
        BY <1>1, <1>3, <2>2, <3>2
      <4> QED  BY <1>2, <3>0, <4>1, <4>2 DEF Within
    <3> QED  BY <3>1, <3>2
  <2> QED  BY <1>4, <2>5, <2>6 DEF Within
<1> QED  BY <1>5, <1>6

-----------------------------------------------------------------------------
\* HoldsReserved of one channel: what it is, what it holds and what is
\* reserved for it.
HeldAt(k, h, r) ==
    /\ h # None => k # None /\ k.phase = "joined"
    /\ r # None => IF h = None THEN k = None \/ k.phase = "closing"
                   ELSE h.reserved /\ r.to = h.to /\ r.early = IF h.early THEN k.agent ELSE None

\* A step that touches one channel.
LEMMA HoldsStep ==
  ASSUME HoldsReserved, NEW c,
         \A d \in Chans \ {c} : chan'[d] = chan[d] /\ hold'[d] = hold[d] /\ reservations'[d] = reservations[d],
         HeldAt(chan'[c], hold'[c], reservations'[c])
  PROVE  HoldsReserved'
  BY DEF HoldsReserved, HeldAt

\* One channel's assignments.
LEMMA ChannelAssigned ==
  ASSUME TypeInv, NEW c \in Chans, NEW x
  PROVE  /\ chan' = [chan EXCEPT ![c] = x] => \A d \in Chans : chan'[d] = IF d = c THEN x ELSE chan[d]
         /\ hold' = [hold EXCEPT ![c] = x] => \A d \in Chans : hold'[d] = IF d = c THEN x ELSE hold[d]
         /\ reservations' = [reservations EXCEPT ![c] = x] =>
               \A d \in Chans : reservations'[d] = IF d = c THEN x ELSE reservations[d]
  BY DEF TypeInv, CallersOK

\* A step with which entries get no more marks and messages, and reservations
\* at most end.
LEMMA QuotaFewer ==
  ASSUME TypeInv, QuotaInv, HoldsReserved', JobEarly',
         \A a \in Agents : /\ FewerEarly(entries[a], entries'[a])
                           /\ SentTo(entries'[a]) \subseteq SentTo(entries[a]),
         \A c \in Chans : reservations'[c] = None \/ reservations'[c] = reservations[c]
  PROVE  QuotaInv'
<1>1. \A a \in Agents : IsFiniteSet(AllMarks(entries[a]))
  BY FS_EmptySet DEF QuotaInv, EarlyFinite, AllMarks
<1>2. \A a \in Agents : Within(entries[a], reservations, a)
  BY WithinMeans DEF QuotaInv
<1>3. \A a \in Agents : Within(entries'[a], reservations', a) /\ IsFiniteSet(AllMarks(entries'[a]))
  BY <1>1, <1>2, SentFinite, WithinFewer
<1>4. EarlyFinite'
  BY <1>3 DEF EarlyFinite, AllMarks
<1>5. (EarlyWithin /\ BacklogWithin)'
  BY <1>3, WithinMeans
<1> QED  BY <1>4, <1>5 DEF QuotaInv

\* The same with the entries as they are.
LEMMA QuotaSame ==
  ASSUME TypeInv, QuotaInv, HoldsReserved', JobEarly', entries' = entries,
         \A c \in Chans : reservations'[c] = None \/ reservations'[c] = reservations[c]
  PROVE  QuotaInv'
<1>1. \A a \in Agents : FewerEarly(entries[a], entries'[a]) /\ SentTo(entries'[a]) \subseteq SentTo(entries[a])
  BY DEF FewerEarly
<1> QED  BY <1>1, QuotaFewer

\* A step of the dispatcher or of AgentStates.
LEMMA QuotaQuiet ==
  ASSUME TypeInv, QuotaInv, UNCHANGED <<entries, reservations, chan, hold>>,
         \/ job' = job
         \/ job # Idle /\ job'.agent = job.agent /\ job'.commits = job.commits
  PROVE  QuotaInv'
<1>1. HoldsReserved' /\ JobEarly'
  BY DEF QuotaInv, HoldsReserved, JobEarly, FewerEarly
<1> QED  BY <1>1, QuotaSame

\* Channels come, go on and end; reservations are given up.
LEMMA QuotaCallers ==
  ASSUME TypeInv, QuotaInv, NEW c \in Chans,
         \/ \E a \in Agents, g \in Gens, m \in Modes : Join(c, a, g, m)
         \/ AfterJoin(c) \/ IssueForgotten(c) \/ \E t \in BOOLEAN : Close(c, t)
         \/ CloseRetire(c) /\ ~OwnsRecovery(c)
         \/ ReservationDown(c) \/ Release(c)
  PROVE  QuotaInv'
<1>1. UNCHANGED <<entries, job>>
  BY DEF Join, AfterJoin, IssueForgotten, Close, CloseRetire, ReservationDown, Release
<1>2. JobEarly'
  BY <1>1 DEF QuotaInv, JobEarly, FewerEarly
<1>3. HeldAt(chan[c], hold[c], reservations[c]) /\ HoldsReserved
  BY DEF QuotaInv, HoldsReserved, HeldAt
<1>4. ASSUME NEW x, NEW h, NEW r, HeldAt(x, h, r),
             (chan' = chan /\ x = chan[c]) \/ chan' = [chan EXCEPT ![c] = x],
             (hold' = hold /\ h = hold[c]) \/ hold' = [hold EXCEPT ![c] = h],
             \/ reservations' = reservations /\ r = reservations[c]
             \/ reservations' = [reservations EXCEPT ![c] = r] /\ r = None
      PROVE  QuotaInv'
  <2>1. \A d \in Chans : /\ chan'[d] = IF d = c THEN x ELSE chan[d]
                         /\ hold'[d] = IF d = c THEN h ELSE hold[d]
                         /\ reservations'[d] = IF d = c THEN r ELSE reservations[d]
    <3>1. \A d \in Chans : chan'[d] = IF d = c THEN x ELSE chan[d]
      BY <1>4, ChannelAssigned
    <3>2. \A d \in Chans : hold'[d] = IF d = c THEN h ELSE hold[d]
      BY <1>4, ChannelAssigned
    <3>3. \A d \in Chans : reservations'[d] = IF d = c THEN r ELSE reservations[d]
      BY <1>4, ChannelAssigned
    <3> QED  BY <3>1, <3>2, <3>3
  <2>2. HoldsReserved'
    BY <1>3, <1>4, <2>1, HoldsStep
  <2>3. \A d \in Chans : reservations'[d] = None \/ reservations'[d] = reservations[d]
    BY <1>4, <2>1
  <2> QED  BY <1>1, <1>2, <2>2, <2>3, QuotaSame
<1>5. ASSUME NEW a \in Agents, NEW g \in Gens, NEW m \in Modes, Join(c, a, g, m) PROVE QuotaInv'
  <2> DEFINE x == [agent |-> a, gen |-> g, token |-> 0, mode |-> m, phase |-> "checked"]
  <2>1. chan[c] = None /\ reservations[c] = None /\ chan' = [chan EXCEPT ![c] = x]
        /\ hold' = hold /\ reservations' = reservations
    BY <1>5 DEF Join
  <2> HIDE DEF x
  <2>2. HeldAt(x, hold[c], reservations[c])
    BY <1>3, <2>1 DEF HeldAt
  <2> QED  BY <1>4, <2>1, <2>2
<1>6. CASE AfterJoin(c)
  <2> DEFINE x == IF chan[c].agent \in revoked THEN None ELSE [chan[c] EXCEPT !.phase = "joined"]
  <2>1. chan[c] # None /\ chan[c].phase = "bound" /\ chan' = [chan EXCEPT ![c] = x]
        /\ hold' = hold /\ reservations' = reservations
    BY <1>6 DEF AfterJoin
  <2> HIDE DEF x
  <2>2. HeldAt(x, hold[c], reservations[c])
    BY <1>3, <2>1 DEF HeldAt
  <2> QED  BY <1>4, <2>1, <2>2
<1>7. CASE IssueForgotten(c)
  <2>1. chan' = [chan EXCEPT ![c] = None] /\ hold' = [hold EXCEPT ![c] = None] /\ reservations' = reservations
    BY <1>7 DEF IssueForgotten
  <2>2. HeldAt(None, None, reservations[c])
    BY DEF HeldAt
  <2> QED  BY <1>4, <2>1, <2>2
<1>8. CASE Close(c, FALSE)
  <2>1. chan' = [chan EXCEPT ![c] = None] /\ hold' = [hold EXCEPT ![c] = None] /\ reservations' = reservations
    BY <1>8 DEF Close
  <2>2. HeldAt(None, None, reservations[c])
    BY DEF HeldAt
  <2> QED  BY <1>4, <2>1, <2>2
<1>9. CASE Close(c, TRUE)
  <2> DEFINE x == [chan[c] EXCEPT !.phase = "closing"]
  <2>1. chan[c] # None /\ chan' = [chan EXCEPT ![c] = x] /\ hold' = [hold EXCEPT ![c] = None]
        /\ reservations' = reservations
    BY <1>9 DEF Close
  <2>2. "closing" \in Phases /\ x = [chan[c] EXCEPT !.phase = "closing"]
    BY DEF Phases
  <2> HIDE DEF x
  <2>3. x.phase = "closing"
    BY <2>1, <2>2, PhaseFields
  <2>4. HeldAt(x, None, reservations[c])
    BY <2>3 DEF HeldAt
  <2> QED  BY <1>4, <2>1, <2>4
<1>10. CASE CloseRetire(c) /\ ~OwnsRecovery(c)
  <2>1. chan[c] # None /\ chan[c].phase = "closing" /\ chan' = [chan EXCEPT ![c] = None]
        /\ hold' = hold /\ reservations' = reservations
    BY <1>10 DEF CloseRetire
  <2>2. HeldAt(None, hold[c], reservations[c])
    BY <1>3, <2>1 DEF HeldAt
  <2> QED  BY <1>4, <2>1, <2>2
<1>11. CASE ReservationDown(c)
  <2>1. chan' = chan /\ hold' = hold /\ reservations' = [reservations EXCEPT ![c] = None]
    BY <1>11 DEF ReservationDown
  <2>2. HeldAt(chan[c], hold[c], None)
    BY <1>3 DEF HeldAt
  <2> QED  BY <1>4, <2>1, <2>2
<1>12. CASE Release(c)
  <2>1. chan' = chan /\ hold' = [hold EXCEPT ![c] = None] /\ reservations' = [reservations EXCEPT ![c] = None]
    BY <1>12 DEF Release
  <2>2. HeldAt(chan[c], None, None)
    BY DEF HeldAt
  <2> QED  BY <1>4, <2>1, <2>2
<1> QED  BY <1>5, <1>6, <1>7, <1>8, <1>9, <1>10, <1>11, <1>12

\* A channel reserves what it is going to issue.
LEMMA QuotaReserve ==
  ASSUME TypeInv, QuotaInv, NEW c \in Chans, NEW to \in Agents, Reserve(c, to) \/ ReserveEarly(c)
  PROVE  QuotaInv'
<1>1. UNCHANGED <<entries, job, chan>> /\ job = Idle
  BY DEF Reserve, ReserveEarly
<1>2. JobEarly'
  BY <1>1 DEF JobEarly
<1>3. HeldAt(chan[c], hold[c], reservations[c]) /\ HoldsReserved
  BY DEF QuotaInv, HoldsReserved, HeldAt
<1>4. \A a \in Agents : /\ IsFiniteSet(AllMarks(entries[a])) /\ Within(entries[a], reservations, a)
                        /\ IsFiniteSet(SentTo(entries[a])) /\ Cardinality(SentTo(entries[a])) \in Nat
  BY WithinMeans, SentFinite, FS_EmptySet DEF QuotaInv, EarlyFinite, AllMarks
<1>5. ASSUME HoldsReserved', \A a \in Agents : Within(entries'[a], reservations', a) PROVE QuotaInv'
  <2>1. EarlyFinite'
    BY <1>1 DEF QuotaInv, EarlyFinite
  <2>2. (EarlyWithin /\ BacklogWithin)'
    BY <1>5, WithinMeans
  <2> QED  BY <1>2, <1>5, <2>1, <2>2 DEF QuotaInv
<1>6. CASE Reserve(c, to)
  <2> DEFINE e == entries[to]
             tracked == e # Absent /\ e.resync
             v == [to |-> to, early |-> None]
             w == IF tracked THEN v ELSE reservations[c]
             h == [to |-> to, reserved |-> tracked, early |-> FALSE]
  <2>1. /\ chan[c] # None /\ chan[c].phase = "joined" /\ hold[c] = None
        /\ tracked => Cardinality(DOMAIN e.metadata) + Cardinality(e.resolved) + Used(to) < BacklogLimit
        /\ reservations' = [reservations EXCEPT ![c] = w] /\ hold' = [hold EXCEPT ![c] = h]
    BY <1>6 DEF Reserve
  <2>2. reservations[c] = None
    BY <1>3, <2>1 DEF HeldAt
  <2>3. v \in Reservation /\ v # None /\ v.to = to /\ v.early = None
    <3>1. v \in Reservation
      BY DEF Reservation
    <3> QED  BY <3>1, ValueAssumption
  <2>4. h # None /\ h.reserved = tracked /\ h.to = to /\ h.early = FALSE
    <3>1. tracked \in BOOLEAN
      <4>1. CASE e = Absent
        BY <4>1
      <4>2. CASE e # Absent
        BY <4>2, StoredEntry, EntryFields
      <4> QED  BY <4>1, <4>2
    <3> HIDE DEF tracked
    <3>2. h \in Hold
      BY <3>1 DEF Hold
    <3> QED  BY <3>2, ValueAssumption
  <2>5. HeldAt(chan[c], h, w)
    <3> HIDE DEF h, v, tracked
    <3> QED  BY <2>1, <2>2, <2>3, <2>4 DEF HeldAt
  <2>6. \A d \in Chans : /\ reservations'[d] = IF d = c THEN w ELSE reservations[d]
                         /\ hold'[d] = IF d = c THEN h ELSE hold[d]
    <3>1. reservations' = [reservations EXCEPT ![c] = w] /\ hold' = [hold EXCEPT ![c] = h]
      BY <2>1
    <3> HIDE DEF w, h
    <3>2. \A d \in Chans : reservations'[d] = IF d = c THEN w ELSE reservations[d]
      BY <3>1 DEF TypeInv, CallersOK
    <3>3. \A d \in Chans : hold'[d] = IF d = c THEN h ELSE hold[d]
      BY <3>1 DEF TypeInv, CallersOK
    <3> QED  BY <3>2, <3>3
  <2>7. HoldsReserved'
    <3> HIDE DEF w, h
    <3>1. /\ \A d \in Chans \ {c} : chan'[d] = chan[d] /\ hold'[d] = hold[d] /\ reservations'[d] = reservations[d]
          /\ HeldAt(chan'[c], hold'[c], reservations'[c])
      BY <1>1, <2>5, <2>6
    <3> QED  BY <1>3, <3>1, HoldsStep
  <2>8. CASE ~tracked
    <3>1. \A d \in Chans : reservations'[d] = None \/ reservations'[d] = reservations[d]
      BY <2>6, <2>8
    <3> QED  BY <1>1, <1>2, <2>7, <3>1, QuotaSame
  <2>9. CASE tracked
    <3>1. Cardinality(SentTo(e)) + Cardinality(Booked(reservations, to)) < BacklogLimit
      <4>1. /\ Good(e) /\ e.issued \in Nat /\ e.acked \in Nat
        BY <2>9, StoredEntry, EntryFields
      <4>2. DOMAIN e.metadata \subseteq 1..e.issued /\ e.resolved \subseteq 1..e.issued
        BY <4>1 DEF Good, EntryShape
      <4>3. /\ IsFiniteSet(DOMAIN e.metadata) /\ Cardinality(DOMAIN e.metadata) \in Nat
            /\ Cardinality(e.resolved) \in Nat
        BY <4>1, <4>2, IssuedFinite
      <4>4. Cardinality(SentTo(e)) <= Cardinality(DOMAIN e.metadata)
        BY <2>9, <4>3, FS_Subset DEF SentTo
      <4>5. Used(to) = Cardinality(Booked(reservations, to))
        BY DEF Used, Booked
      <4>7. Cardinality(Booked(reservations, to)) \in Nat
        <5> HIDE DEF e
        <5> QED  BY <1>4, Countable
      <4>6. BacklogLimit \in Nat
        BY LimitAssumption
      <4> QED  BY <1>4, <2>1, <2>9, <4>3, <4>4, <4>5, <4>6, <4>7
    <3>2. w = v
      BY <2>9
    <3> HIDE DEF v, w, tracked, h
    <3>3. \A d \in Chans : reservations'[d] = IF d = c THEN v ELSE reservations[d]
      BY <2>6, <3>2
    <3>4. ASSUME NEW a \in Agents PROVE Within(entries'[a], reservations', a)
      <4>1. Within(entries[a], reservations, a) /\ IsFiniteSet(AllMarks(entries[a]))
            /\ Cardinality(SentTo(entries[a])) \in Nat
        BY <1>4
      <4>2. v.to = a => Cardinality(SentTo(entries[a])) + Cardinality(Booked(reservations, a)) < BacklogLimit
        BY <2>3, <3>1
      <4>3. Within(entries[a], reservations', a)
        BY <2>2, <2>3, <3>3, <4>1, <4>2, WithinReserve
      <4> QED  BY <1>1, <4>3
    <3> QED  BY <1>5, <2>7, <3>4
  <2> QED  BY <2>8, <2>9
<1>7. CASE ReserveEarly(c)
  <2> DEFINE s == chan[c].agent
             v == [reservations[c] EXCEPT !.early = s]
             h == [hold[c] EXCEPT !.early = TRUE]
             b == hold[c].to
  <2>1. /\ chan[c] # None /\ hold[c] # None /\ reservations[c] # None
        /\ reservations[c].to = b /\ reservations[c].early = None
        /\ EarlyOf(b, s) < PairLimit /\ EarlyTotal(b) < RecipientLimit
        /\ reservations' = [reservations EXCEPT ![c] = v] /\ hold' = [hold EXCEPT ![c] = h]
    BY <1>7 DEF ReserveEarly
  <2>2. s \in Agents /\ reservations[c] \in Reservation /\ hold[c] \in Hold
    BY <2>1 DEF TypeInv, CallersOK, Channel
  <2>3. v # None /\ v.to = b /\ v.early = s
    <3>1. v \in Reservation
      BY <2>2 DEF Reservation
    <3> QED  BY <2>1, <2>2, <3>1, ValueAssumption DEF Reservation
  <2>4. h # None /\ h.to = b /\ h.reserved = hold[c].reserved /\ h.early = TRUE
    <3>1. h \in Hold
      BY <2>2 DEF Hold
    <3> QED  BY <2>2, <3>1, ValueAssumption DEF Hold
  <2> HIDE DEF v, h
  <2>5. HeldAt(chan[c], h, v)
    BY <1>3, <2>1, <2>3, <2>4 DEF HeldAt
  <2>6. \A d \in Chans : /\ reservations'[d] = IF d = c THEN v ELSE reservations[d]
                         /\ hold'[d] = IF d = c THEN h ELSE hold[d]
    <3>1. reservations' = [reservations EXCEPT ![c] = v] /\ hold' = [hold EXCEPT ![c] = h]
      BY <2>1
    <3>2. \A d \in Chans : reservations'[d] = IF d = c THEN v ELSE reservations[d]
      BY <3>1 DEF TypeInv, CallersOK
    <3>3. \A d \in Chans : hold'[d] = IF d = c THEN h ELSE hold[d]
      BY <3>1 DEF TypeInv, CallersOK
    <3> QED  BY <3>2, <3>3
  <2>7. HoldsReserved'
    <3>1. /\ \A d \in Chans \ {c} : chan'[d] = chan[d] /\ hold'[d] = hold[d] /\ reservations'[d] = reservations[d]
          /\ HeldAt(chan'[c], hold'[c], reservations'[c])
      BY <1>1, <2>5, <2>6
    <3> QED  BY <1>3, <3>1, HoldsStep
  <2>8. /\ Cardinality(Marks(entries[b], s)) + Cardinality(BookedEarly(reservations, b, s)) < PairLimit
        /\ Cardinality(AllMarks(entries[b])) + Cardinality(BookedAny(reservations, b)) < RecipientLimit
    <3>1. EarlyOf(b, s) = Cardinality(Marks(entries[b], s)) + Cardinality(BookedEarly(reservations, b, s))
      BY FS_EmptySet DEF EarlyOf, Marks, BookedEarly
    <3>2. EarlyTotal(b) = Cardinality(AllMarks(entries[b])) + Cardinality(BookedAny(reservations, b))
      BY FS_EmptySet DEF EarlyTotal, AllMarks, BookedAny
    <3> QED  BY <2>1, <3>1, <3>2
  <2>9. ASSUME NEW a \in Agents PROVE Within(entries'[a], reservations', a)
    <3>1. Within(entries[a], reservations, a) /\ IsFiniteSet(AllMarks(entries[a]))
      BY <1>4
    <3>2. v.to = a =>
            /\ Cardinality(Marks(entries[a], v.early)) + Cardinality(BookedEarly(reservations, a, v.early)) < PairLimit
            /\ Cardinality(AllMarks(entries[a])) + Cardinality(BookedAny(reservations, a)) < RecipientLimit
      BY <2>3, <2>8
    <3>3. v.to = reservations[c].to /\ v.early \in Agents
      BY <2>1, <2>2, <2>3
    <3> HIDE DEF s, b
    <3>4. /\ reservations[c] # None /\ v # None /\ reservations[c].early = None
          /\ \A d \in Chans : reservations'[d] = IF d = c THEN v ELSE reservations[d]
      BY <2>1, <2>3, <2>6
    <3>5. Within(entries[a], reservations', a)
      BY <3>1, <3>2, <3>3, <3>4, WithinReserveEarly
    <3> QED  BY <1>1, <3>5
  <2> QED  BY <1>5, <2>7, <2>9
<1> QED  BY <1>6, <1>7

\* What a new number counts for.
LEMMA IssueCounts ==
  ASSUME NEW e, Good(e), NEW d
  PROVE  /\ e # Absent /\ IssueWithMetadata(e, d) # Absent
         /\ SentTo(IssueWithMetadata(e, d)) \subseteq SentTo(e) \cup {e.issued + 1}
         /\ d = None \/ d.sender = None => SentTo(IssueWithMetadata(e, d)) \subseteq SentTo(e)
<1> DEFINE n == IssueWithMetadata(e, d)
           q == e.issued + 1
<1>1. IsEntry(e) /\ e # Absent /\ n # Absent
  BY GoodPresent, IssueBinding DEF Good, SameBinding
<1>2. n.metadata = IF e.resync /\ d # None THEN Put(e.metadata, q, d) ELSE e.metadata
  BY <1>1 DEF IssueWithMetadata, IsEntry
<1> HIDE DEF n
<1>3. CASE e.resync /\ d # None
  <2>1. /\ DOMAIN n.metadata = DOMAIN e.metadata \cup {q}
        /\ \A s \in DOMAIN n.metadata : n.metadata[s] = IF s = q THEN d ELSE e.metadata[s]
    BY <1>2, <1>3 DEF Put
  <2>2. SentTo(n) \subseteq SentTo(e) \cup {q}
    BY <1>1, <2>1 DEF SentTo
  <2>3. d.sender = None => SentTo(n) \subseteq SentTo(e)
    BY <1>1, <2>1 DEF SentTo
  <2> QED  BY <1>1, <1>3, <2>2, <2>3 DEF n
<1>4. CASE ~(e.resync /\ d # None)
  <2>1. SentTo(n) = SentTo(e)
    BY <1>1, <1>2, <1>4 DEF SentTo
  <2> QED  BY <1>1, <2>1 DEF n
<1> QED  BY <1>3, <1>4

\* A step that changes one entry and neither channels nor reservations.
LEMMA QuotaEntry ==
  ASSUME TypeInv, QuotaInv, NEW a \in Agents, NEW n,
         FewerEarly(entries[a], n), SentTo(n) \subseteq SentTo(entries[a]),
         entries' = [entries EXCEPT ![a] = n], UNCHANGED <<reservations, hold, chan>>,
         JobEarly'
  PROVE  QuotaInv'
<1>1. \A b \in Agents : entries'[b] = IF b = a THEN n ELSE entries[b]
  BY DEF TypeInv, EntriesOK
<1>2. \A b \in Agents : FewerEarly(entries[b], entries'[b]) /\ SentTo(entries'[b]) \subseteq SentTo(entries[b])
  <2>1. \A e : FewerEarly(e, e)
    BY DEF FewerEarly
  <2> QED  BY <1>1, <2>1
<1>3. HoldsReserved'
  BY DEF QuotaInv, HoldsReserved
<1> QED  BY <1>2, <1>3, QuotaFewer

\* Accounting for a message, and the server's own notices.
LEMMA QuotaMessages ==
  ASSUME TypeInv, QuotaInv,
         \/ \E c \in Chans, seq \in Seqs : Acknowledge(c, seq) \/ \E effect : ReportStage(c, seq, effect)
         \/ \E a \in Agents : IssueSynthetic(a)
         \/ DispatchDeliver
  PROVE  QuotaInv'
<1>1. ASSUME NEW c \in Chans, NEW seq \in Seqs, Acknowledge(c, seq) \/ \E effect : ReportStage(c, seq, effect)
      PROVE  QuotaInv'
  <2> DEFINE a == chan[c].agent
             e == entries[a]
  <2>1. /\ job = Idle /\ chan[c] # None /\ e # Absent
        /\ UNCHANGED <<reservations, hold, chan, job>>
    BY <1>1 DEF Acknowledge, ReportStage, OwnsRecovery
  <2>2. a \in Agents /\ Good(e) /\ IsEntry(e)
    <3>1. a \in Agents
      BY <2>1 DEF TypeInv, CallersOK, Channel
    <3> QED  BY <2>1, <3>1, StoredEntry
  <2>3. PICK n : Less(e, n) /\ entries' = [entries EXCEPT ![a] = n]
    <3>1. CASE Acknowledge(c, seq)
      <4>1. entries' = [entries EXCEPT ![a] = AcknowledgeEntry(e, seq)]
        BY <3>1 DEF Acknowledge
      <4>2. Less(e, AcknowledgeEntry(e, seq))
        BY <2>1, <2>2, AcknowledgeLess DEF Seqs
      <4> QED  BY <4>1, <4>2
    <3>2. ASSUME NEW effect, ReportStage(c, seq, effect)
          PROVE  \E n : Less(e, n) /\ entries' = [entries EXCEPT ![a] = n]
      <4>1. entries' = [entries EXCEPT ![a] = ReportStageEntry(e, seq, effect)]
        BY <3>2 DEF ReportStage
      <4>2. Less(e, ReportStageEntry(e, seq, effect))
        BY <2>1, <2>2, ReportLess
      <4> QED  BY <4>1, <4>2
    <3> QED  BY <1>1, <3>1, <3>2
  <2>4. FewerEarly(e, n) /\ SentTo(n) \subseteq SentTo(e)
    BY <2>1, <2>3 DEF Less, FewerEarly, SentTo
  <2>5. JobEarly'
    BY <2>1 DEF JobEarly
  <2> QED  BY <2>1, <2>2, <2>3, <2>4, <2>5, QuotaEntry
<1>2. ASSUME NEW a \in Agents, NEW id, IssueTo(a, NoticeOf(id)), job = Idle,
             UNCHANGED <<reservations, hold, chan, job>>
      PROVE  QuotaInv'
  <2> DEFINE d == NoticeOf(id)
  <2>1. JobEarly'
    BY <1>2 DEF JobEarly
  <2>2. CASE entries[a] = Absent
    <3>1. entries' = entries
      BY <1>2, <2>2 DEF IssueTo
    <3> QED  BY <1>2, <3>1, QuotaQuiet
  <2>3. CASE entries[a] # Absent
    <3>1. entries' = [entries EXCEPT ![a] = IssueWithMetadata(entries[a], d)]
      BY <1>2, <2>3 DEF IssueTo
    <3>2. Good(entries[a]) /\ d.sender = None /\ d.early = FALSE
      BY <2>3, StoredEntry DEF NoticeOf
    <3>3. SentTo(IssueWithMetadata(entries[a], d)) \subseteq SentTo(entries[a])
      BY <3>2, IssueCounts
    <3>4. FewerEarly(entries[a], IssueWithMetadata(entries[a], d))
      BY <2>3, <3>2, IssueBinding DEF FewerEarly
    <3> HIDE DEF d
    <3> QED  BY <1>2, <2>1, <3>1, <3>3, <3>4, QuotaEntry
  <2> QED  BY <2>2, <2>3
<1>3. ASSUME NEW a \in Agents, IssueSynthetic(a) PROVE QuotaInv'
  <2>1. IssueTo(a, NoticeOf(None)) /\ job = Idle /\ UNCHANGED <<reservations, hold, chan, job>>
    BY <1>3 DEF IssueSynthetic
  <2> QED  BY <1>2, <2>1
<1>4. CASE DispatchDeliver
  <2>1. NotifyTarget(disp.loss) \in Agents
    BY <1>4, LossFields DEF DispatchDeliver, TypeInv, CallersOK, Dispatch
  <2>2. /\ IssueTo(NotifyTarget(disp.loss), NoticeOf(disp.loss.id))
        /\ job = Idle /\ UNCHANGED <<reservations, hold, chan, job>>
    BY <1>4 DEF DispatchDeliver
  <2> QED  BY <1>2, <2>1, <2>2
<1> QED  BY <1>1, <1>3, <1>4

\* A reserved message is issued.
LEMMA QuotaIssue ==
  ASSUME TypeInv, QuotaInv, NEW c \in Chans, IssueReserved(c)
  PROVE  QuotaInv'
<1> DEFINE a == hold[c].to
           e == entries[a]
           s == chan[c].agent
           d == IF hold[c].reserved THEN MessageFrom(s, hold[c].early) ELSE None
           n == IssueWithMetadata(e, d)
<1>1. /\ chan[c] # None /\ hold[c] # None /\ job = Idle
      /\ hold[c].reserved => reservations[c] # None
      /\ IssueTo(a, d) /\ UNCHANGED <<job, chan>>
      /\ reservations' = [reservations EXCEPT ![c] = None] /\ hold' = [hold EXCEPT ![c] = None]
  BY DEF IssueReserved
<1>2. a \in Agents /\ s \in Agents /\ hold[c].early \in BOOLEAN
  BY <1>1 DEF TypeInv, CallersOK, Hold, Channel
<1>3. \A x \in Chans : /\ reservations'[x] = IF x = c THEN None ELSE reservations[x]
                       /\ hold'[x] = IF x = c THEN None ELSE hold[x]
  BY <1>1 DEF TypeInv, CallersOK
<1>4. HoldsReserved /\ HeldAt(chan[c], hold[c], reservations[c])
  BY DEF QuotaInv, HoldsReserved, HeldAt
<1>5. HoldsReserved' /\ JobEarly'
  <2>1. HeldAt(chan'[c], hold'[c], reservations'[c])
    BY <1>3 DEF HeldAt
  <2>2. \A x \in Chans \ {c} : chan'[x] = chan[x] /\ hold'[x] = hold[x] /\ reservations'[x] = reservations[x]
    BY <1>1, <1>3
  <2>3. HoldsReserved'
    BY <1>4, <2>1, <2>2, HoldsStep
  <2> QED  BY <1>1, <2>3 DEF JobEarly
<1>6. \A x \in Chans : reservations'[x] = None \/ reservations'[x] = reservations[x]
  BY <1>3
<1>7. \A x : FewerEarly(x, x)
  BY DEF FewerEarly
<1>8. CASE e = Absent
  <2>1. entries' = entries
    BY <1>1, <1>8 DEF IssueTo
  <2> QED  BY <1>5, <1>6, <2>1, QuotaSame
<1>9. CASE e # Absent
  <2>1. \A b \in Agents : entries'[b] = IF b = a THEN n ELSE entries[b]
    BY <1>1, <1>9 DEF IssueTo, TypeInv, EntriesOK
  <2>2. Good(e)
    BY <1>2, <1>9, StoredEntry
  <2>3. n.early = IF d # None /\ d.early THEN Put(e.early, e.issued + 1, d.sender) ELSE e.early
    BY <2>2, IssueBinding
  <2>4. CASE ~hold[c].reserved
    <3>1. d = None
      BY <2>4
    <3>2. FewerEarly(e, n) /\ SentTo(n) \subseteq SentTo(e)
      BY <1>9, <2>2, <2>3, <3>1, IssueCounts DEF FewerEarly
    <3> HIDE DEF n
    <3>3. \A b \in Agents : FewerEarly(entries[b], entries'[b]) /\ SentTo(entries'[b]) \subseteq SentTo(entries[b])
      BY <1>7, <2>1, <3>2
    <3> QED  BY <1>5, <1>6, <3>3, QuotaFewer
  <2>5. CASE hold[c].reserved
    <3>1. /\ reservations[c] # None /\ reservations[c].to = a
          /\ hold[c].early => reservations[c].early = s
      BY <1>1, <1>4, <2>5 DEF HeldAt
    <3>2. d = MessageFrom(s, hold[c].early) /\ d.sender = s /\ d.early = hold[c].early
      BY <2>5 DEF MessageFrom
    <3>3. n.early = e.early \/ (n.early = Put(e.early, e.issued + 1, s) /\ reservations[c].early = s)
      BY <2>3, <3>1, <3>2
    <3>4. n # Absent /\ SentTo(n) \subseteq SentTo(e) \cup {e.issued + 1}
      BY <2>2, IssueCounts
    <3>5. \A b \in Agents : /\ IsFiniteSet(AllMarks(entries[b])) /\ Within(entries[b], reservations, b)
                            /\ IsFiniteSet(SentTo(entries[b]))
      BY WithinMeans, SentFinite, FS_EmptySet DEF QuotaInv, EarlyFinite, AllMarks
    <3> HIDE DEF n, d
    <3>6. ASSUME NEW b \in Agents
          PROVE  Within(entries'[b], reservations', b) /\ IsFiniteSet(AllMarks(entries'[b]))
      <4>1. CASE b = a
        <5>1. reservations'[c] = None /\ \A x \in Chans \ {c} : reservations'[x] = reservations[x]
          BY <1>3
        <5>2. /\ IsFiniteSet(AllMarks(e)) /\ Within(e, reservations, a) /\ IsFiniteSet(SentTo(e))
          BY <1>2, <3>5
        <5> HIDE DEF e, s, a
        <5>3. Within(n, reservations', a) /\ IsFiniteSet(AllMarks(n))
          BY <1>2, <1>9, <3>1, <3>3, <3>4, <5>1, <5>2, WithinIssue
        <5> QED  BY <1>2, <2>1, <4>1, <5>3 DEF a
      <4>2. CASE b # a
        <5>1. entries'[b] = entries[b]
          BY <2>1, <4>2
        <5>2. Within(entries[b], reservations', b)
          BY <1>6, <1>7, <3>5, WithinFewer
        <5> QED  BY <3>5, <5>1, <5>2
      <4> QED  BY <4>1, <4>2
    <3>7. EarlyFinite'
      BY <3>6 DEF EarlyFinite, AllMarks
    <3>8. (EarlyWithin /\ BacklogWithin)'
      BY <3>6, WithinMeans
    <3> QED  BY <1>5, <3>7, <3>8 DEF QuotaInv
  <2> QED  BY <2>4, <2>5
<1> QED  BY <1>8, <1>9

\* A handler begins whose values add no early mark.
LEMMA QuotaBegin ==
  ASSUME TypeInv, QuotaInv, job = Idle, NEW a, NEW S, NEW commits, NEW client, NEW bind,
         Begin(a, S, commits, client, bind), UNCHANGED <<entries, reservations, chan, hold>>,
         NEW x, FewerEarly(entries[a], x),
         commits = <<x>> \/ \E y : commits = <<x, y>> /\ FewerEarly(x, y)
  PROVE  QuotaInv'
<1>1. job'.agent = a /\ job'.commits = commits
  BY DEF Begin
<1>2. commits[1] = x /\ (Len(commits) = 2 => FewerEarly(x, commits[2]))
  <2>1. CASE commits = <<x>>
    BY <2>1
  <2>2. ASSUME NEW y, commits = <<x, y>>, FewerEarly(x, y)
        PROVE  commits[1] = x /\ (Len(commits) = 2 => FewerEarly(x, commits[2]))
    BY <2>2
  <2> QED  BY <2>1, <2>2
<1>3. JobEarly'
  BY <1>1, <1>2 DEF JobEarly, FewerEarly
<1>4. HoldsReserved'
  BY DEF QuotaInv, HoldsReserved
<1> QED  BY <1>3, <1>4, QuotaSame

\* A handler that retires the generation first.
LEMMA QuotaRetireThen ==
  ASSUME TypeInv, QuotaInv, job = Idle, NEW a \in Agents, NEW g, NEW f, NEW client, NEW bind,
         RetireThen(a, g, f, client, bind), UNCHANGED <<entries, reservations, chan, hold>>,
         RetiresGeneration(entries[a], g) => FewerEarly(RecordLosses(entries[a], DOMAIN entries[a].metadata), f),
         ~RetiresGeneration(entries[a], g) => FewerEarly(entries[a], f)
  PROVE  QuotaInv'
<1> DEFINE e == entries[a]
           x == RecordLosses(e, DOMAIN e.metadata)
<1>1. CASE RetiresGeneration(e, g)
  <2>1. IsEntry(e) /\ e # Absent
    BY <1>1, StoredEntry DEF RetiresGeneration
  <2>2. FewerEarly(e, x)
    BY <2>1, RecordLess DEF Less, FewerEarly
  <2>3. Begin(a, DOMAIN e.metadata, <<x, f>>, client, bind)
    BY <1>1 DEF RetireThen
  <2>4. FewerEarly(x, f)
    BY <1>1
  <2> HIDE DEF x
  <2> QED  BY <2>2, <2>3, <2>4, QuotaBegin
<1>2. CASE ~RetiresGeneration(e, g)
  <2>1. Begin(a, {}, <<f>>, client, bind) /\ FewerEarly(e, f)
    BY <1>2 DEF RetireThen
  <2> QED  BY <2>1, QuotaBegin
<1> QED  BY <1>1, <1>2

\* Binding adds no early mark, and a fresh entry has none.
LEMMA BindEarly ==
  ASSUME NEW old, old # Absent => IsEntry(old), NEW g, NEW inc
  PROVE  /\ FewerEarly(old, BindEntry(old, g, inc))
         /\ \A token : FewerEarly(old, BindResyncEntry(old, g, inc, token))
         /\ old # Absent /\ old.gen # g =>
               \A token : DOMAIN BindResyncEntry(old, g, inc, token).early = {}
<1>1. \A i, t, r, n : DOMAIN FreshEntry(g, i, t, r, n).early = {}
  BY EmptyIsMap DEF FreshEntry
<1>2. \A f : DOMAIN f.early = {} => FewerEarly(old, f)
  BY DEF FewerEarly
<1>3. old # Absent => \A f : f.early = old.early => FewerEarly(old, f)
  BY DEF FewerEarly
<1>4. FewerEarly(old, BindEntry(old, g, inc))
  <2> DEFINE f == BindEntry(old, g, inc)
  <2> SUFFICES FewerEarly(old, f)
    OBVIOUS
  <2>1. CASE old = Absent
    <3>1. f = FreshEntry(g, inc, 0, FALSE, 0)
      BY <2>1 DEF BindEntry
    <3> HIDE DEF f
    <3> QED  BY <1>1, <1>2, <3>1
  <2>2. CASE old # Absent /\ old.gen # g
    <3>1. f = FreshEntry(g, inc, old.token, FALSE, old.issued)
      BY <2>2 DEF BindEntry
    <3> HIDE DEF f
    <3> QED  BY <1>1, <1>2, <3>1
  <2>3. CASE old # Absent /\ old.gen = g /\ old.resync
    <3>1. f = [old EXCEPT !.resync = FALSE, !.acked = old.issued, !.pending = "nil",
                          !.skipped = {}, !.resolved = {}]
      BY <2>3 DEF BindEntry
    <3>2. f.early = old.early
      BY <2>3, <3>1 DEF IsEntry
    <3> HIDE DEF f
    <3> QED  BY <1>3, <2>3, <3>2
  <2>4. CASE old # Absent /\ old.gen = g /\ ~old.resync
    <3>1. f = old
      BY <2>4 DEF BindEntry
    <3> HIDE DEF f
    <3> QED  BY <1>3, <2>4, <3>1
  <2> QED  BY <2>1, <2>2, <2>3, <2>4
<1>5. ASSUME NEW token
      PROVE  /\ FewerEarly(old, BindResyncEntry(old, g, inc, token))
             /\ old # Absent /\ old.gen # g => DOMAIN BindResyncEntry(old, g, inc, token).early = {}
  <2> DEFINE f == BindResyncEntry(old, g, inc, token)
  <2>1. CASE old # Absent /\ old.gen = g
    <3>1. f = [old EXCEPT !.resync = TRUE, !.token = token]
      BY <2>1 DEF BindResyncEntry
    <3>2. f.early = old.early
      BY <2>1, <3>1 DEF IsEntry
    <3> HIDE DEF f
    <3>3. FewerEarly(old, f)
      BY <1>3, <2>1, <3>2
    <3> QED  BY <2>1, <3>3 DEF f
  <2>2. CASE ~(old # Absent /\ old.gen = g)
    <3>1. f = FreshEntry(g, inc, token, TRUE, IF old # Absent THEN old.issued ELSE 0)
      BY <2>2 DEF BindResyncEntry
    <3> HIDE DEF f
    <3>2. DOMAIN f.early = {}
      BY <1>1, <3>1
    <3>3. FewerEarly(old, f)
      BY <1>2, <3>2
    <3> QED  BY <3>2, <3>3 DEF f
  <2> QED  BY <2>1, <2>2
<1> QED  BY <1>4, <1>5

\* The three handshakes.
LEMMA QuotaBind ==
  ASSUME TypeInv, QuotaInv, NEW c \in Chans, Bind(c)
  PROVE  QuotaInv'
<1> DEFINE a == chan[c].agent
           g == chan[c].gen
           e == entries[a]
           b(t) == [chan[c] EXCEPT !.token = t, !.phase = "bound"]
           x == RecordLosses(e, DOMAIN e.metadata)
<1>1. /\ job = Idle /\ chan[c] # None /\ UNCHANGED <<entries, reservations, chan, hold>>
  BY DEF Bind
<1>2. a \in Agents /\ g \in Gens /\ chan[c].mode \in Modes
  BY <1>1 DEF TypeInv, CallersOK, Channel
<1>3. e # Absent => IsEntry(e) /\ e.gen \in Gens /\ IsEntry(x) /\ x # Absent /\ FewerEarly(e, x)
  <2> SUFFICES ASSUME e # Absent PROVE IsEntry(e) /\ e.gen \in Gens /\ IsEntry(x) /\ x # Absent /\ FewerEarly(e, x)
    OBVIOUS
  <2>1. IsEntry(e) /\ Good(e) /\ e.gen \in Gens
    BY <1>2, StoredEntry
  <2>2. Good(x)
    BY <2>1, RecordAllGood
  <2>3. IsEntry(x) /\ x # Absent
    BY <2>2, GoodPresent DEF Good
  <2>4. FewerEarly(e, x)
    <3>1. Less(e, x)
      BY <2>1, RecordLess
    <3> HIDE DEF e, x
    <3> QED  BY <3>1 DEF Less, FewerEarly
  <2> QED  BY <2>1, <2>3, <2>4
<1>4. CASE chan[c].mode = "resync"
  <2> DEFINE f == BindResyncEntry(e, g, incs, tokens + 1)
  <2>1. RetireThen(a, g, f, c, b(tokens + 1))
    BY <1>4 DEF Bind
  <2>2. FewerEarly(e, f) /\ (RetiresGeneration(e, g) => DOMAIN f.early = {})
    BY <1>3, BindEarly DEF RetiresGeneration
  <2> HIDE DEF f, b, a, g
  <2>3. RetiresGeneration(e, g) => FewerEarly(x, f)
    BY <2>2 DEF FewerEarly
  <2> QED  BY <1>1, <1>2, <2>1, <2>2, <2>3, QuotaRetireThen
<1>5. CASE chan[c].mode = "ack"
  <2> DEFINE old == IF e = Absent THEN Absent ELSE x
             f == BindEntry(old, g, incs)
  <2>1. RetireThen(a, None, f, c, b(0))
    BY <1>5 DEF Bind
  <2>2. FewerEarly(old, f)
    <3>1. old # Absent => IsEntry(old)
      BY <1>3
    <3> QED  BY <3>1, BindEarly
  <2>3. RetiresGeneration(e, None) => FewerEarly(x, f)
    BY <2>2 DEF RetiresGeneration
  <2>4. ~RetiresGeneration(e, None) => FewerEarly(e, f)
    BY <1>3, <2>2, NoneAssumption DEF RetiresGeneration
  <2> HIDE DEF f, b, a, g
  <2> QED  BY <1>1, <1>2, <2>1, <2>3, <2>4, QuotaRetireThen
<1>6. CASE chan[c].mode = "off"
  <2>1. RetireThen(a, None, Absent, c, b(0))
    BY <1>6 DEF Bind
  <2>2. \A y : FewerEarly(y, Absent)
    BY DEF FewerEarly
  <2> HIDE DEF b, a
  <2> QED  BY <1>1, <1>2, <2>1, <2>2, QuotaRetireThen
<1> QED  BY <1>2, <1>4, <1>5, <1>6 DEF Modes

\* An owner retires messages; a purge removes the entry.
LEMMA QuotaRetire ==
  ASSUME TypeInv, QuotaInv,
         \/ \E c \in Chans : \/ CloseRetire(c) /\ OwnsRecovery(c)
                             \/ \E requested : Resync(c, requested)
         \/ \E a \in Agents : Delete(a)
  PROVE  QuotaInv'
<1>1. ASSUME NEW c \in Chans, (CloseRetire(c) /\ OwnsRecovery(c)) \/ \E requested : Resync(c, requested)
      PROVE  QuotaInv'
  <2> DEFINE a == chan[c].agent
             e == entries[a]
  <2>1. /\ job = Idle /\ chan[c] # None /\ OwnsRecovery(c)
        /\ UNCHANGED <<entries, reservations, chan, hold>>
    BY <1>1 DEF CloseRetire, Resync
  <2>2. a \in Agents /\ e # Absent
    BY <2>1 DEF TypeInv, CallersOK, Channel, OwnsRecovery
  <2>3. PICK added : /\ added \subseteq (e.acked + 1)..e.issued
                     /\ Begin(a, added, <<RetireEntry(e, added)>>, c, None)
    <3>1. CASE CloseRetire(c) /\ OwnsRecovery(c)
      <4>1. Begin(a, Unaccounted(e, 1..e.issued), <<RetireEntry(e, Unaccounted(e, 1..e.issued))>>, c, None)
        BY <3>1 DEF CloseRetire
      <4>2. Unaccounted(e, 1..e.issued) \subseteq (e.acked + 1)..e.issued
        BY <2>2, StoredEntry, UnaccountedSpec
      <4> QED  BY <4>1, <4>2
    <3>2. ASSUME NEW requested, Resync(c, requested)
          PROVE  \E added : /\ added \subseteq (e.acked + 1)..e.issued
                            /\ Begin(a, added, <<RetireEntry(e, added)>>, c, None)
      <4>1. /\ Begin(a, Unaccounted(e, requested), <<RetireEntry(e, Unaccounted(e, requested))>>, c, None)
            /\ requested \subseteq 1..e.issued
        BY <3>2 DEF Resync
      <4>2. Unaccounted(e, requested) \subseteq (e.acked + 1)..e.issued
        BY <2>2, <4>1, StoredEntry, UnaccountedSpec
      <4> QED  BY <4>1, <4>2
    <3> QED  BY <1>1, <3>1, <3>2
  <2> DEFINE x == RetireEntry(e, added)
  <2>4. FewerEarly(e, x)
    <3>1. Good(e)
      BY <2>2, StoredEntry
    <3>2. Less(e, x)
      BY <2>3, <3>1, RetireLess
    <3> HIDE DEF x, e
    <3> QED  BY <2>2, <3>2 DEF Less, FewerEarly
  <2> HIDE DEF x, a
  <2> QED  BY <2>1, <2>2, <2>3, <2>4, QuotaBegin DEF x
<1>2. ASSUME NEW a \in Agents, Delete(a) PROVE QuotaInv'
  <2>1. /\ job = Idle /\ RetireThen(a, None, Absent, None, None)
        /\ UNCHANGED <<entries, reservations, chan, hold>>
    BY <1>2 DEF Delete
  <2>2. \A y : FewerEarly(y, Absent)
    BY DEF FewerEarly
  <2> QED  BY <2>1, <2>2, QuotaRetireThen
<1> QED  BY <1>1, <1>2

\* A store, and with the last one the answer: the handler's channel, if it
\* has one, holds nothing and has nothing reserved.
LEMMA QuotaCommit ==
  ASSUME TypeInv, LossInv, AuthorityInv, QuotaInv, CommitEntry
  PROVE  QuotaInv'
<1> DEFINE a == job.agent
           e == entries[a]
           n == job.commits[1]
           m == job.commits[2]
           c == job.client
<1>1. /\ job # Idle /\ a \in Agents /\ c \in Chans \cup {None} /\ job.bind \in Channel \cup {None}
      /\ job.commits = <<n>> \/ job.commits = <<n, m>>
  BY JobFields DEF CommitEntry
<1>2. UNCHANGED <<reservations, hold>> /\ \A b \in Agents : entries'[b] = IF b = a THEN n ELSE entries[b]
  <2>1. entries' = [entries EXCEPT ![a] = Head(job.commits)] /\ UNCHANGED <<reservations, hold>>
    BY DEF CommitEntry
  <2>2. Head(job.commits) = n
    BY <1>1
  <2> QED  BY <2>1, <2>2 DEF TypeInv, EntriesOK
<1>3. FewerEarly(e, n) /\ (Len(job.commits) = 2 => FewerEarly(n, m))
  BY <1>1 DEF QuotaInv, JobEarly
<1>4. SentTo(n) \subseteq SentTo(e)
  <2>1. n # Absent => \A s \in DOMAIN n.metadata :
           e # Absent /\ s \in DOMAIN e.metadata /\ n.metadata[s] = e.metadata[s]
    BY <1>1 DEF LossInv, JobSound
  <2> QED  BY <2>1 DEF SentTo
<1>5. \A b \in Agents : FewerEarly(entries[b], entries'[b]) /\ SentTo(entries'[b]) \subseteq SentTo(entries[b])
  <2>1. \A y : FewerEarly(y, y)
    BY DEF FewerEarly
  <2> QED  BY <1>2, <1>3, <1>4, <2>1
<1>6. JobEarly' /\ HoldsReserved' => QuotaInv'
  BY <1>2, <1>5, QuotaFewer
<1>7. HoldsReserved
  BY DEF QuotaInv
<1>8. CASE job.commits = <<n, m>>
  <2>1. Len(job.commits) = 2 /\ Tail(job.commits) = <<m>> /\ <<m>>[1] = m /\ Len(<<m>>) = 1
    BY <1>8, TailPair
  <2>2. job' = [job EXCEPT !.commits = Tail(job.commits)] /\ UNCHANGED chan
    BY <2>1 DEF CommitEntry
  <2>3. job' = [job EXCEPT !.commits = <<m>>]
    BY <2>1, <2>2
  <2>4. job'.agent = a /\ job'.commits = <<m>>
    <3>1. IsJob(job)
      BY <1>1 DEF TypeInv, JobOK
    <3> QED  BY <2>3, <3>1 DEF IsJob
  <2>5. HoldsReserved'
    BY <1>2, <1>7, <2>2 DEF HoldsReserved
  <2>6. JobEarly'
    BY <1>1, <1>2, <1>3, <2>1, <2>4 DEF JobEarly, FewerEarly
  <2> QED  BY <1>6, <2>5, <2>6
<1>9. CASE job.commits = <<n>>
  <2> DEFINE ends == c # None /\ chan[c].phase = "closing"
  <2>1. Len(job.commits) = 1
    BY <1>9
  <2>2. job' = Idle /\ chan' = IF job.bind # None THEN [chan EXCEPT ![c] = job.bind]
                               ELSE IF ends THEN [chan EXCEPT ![c] = None] ELSE chan
    <3>1. CASE job.bind # None
      <4>1. chan[c].phase = "checked"
        BY <1>1, <3>1 DEF AuthorityInv, JobAuthority
      <4> QED  BY <2>1, <3>1, <4>1 DEF CommitEntry
    <3>2. CASE job.bind = None
      BY <2>1, <3>2 DEF CommitEntry
    <3> QED  BY <3>1, <3>2
  <2>3. JobEarly'
    BY <2>2 DEF JobEarly
  <2>4. HoldsReserved'
    <3>1. CASE job.bind # None
      <4>1. c \in Chans /\ chan[c] # None /\ chan[c].phase = "checked"
        BY <1>1, <3>1 DEF AuthorityInv, JobAuthority
      <4>2. hold[c] = None /\ reservations[c] = None
        BY <1>7, <4>1 DEF HoldsReserved
      <4>3. \A d \in Chans \ {c} : chan'[d] = chan[d]
        BY <2>2, <3>1, <4>1 DEF TypeInv, CallersOK
      <4>4. HeldAt(chan'[c], hold'[c], reservations'[c])
        BY <1>2, <4>2 DEF HeldAt
      <4> HIDE DEF c
      <4> QED  BY <1>2, <1>7, <4>3, <4>4, HoldsStep
    <3>2. CASE job.bind = None /\ ends
      <4>1. c \in Chans
        BY <1>1, <3>2
      <4>2. hold[c] = None
        BY <1>7, <3>2, <4>1 DEF HoldsReserved
      <4>3. \A d \in Chans : chan'[d] = IF d = c THEN None ELSE chan[d]
        BY <2>2, <3>2, <4>1 DEF TypeInv, CallersOK
      <4>4. HeldAt(chan'[c], hold'[c], reservations'[c])
        BY <1>2, <4>1, <4>2, <4>3 DEF HeldAt
      <4> HIDE DEF c
      <4> QED  BY <1>2, <1>7, <4>3, <4>4, HoldsStep
    <3>3. CASE job.bind = None /\ ~ends
      BY <1>2, <1>7, <2>2, <3>3 DEF HoldsReserved
    <3> QED  BY <3>1, <3>2, <3>3
  <2> QED  BY <1>6, <2>3, <2>4
<1> QED  BY <1>1, <1>8, <1>9

\* A crash forgets every reservation.
LEMMA QuotaCrash ==
  ASSUME TypeInv, QuotaInv, LedgerCrash
  PROVE  QuotaInv'
<1> DEFINE dead == IF job = Idle THEN {} ELSE {job.client}
<1>1. /\ job' = Idle /\ entries' = entries
      /\ \A c \in Chans : /\ reservations'[c] = None
                          /\ chan'[c] = IF c \in dead THEN None ELSE chan[c]
                          /\ hold'[c] = IF c \in dead THEN None ELSE hold[c]
  BY DEF LedgerCrash
<1> HIDE DEF dead
<1>2. HoldsReserved'
  BY <1>1 DEF QuotaInv, HoldsReserved
<1>3. JobEarly'
  BY <1>1 DEF JobEarly
<1> QED  BY <1>1, <1>2, <1>3, QuotaSame

\* Nothing is held or reserved at the start.
LEMMA InitQuota == Init => QuotaInv
<1> SUFFICES ASSUME Init PROVE QuotaInv
  OBVIOUS
<1>1. HoldsReserved /\ EarlyFinite /\ JobEarly
  BY DEF Init, HoldsReserved, EarlyFinite, JobEarly
<1>2. \A a \in Agents : Within(entries[a], reservations, a)
  <2> SUFFICES ASSUME NEW a \in Agents PROVE Within(Absent, reservations, a)
    BY DEF Init
  <2>1. /\ AllMarks(Absent) = {} /\ SentTo(Absent) = {}
        /\ BookedAny(reservations, a) = {} /\ Booked(reservations, a) = {}
        /\ \A s : Marks(Absent, s) = {} /\ BookedEarly(reservations, a, s) = {}
    BY DEF Init, AllMarks, SentTo, BookedAny, Booked, Marks, BookedEarly
  <2>2. Cardinality({}) = 0
    BY FS_EmptySet
  <2> QED  BY <2>1, <2>2, LimitAssumption DEF Within
<1>3. EarlyWithin /\ BacklogWithin
  BY <1>2, WithinMeans
<1> QED  BY <1>1, <1>3 DEF QuotaInv

\* Every step keeps the quota invariant.
LEMMA NextQuota == TypeInv /\ LossInv /\ AuthorityInv /\ QuotaInv /\ [Next]_vars => QuotaInv'
<1> SUFFICES ASSUME TypeInv, LossInv, AuthorityInv, QuotaInv, [Next]_vars PROVE QuotaInv'
  OBVIOUS
<1>1. JoinModes \subseteq Modes /\ Noticed \subseteq Agents /\ Purged \subseteq Agents
      /\ 1..MaxSeq \subseteq Seqs
  BY LimitAssumption DEF Seqs
<1>2. ASSUME NEW c \in Chans,
             \/ \E a \in Agents, g \in Gens, m \in JoinModes : Join(c, a, g, m)
             \/ AfterJoin(c) \/ IssueForgotten(c) \/ \E t \in BOOLEAN : Close(c, t)
             \/ ReservationDown(c) \/ Release(c)
      PROVE  QuotaInv'
  BY <1>1, <1>2, QuotaCallers
<1>3. ASSUME NEW c \in Chans, Bind(c) PROVE QuotaInv'
  BY <1>3, QuotaBind
<1>4. ASSUME NEW c \in Chans, CloseRetire(c) PROVE QuotaInv'
  <2>1. CASE OwnsRecovery(c)
    BY <1>4, <2>1, QuotaRetire
  <2>2. CASE ~OwnsRecovery(c)
    BY <1>4, <2>2, QuotaCallers
  <2> QED  BY <2>1, <2>2
<1>5. ASSUME NEW c \in Chans, NEW requested, Resync(c, requested) PROVE QuotaInv'
  BY <1>5, QuotaRetire
<1>6. ASSUME NEW a \in Purged, Delete(a) PROVE QuotaInv'
  BY <1>1, <1>6, QuotaRetire
<1>7. ASSUME NEW c \in Chans, NEW to \in Agents, Reserve(c, to) \/ ReserveEarly(c) PROVE QuotaInv'
  BY <1>7, QuotaReserve
<1>8. ASSUME NEW c \in Chans, ReserveEarly(c) PROVE QuotaInv'
  <2>1. hold[c].to \in Agents
    BY <1>8 DEF ReserveEarly, TypeInv, CallersOK, Hold
  <2> QED  BY <1>8, <2>1, QuotaReserve
<1>9. ASSUME NEW c \in Chans, IssueReserved(c) PROVE QuotaInv'
  BY <1>9, QuotaIssue
<1>10. ASSUME \/ \E c \in Chans, seq \in 1..MaxSeq :
                   Acknowledge(c, seq) \/ \E effect \in Reports : ReportStage(c, seq, effect)
              \/ \E a \in Noticed : IssueSynthetic(a)
              \/ DispatchDeliver
       PROVE  QuotaInv'
  BY <1>1, <1>10, QuotaMessages
<1>11. ASSUME \/ \E c \in Chans : Announce(c)
              \/ \E a \in Purged : Purge(a)
              \/ \E id \in DOMAIN losses : DispatchPick(id)
              \/ DispatchComplete \/ DispatchAbandon \/ UNCHANGED vars
       PROVE  QuotaInv'
  <2>1. UNCHANGED <<entries, reservations, chan, hold, job>>
    BY <1>11 DEF Announce, Purge, DispatchPick, DispatchComplete, DispatchAbandon, vars
  <2> QED  BY <2>1, QuotaQuiet
<1>12. ASSUME job # Idle, NEW i \in job.intents, WriteIntent(i) PROVE QuotaInv'
  <2>1. /\ job' = [job EXCEPT !.intents = job.intents \ {i}]
        /\ UNCHANGED <<entries, reservations, chan, hold>>
    BY <1>12 DEF WriteIntent
  <2>2. IsJob(job)
    BY <1>12 DEF TypeInv, JobOK
  <2>3. job'.agent = job.agent /\ job'.commits = job.commits
    BY <2>1, <2>2 DEF IsJob
  <2> QED  BY <1>12, <2>1, <2>3, QuotaQuiet
<1>13. CASE CommitEntry
  BY <1>13, QuotaCommit
<1>14. CASE LedgerCrash
  BY <1>14, QuotaCrash
<1> QED  BY <1>2, <1>3, <1>4, <1>5, <1>6, <1>7, <1>8, <1>9, <1>10, <1>11, <1>12, <1>13, <1>14 DEF Next

-----------------------------------------------------------------------------
(* The guarantees.                                                         *)

\* The whole strengthening the runs check holds in every reachable state.
THEOREM LedgerSound == Spec => []LedgerInv
<1>1. Init => TypeInv /\ LossInv /\ AuthorityInv /\ QuotaInv
  BY InitTyped, InitKeeps, InitAuthority, InitQuota
<1>2. (TypeInv /\ LossInv /\ AuthorityInv /\ QuotaInv) /\ [Next]_vars
         => (TypeInv /\ LossInv /\ AuthorityInv /\ QuotaInv)'
  BY NextTyped, NextKeeps, NextAuthority, NextQuota
<1>3. TypeInv /\ LossInv /\ AuthorityInv /\ QuotaInv => LedgerInv
  BY TypeInvMeans DEF LossInv, LedgerInv
<1> QED  BY <1>1, <1>2, <1>3, PTL DEF Spec

\* Whatever the ledger took charge of is accounted for by a recipient, or
\* still owed to one, or kept as a durable loss: no order of binds, requests,
\* purges, notices and crashes between two writes forgets a message.
THEOREM MessagesKept == Spec => []NothingForgotten
<1>1. LedgerInv => NothingForgotten
  BY DEF LedgerInv
<1> QED  BY LedgerSound, <1>1, PTL

\* No loss is ever recorded for a message that was confirmed, and a loss the
\* dispatcher can see is of a message that can no longer be delivered.
THEOREM LossesAreFinal == Spec => []LossesFinal
<1>1. LedgerInv => LossesFinal
  BY DEF LedgerInv
<1> QED  BY LedgerSound, <1>1, PTL

\* The early quotas, checked when a slot is reserved, hold of what is stored.
THEOREM EarlyQuotasHold == Spec => []EarlyQuotaHeld
<1>1. LedgerInv => EarlyQuotaHeld
  <2> SUFFICES ASSUME QuotaInv, NEW a \in Agents, entries[a] # Absent
               PROVE  /\ Cardinality(DOMAIN entries[a].early) <= RecipientLimit
                      /\ \A s \in Agents : Cardinality({q \in DOMAIN entries[a].early : entries[a].early[q] = s}) <= PairLimit
    BY DEF LedgerInv, EarlyQuotaHeld
  <2>1. Within(entries[a], reservations, a) /\ IsFiniteSet(AllMarks(entries[a]))
    BY WithinMeans DEF QuotaInv, EarlyFinite, AllMarks
  <2>2. RecipientLimit \in Nat /\ PairLimit \in Nat
    BY LimitAssumption
  <2>3. /\ Cardinality(AllMarks(entries[a])) \in Nat /\ Cardinality(BookedAny(reservations, a)) \in Nat
        /\ \A s : /\ Cardinality(Marks(entries[a], s)) \in Nat
                  /\ Cardinality(BookedEarly(reservations, a, s)) \in Nat
    BY <2>1, Countable
  <2>4. Cardinality(AllMarks(entries[a])) <= RecipientLimit
    BY <2>1, <2>2, <2>3 DEF Within
  <2>5. ASSUME NEW s \in Agents PROVE Cardinality(Marks(entries[a], s)) <= PairLimit
    BY <2>1, <2>2, <2>3 DEF Within
  <2> QED  BY <2>4, <2>5 DEF AllMarks, Marks
<1> QED  BY LedgerSound, <1>1, PTL

\* The messages an entry holds and those about to be issued to it never
\* exceed the backlog limit.
THEOREM BacklogBounded == Spec => []BacklogHeld
<1>1. LedgerInv => BacklogHeld
  <2> SUFFICES ASSUME BacklogWithin, NEW a \in Agents, entries[a] # Absent
               PROVE  Cardinality({s \in DOMAIN entries[a].metadata : entries[a].metadata[s].sender # None})
                        + Cardinality({c \in Chans : reservations[c] # None /\ reservations[c].to = a})
                        <= BacklogLimit
    BY DEF LedgerInv, QuotaInv, BacklogHeld
  <2> QED  BY DEF BacklogWithin, SentTo, Used
<1> QED  BY LedgerSound, <1>1, PTL

\* Two channels never may account for one agent, not even after the ledger
\* has forgotten which process had bound it: a token has only one channel.
THEOREM OneAuthority == Spec => []SingleAuthority
<1>1. LedgerInv => SingleAuthority
  <2> SUFFICES ASSUME TypeOK, AuthorityInv, NEW c \in Chans, NEW d \in Chans,
                      chan[c] # None, chan[d] # None, chan[c].agent = chan[d].agent,
                      OwnsRecovery(c), OwnsRecovery(d)
               PROVE  c = d
    BY DEF LedgerInv, SingleAuthority
  <2>1. chan[c].agent \in Agents
    BY DEF TypeOK, Channel
  <2>2. chan[c].token = chan[d].token /\ chan[c].token # 0
    BY <2>1 DEF OwnsRecovery, AuthorityInv, EntryTokens, HasToken
  <2> QED  BY <2>2 DEF AuthorityInv, ChannelTokens
<1> QED  BY LedgerSound, <1>1, PTL

\* The last channel to bind with recovery keeps its authority until another
\* binds or the agent is purged, across every restart of the ledger.
THEOREM AuthorityKept == Spec => []AuthoritySurvives
<1>1. LedgerInv => AuthoritySurvives
  BY DEF LedgerInv, AuthorityInv, BinderOwns, AuthoritySurvives
<1> QED  BY LedgerSound, <1>1, PTL
=============================================================================
