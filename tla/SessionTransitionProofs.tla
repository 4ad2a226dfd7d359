------------------------ MODULE SessionTransitionProofs ------------------------
(***************************************************************************)
(* The safety of a planned cycle, for any channels, peers, commands and    *)
(* cap: types and the cap of an intent, no caller stranded on the reset    *)
(* lock, a reset completed by both sides and ended once, and the promises  *)
(* to peers.                                                               *)
(*                                                                         *)
(* TypeOK and PromiseHeld are inductive, the second under the first.  What *)
(* is said of the lock is not: see ResetInv.                               *)
(***************************************************************************)
EXTENDS SessionTransition, FiniteSetTheorems, TLAPS

-----------------------------------------------------------------------------
(* What the model's operators return.                                      *)

\* Answering a channel that runs leaves every channel well-formed.
LEMMA AnswerTyped ==
  ASSUME chan \in [Chans -> Channel \cup {None}],
         NEW c \in Chans, chan[c] # None, NEW result \in Results \cup {None}
  PROVE  Answer(c, result) \in [Chans -> Channel \cup {None}]
  BY DEF Answer, Channel

\* So does answering whoever waits on the lock.
LEMMA ReplyEarlyTyped ==
  ASSUME TypeOK, lock # None, NEW result \in Results \cup {None}
  PROVE  ReplyEarly(result) \in [Chans -> Channel \cup {None}]
<1>1. CASE WaiterAlive
  <2>1. lock.waiter \in Chans /\ chan[lock.waiter] # None
    BY <1>1 DEF WaiterAlive, TypeOK, Lock
  <2>2. Answer(lock.waiter, result) \in [Chans -> Channel \cup {None}]
    BY <2>1, AnswerTyped DEF TypeOK
  <2> QED  BY <1>1, <2>2 DEF ReplyEarly
<1>2. CASE ~WaiterAlive
  BY <1>2 DEF ReplyEarly, TypeOK
<1> QED  BY <1>1, <1>2

\* A process that tells peers adds notices and no more.
LEMMA SpeakTyped ==
  ASSUME voices \subseteq Voice, NEW w \in Chans \cup Servers,
         NEW kind \in {"reconnecting", "closing"}, NEW r \in Requests,
         NEW S \in SUBSET Peers, Speak(w, kind, r, S)
  PROVE  voices' \subseteq Voice
  BY DEF Speak, Voice

\* Consuming an intent is well-formed.
LEMMA ConsumeTyped ==
  ASSUME TypeOK, intent # None, NEW w \in Chans \cup Servers, Consume(w)
  PROVE  intent' = None /\ voices' \subseteq Voice
<1>1. intent.req \in Requests /\ intent.targets \in SUBSET Peers
  BY DEF TypeOK, Intent
<1> QED  BY <1>1, SpeakTyped DEF Consume, TypeOK

\* A set of pairs an intent may hold is finite.
LEMMA TargetsFinite ==
  ASSUME NEW S \in SUBSET Peers
  PROVE  IsFiniteSet(S) /\ Cardinality(S) \in Nat
  BY TransitionAssumption, FS_Subset, FS_CardinalityType

-----------------------------------------------------------------------------
(* The type invariant.                                                     *)

\* Before any command there is nothing to be ill-formed.
LEMMA InitTyped == Init => TypeOK
  BY TransitionAssumption DEF Init, TypeOK, Tids, Lock, Intent

\* Every action keeps the shapes, and the two that add targets keep the cap.
LEMMA NextTyped == TypeOK /\ [Next]_vars => TypeOK'
<1> SUFFICES ASSUME TypeOK, [Next]_vars PROVE TypeOK'
  OBVIOUS
<1> USE DEF resetVars, planVars, noticeVars, agentVars
<1>1. ASSUME NEW r \in Requests, NEW kind \in AskedKinds, Ask(r, kind) PROVE TypeOK'
  BY <1>1, TransitionAssumption DEF Ask, TypeOK, Flow
<1>2. ASSUME NEW r \in Requests, Acquire(r) PROVE TypeOK'
  BY <1>2 DEF Acquire, At, TypeOK, Flow, Lock
<1>3. ASSUME NEW r \in Requests, Begin(r) PROVE TypeOK'
  <2>1. intent' \in Intent \cup {None}
    BY <1>3 DEF Begin, At, TypeOK, Intent, Flow
  <2>2. intent' # None => Cardinality(intent'.targets) <= MaxTargets
    BY <1>3, FS_EmptySet, TransitionAssumption DEF Begin, TypeOK
  <2>3. flow' \in [Requests -> Flow \cup {None}]
    BY <1>3 DEF Begin, At, TypeOK, Flow
  <2> QED  BY <1>3, <2>1, <2>2, <2>3 DEF Begin, TypeOK
<1>4. ASSUME NEW r \in Requests, Cancel(r) PROVE TypeOK'
  <2>1. chan' \in [Chans -> Channel \cup {None}]
    BY <1>4, ReplyEarlyTyped DEF Cancel, TypeOK, Results
  <2>2. outcome' \in [Requests -> {"completed", "failed", "cancelled", "deleted", None}]
    BY <1>4 DEF Cancel, Drop, TypeOK
  <2>3. flow' \in [Requests -> Flow \cup {None}]
    BY <1>4 DEF Cancel, At, TypeOK, Flow
  <2> QED  BY <1>4, <2>1, <2>2, <2>3 DEF Cancel, Drop, TypeOK
<1>5. ASSUME NEW r \in Requests, Relay(r) PROVE TypeOK'
  BY <1>5 DEF Relay, At, TypeOK, Flow
<1>6. ASSUME NEW r \in Requests, Abort(r) PROVE TypeOK'
  <2>1. flow' \in [Requests -> Flow \cup {None}]
    BY <1>6 DEF Abort, At, TypeOK, Flow
  <2>2. UNCHANGED <<intent, voices>> \/ (intent' = None /\ voices' \subseteq Voice)
    BY <1>6, ConsumeTyped DEF Abort, Servers
  <2> QED  BY <1>6, <2>1, <2>2 DEF Abort, TypeOK
<1>7. ASSUME NEW r \in Requests, SpawnFailed(r) PROVE TypeOK'
  <2>1. flow' \in [Requests -> Flow \cup {None}]
    BY <1>7 DEF SpawnFailed, At, TypeOK, Flow
  <2>2. UNCHANGED <<intent, voices>> \/ (intent' = None /\ voices' \subseteq Voice)
    BY <1>7, ConsumeTyped DEF SpawnFailed, FailIntent, Servers
  <2> QED  BY <1>7, <2>1, <2>2 DEF SpawnFailed, TypeOK
<1>8. ASSUME NEW r \in Requests, NEW ok \in BOOLEAN, NEW reason \in Reasons,
             Resolve(r, ok, reason)
      PROVE  TypeOK'
  <2>1. flow' \in [Requests -> Flow \cup {None}] /\ spawned' \subseteq Requests
    BY <1>8 DEF Resolve, At, TypeOK, Flow
  <2>2. lock' \in Lock \cup {None}
    BY <1>8 DEF Resolve, Commit, Drop, TypeOK, Lock
  <2>3. chan' \in [Chans -> Channel \cup {None}]
    <3>1. lock # None => lock.result \in Results \cup {None}
      BY DEF TypeOK, Lock, Results
    <3> QED  BY <1>8, <3>1, ReplyEarlyTyped DEF Resolve, TypeOK, Results
  <2>4. failing' \in [req : Requests, reason : Reasons] \cup {None}
    BY <1>8 DEF Resolve, TypeOK
  <2>5. /\ outcome' \in [Requests -> {"completed", "failed", "cancelled", "deleted", None}]
        /\ accepted' \in [Requests -> SUBSET Chans]
    BY <1>8 DEF Resolve, WaiterAlive, Commit, Drop, TypeOK, Lock
  <2> QED  BY <1>8, <2>1, <2>2, <2>3, <2>4, <2>5 DEF Resolve, TypeOK
<1>9. ASSUME Stop PROVE TypeOK'
  BY <1>9, ConsumeTyped DEF Stop, Servers, TypeOK
<1>10. ASSUME ResetTimeout PROVE TypeOK'
  <2>1. chan' \in [Chans -> Channel \cup {None}]
    BY <1>10, ReplyEarlyTyped DEF ResetTimeout, Results
  <2>2. failing' \in [req : Requests, reason : Reasons] \cup {None}
    BY <1>10 DEF ResetTimeout, TypeOK, Lock, Reasons
  <2>3. outcome' \in [Requests -> {"completed", "failed", "cancelled", "deleted", None}]
    BY <1>10 DEF ResetTimeout, Drop, TypeOK
  <2> QED  BY <1>10, <2>1, <2>2, <2>3 DEF ResetTimeout, Drop, TypeOK
<1>11. ASSUME NotifyFailure PROVE TypeOK'
  <2>1. UNCHANGED <<intent, voices>> \/ (intent' = None /\ voices' \subseteq Voice)
    BY <1>11, ConsumeTyped DEF NotifyFailure, FailIntent, Servers
  <2> QED  BY <1>11, <2>1 DEF NotifyFailure, TypeOK
<1>12. ASSUME IntentTimeout PROVE TypeOK'
  BY <1>12, ConsumeTyped DEF IntentTimeout, Servers, TypeOK
<1>13. ASSUME WaiterDown PROVE TypeOK'
  BY <1>13 DEF WaiterDown, TypeOK, Lock
<1>14. ASSUME NEW p \in Peers, Bounce(p) PROVE TypeOK'
  <2>1. intent \in Intent /\ intent.targets \in SUBSET Peers
    BY <1>14 DEF Bounce, TypeOK, Intent
  <2>2. intent' \in Intent /\ intent'.targets = intent.targets \cup {p}
    BY <1>14, <2>1 DEF Bounce, Intent
  <2>3. Cardinality(intent'.targets) <= MaxTargets
    <3>1. IsFiniteSet(intent.targets) /\ Cardinality(intent.targets) \in Nat
      BY <2>1, TargetsFinite
    <3>2. Cardinality(intent.targets \cup {p}) =
            IF p \in intent.targets THEN Cardinality(intent.targets)
            ELSE Cardinality(intent.targets) + 1
      BY <3>1, FS_AddElement
    <3> QED  BY <1>14, <2>2, <3>1, <3>2, TransitionAssumption DEF Bounce, TypeOK
  <2>4. promised' \subseteq Requests \X Peers
    BY <1>14, <2>1 DEF Bounce, TypeOK, Intent
  <2> QED  BY <1>14, <2>2, <2>3, <2>4 DEF Bounce, TypeOK
<1>15. ASSUME NEW c \in Chans, NEW tid \in Tids, Join(c, tid) PROVE TypeOK'
  BY <1>15 DEF Join, TypeOK, Channel
<1>16. ASSUME NEW c \in Chans, Confirm(c) PROVE TypeOK'
  <2> DEFINE exact == lock # None /\ chan[c].tid = lock.req
             result == IF exact THEN "matched" ELSE "legacy_absent"
  <2>1. chan[c] # None /\ result \in Results /\ result \in {"matched", "legacy_absent", None}
    BY <1>16 DEF Confirm, Results
  <2>2. [chan EXCEPT ![c].phase = "waiting"] \in [Chans -> Channel \cup {None}]
    BY <2>1 DEF TypeOK, Channel
  <2> HIDE DEF result, exact
  <2>3. ASSUME lock # None, Stash(c, result)
        PROVE  lock' \in Lock /\ UNCHANGED <<outcome, accepted>>
    BY <2>1, <2>3 DEF Stash, TypeOK, Lock
  <2>4. ASSUME lock # None, Commit(c)
        PROVE  /\ lock' = None
               /\ outcome' \in [Requests -> {"completed", "failed", "cancelled", "deleted", None}]
               /\ accepted' \in [Requests -> SUBSET Chans]
    BY <2>4 DEF Commit, TypeOK, Lock
  <2> SUFFICES /\ lock' \in Lock \cup {None}
               /\ chan' \in [Chans -> Channel \cup {None}]
               /\ outcome' \in [Requests -> {"completed", "failed", "cancelled", "deleted", None}]
               /\ accepted' \in [Requests -> SUBSET Chans]
    BY <1>16 DEF Confirm, TypeOK
  <2>5. CASE lock # None /\ Stash(c, result) /\ chan' = [chan EXCEPT ![c].phase = "waiting"]
    BY <2>2, <2>3, <2>5 DEF TypeOK
  <2>6. CASE /\ lock # None /\ WaiterAlive /\ Stash(c, result)
             /\ chan' = [[chan EXCEPT ![c].phase = "waiting"] EXCEPT ![lock.waiter] =
                            [@ EXCEPT !.phase = "answered", !.result = "duplicate_waiter"]]
    <3>1. lock.waiter \in Chans /\ chan[lock.waiter] # None
      BY <2>6 DEF WaiterAlive, TypeOK, Lock
    <3> DEFINE waiting == [chan EXCEPT ![c].phase = "waiting"]
    <3>2. waiting[lock.waiter] \in Channel
      BY <2>1, <3>1 DEF TypeOK, Channel
    <3>3. [waiting[lock.waiter] EXCEPT !.phase = "answered", !.result = "duplicate_waiter"] \in Channel
      BY <3>2 DEF Channel, Results
    <3>4. chan' \in [Chans -> Channel \cup {None}]
      BY <2>2, <2>6, <3>1, <3>3
    <3> QED  BY <2>3, <2>6, <3>4 DEF TypeOK
  <2>7. ASSUME NEW x \in {"duplicate_waiter", "noop", "mismatch"}, chan' = Answer(c, x),
               UNCHANGED <<lock, outcome, accepted>>
        PROVE  /\ lock' \in Lock \cup {None}
               /\ chan' \in [Chans -> Channel \cup {None}]
               /\ outcome' \in [Requests -> {"completed", "failed", "cancelled", "deleted", None}]
               /\ accepted' \in [Requests -> SUBSET Chans]
    BY <2>1, <2>7, AnswerTyped DEF TypeOK, Results
  <2>8. CASE lock # None /\ Commit(c) /\ chan' = Answer(c, result)
    BY <2>1, <2>4, <2>8, AnswerTyped DEF TypeOK
  <2>9. CASE chan' = Answer(c, "duplicate_waiter") /\ UNCHANGED <<lock, outcome, accepted>>
    BY <2>7, <2>9
  <2>10. CASE /\ chan' = Answer(c, IF lock = None THEN "noop" ELSE "mismatch")
              /\ UNCHANGED <<lock, outcome, accepted>>
    BY <2>7, <2>10
  <2> QED  BY <1>16, <2>5, <2>6, <2>8, <2>9, <2>10 DEF Confirm, result, exact
<1>17. ASSUME NEW c \in Chans, Handshake(c) PROVE TypeOK'
  <2>1. chan' \in [Chans -> Channel \cup {None}]
    BY <1>17 DEF Handshake, TypeOK, Channel
  <2>2. UNCHANGED <<intent, voices>> \/ (intent' = None /\ voices' \subseteq Voice)
    BY <1>17, ConsumeTyped DEF Handshake
  <2> QED  BY <1>17, <2>1, <2>2 DEF Handshake, TypeOK
<1>18. ASSUME NEW c \in Chans, Announce(c) PROVE TypeOK'
  BY <1>18 DEF Announce, TypeOK
<1>19. ASSUME NEW c \in Chans, Close(c) PROVE TypeOK'
  BY <1>19 DEF Close, TypeOK, Channel
<1>20. ASSUME NEW c \in Chans, Die(c) PROVE TypeOK'
  BY <1>20 DEF Die, TypeOK
<1>21. ASSUME NEW c \in Chans, Disconnect(c) PROVE TypeOK'
  <2>1. chan' \in [Chans -> Channel \cup {None}]
    <3>1. chan[c] \in Channel /\ chan' = [chan EXCEPT ![c] = [chan[c] EXCEPT !.phase = "speaking"]]
      BY <1>21 DEF Disconnect, TypeOK
    <3>2. [chan[c] EXCEPT !.phase = "speaking"] \in Channel
      BY <3>1 DEF Channel
    <3> QED  BY <3>1, <3>2 DEF TypeOK
  <2>2. CASE UNCHANGED <<intent, promised, voices>>
    BY <1>21, <2>1, <2>2 DEF Disconnect, TypeOK
  <2>3. ASSUME intent # None, NEW S \in SUBSET (Peers \ intent.targets),
               S # {} => Cardinality(intent.targets \cup S) <= MaxTargets,
               intent' = [intent EXCEPT !.phase = "disconnected", !.targets = @ \cup S],
               promised' = promised \cup ({intent.req} \X S),
               Speak(c, "reconnecting", intent.req, S)
        PROVE  TypeOK'
    <3>1. intent \in Intent /\ intent.req \in Requests /\ intent.targets \in SUBSET Peers
      BY <2>3 DEF TypeOK, Intent
    <3>2. intent' \in Intent /\ intent'.targets = intent.targets \cup S
      BY <2>3, <3>1 DEF Intent
    <3>3. Cardinality(intent'.targets) <= MaxTargets
      BY <2>3, <3>2 DEF TypeOK
    <3>4. voices' \subseteq Voice
      BY <2>3, <3>1, SpeakTyped DEF TypeOK
    <3>5. promised' \subseteq Requests \X Peers
      BY <2>3, <3>1 DEF TypeOK
    <3> QED  BY <1>21, <2>1, <3>2, <3>3, <3>4, <3>5 DEF Disconnect, TypeOK
  <2> QED  BY <1>21, <2>2, <2>3 DEF Disconnect
<1>22. ASSUME NEW c \in Chans, End(c) PROVE TypeOK'
  BY <1>22 DEF End, TypeOK
<1>23. ASSUME NEW v \in voices, Deliver(v) PROVE TypeOK'
  <2>1. v \in Voice
    BY <1>23 DEF TypeOK
  <2> QED  BY <1>23, <2>1 DEF Deliver, TypeOK, Voice
<1>24. ASSUME Purge PROVE TypeOK'
  BY <1>24 DEF Purge, TypeOK
<1>25. ASSUME DeleteLock PROVE TypeOK'
  <2>1. chan' \in [Chans -> Channel \cup {None}]
    BY <1>25, ReplyEarlyTyped DEF DeleteLock, Results, TypeOK
  <2>2. outcome' \in [Requests -> {"completed", "failed", "cancelled", "deleted", None}]
    BY <1>25 DEF DeleteLock, Drop, TypeOK
  <2> QED  BY <1>25, <2>1, <2>2 DEF DeleteLock, Drop, TypeOK
<1>26. ASSUME DeleteIntent PROVE TypeOK'
  <2>1. UNCHANGED <<intent, voices>> \/ (intent' = None /\ voices' \subseteq Voice)
    BY <1>26, ConsumeTyped DEF DeleteIntent, Servers
  <2> QED  BY <1>26, <2>1 DEF DeleteIntent, TypeOK
<1>27. CASE UNCHANGED vars
  BY <1>27 DEF vars, TypeOK
<1> QED
  BY <1>1, <1>2, <1>3, <1>4, <1>5, <1>6, <1>7, <1>8, <1>9, <1>10, <1>11, <1>12, <1>13,
     <1>14, <1>15, <1>16, <1>17, <1>18, <1>19, <1>20, <1>21, <1>22, <1>23, <1>24, <1>25,
     <1>26, <1>27 DEF Next

\* Every variable keeps its shape and an intent its cap.
THEOREM Typed == Spec => []TypeOK
  BY InitTyped, NextTyped, PTL DEF Spec

-----------------------------------------------------------------------------
(* The reset lock.  CompletedByBoth and NoWaiterStranded are inductive only *)
(* together, and with two facts about the lock and the commands.           *)

\* The lock is that of a reset that has asked for it and has not ended; the
\* runner has answered once it awaits a connection, and until then whoever
\* waits on it, and lives, waits.
LockInv ==
    lock # None =>
        /\ flow[lock.req] # None /\ flow[lock.req].stage # "asked"
        /\ outcome[lock.req] = None
        /\ lock.phase = "awaiting_connect" => lock.req \in spawned
        /\ WaiterAlive => lock.phase = "spawning" /\ chan[lock.waiter].phase = "waiting"

\* A command that has not asked for the lock yet has no ending.
FreshInv ==
    \A r \in Requests : flow[r] = None \/ flow[r].stage = "asked" => outcome[r] = None

\* A join that finds the lock awaiting a connection completes the reset: that
\* is right only because the runner has answered by then (LockInv).  A lock is
\* answered once because it is taken by a command that has no ending (FreshInv).
ResetInv == LockInv /\ FreshInv /\ NoWaiterStranded /\ CompletedByBoth

\* No lock is held at the start.
LEMMA InitReset == Init => ResetInv
  BY NoneAssumption DEF Init, ResetInv, LockInv, FreshInv, NoWaiterStranded, CompletedByBoth

\* Once whoever waits on the lock is answered, nobody waits.
LEMMA ReplyEarlyAnswers ==
  ASSUME TypeOK, LockInv, NoWaiterStranded, lock # None, NEW result, NEW c \in Chans,
         ReplyEarly(result)[c] # None
  PROVE  ReplyEarly(result)[c].phase # "waiting"
<1>1. CASE WaiterAlive
  <2>1. lock.waiter \in Chans /\ chan[lock.waiter] \in Channel
    BY <1>1 DEF WaiterAlive, TypeOK, Lock
  <2>2. ReplyEarly(result) = [chan EXCEPT ![lock.waiter] =
                               [@ EXCEPT !.phase = "answered", !.result = result]]
    BY <1>1 DEF ReplyEarly, Answer
  <2>3. CASE c = lock.waiter
    BY <2>1, <2>2, <2>3 DEF TypeOK, Channel
  <2>4. CASE c # lock.waiter
    BY <2>1, <2>2, <2>4 DEF TypeOK, NoWaiterStranded
  <2> QED  BY <2>3, <2>4
<1>2. CASE ~WaiterAlive
  BY <1>2, TransitionAssumption DEF WaiterAlive, ReplyEarly, NoWaiterStranded
<1> QED  BY <1>1, <1>2

\* What a command may do to the invariant as it moves on: nothing, once it has
\* asked for the lock.
MovesOn ==
    \A r \in Requests :
        flow'[r] = flow[r] \/ (flow'[r] # None /\ flow'[r].stage # "asked")

\* A step that moves commands on and leaves the lock alone.
LEMMA MovesOnKeeps ==
  ASSUME TypeOK, ResetInv, MovesOn, UNCHANGED <<lock, outcome, accepted, chan>>,
         spawned \subseteq spawned'
  PROVE  ResetInv'
  BY DEF MovesOn, ResetInv, LockInv, FreshInv, NoWaiterStranded, CompletedByBoth, WaiterAlive,
         TypeOK, Lock

\* A command's stage is changed to one past "asked".
LEMMA StageMovesOn ==
  ASSUME TypeOK, NEW r \in Requests, flow[r] # None,
         NEW stage \in {"acquired", "refused", "begun", "sent", "done"},
         flow' = [flow EXCEPT ![r].stage = stage]
  PROVE  MovesOn
  BY NoneAssumption DEF MovesOn, TypeOK, Flow

\* A handler that drops the lock and answers its waiter.
LEMMA DropKeeps ==
  ASSUME TypeOK, ResetInv, lock # None, NEW how \in {"failed", "cancelled", "deleted"},
         Drop(how), chan' = ReplyEarly("noop") \/ chan' = ReplyEarly("deleted"),
         spawned \subseteq spawned',
         MovesOn
  PROVE  ResetInv'
<1>1. lock.req \in Requests /\ lock' = None
  BY DEF TypeOK, Lock, Drop
<1>2. LockInv'
  BY <1>1 DEF LockInv
<1>3. FreshInv'
  BY <1>1 DEF MovesOn, ResetInv, FreshInv, LockInv, Drop, TypeOK
<1>4. NoWaiterStranded'
  BY ReplyEarlyAnswers DEF ResetInv, NoWaiterStranded
<1>5. CompletedByBoth'
  BY <1>1, NoneAssumption DEF ResetInv, CompletedByBoth, LockInv, Drop, TypeOK
<1> QED  BY <1>2, <1>3, <1>4, <1>5 DEF ResetInv

\* Every action keeps the lock's invariant.
LEMMA NextReset == TypeOK /\ ResetInv /\ [Next]_vars => ResetInv'
<1> SUFFICES ASSUME TypeOK, ResetInv, [Next]_vars PROVE ResetInv'
  OBVIOUS
<1> USE DEF resetVars, planVars, noticeVars, agentVars
<1>1. ASSUME NEW r \in Requests, NEW kind \in AskedKinds, Ask(r, kind) PROVE ResetInv'
  BY <1>1 DEF Ask, ResetInv, LockInv, FreshInv, NoWaiterStranded, CompletedByBoth, WaiterAlive,
              TypeOK, Lock, Flow
<1>2. ASSUME NEW r \in Requests, Acquire(r) PROVE ResetInv'
  BY <1>2, NoneAssumption DEF Acquire, At, ResetInv, LockInv, FreshInv, NoWaiterStranded, CompletedByBoth,
         WaiterAlive, TypeOK, Lock, Flow
<1>3. ASSUME NEW r \in Requests, Begin(r) PROVE ResetInv'
  <2>1. MovesOn
    <3> DEFINE stage == CASE intent = None -> "begun"
                          [] flow[r].kind = "reset" -> "refused"
                          [] OTHER -> "done"
    <3>1. flow' = [flow EXCEPT ![r].stage = stage] /\ flow[r] # None
      BY <1>3 DEF Begin, At
    <3>2. stage \in {"acquired", "refused", "begun", "sent", "done"}
      OBVIOUS
    <3> HIDE DEF stage
    <3> QED  BY <3>1, <3>2, StageMovesOn
  <2> QED  BY <1>3, <2>1, MovesOnKeeps DEF Begin
<1>4. ASSUME NEW r \in Requests, Cancel(r) PROVE ResetInv'
  <2>1. MovesOn
    BY <1>4, StageMovesOn DEF Cancel, At
  <2>2. CASE lock # None /\ lock.req = r
    BY <1>4, <2>1, <2>2, DropKeeps DEF Cancel
  <2>3. CASE UNCHANGED <<lock, outcome, accepted, chan>>
    BY <1>4, <2>1, <2>3, MovesOnKeeps DEF Cancel
  <2> QED  BY <1>4, <2>2, <2>3 DEF Cancel
<1>5. ASSUME NEW r \in Requests, Relay(r) PROVE ResetInv'
  <2>1. MovesOn
    BY <1>5, StageMovesOn DEF Relay, At
  <2> QED  BY <1>5, <2>1, MovesOnKeeps DEF Relay
<1>6. ASSUME NEW r \in Requests, Abort(r) PROVE ResetInv'
  <2>1. MovesOn
    BY <1>6, StageMovesOn DEF Abort, At
  <2> QED  BY <1>6, <2>1, MovesOnKeeps DEF Abort
<1>7. ASSUME NEW r \in Requests, SpawnFailed(r) PROVE ResetInv'
  <2>1. MovesOn
    BY <1>7, StageMovesOn DEF SpawnFailed, At
  <2> QED  BY <1>7, <2>1, MovesOnKeeps DEF SpawnFailed
<1>8. ASSUME NEW r \in Requests, NEW ok \in BOOLEAN, NEW reason \in Reasons,
             Resolve(r, ok, reason)
      PROVE  ResetInv'
  <2>1. MovesOn
    BY <1>8, StageMovesOn DEF Resolve, At
  <2>2. spawned \subseteq spawned' /\ (ok => r \in spawned')
    BY <1>8 DEF Resolve
  <2>3. CASE UNCHANGED <<lock, failing, outcome, accepted, chan>>
    BY <1>8, <2>1, <2>2, <2>3, MovesOnKeeps DEF Resolve
  <2>4. CASE lock # None /\ lock.req = r /\ ok /\ WaiterAlive /\ Commit(lock.waiter)
             /\ chan' = ReplyEarly(lock.result)
    <3>1. lock.waiter \in Chans /\ lock' = None /\ accepted[r] = {}
      BY <2>4, NoneAssumption DEF WaiterAlive, TypeOK, Lock, Commit, ResetInv, LockInv, CompletedByBoth
    <3>2. FreshInv'
      BY <1>8, <2>1, <2>4 DEF MovesOn, ResetInv, LockInv, FreshInv, Commit, TypeOK
    <3>3. NoWaiterStranded'
      BY <2>4, ReplyEarlyAnswers DEF ResetInv, NoWaiterStranded
    <3>4. accepted' = [accepted EXCEPT ![r] = {lock.waiter}] /\ outcome' = [outcome EXCEPT ![r] = "completed"]
      BY <2>4, <3>1 DEF Commit, TypeOK
    <3>5. CompletedByBoth'
      BY <2>2, <2>4, <3>4, FS_Singleton DEF ResetInv, CompletedByBoth, TypeOK
    <3> QED  BY <3>1, <3>2, <3>3, <3>5 DEF ResetInv, LockInv
  <2>5. CASE /\ lock # None /\ lock.req = r /\ ok /\ ~WaiterAlive
             /\ lock' = [lock EXCEPT !.phase = "awaiting_connect", !.waiter = None, !.result = None]
             /\ UNCHANGED <<failing, outcome, accepted, chan>>
    <3>1. LockInv'
      BY <1>8, <2>1, <2>2, <2>5, NoneAssumption DEF MovesOn, WaiterAlive, ResetInv, LockInv, TypeOK, Lock
    <3>2. FreshInv'
      BY <2>1, <2>5 DEF MovesOn, ResetInv, FreshInv
    <3>3. NoWaiterStranded'
      BY <2>5, TransitionAssumption DEF WaiterAlive, ResetInv, NoWaiterStranded, TypeOK, Lock
    <3>4. CompletedByBoth'
      BY <2>2, <2>5 DEF ResetInv, CompletedByBoth
    <3> QED  BY <3>1, <3>2, <3>3, <3>4 DEF ResetInv
  <2>6. CASE lock # None /\ Drop("failed") /\ chan' = ReplyEarly("noop")
    BY <2>1, <2>2, <2>6, DropKeeps
  <2> QED  BY <1>8, <2>3, <2>4, <2>5, <2>6 DEF Resolve
<1>9. ASSUME ResetTimeout PROVE ResetInv'
  BY <1>9, DropKeeps DEF ResetTimeout, MovesOn
<1>10. ASSUME WaiterDown PROVE ResetInv'
  BY <1>10 DEF WaiterDown, ResetInv, LockInv, FreshInv, NoWaiterStranded, CompletedByBoth, WaiterAlive,
         TypeOK, Lock
<1>11. ASSUME NEW c \in Chans, NEW tid \in Tids, Join(c, tid) PROVE ResetInv'
  BY <1>11 DEF Join, ResetInv, LockInv, FreshInv, NoWaiterStranded, CompletedByBoth, WaiterAlive,
         TypeOK, Lock
<1>12. ASSUME NEW c \in Chans, Confirm(c) PROVE ResetInv'
  <2> DEFINE exact == lock # None /\ chan[c].tid = lock.req
             result == IF exact THEN "matched" ELSE "legacy_absent"
             waiting == [chan EXCEPT ![c].phase = "waiting"]
  <2>1. chan[c] # None /\ chan[c] \in Channel /\ chan[c].phase = "asking"
    BY <1>12 DEF Confirm, TypeOK
  <2>2. /\ waiting[c] \in Channel /\ waiting[c].phase = "waiting"
        /\ \A d \in Chans \ {c} : waiting[d] = chan[d]
        /\ waiting \in [Chans -> Channel \cup {None}]
    BY <2>1 DEF TypeOK, Channel
  <2>3. ASSUME NEW x
        PROVE  /\ Answer(c, x)[c].phase = "answered"
               /\ \A d \in Chans \ {c} : Answer(c, x)[d] = chan[d]
    BY <2>1 DEF Answer, TypeOK, Channel
  <2> HIDE DEF exact, result, waiting
  <2>4. CASE /\ lock # None /\ lock.phase = "spawning" /\ ~WaiterAlive
             /\ Stash(c, result) /\ chan' = waiting
    <3>1. lock' # None /\ lock'.req = lock.req /\ lock'.phase = lock.phase /\ lock'.waiter = c
      BY <1>12, <2>4, NoneAssumption DEF Stash, TypeOK, Lock, result
    <3>2. LockInv'
      BY <1>12, <2>2, <2>4, <3>1 DEF Confirm, Stash, ResetInv, LockInv, TypeOK, Lock
    <3>3. NoWaiterStranded'
      BY <2>2, <2>4, <3>1, TransitionAssumption DEF ResetInv, NoWaiterStranded, WaiterAlive
    <3> QED  BY <1>12, <2>4, <3>2, <3>3 DEF Confirm, Stash, ResetInv, FreshInv, CompletedByBoth
  <2>5. CASE /\ lock # None /\ lock.phase = "spawning" /\ WaiterAlive /\ Stash(c, result)
             /\ chan' = [waiting EXCEPT ![lock.waiter] =
                            [@ EXCEPT !.phase = "answered", !.result = "duplicate_waiter"]]
    <3>1. lock' # None /\ lock'.req = lock.req /\ lock'.phase = lock.phase /\ lock'.waiter = c
      BY <1>12, <2>5, NoneAssumption DEF Stash, TypeOK, Lock, result
    <3>2. lock.waiter \in Chans \ {c} /\ chan[lock.waiter] \in Channel
      BY <2>1, <2>5 DEF ResetInv, LockInv, WaiterAlive, TypeOK, Lock
    <3>3. chan'[c] = waiting[c] /\ chan'[lock.waiter].phase = "answered"
          /\ \A d \in Chans \ {c, lock.waiter} : chan'[d] = chan[d]
      BY <2>2, <2>5, <3>2 DEF Channel
    <3>4. LockInv'
      BY <1>12, <2>2, <2>5, <3>1, <3>3 DEF Confirm, Stash, ResetInv, LockInv, TypeOK, Lock
    <3>5. NoWaiterStranded'
      BY <3>1, <3>3 DEF ResetInv, NoWaiterStranded
    <3> QED  BY <1>12, <2>5, <3>4, <3>5 DEF Confirm, Stash, ResetInv, FreshInv, CompletedByBoth
  <2>6. CASE (\E x : chan' = Answer(c, x)) /\ UNCHANGED <<lock, outcome, accepted>>
    <3>1. LockInv'
      BY <1>12, <2>1, <2>3, <2>6 DEF Confirm, ResetInv, LockInv, WaiterAlive, TypeOK, Lock
    <3>2. NoWaiterStranded'
      BY <2>1, <2>3, <2>6 DEF ResetInv, NoWaiterStranded
    <3> QED  BY <1>12, <2>6, <3>1, <3>2 DEF Confirm, ResetInv, FreshInv, CompletedByBoth
  <2>7. CASE /\ lock # None /\ lock.phase = "awaiting_connect" /\ Commit(c)
             /\ chan' = Answer(c, result)
    <3>1. lock.req \in spawned /\ accepted[lock.req] = {} /\ lock.req \in Requests
      BY <2>7, NoneAssumption DEF ResetInv, LockInv, CompletedByBoth, TypeOK, Lock
    <3>2. FreshInv'
      BY <1>12, <2>7, <3>1 DEF Confirm, Commit, ResetInv, LockInv, FreshInv, TypeOK
    <3>3. NoWaiterStranded'
      BY <2>1, <2>3, <2>7, TransitionAssumption DEF ResetInv, LockInv, WaiterAlive, NoWaiterStranded
    <3>4. accepted' = [accepted EXCEPT ![lock.req] = {c}]
          /\ outcome' = [outcome EXCEPT ![lock.req] = "completed"]
      BY <2>7, <3>1 DEF Commit, TypeOK
    <3>5. CompletedByBoth'
      BY <1>12, <3>1, <3>4, FS_Singleton DEF Confirm, ResetInv, CompletedByBoth, TypeOK
    <3> QED  BY <2>7, <3>2, <3>3, <3>5 DEF Commit, ResetInv, LockInv
  <2> QED  BY <1>12, <2>4, <2>5, <2>6, <2>7 DEF Confirm, result, exact, waiting
<1>13. ASSUME NEW c \in Chans, Handshake(c) PROVE ResetInv'
  BY <1>13 DEF Handshake, ResetInv, LockInv, FreshInv, NoWaiterStranded, CompletedByBoth, WaiterAlive,
         TypeOK, Lock, Channel
<1>14. ASSUME NEW c \in Chans, Close(c) PROVE ResetInv'
  BY <1>14 DEF Close, ResetInv, LockInv, FreshInv, NoWaiterStranded, CompletedByBoth, WaiterAlive,
         TypeOK, Lock, Channel
<1>15. ASSUME NEW c \in Chans, Die(c) PROVE ResetInv'
  BY <1>15 DEF Die, ResetInv, LockInv, FreshInv, NoWaiterStranded, CompletedByBoth, WaiterAlive,
         TypeOK, Lock
<1>16. ASSUME NEW c \in Chans, Disconnect(c) PROVE ResetInv'
  BY <1>16 DEF Disconnect, ResetInv, LockInv, FreshInv, NoWaiterStranded, CompletedByBoth, WaiterAlive,
         TypeOK, Lock, Channel
<1>17. ASSUME NEW c \in Chans, End(c) PROVE ResetInv'
  BY <1>17 DEF End, ResetInv, LockInv, FreshInv, NoWaiterStranded, CompletedByBoth, WaiterAlive,
         TypeOK, Lock
<1>18. ASSUME DeleteLock PROVE ResetInv'
  <2>1. CASE lock = None
    BY <1>18, <2>1 DEF DeleteLock, ResetInv, LockInv, FreshInv, NoWaiterStranded, CompletedByBoth, WaiterAlive
  <2>2. CASE lock # None
    BY <1>18, <2>2, DropKeeps DEF DeleteLock, MovesOn
  <2> QED  BY <2>1, <2>2
<1>19. CASE UNCHANGED <<lock, outcome, accepted, spawned, flow, chan>>
  BY <1>19, MovesOnKeeps DEF MovesOn
<1>20. ASSUME \/ Stop \/ NotifyFailure \/ IntentTimeout \/ Purge \/ DeleteIntent
              \/ \E p \in Peers : Bounce(p)
              \/ \E c \in Chans : Announce(c)
              \/ \E v \in voices : Deliver(v)
              \/ UNCHANGED vars
       PROVE  UNCHANGED <<lock, outcome, accepted, spawned, flow, chan>>
  BY <1>20 DEF Stop, NotifyFailure, IntentTimeout, Purge, DeleteIntent, Bounce, Announce,
               Deliver, vars
<1> QED
  BY <1>1, <1>2, <1>3, <1>4, <1>5, <1>6, <1>7, <1>8, <1>9, <1>10, <1>11, <1>12, <1>13,
     <1>14, <1>15, <1>16, <1>17, <1>18, <1>19, <1>20 DEF Next

\* A channel blocked in confirm_connection is the one the lock names: nothing
\* that ends the lock, or hands it to another, forgets its caller.
THEOREM NobodyStranded == Spec => []NoWaiterStranded
<1>1. TypeOK /\ ResetInv /\ [Next]_vars => (TypeOK /\ ResetInv)'
  BY NextTyped, NextReset
<1>2. ResetInv => NoWaiterStranded
  BY DEF ResetInv
<1> QED  BY InitTyped, InitReset, <1>1, <1>2, PTL DEF Spec

\* A reset is completed by the runner's report and exactly one join.
THEOREM CompletedOnlyByBoth == Spec => []CompletedByBoth
<1>1. TypeOK /\ ResetInv /\ [Next]_vars => (TypeOK /\ ResetInv)'
  BY NextTyped, NextReset
<1>2. ResetInv => CompletedByBoth
  BY DEF ResetInv
<1> QED  BY InitTyped, InitReset, <1>1, <1>2, PTL DEF Spec

\* The action of ConcludedOnce.
EndIsFinal == \A r \in Requests : outcome[r] # None =>
                 outcome'[r] = outcome[r] /\ (lock' = None \/ lock'.req # r)

\* Only Acquire takes the lock, and its command has not ended; every other
\* action that touches it keeps its request or ends a request without ending.
LEMMA StepConcludes == TypeOK /\ ResetInv /\ [Next]_vars => EndIsFinal
<1> SUFFICES ASSUME TypeOK, ResetInv, [Next]_vars PROVE EndIsFinal
  OBVIOUS
<1> USE DEF resetVars, planVars, noticeVars, agentVars
<1>1. ASSUME UNCHANGED outcome, lock' = lock \/ lock' = None \/ (lock # None /\ lock'.req = lock.req)
      PROVE  EndIsFinal
  BY <1>1 DEF EndIsFinal, ResetInv, LockInv, TypeOK, Lock
<1>2. ASSUME lock # None, lock' = None, NEW how, outcome' = [outcome EXCEPT ![lock.req] = how]
      PROVE  EndIsFinal
  BY <1>2 DEF EndIsFinal, ResetInv, LockInv, TypeOK, Lock
<1>3. ASSUME lock # None, NEW how, Drop(how) PROVE EndIsFinal
  BY <1>2, <1>3 DEF Drop
<1>4. ASSUME lock # None, NEW c, Commit(c) PROVE EndIsFinal
  BY <1>2, <1>4 DEF Commit
<1>5. ASSUME lock # None, NEW c, NEW x, Stash(c, x) PROVE EndIsFinal
  BY <1>1, <1>5 DEF Stash, TypeOK, Lock
<1>6. ASSUME NEW r \in Requests, Acquire(r) PROVE EndIsFinal
  BY <1>6 DEF Acquire, At, EndIsFinal, ResetInv, LockInv, FreshInv, TypeOK, Lock
<1>7. ASSUME NEW r \in Requests, Cancel(r) PROVE EndIsFinal
  BY <1>1, <1>3, <1>7 DEF Cancel
<1>8. ASSUME NEW r \in Requests, NEW ok \in BOOLEAN, NEW reason \in Reasons,
             Resolve(r, ok, reason)
      PROVE  EndIsFinal
  <2>1. CASE lock' = [lock EXCEPT !.phase = "awaiting_connect", !.waiter = None, !.result = None]
             /\ lock # None /\ UNCHANGED outcome
    BY <1>1, <2>1 DEF TypeOK, Lock
  <2> QED  BY <1>1, <1>3, <1>4, <1>8, <2>1 DEF Resolve
<1>9. ASSUME ResetTimeout PROVE EndIsFinal
  BY <1>3, <1>9 DEF ResetTimeout
<1>10. ASSUME WaiterDown PROVE EndIsFinal
  BY <1>1, <1>10 DEF WaiterDown, TypeOK, Lock
<1>11. ASSUME NEW c \in Chans, Confirm(c) PROVE EndIsFinal
  BY <1>1, <1>4, <1>5, <1>11 DEF Confirm
<1>12. ASSUME DeleteLock PROVE EndIsFinal
  BY <1>1, <1>3, <1>12 DEF DeleteLock
<1>13. CASE UNCHANGED <<lock, outcome>>
  BY <1>1, <1>13
<1>14. ASSUME NEW r \in Requests,
              \/ \E kind \in AskedKinds : Ask(r, kind)
              \/ Begin(r) \/ Relay(r) \/ Abort(r) \/ SpawnFailed(r)
       PROVE  UNCHANGED <<lock, outcome>>
  BY <1>14 DEF Ask, Begin, Relay, Abort, SpawnFailed
<1>15. ASSUME NEW c \in Chans,
              \/ \E tid \in Tids : Join(c, tid)
              \/ Handshake(c) \/ Announce(c) \/ Close(c) \/ Die(c) \/ Disconnect(c) \/ End(c)
       PROVE  UNCHANGED <<lock, outcome>>
  BY <1>15 DEF Join, Handshake, Announce, Close, Die, Disconnect, End
<1>16. ASSUME \/ Stop \/ NotifyFailure \/ IntentTimeout \/ Purge \/ DeleteIntent
              \/ \E p \in Peers : Bounce(p)
              \/ \E v \in voices : Deliver(v)
              \/ UNCHANGED vars
       PROVE  UNCHANGED <<lock, outcome>>
  BY <1>16 DEF Stop, NotifyFailure, IntentTimeout, Purge, DeleteIntent, Bounce, Deliver, vars
<1> QED  BY <1>6, <1>7, <1>8, <1>9, <1>10, <1>11, <1>12, <1>13, <1>14, <1>15, <1>16 DEF Next

\* A reset ends once, whatever arrives late.
THEOREM EndsOnce == Spec => ConcludedOnce
<1>1. TypeOK /\ ResetInv /\ [Next]_vars => (TypeOK /\ ResetInv)'
  BY NextTyped, NextReset
<1>2. TypeOK /\ ResetInv /\ [Next]_vars => [EndIsFinal]_vars
  BY StepConcludes
<1> QED  BY InitTyped, InitReset, <1>1, <1>2, PTL DEF Spec, ConcludedOnce, EndIsFinal

-----------------------------------------------------------------------------
(* The promises to peers.                                                  *)

\* Nobody is promised anything at the start.
LEMMA InitPromise == Init => PromiseHeld
  BY DEF Init, PromiseHeld

\* A notice to each of S about r is on its way once a process has begun to speak.
LEMMA SpeakReaches ==
  ASSUME NEW w, NEW kind, NEW r, NEW S, Speak(w, kind, r, S)
  PROVE  /\ voices \subseteq voices'
         /\ \A p \in S : \E v \in voices' : v.req = r /\ v.to = p /\ v.kind = kind
<1>1. ASSUME NEW p \in S
      PROVE  \E v \in voices' : v.req = r /\ v.to = p /\ v.kind = kind
  <2>1. [by |-> w, kind |-> kind, req |-> r, to |-> p] \in voices'
    BY DEF Speak
  <2> QED  BY <2>1
<1> QED  BY <1>1 DEF Speak

\* Whoever the intent knows is told the end when it is consumed.
LEMMA ConsumeKeeps ==
  ASSUME TypeOK, PromiseHeld, intent # None, NEW w, Consume(w), UNCHANGED <<promised, closed>>
  PROVE  PromiseHeld'
<1>1. /\ voices \subseteq voices'
      /\ \A p \in intent.targets : \E v \in voices' : v.req = intent.req /\ v.to = p /\ v.kind = "closing"
  BY SpeakReaches DEF Consume
<1> QED  BY <1>1 DEF PromiseHeld

\* Every action that ends or replaces an intent closes it for its targets.
LEMMA NextPromise == TypeOK /\ PromiseHeld /\ [Next]_vars => PromiseHeld'
<1> SUFFICES ASSUME TypeOK, PromiseHeld, [Next]_vars PROVE PromiseHeld'
  OBVIOUS
<1> USE DEF resetVars, planVars, noticeVars, agentVars
<1>1. CASE UNCHANGED <<intent, promised, voices, closed>>
  BY <1>1 DEF PromiseHeld
<1>2. ASSUME NEW r \in Requests, Begin(r) PROVE PromiseHeld'
  <2>1. CASE intent = None
    BY <1>2, <2>1 DEF Begin, PromiseHeld
  <2>2. CASE intent # None
    BY <1>1, <1>2, <2>2 DEF Begin
  <2> QED  BY <2>1, <2>2
<1>3. ASSUME NEW r \in Requests, Abort(r) PROVE PromiseHeld'
  BY <1>1, <1>3, ConsumeKeeps DEF Abort
<1>4. ASSUME NEW r \in Requests, SpawnFailed(r) PROVE PromiseHeld'
  BY <1>1, <1>4, ConsumeKeeps DEF SpawnFailed, FailIntent
<1>5. ASSUME Stop PROVE PromiseHeld'
  BY <1>5, ConsumeKeeps DEF Stop
<1>6. ASSUME NotifyFailure PROVE PromiseHeld'
  BY <1>1, <1>6, ConsumeKeeps DEF NotifyFailure, FailIntent
<1>7. ASSUME IntentTimeout PROVE PromiseHeld'
  BY <1>7, ConsumeKeeps DEF IntentTimeout
<1>8. ASSUME NEW p \in Peers, Bounce(p) PROVE PromiseHeld'
  <2>1. intent' # None /\ intent'.req = intent.req /\ intent'.targets = intent.targets \cup {p}
    BY <1>8, NoneAssumption DEF Bounce, TypeOK, Intent
  <2> QED  BY <1>8, <2>1 DEF Bounce, PromiseHeld
<1>9. ASSUME NEW c \in Chans, Handshake(c) PROVE PromiseHeld'
  BY <1>1, <1>9, ConsumeKeeps DEF Handshake
<1>10. ASSUME NEW c \in Chans, Disconnect(c) PROVE PromiseHeld'
  <2>1. ASSUME intent # None, NEW S \in SUBSET (Peers \ intent.targets),
               intent' = [intent EXCEPT !.phase = "disconnected", !.targets = @ \cup S],
               promised' = promised \cup ({intent.req} \X S),
               Speak(c, "reconnecting", intent.req, S)
        PROVE  PromiseHeld'
    <3>1. intent' # None /\ intent'.req = intent.req /\ intent'.targets = intent.targets \cup S
      <4>1. intent' \in Intent
        BY <2>1 DEF TypeOK, Intent
      <4> QED  BY <2>1, <4>1, NoneAssumption DEF TypeOK, Intent
    <3>2. voices \subseteq voices'
      BY <2>1, SpeakReaches
    <3>3. closed' = closed
      BY <1>10 DEF Disconnect
    <3> QED  BY <2>1, <3>1, <3>2, <3>3 DEF PromiseHeld
  <2> QED  BY <1>1, <1>10, <2>1 DEF Disconnect
<1>11. ASSUME NEW v \in voices, Deliver(v) PROVE PromiseHeld'
  BY <1>11 DEF Deliver, PromiseHeld
<1>12. ASSUME DeleteIntent PROVE PromiseHeld'
  BY <1>1, <1>12, ConsumeKeeps DEF DeleteIntent
<1>13. ASSUME NEW r \in Requests,
              \/ \E kind \in AskedKinds : Ask(r, kind)
              \/ Acquire(r) \/ Cancel(r) \/ Relay(r)
              \/ \E ok \in BOOLEAN, reason \in Reasons : Resolve(r, ok, reason)
       PROVE  UNCHANGED <<intent, promised, voices, closed>>
  BY <1>13 DEF Ask, Acquire, Cancel, Relay, Resolve
<1>14. ASSUME NEW c \in Chans,
              \/ \E tid \in Tids : Join(c, tid)
              \/ Confirm(c) \/ Announce(c) \/ Close(c) \/ Die(c) \/ End(c)
       PROVE  UNCHANGED <<intent, promised, voices, closed>>
  BY <1>14 DEF Join, Confirm, Announce, Close, Die, End
<1>15. ASSUME ResetTimeout \/ WaiterDown \/ Purge \/ DeleteLock \/ UNCHANGED vars
       PROVE  UNCHANGED <<intent, promised, voices, closed>>
  BY <1>15 DEF ResetTimeout, WaiterDown, Purge, DeleteLock, vars
<1> QED
  BY <1>1, <1>2, <1>3, <1>4, <1>5, <1>6, <1>7, <1>8, <1>9, <1>10, <1>11, <1>12, <1>13,
     <1>14, <1>15 DEF Next

\* No peer that was told to wait is forgotten, however the intent ends.
THEOREM PromisesHeld == Spec => []PromiseHeld
<1>1. TypeOK /\ PromiseHeld /\ [Next]_vars => (TypeOK /\ PromiseHeld)'
  BY NextTyped, NextPromise
<1> QED  BY InitTyped, InitPromise, <1>1, PTL DEF Spec
=============================================================================
