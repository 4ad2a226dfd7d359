------------------------ MODULE RunnerSupervisorProofs ------------------------
(***************************************************************************)
(* The safety of the supervisor, for any agents, sessions, processes,      *)
(* requests and restart budget: one wrapper for an agent, no leaked lock,  *)
(* armed resets, final stops, sessions that survive a crash, one result    *)
(* for a request, and results that are true.                               *)
(*                                                                         *)
(* Two inductive invariants carry them, each under TypeOK.  EntryInv says  *)
(* when an entry is well-formed: neither the types nor any of the          *)
(* properties is kept without it, because the exit of a process, wherever  *)
(* it is handled, trusts the entry it finds.  AnswerInv says where the     *)
(* request is held whose result is still to be sent: that no request has   *)
(* two results says nothing of the one that is about to be answered.       *)
(*                                                                         *)
(* OnExit is reached from three actions, by many paths; what it does to an *)
(* entry is stated once (ExitEffect) and so is what a step may do (Shape). *)
(***************************************************************************)
EXTENDS RunnerSupervisor, WellFoundedInduction, TLAPS

-----------------------------------------------------------------------------
(* What the model's operators return.                                      *)

\* A nonempty set of naturals has a least element.
LEMMA LeastNat ==
  ASSUME NEW S \in SUBSET Nat, S # {}
  PROVE  \E n \in S : \A m \in S : n <= m
<1> DEFINE R == OpToRel(<, Nat)
<1>1. IsWellFoundedOn(R, Nat)
  BY NatLessThanWellFounded
<1>2. \A m, n \in Nat : m < n => <<m, n>> \in R
  BY DEF OpToRel
<1> HIDE DEF R
<1>3. \E n \in S : \A m \in S : ~(<<m, n>> \in R)
  BY <1>1, WFMin
<1>4. PICK n \in S : \A m \in S : ~(<<m, n>> \in R)
  BY <1>3
<1>5. \A m \in S : ~(m < n)
  BY <1>2, <1>4
<1>6. \A m \in S : n <= m
  BY <1>5
<1> QED  BY <1>6

\* A new process gets an identifier no process has.
LEMMA PidFresh ==
  ASSUME NEW a \in Agents, Free(a) # {}
  PROVE  NextPid(a) \in Pids /\ NextPid(a)[1] = a /\ procs[NextPid(a)] = None
<1>1. \E n \in Free(a) : \A m \in Free(a) : n <= m
  <2>1. Free(a) \in SUBSET Nat
    BY DEF Free
  <2> QED  BY <2>1, LeastNat
<1>2. PICK n : n \in Free(a) /\ NextPid(a) = <<a, n>>
  BY <1>1 DEF NextPid
<1> QED  BY <1>2 DEF Free, Pids

\* The session a recovery continues with, and the entry it continues with.
LEMMA RecoveredTyped ==
  ASSUME NEW e \in ChildEntry, NEW proc \in Process
  PROVE  /\ Target(e, proc) \in SessionOrNone
         /\ Recovered(e, proc) \in ChildEntry
         /\ Recovered(e, proc).parsed.resume = Target(e, proc)
         /\ Recovered(e, proc).locked = Target(e, proc)
         /\ Recovered(e, proc).restarts = e.restarts /\ Recovered(e, proc).stopping = e.stopping
         /\ Recovered(e, proc).restarting = e.restarting /\ Recovered(e, proc).reset = e.reset
         /\ Recovered(e, proc).timer = e.timer /\ Recovered(e, proc).parsed.request = e.parsed.request
<1>1. Target(e, proc) \in SessionOrNone
  BY DEF Target, ChildEntry, Process, Parsed, SessionOrNone
<1>2. RecoveredKind(e, proc) \in {"candidate", None}
  BY DEF RecoveredKind, ChildEntry
<1> QED  BY <1>1, <1>2 DEF Recovered, ChildEntry, Parsed

-----------------------------------------------------------------------------
(* What a handled exit does.  OnExit is reached from the exit event, from  *)
(* a reset that finds the process gone and from the reset's timer.         *)

\* A well-formed entry: the lock is that of the session it resumes, or, while a
\* reset is pending, of the one it resumed before; and unless it is to stop, the
\* fresh launch of a pending reset is ready.
Fitting(e) ==
    /\ e \in ChildEntry
    /\ e.locked = IF e.reset = None THEN e.parsed.resume ELSE e.reset.parsed.resume
    /\ e.reset # None /\ ~e.stopping => e.parsed = [resume |-> None, request |-> e.reset.request]

\* The termination timer is armed while a reset is pending, and only then.
Sound(e) == Fitting(e) /\ (e.timer = "off" <=> e.reset = None)

\* The entry is removed and its session unlocked.
Gone(a, e, rest) ==
    /\ children' = [children EXCEPT ![a] = None]
    /\ procs' = rest
    /\ activeSessions' \subseteq activeSessions \ {e.locked}

\* Entry n takes the place of entry e, with a new process and no cycle under way.
Renewed(a, e, n, rest) ==
    /\ Free(a) # {} /\ n.child = NextPid(a)
    /\ Sound(n) /\ ~n.stopping /\ ~n.restarting /\ n.reset = None
    /\ children' = [children EXCEPT ![a] = n]
    /\ procs' = [rest EXCEPT ![NextPid(a)] = Launched(n.parsed.resume, n.kind)]
    /\ activeSessions' \subseteq (activeSessions \ {e.locked}) \cup ({n.locked} \ {None})

\* The ways an exit ends, each with the answer it sends.
ExitEffect(a, e, proc, rest) ==
    \/ Gone(a, e, rest) /\ Mute
    \/ Gone(a, e, rest) /\ e.reset = None /\ e.restarting /\ Answer(e.parsed.request)
    \/ Gone(a, e, rest) /\ e.reset # None /\ Conclude(e.reset.request, "rollback_failed")
    \/ \E n : /\ Renewed(a, e, n, rest) /\ ~e.stopping
             /\ \/ /\ e.reset = None /\ Mute
                   /\ ~(e.restarting /\ e.cycle = "switch") => n.parsed.resume = Target(e, proc)
                \/ e.reset # None /\ Conclude(e.reset.request, "ok") /\ n.parsed = e.parsed
                \/ /\ e.reset # None /\ Conclude(e.reset.request, "spawn_failed")
                   /\ n.locked = e.reset.previous

\* How an exit ends depends on what the entry names, not on its timer.
LEMMA SameExit ==
  ASSUME NEW a, NEW e, NEW f, NEW proc, NEW rest, ExitEffect(a, e, proc, rest),
         f.locked = e.locked, f.reset = e.reset, f.restarting = e.restarting, f.parsed = e.parsed,
         f.stopping = e.stopping, f.cycle = e.cycle, f.kind = e.kind
  PROVE  ExitEffect(a, f, proc, rest)
<1>1. Target(f, proc) = Target(e, proc)
  BY DEF Target
<1>2. Gone(a, f, rest) <=> Gone(a, e, rest)
  BY DEF Gone
<1>3. \A n : Renewed(a, f, n, rest) <=> Renewed(a, e, n, rest)
  BY DEF Renewed
<1> QED
  BY <1>1, <1>2, <1>3 DEF ExitEffect

\* An idle entry n is given a process.
LEMMA ReplaceEffect ==
  ASSUME NEW a \in Agents, NEW e, NEW n, Sound(n), ~n.stopping, ~n.restarting, n.reset = None,
         activeSessions' \subseteq (activeSessions \ {e.locked}) \cup ({n.locked} \ {None}),
         NEW rest, Replace(a, n, rest, n.parsed.resume, n.kind)
  PROVE  \E m : Renewed(a, e, m, rest) /\ m.parsed = n.parsed /\ m.locked = n.locked
<1> DEFINE m == [n EXCEPT !.child = NextPid(a)]
<1>1. NextPid(a) \in Pids
  BY PidFresh DEF Replace
<1>2. /\ m.parsed = n.parsed /\ m.kind = n.kind /\ m.child = NextPid(a) /\ m.locked = n.locked
      /\ m.stopping = n.stopping /\ m.restarting = n.restarting /\ m.reset = n.reset
      /\ m.timer = n.timer /\ m \in ChildEntry
  BY <1>1 DEF Sound, Fitting, ChildEntry
<1>3. Sound(m)
  BY <1>2 DEF Sound, Fitting
<1>4. children' = [children EXCEPT ![a] = m] /\ Free(a) # {}
      /\ procs' = [rest EXCEPT ![NextPid(a)] = Launched(m.parsed.resume, m.kind)]
  BY <1>2 DEF Replace
<1> HIDE DEF m
<1>5. Renewed(a, e, m, rest) /\ m.parsed = n.parsed /\ m.locked = n.locked
  BY <1>2, <1>3, <1>4 DEF Renewed
<1> QED  BY <1>5

\* #relaunch of entry e as n.
LEMMA RelaunchEffect ==
  ASSUME NEW a \in Agents, NEW e, NEW n, Sound(n), ~n.stopping, ~n.restarting, n.reset = None,
         NEW locks, locks \subseteq (activeSessions \ {e.locked}) \cup ({n.locked} \ {None}),
         locks \ {n.locked} \subseteq activeSessions \ {e.locked},
         NEW rest, NEW r, Relaunch(a, n, locks, rest, r)
  PROVE  \/ (\E m : Renewed(a, e, m, rest) /\ m.parsed = n.parsed) /\ Mute
         \/ Gone(a, e, rest) /\ (IF r = None THEN Mute ELSE Answer(r))
<1>1. CASE Replace(a, n, rest, n.parsed.resume, n.kind) /\ activeSessions' = locks /\ Mute
  BY <1>1, ReplaceEffect
<1>2. CASE Remove(a, n, locks) /\ procs' = rest /\ (IF r = None THEN Mute ELSE Answer(r))
  BY <1>2 DEF Remove, Gone
<1> QED  BY <1>1, <1>2 DEF Relaunch

\* The relaunch of a pending reset, with its timer and its cycle ended.
LEMMA RelaunchForResetEffect ==
  ASSUME NEW a \in Agents, NEW entry, Fitting(entry), ~entry.stopping, entry.reset # None,
         NEW rest, NEW proc,
         RelaunchForReset(a, [[entry EXCEPT !.timer = "off"] EXCEPT !.restarting = FALSE], rest)
  PROVE  ExitEffect(a, entry, proc, rest)
<1> DEFINE e == [[entry EXCEPT !.timer = "off"] EXCEPT !.restarting = FALSE]
           fresh == [e EXCEPT !.kind = None, !.restarts = 0, !.locked = None, !.reset = None]
           back == [e EXCEPT !.parsed.resume = e.reset.previous, !.kind = None, !.restarts = 0,
                             !.locked = e.reset.previous, !.reset = None]
<1>1. /\ e \in ChildEntry /\ e.timer = "off" /\ ~e.restarting /\ ~e.stopping
      /\ e.parsed = entry.parsed /\ e.locked = entry.locked /\ e.reset = entry.reset
  BY DEF Fitting, ChildEntry
<1>2. entry.reset \in PendingReset /\ entry.locked = entry.reset.parsed.resume
      /\ entry.parsed.resume = None
  BY DEF Fitting, ChildEntry
<1> HIDE DEF e
<1>3. /\ fresh \in ChildEntry /\ fresh.timer = "off" /\ ~fresh.restarting /\ ~fresh.stopping
      /\ fresh.parsed = entry.parsed /\ fresh.locked = None /\ fresh.reset = None
      /\ fresh.kind = None
  <2>1. 0 \in 0..MaxRestarts /\ None \in SessionOrNone
    BY SupervisorAssumption DEF SessionOrNone
  <2> QED  BY <1>1, <2>1 DEF ChildEntry
<1>4. /\ back \in ChildEntry /\ back.timer = "off" /\ ~back.restarting /\ ~back.stopping
      /\ back.parsed.resume = entry.reset.previous /\ back.locked = entry.reset.previous
      /\ back.reset = None /\ back.kind = None
  <2>1. 0 \in 0..MaxRestarts /\ e.reset.previous \in SessionOrNone
    BY <1>1, <1>2, SupervisorAssumption DEF PendingReset
  <2>2. [e.parsed EXCEPT !.resume = e.reset.previous] \in Parsed
    BY <1>1, <2>1 DEF ChildEntry, Parsed
  <2> QED  BY <1>1, <2>1, <2>2 DEF ChildEntry, Parsed
<1>5. Sound(fresh) /\ Sound(back)
  BY <1>2, <1>3, <1>4 DEF Sound, Fitting
<1> HIDE DEF fresh, back
<1>6. CASE /\ Replace(a, fresh, rest, None, None)
           /\ activeSessions' = activeSessions \ {e.reset.parsed.resume}
           /\ Conclude(e.reset.request, "ok")
  <2>1. PICK m : Renewed(a, entry, m, rest) /\ m.parsed = fresh.parsed
    BY <1>1, <1>2, <1>3, <1>5, <1>6, ReplaceEffect
  <2> QED  BY <1>1, <1>3, <1>6, <2>1 DEF ExitEffect
<1>7. CASE /\ Replace(a, back, rest, e.reset.previous, None)
           /\ activeSessions' = (activeSessions \ ({e.reset.parsed.resume} \ {e.reset.previous}))
                                   \cup {e.reset.previous}
           /\ e.reset.previous # None
           /\ Conclude(e.reset.request, "spawn_failed")
  <2>1. PICK m : Renewed(a, entry, m, rest) /\ m.locked = back.locked
    BY <1>1, <1>2, <1>4, <1>5, <1>7, ReplaceEffect
  <2> QED  BY <1>1, <1>4, <1>7, <2>1 DEF ExitEffect
<1>8. CASE /\ Remove(a, e, activeSessions) /\ procs' = rest
           /\ Conclude(e.reset.request, "rollback_failed")
  BY <1>1, <1>8 DEF ExitEffect, Gone, Remove
<1> QED  BY <1>6, <1>7, <1>8 DEF RelaunchForReset, Rollback, e, fresh, back

\* The relaunch at the end of a restart or a switch.
LEMMA EndCycleEffect ==
  ASSUME NEW a \in Agents, NEW entry, Fitting(entry), ~entry.stopping, entry.reset = None,
         entry.restarting, NEW proc \in Process, NEW rest, activeSessions \subseteq Sessions,
         EndCycle(a, [entry EXCEPT !.timer = "off"], proc, rest)
  PROVE  ExitEffect(a, entry, proc, rest)
<1> DEFINE e == [entry EXCEPT !.timer = "off"]
           done == [e EXCEPT !.restarting = FALSE, !.cycle = None]
           next == Recovered(done, proc)
<1>1. /\ e \in ChildEntry /\ e.timer = "off" /\ e.restarting /\ ~e.stopping /\ e.cycle = entry.cycle
      /\ e.parsed = entry.parsed /\ e.locked = entry.locked /\ e.reset = None /\ e.kind = entry.kind
  BY DEF Fitting, ChildEntry
<1>2. /\ done \in ChildEntry /\ done.timer = "off" /\ ~done.restarting /\ ~done.stopping
      /\ done.parsed = entry.parsed /\ done.locked = entry.locked /\ done.reset = None
      /\ done.kind = entry.kind
  BY <1>1 DEF ChildEntry
<1>3. /\ Target(e, proc) = Target(entry, proc) /\ Target(done, proc) = Target(entry, proc)
  BY <1>1, <1>2 DEF Target
<1>4. Sound(done)
  BY <1>2 DEF Sound, Fitting
<1>5. /\ Sound(next) /\ ~next.stopping /\ ~next.restarting /\ next.reset = None
      /\ next.parsed.resume = Target(entry, proc) /\ next.locked = Target(entry, proc)
  <2>1. /\ next \in ChildEntry /\ next.parsed.resume = Target(entry, proc)
        /\ next.locked = Target(entry, proc) /\ next.stopping = done.stopping
        /\ next.restarting = done.restarting /\ next.reset = done.reset /\ next.timer = done.timer
    <3> HIDE DEF done
    <3> QED  BY <1>2, <1>3, RecoveredTyped
  <2> HIDE DEF next
  <2> QED  BY <1>2, <2>1 DEF Sound, Fitting
<1>6. entry.parsed.request # None
  BY NoneAssumption DEF Fitting, ChildEntry, Parsed
<1>7. RecoveredLocks(e, proc) \subseteq
         (activeSessions \ {entry.locked}) \cup ({next.locked} \ {None})
      /\ RecoveredLocks(e, proc) \ {next.locked} \subseteq activeSessions \ {entry.locked}
  BY <1>1, <1>3, <1>5, SupervisorAssumption DEF RecoveredLocks
<1>8. activeSessions \subseteq (activeSessions \ {entry.locked}) \cup ({done.locked} \ {None})
  BY <1>2, SupervisorAssumption
<1> HIDE DEF e, done, next
<1>9. CASE e.cycle = "switch" /\ Relaunch(a, done, activeSessions, rest, e.parsed.request)
  BY <1>1, <1>2, <1>4, <1>6, <1>8, <1>9, RelaunchEffect DEF ExitEffect
<1>10. CASE e.cycle # "switch" /\ Relaunch(a, next, RecoveredLocks(e, proc), rest, e.parsed.request)
  BY <1>1, <1>5, <1>6, <1>7, <1>10, RelaunchEffect DEF ExitEffect
<1>11. CASE Remove(a, e, activeSessions) /\ procs' = rest /\ Answer(e.parsed.request)
  BY <1>1, <1>11 DEF Remove, Gone, ExitEffect
<1> QED  BY <1>9, <1>10, <1>11 DEF EndCycle, e, done, next

\* A crash: a restart within the budget, or the agent is given up.
LEMMA CrashEffect ==
  ASSUME NEW a \in Agents, NEW entry, Fitting(entry), ~entry.stopping, entry.reset = None,
         ~entry.restarting, NEW proc \in Process, NEW rest, activeSessions \subseteq Sessions,
         Crash(a, [entry EXCEPT !.timer = "off"], proc, rest)
  PROVE  ExitEffect(a, entry, proc, rest)
<1> DEFINE e == [entry EXCEPT !.timer = "off"]
           rec == Recovered(e, proc)
           next(n) == [rec EXCEPT !.restarts = n + 1]
<1>1. /\ e \in ChildEntry /\ e.timer = "off" /\ ~e.restarting /\ ~e.stopping
      /\ e.parsed = entry.parsed /\ e.locked = entry.locked /\ e.reset = None /\ e.kind = entry.kind
      /\ e.restarts \in 0..MaxRestarts
  BY DEF Fitting, ChildEntry
<1>2. Target(e, proc) = Target(entry, proc)
  BY <1>1 DEF Target
<1> HIDE DEF e
<1>3. /\ rec \in ChildEntry /\ rec.parsed.resume = Target(entry, proc)
      /\ rec.locked = Target(entry, proc) /\ ~rec.stopping
      /\ ~rec.restarting /\ rec.reset = None /\ rec.timer = "off"
  BY <1>1, <1>2, RecoveredTyped
<1> HIDE DEF rec
<1>4. ASSUME NEW n \in {0, e.restarts}, n < MaxRestarts
      PROVE  /\ Sound(next(n)) /\ ~next(n).stopping /\ ~next(n).restarting /\ next(n).reset = None
             /\ next(n).parsed.resume = Target(entry, proc) /\ next(n).locked = Target(entry, proc)
  <2>1. n + 1 \in 0..MaxRestarts
    BY <1>1, <1>4, SupervisorAssumption
  <2> QED  BY <1>3, <2>1 DEF Sound, Fitting, ChildEntry
<1>5. RecoveredLocks(e, proc) \subseteq
         (activeSessions \ {entry.locked}) \cup ({Target(entry, proc)} \ {None})
      /\ RecoveredLocks(e, proc) \ {Target(entry, proc)} \subseteq activeSessions \ {entry.locked}
  BY <1>1, <1>2, SupervisorAssumption DEF RecoveredLocks
<1> HIDE DEF next
<1>6. ASSUME NEW n \in {0, e.restarts}, n < MaxRestarts,
             Relaunch(a, next(n), RecoveredLocks(e, proc), rest, None)
      PROVE  ExitEffect(a, entry, proc, rest)
  <2>1. \/ (\E m : Renewed(a, entry, m, rest) /\ m.parsed = next(n).parsed) /\ Mute
        \/ Gone(a, entry, rest) /\ Mute
    BY <1>4, <1>5, <1>6, RelaunchEffect
  <2> QED  BY <1>4, <1>6, <2>1 DEF ExitEffect
<1>7. CASE Remove(a, rec, RecoveredLocks(e, proc)) /\ procs' = rest /\ Mute
  BY <1>3, <1>5, <1>7 DEF Remove, Gone, ExitEffect
<1>8. CASE Remove(a, e, activeSessions) /\ procs' = rest /\ Mute
  BY <1>1, <1>8 DEF Remove, Gone, ExitEffect
<1> QED  BY <1>6, <1>7, <1>8 DEF Crash, e, rec, next

\* Whatever #onExit does with a well-formed entry is one of the effects.
LEMMA OnExitEffect ==
  ASSUME NEW a \in Agents, NEW entry, Fitting(entry), NEW proc \in Process, NEW rest,
         activeSessions \subseteq Sessions, OnExit(a, entry, proc, rest)
  PROVE  ExitEffect(a, entry, proc, rest)
<1> DEFINE e == [entry EXCEPT !.timer = "off"]
<1>1. /\ e.stopping = entry.stopping /\ e.reset = entry.reset /\ e.restarting = entry.restarting
      /\ e.locked = entry.locked /\ e.stopping \in BOOLEAN /\ e.restarting \in BOOLEAN
  BY DEF Fitting, ChildEntry
<1>2. CASE e.stopping /\ Remove(a, e, activeSessions) /\ procs' = rest /\ Mute
  BY <1>1, <1>2 DEF Remove, Gone, ExitEffect
<1>3. CASE ~e.stopping /\ e.reset # None /\ RelaunchForReset(a, [e EXCEPT !.restarting = FALSE], rest)
  BY <1>1, <1>3, RelaunchForResetEffect
<1>4. CASE ~e.stopping /\ e.reset = None /\ e.restarting /\ EndCycle(a, e, proc, rest)
  BY <1>1, <1>4, EndCycleEffect
<1>5. CASE ~e.stopping /\ e.reset = None /\ ~e.restarting /\ Crash(a, e, proc, rest)
  BY <1>1, <1>5, CrashEffect
<1> QED  BY <1>2, <1>3, <1>4, <1>5 DEF OnExit

-----------------------------------------------------------------------------
(* Types.  TypeOK is inductive only with EntryInv: the failure of a reset  *)
(* restores the configuration a pending reset keeps, and the check of a    *)
(* switch reads the entry of its agent.                                    *)

\* Every entry is well-formed and its process is the agent's own and known; an
\* agent is looked up for a spawn only without an entry, for a switch only with
\* one that no reset is pending on.
EntryInv ==
    \A a \in Agents :
        IF children[a] = None THEN pendingSwitches[a] = None
        ELSE /\ Sound(children[a])
             /\ children[a].child[1] = a /\ procs[children[a].child] # None
             /\ pendingSpawns[a] = None
             /\ children[a].reset # None => pendingSwitches[a] = None

\* A result sent keeps the history's shape.
LEMMA AnswerTyped ==
  ASSUME TypeOK, \/ Mute
                 \/ \E r \in Requests : Answer(r)
                 \/ \E r \in Requests, v \in Verdicts : Conclude(r, v)
  PROVE  answers' \in [Requests -> Nat] /\ verdict' \in Verdicts \cup {None}
  BY DEF TypeOK, Mute, Answer, Conclude

\* A new process is a process.
LEMMA LaunchedTyped ==
  ASSUME NEW resume \in SessionOrNone, NEW kind \in {"candidate", None}
  PROVE  Launched(resume, kind) \in Process
  BY DEF Launched, Process, SessionOrNone

\* A handled exit keeps both invariants: e is the entry the agent has, or is given
\* by the command that finds its process gone.
LEMMA ExitKeeps ==
  ASSUME TypeOK, EntryInv, NEW a \in Agents, children[a] # None,
         NEW e, Sound(e), e.child = children[a].child,
         NEW rest \in {procs, [procs EXCEPT ![e.child] = None]},
         NEW proc, ExitEffect(a, e, proc, rest),
         pendingSwitches' \in [Agents -> Check \cup {None}],
         \A b \in Agents : pendingSwitches'[b] \in {pendingSwitches[b], None},
         children'[a] = None => pendingSwitches'[a] = None,
         UNCHANGED <<pendingSpawns, stored>>, used' \in 0..MaxRequest
  PROVE  TypeOK' /\ EntryInv'
<1>1. e \in ChildEntry /\ e.locked \in SessionOrNone /\ e.parsed.request \in Requests
      /\ (e.reset # None => e.reset.request \in Requests)
  BY DEF Sound, Fitting, ChildEntry, Parsed, PendingReset
<1>2. answers' \in [Requests -> Nat] /\ verdict' \in Verdicts \cup {None}
  BY <1>1, AnswerTyped DEF ExitEffect, Verdicts
<1>3. rest \in [Pids -> Process \cup {None}]
  BY DEF TypeOK
<1>4. \A b \in Agents \ {a} : children[b] # None => children[b].child \in Pids
                             /\ children[b].child # e.child /\ rest[children[b].child] # None
  <2>1. e.child[1] = a
    BY DEF EntryInv
  <2> SUFFICES ASSUME NEW b \in Agents \ {a}, children[b] # None
               PROVE  children[b].child \in Pids /\ children[b].child # e.child
                      /\ rest[children[b].child] # None
    OBVIOUS
  <2>2. children[b].child[1] = b /\ procs[children[b].child] # None /\ Sound(children[b])
    BY DEF EntryInv
  <2>3. children[b].child \in Pids
    BY <2>2 DEF Sound, Fitting, ChildEntry
  <2>4. children[b].child # e.child
    BY <2>1, <2>2
  <2>5. rest[children[b].child] = procs[children[b].child]
    BY <2>3, <2>4 DEF TypeOK
  <2> QED  BY <2>2, <2>3, <2>4, <2>5
<1>5. CASE Gone(a, e, rest)
  <2>1. TypeOK'
    BY <1>2, <1>3, <1>5 DEF Gone, TypeOK
  <2>2. ASSUME NEW b \in Agents, b # a
        PROVE  children'[b] = children[b] /\ (children[b] # None => procs'[children[b].child] # None)
    BY <1>4, <1>5, <2>2 DEF Gone, TypeOK
  <2>3. children'[a] = None /\ pendingSwitches'[a] = None
    BY <1>5 DEF Gone, TypeOK
  <2>4. EntryInv'
    BY <2>2, <2>3 DEF EntryInv
  <2> QED  BY <2>1, <2>4
<1>6. ASSUME NEW n, Renewed(a, e, n, rest)
      PROVE  TypeOK' /\ EntryInv'
  <2>1. NextPid(a) \in Pids /\ NextPid(a)[1] = a /\ procs[NextPid(a)] = None
    BY <1>6, PidFresh DEF Renewed
  <2>2. n \in ChildEntry /\ n.parsed.resume \in SessionOrNone /\ n.kind \in {"candidate", None}
        /\ n.locked \in SessionOrNone
    BY <1>6 DEF Renewed, Sound, Fitting, ChildEntry, Parsed
  <2>3. Launched(n.parsed.resume, n.kind) \in Process
    BY <2>2, LaunchedTyped
  <2>4. procs' \in [Pids -> Process \cup {None}] /\ procs'[NextPid(a)] # None
    BY <1>3, <1>6, <2>1, <2>3, NoneAssumption DEF Renewed
  <2>5. activeSessions' \subseteq Sessions
    BY <1>6, <2>2 DEF Renewed, TypeOK, SessionOrNone
  <2>6. TypeOK'
    BY <1>2, <1>6, <2>2, <2>4, <2>5 DEF Renewed, TypeOK
  <2>7. ASSUME NEW b \in Agents, b # a
        PROVE  children'[b] = children[b] /\ (children[b] # None => procs'[children[b].child] # None)
    BY <1>4, <1>6, <2>1, <2>3, <2>7, NoneAssumption, <1>3 DEF Renewed, TypeOK
  <2>8. children'[a] = n /\ n # None /\ Sound(n) /\ n.child = NextPid(a) /\ n.reset = None
    BY <1>6, <2>2, NoneAssumption DEF Renewed, TypeOK
  <2>9. EntryInv'
    BY <2>1, <2>4, <2>7, <2>8 DEF EntryInv
  <2> QED  BY <2>6, <2>9
<1> QED  BY <1>5, <1>6 DEF ExitEffect

\* A command or a timer that leaves the process of its agent's entry as it is.
LEMMA EntryKeeps ==
  ASSUME TypeOK, EntryInv, NEW a \in Agents, children[a] # None,
         NEW n, Sound(n), n.child = children[a].child,
         children' = [children EXCEPT ![a] = n], UNCHANGED <<procs, pendingSpawns>>,
         \A b \in Agents \ {a} : pendingSwitches'[b] = pendingSwitches[b],
         n.reset # None => pendingSwitches'[a] = None
  PROVE  EntryInv' /\ children' \in [Agents -> ChildEntry \cup {None}]
<1>1. n \in ChildEntry /\ n # None
  BY NoneAssumption DEF Sound, Fitting
<1>2. children' \in [Agents -> ChildEntry \cup {None}] /\ children'[a] = n
      /\ \A b \in Agents \ {a} : children'[b] = children[b]
  BY <1>1 DEF TypeOK
<1> QED  BY <1>1, <1>2 DEF EntryInv

\* A reset's signal, or its exit handled at once.
LEMMA TerminateKeeps ==
  ASSUME TypeOK, EntryInv, NEW a \in Agents, children[a] # None,
         NEW e, Fitting(e), e.reset # None, e.child = children[a].child,
         NEW timer \in {"term", "kill"}, TerminateForReset(a, e, timer),
         pendingSwitches' \in [Agents -> Check \cup {None}],
         \A b \in Agents \ {a} : pendingSwitches'[b] = pendingSwitches[b],
         pendingSwitches'[a] = None,
         UNCHANGED <<pendingSpawns, stored>>, used' \in 0..MaxRequest
  PROVE  TypeOK' /\ EntryInv'
<1> DEFINE armed == [e EXCEPT !.timer = timer]
<1>1. /\ Sound(armed) /\ armed.child = e.child /\ armed.reset = e.reset
      /\ armed.locked = e.locked /\ armed.stopping = e.stopping /\ armed.parsed = e.parsed
      /\ armed.restarting = e.restarting /\ armed.cycle = e.cycle /\ armed.kind = e.kind
  BY DEF Sound, Fitting, ChildEntry
<1>2. procs[e.child] \in Process
  <2>1. e.child \in Pids /\ procs[e.child] # None
    BY DEF EntryInv, Fitting, ChildEntry
  <2> QED  BY <2>1 DEF TypeOK
<1> HIDE DEF armed
<1>3. CASE children' = [children EXCEPT ![a] = armed] /\ Mute /\ UNCHANGED <<activeSessions, procs>>
  <2>1. EntryInv' /\ children' \in [Agents -> ChildEntry \cup {None}]
    BY <1>1, <1>3, EntryKeeps
  <2> QED  BY <1>3, <2>1, AnswerTyped DEF TypeOK
<1>4. CASE OnExit(a, e, procs[e.child], procs)
  <2>1. ExitEffect(a, e, procs[e.child], procs)
    BY <1>2, <1>4, OnExitEffect DEF TypeOK
  <2>2. ExitEffect(a, armed, procs[e.child], procs)
    BY <1>1, <2>1, SameExit
  <2> QED  BY <1>1, <2>2, ExitKeeps
<1> QED  BY <1>3, <1>4 DEF TerminateForReset, armed

\* The runner starts with nothing to supervise.
LEMMA InitSupervised == Init => TypeOK /\ EntryInv
  BY SupervisorAssumption DEF Init, TypeOK, EntryInv

\* #launchSpawn of an agent without an entry.
LEMMA LaunchKeeps ==
  ASSUME TypeOK, EntryInv, NEW a \in Agents, children[a] = None,
         NEW parsed \in Parsed, NEW locks \in SUBSET Sessions,
         LaunchSpawn(a, parsed, locks),
         pendingSpawns' \in [Agents -> Check \cup {None}], pendingSpawns'[a] = None,
         \A b \in Agents \ {a} : pendingSpawns'[b] = pendingSpawns[b],
         UNCHANGED <<pendingSwitches, stored>>, used' \in 0..MaxRequest
  PROVE  TypeOK' /\ EntryInv'
<1> DEFINE n == [child |-> NextPid(a), parsed |-> parsed, restarts |-> 0, stopping |-> FALSE,
                 restarting |-> FALSE, cycle |-> None, kind |-> None, locked |-> parsed.resume,
                 reset |-> None, timer |-> "off"]
<1>1. answers' \in [Requests -> Nat] /\ verdict' \in Verdicts \cup {None}
  BY AnswerTyped DEF LaunchSpawn, Parsed
<1>2. activeSessions' \subseteq Sessions
  BY DEF LaunchSpawn
<1>3. CASE /\ Free(a) # {} /\ children' = [children EXCEPT ![a] = n]
           /\ procs' = [procs EXCEPT ![NextPid(a)] = Launched(parsed.resume, None)]
  <2>1. NextPid(a) \in Pids /\ NextPid(a)[1] = a /\ procs[NextPid(a)] = None
    BY <1>3, PidFresh
  <2>2. n \in ChildEntry /\ n.child = NextPid(a) /\ n.locked = parsed.resume /\ n.parsed = parsed
        /\ n.reset = None /\ n.timer = "off"
    <3>1. parsed.resume \in SessionOrNone /\ 0 \in 0..MaxRestarts
      BY SupervisorAssumption DEF Parsed
    <3> QED  BY <2>1, <3>1 DEF ChildEntry
  <2> HIDE DEF n
  <2>3. Sound(n) /\ n # None
    BY <2>2, NoneAssumption DEF Sound, Fitting
  <2>4. Launched(parsed.resume, None) \in Process
    BY LaunchedTyped DEF Parsed
  <2>5. procs' \in [Pids -> Process \cup {None}] /\ procs'[NextPid(a)] # None
        /\ \A p \in Pids : procs[p] # None => procs'[p] # None
    BY <1>3, <2>1, <2>4, NoneAssumption DEF TypeOK
  <2>6. children'[a] = n /\ children' \in [Agents -> ChildEntry \cup {None}]
        /\ \A b \in Agents \ {a} : children'[b] = children[b]
    BY <1>3, <2>2 DEF TypeOK
  <2>7. \A b \in Agents : children[b] # None => children[b].child \in Pids
    BY DEF EntryInv, Sound, Fitting, ChildEntry
  <2>8. EntryInv'
    BY <2>1, <2>2, <2>3, <2>5, <2>6, <2>7 DEF EntryInv
  <2> QED  BY <1>1, <1>2, <2>5, <2>6, <2>8 DEF TypeOK
<1>4. CASE UNCHANGED <<children, procs>>
  BY <1>1, <1>2, <1>4 DEF TypeOK, EntryInv
<1> QED  BY <1>3, <1>4 DEF LaunchSpawn

\* TypeOK and EntryInv are kept by every step, one step of the proof for each action.
LEMMA NextSupervised == TypeOK /\ EntryInv /\ [Next]_vars => (TypeOK /\ EntryInv)'
<1> SUFFICES ASSUME TypeOK, EntryInv, [Next]_vars PROVE TypeOK' /\ EntryInv'
  OBVIOUS
<1>1. ASSUME UNCHANGED <<children, activeSessions, procs, stored>>, used' \in 0..MaxRequest,
             \/ Mute
             \/ \E r \in Requests : Answer(r)
             \/ \E r \in Requests, v \in Verdicts : Conclude(r, v),
             pendingSpawns' \in [Agents -> Check \cup {None}],
             pendingSwitches' \in [Agents -> Check \cup {None}],
             \A a \in Agents : children[a] = None => pendingSwitches'[a] = None,
             \A a \in Agents : children[a] # None => pendingSpawns'[a] \in {pendingSpawns[a], None},
             \A a \in Agents : children[a] # None /\ children[a].reset # None =>
                pendingSwitches'[a] \in {pendingSwitches[a], None}
      PROVE  TypeOK' /\ EntryInv'
  <2>1. TypeOK'
    BY <1>1, AnswerTyped DEF TypeOK
  <2> QED  BY <1>1, <2>1 DEF EntryInv
<1>2. ASSUME NEW r \in Requests, Command(r) PROVE used' \in 0..MaxRequest
  BY <1>2, SupervisorAssumption DEF Command, Requests, TypeOK
<1>3. ASSUME NEW a \in Agents, NEW r \in Requests, SpawnFresh(a, r) PROVE TypeOK' /\ EntryInv'
  <2>1. CASE children[a] = None /\ pendingSpawns[a] = None
             /\ LaunchSpawn(a, [resume |-> None, request |-> r], activeSessions)
    <3>1. [resume |-> None, request |-> r] \in Parsed
      BY DEF Parsed, SessionOrNone
    <3> QED  BY <1>2, <1>3, <2>1, <3>1, LaunchKeeps DEF SpawnFresh, TypeOK
  <2>2. CASE Refuse(r)
    BY <1>1, <1>2, <1>3, <2>2 DEF SpawnFresh, Refuse, TypeOK, EntryInv
  <2> QED  BY <1>3, <2>1, <2>2 DEF SpawnFresh
<1>4. ASSUME NEW a \in Agents, NEW r \in Requests, NEW s \in Sessions, SpawnResume(a, r, s)
      PROVE  TypeOK' /\ EntryInv'
  <2>1. [resume |-> s, request |-> r] \in Check
    BY DEF Check
  <2>2. pendingSpawns' \in [Agents -> Check \cup {None}]
        /\ \A b \in Agents : children[b] # None => pendingSpawns'[b] = pendingSpawns[b]
    BY <1>4, <2>1 DEF SpawnResume, TypeOK
  <2> QED  BY <1>1, <1>2, <1>4, <2>2 DEF SpawnResume, Refuse, TypeOK, EntryInv
<1>5. ASSUME NEW a \in Agents, NEW found \in BOOLEAN, SpawnChecked(a, found)
      PROVE  TypeOK' /\ EntryInv'
  <2>1. pendingSpawns[a] \in Check /\ children[a] = None
    BY <1>5 DEF SpawnChecked, TypeOK, EntryInv
  <2>2. pendingSpawns' \in [Agents -> Check \cup {None}] /\ pendingSpawns'[a] = None
        /\ \A b \in Agents \ {a} : pendingSpawns'[b] = pendingSpawns[b]
    BY <1>5 DEF SpawnChecked, TypeOK
  <2>3. CASE LaunchSpawn(a, pendingSpawns[a], activeSessions \cup {pendingSpawns[a].resume})
    <3>1. pendingSpawns[a] \in Parsed /\ activeSessions \cup {pendingSpawns[a].resume} \in SUBSET Sessions
      BY <2>1 DEF Check, Parsed, SessionOrNone, TypeOK
    <3>2. UNCHANGED <<pendingSwitches, stored>> /\ used' \in 0..MaxRequest
      BY <1>5 DEF SpawnChecked, TypeOK
    <3> QED  BY <2>1, <2>2, <2>3, <3>1, <3>2, LaunchKeeps
  <2>4. CASE Refuse(pendingSpawns[a].request)
    BY <1>1, <1>5, <2>1, <2>2, <2>4 DEF SpawnChecked, Refuse, TypeOK, EntryInv, Check
  <2> QED  BY <1>5, <2>3, <2>4 DEF SpawnChecked
<1>6. ASSUME NEW a \in Agents, Stop(a) PROVE TypeOK' /\ EntryInv'
  <2>1. CASE pendingSpawns' = [pendingSpawns EXCEPT ![a] = None] /\ UNCHANGED <<children, pendingSwitches>>
    BY <1>1, <1>6, <2>1 DEF Stop, TypeOK, EntryInv
  <2>2. CASE /\ children[a] # None /\ pendingSwitches' = [pendingSwitches EXCEPT ![a] = None]
             /\ children' = [children EXCEPT ![a].stopping = TRUE] /\ UNCHANGED pendingSpawns
    <3> DEFINE n == [children[a] EXCEPT !.stopping = TRUE]
    <3>1. Sound(n) /\ n.child = children[a].child /\ n.reset = children[a].reset
      <4>1. Sound(children[a])
        BY <2>2 DEF EntryInv
      <4> QED  BY <4>1 DEF Sound, Fitting, ChildEntry
    <3>2. children' = [children EXCEPT ![a] = n]
      BY <2>2
    <3> HIDE DEF n
    <3>3. /\ pendingSwitches' \in [Agents -> Check \cup {None}] /\ pendingSwitches'[a] = None
          /\ \A b \in Agents \ {a} : pendingSwitches'[b] = pendingSwitches[b]
      BY <2>2 DEF TypeOK
    <3>4. EntryInv' /\ children' \in [Agents -> ChildEntry \cup {None}]
      BY <1>6, <2>2, <3>1, <3>2, <3>3, EntryKeeps DEF Stop
    <3> QED  BY <1>6, <2>2, <3>3, <3>4, AnswerTyped DEF Stop, TypeOK
  <2> QED  BY <1>6, <2>1, <2>2 DEF Stop
<1>7. ASSUME StopAll PROVE TypeOK' /\ EntryInv'
  <2>1. \A a \in Agents : children[a] # None => Sound(children[a])
    BY DEF EntryInv
  <2>2. ASSUME NEW a \in Agents, children[a] # None
        PROVE  /\ Sound(children'[a]) /\ children'[a].child = children[a].child
               /\ children'[a].reset = children[a].reset /\ children'[a] # None
    <3> DEFINE n == [children[a] EXCEPT !.stopping = TRUE]
    <3>1. children'[a] = n
      BY <1>7, <2>2 DEF StopAll
    <3>2. Sound(children[a]) /\ children[a] \in ChildEntry
      BY <2>1, <2>2 DEF Sound, Fitting
    <3>3. n \in ChildEntry /\ n.child = children[a].child /\ n.reset = children[a].reset
          /\ n.timer = children[a].timer /\ n.stopping /\ n.parsed = children[a].parsed
          /\ n.locked = children[a].locked /\ n.restarting = children[a].restarting /\ n.cycle = children[a].cycle
      BY <3>2 DEF ChildEntry
    <3> HIDE DEF n
    <3>4. Sound(n)
      BY <3>2, <3>3 DEF Sound, Fitting
    <3> QED  BY <3>1, <3>3, <3>4, NoneAssumption DEF ChildEntry
  <2>3. \A a \in Agents : children[a] = None => children'[a] = None
    BY <1>7 DEF StopAll
  <2>4. children' \in [Agents -> ChildEntry \cup {None}]
    <3>1. children' = [a \in Agents |-> children'[a]]
      BY <1>7 DEF StopAll
    <3> QED  BY <2>2, <2>3, <3>1 DEF Sound, Fitting
  <2>5. TypeOK'
    BY <1>7, <2>4, AnswerTyped DEF StopAll, TypeOK
  <2>6. EntryInv'
    BY <1>7, <2>2, <2>3 DEF StopAll, EntryInv
  <2> QED  BY <2>5, <2>6
<1>8. ASSUME NEW a \in Agents, NEW r \in Requests, Restart(a, r) PROVE TypeOK' /\ EntryInv'
  <2>1. CASE /\ children' = [children EXCEPT ![a].parsed.request = r, ![a].cycle = "restart",
                                            ![a].restarting = TRUE, ![a].restarts = 0]
             /\ pendingSwitches' = [pendingSwitches EXCEPT ![a] = None]
             /\ Mute /\ UNCHANGED <<activeSessions, procs>>
    <3> DEFINE n == [children[a] EXCEPT !.parsed.request = r, !.cycle = "restart",
                                        !.restarting = TRUE, !.restarts = 0]
    <3>1. Sound(children[a]) /\ (children[a].reset = None \/ children[a].stopping)
      BY <1>8 DEF EntryInv, Restart
    <3>2. 0 \in 0..MaxRestarts
      BY SupervisorAssumption
    <3>3. Sound(n) /\ n.child = children[a].child
      BY <3>1, <3>2 DEF Sound, Fitting, ChildEntry, Parsed
    <3>4. children' = [children EXCEPT ![a] = n]
      BY <1>8, <2>1 DEF Restart, TypeOK
    <3> HIDE DEF n
    <3>5. /\ pendingSwitches' \in [Agents -> Check \cup {None}] /\ pendingSwitches'[a] = None
          /\ \A b \in Agents \ {a} : pendingSwitches'[b] = pendingSwitches[b]
      BY <2>1 DEF TypeOK
    <3>6. EntryInv' /\ children' \in [Agents -> ChildEntry \cup {None}]
      BY <1>8, <2>1, <3>3, <3>4, <3>5, EntryKeeps DEF Restart
    <3> QED  BY <1>2, <1>8, <2>1, <3>5, <3>6, AnswerTyped DEF Restart, TypeOK
  <2>2. CASE Refuse(r) /\ UNCHANGED pendingSwitches
    BY <1>1, <1>2, <1>8, <2>2 DEF Restart, Refuse, TypeOK, EntryInv
  <2> QED  BY <1>8, <2>1, <2>2 DEF Restart
<1>9. ASSUME NEW a \in Agents, NEW r \in Requests, NEW s \in Sessions, SwitchSession(a, r, s)
      PROVE  TypeOK' /\ EntryInv'
  <2>1. [resume |-> s, request |-> r] \in Check
    BY DEF Check
  <2>2. /\ pendingSwitches' \in [Agents -> Check \cup {None}]
        /\ \A b \in Agents \ {a} : pendingSwitches'[b] = pendingSwitches[b]
    BY <1>9, <2>1 DEF SwitchSession, TypeOK
  <2> QED  BY <1>1, <1>2, <1>9, <2>2 DEF SwitchSession, TypeOK, EntryInv
<1>10. ASSUME NEW a \in Agents, NEW found \in BOOLEAN, SwitchChecked(a, found)
       PROVE  TypeOK' /\ EntryInv'
  <2> DEFINE s == pendingSwitches[a].resume
             r == pendingSwitches[a].request
             e == children[a]
  <2>1. /\ pendingSwitches[a] \in Check /\ children[a] # None /\ Sound(e) /\ e.reset = None
        /\ s \in Sessions /\ r \in Requests
    BY <1>10 DEF SwitchChecked, TypeOK, EntryInv, Check
  <2>2. /\ pendingSwitches' \in [Agents -> Check \cup {None}] /\ pendingSwitches'[a] = None
        /\ \A b \in Agents \ {a} : pendingSwitches'[b] = pendingSwitches[b]
    BY <1>10 DEF SwitchChecked, TypeOK
  <2> HIDE DEF s, r
  <2>3. CASE Mute /\ UNCHANGED <<children, activeSessions, procs>>
    BY <1>1, <1>10, <2>2, <2>3 DEF SwitchChecked, TypeOK, EntryInv
  <2>4. CASE Refuse(r)
    BY <1>1, <1>10, <2>1, <2>2, <2>4 DEF SwitchChecked, Refuse, TypeOK, EntryInv
  <2>5. CASE /\ activeSessions' = (activeSessions \ {e.locked}) \cup {s}
             /\ children' = [children EXCEPT ![a] =
                  [e EXCEPT !.parsed = [resume |-> s, request |-> r], !.locked = s,
                            !.cycle = "switch", !.kind = None, !.restarting = TRUE,
                            !.restarts = 0]]
             /\ Mute /\ UNCHANGED <<procs>>
    <3> DEFINE n == [e EXCEPT !.parsed = [resume |-> s, request |-> r], !.locked = s,
                              !.cycle = "switch", !.kind = None, !.restarting = TRUE,
                              !.restarts = 0]
    <3>1. 0 \in 0..MaxRestarts /\ s \in SessionOrNone
      BY <2>1, SupervisorAssumption DEF SessionOrNone
    <3>2. [resume |-> s, request |-> r] \in Parsed
      BY <2>1, <3>1 DEF Parsed
    <3>3. n \in ChildEntry /\ n.child = e.child /\ n.reset = None /\ n.timer = e.timer
          /\ n.locked = s /\ n.parsed.resume = s
      BY <2>1, <3>1, <3>2 DEF Sound, Fitting, ChildEntry
    <3>4. Sound(n)
      BY <2>1, <3>3 DEF Sound, Fitting
    <3> HIDE DEF n
    <3>5. EntryInv' /\ children' \in [Agents -> ChildEntry \cup {None}]
      BY <1>10, <2>1, <2>2, <2>5, <3>3, <3>4, EntryKeeps DEF SwitchChecked, n
    <3>6. activeSessions' \subseteq Sessions
      BY <2>1, <2>5 DEF TypeOK
    <3> QED  BY <1>10, <2>2, <2>5, <3>5, <3>6, AnswerTyped DEF SwitchChecked, TypeOK
  <2> QED  BY <1>10, <2>3, <2>4, <2>5 DEF SwitchChecked, s, r
<1>11. ASSUME NEW a \in Agents, NEW r \in Requests, ResetSession(a, r) PROVE TypeOK' /\ EntryInv'
  <2> DEFINE e == children[a]
             n == [e EXCEPT !.reset = [request |-> r, previous |-> Reported(a), parsed |-> e.parsed],
                            !.parsed = [resume |-> None, request |-> r],
                            !.restarting = TRUE, !.restarts = 0]
  <2>1. CASE Conclude(r, "refused") /\ UNCHANGED <<children, activeSessions, procs>>
             /\ pendingSwitches' \in {pendingSwitches, [pendingSwitches EXCEPT ![a] = None]}
    BY <1>1, <1>2, <1>11, <2>1 DEF ResetSession, TypeOK, EntryInv, Verdicts
  <2>2. CASE pendingSwitches' = [pendingSwitches EXCEPT ![a] = None] /\ TerminateForReset(a, n, "term")
    <3>1. Sound(e) /\ e.reset = None /\ procs[e.child] # None
      BY <1>11 DEF ResetSession, EntryInv
    <3>2. Reported(a) \in SessionOrNone
      <4>1. procs[e.child] \in Process
        BY <3>1 DEF Sound, Fitting, ChildEntry, TypeOK
      <4> QED  BY <4>1 DEF Reported, Process
    <3>3. [request |-> r, previous |-> Reported(a), parsed |-> e.parsed] \in PendingReset
          /\ [resume |-> None, request |-> r] \in Parsed /\ 0 \in 0..MaxRestarts
      BY <3>1, <3>2, SupervisorAssumption DEF PendingReset, Parsed, SessionOrNone, Sound, Fitting, ChildEntry
    <3>4. Fitting(n) /\ n.reset # None /\ n.child = e.child
      BY <3>1, <3>3, NoneAssumption DEF Sound, Fitting, ChildEntry
    <3> HIDE DEF n
    <3> QED  BY <1>2, <1>11, <2>2, <3>4, TerminateKeeps DEF ResetSession, TypeOK
  <2> QED  BY <1>11, <2>1, <2>2 DEF ResetSession, RefuseReset
<1>12. ASSUME NEW a \in Agents, ResetTimer(a) PROVE TypeOK' /\ EntryInv'
  <2> DEFINE e == children[a]
  <2>1. children[a] # None /\ Sound(e) /\ e.reset # None /\ pendingSwitches[a] = None
        /\ e.reset \in PendingReset
    BY <1>12 DEF ResetTimer, EntryInv, Sound, Fitting, ChildEntry
  <2>2. /\ pendingSwitches' \in [Agents -> Check \cup {None}] /\ pendingSwitches'[a] = None
        /\ \A b \in Agents \ {a} : children'[b] = children[b] => pendingSwitches'[b] = pendingSwitches[b]
    BY <1>12, <2>1 DEF ResetTimer, DropSwitch, TypeOK, EntryInv
  <2>3. CASE TerminateForReset(a, e, "kill")
    <3>1. \A b \in Agents \ {a} : children'[b] = children[b]
      <4>1. CASE children' = [children EXCEPT ![a] = [e EXCEPT !.timer = "kill"]]
        BY <4>1 DEF TypeOK
      <4>2. CASE OnExit(a, e, procs[e.child], procs)
        <5>1. procs[e.child] \in Process
          <6>1. e.child \in Pids /\ procs[e.child] # None
            BY <2>1 DEF EntryInv, Sound, Fitting, ChildEntry
          <6> QED  BY <6>1 DEF TypeOK
        <5>2. ExitEffect(a, e, procs[e.child], procs)
          BY <2>1, <4>2, <5>1, OnExitEffect DEF Sound, TypeOK
        <5> QED  BY <5>2 DEF ExitEffect, Gone, Renewed, TypeOK
      <4> QED  BY <2>3, <4>1, <4>2 DEF TerminateForReset
    <3> QED  BY <1>12, <2>1, <2>2, <2>3, <3>1, TerminateKeeps DEF ResetTimer, Sound, TypeOK
  <2>4. CASE FailResetTermination(a, e)
    <3> DEFINE n == [e EXCEPT !.parsed = e.reset.parsed, !.restarting = FALSE, !.reset = None,
                              !.timer = "off"]
    <3>1. Sound(n) /\ n.child = e.child /\ n.reset = None
      BY <2>1 DEF Sound, Fitting, ChildEntry, PendingReset
    <3> HIDE DEF n
    <3>2. children' = [children EXCEPT ![a] = n]
      BY <2>4 DEF FailResetTermination, n
    <3>3. \A b \in Agents \ {a} : children'[b] = children[b]
      BY <3>2 DEF TypeOK
    <3>4. EntryInv' /\ children' \in [Agents -> ChildEntry \cup {None}]
      BY <1>12, <2>1, <2>2, <2>4, <3>1, <3>2, <3>3, EntryKeeps DEF ResetTimer, FailResetTermination
    <3>5. e.reset.request \in Requests /\ "timeout" \in Verdicts
      BY <2>1 DEF PendingReset, Verdicts
    <3> QED  BY <1>12, <2>2, <2>4, <3>4, <3>5, AnswerTyped DEF ResetTimer, FailResetTermination, TypeOK
  <2> QED  BY <1>12, <2>3, <2>4 DEF ResetTimer
<1>13. ASSUME NEW p \in Pids, ChildExit(p) PROVE TypeOK' /\ EntryInv'
  <2> DEFINE a == p[1]
             rest == [procs EXCEPT ![p] = None]
  <2>1. a \in Agents /\ procs[p] \in Process
    BY <1>13 DEF ChildExit, TypeOK, Pids
  <2>2. /\ pendingSwitches' \in [Agents -> Check \cup {None}]
        /\ \A b \in Agents : pendingSwitches'[b] \in {pendingSwitches[b], None}
        /\ \A b \in Agents : children'[b] = None => pendingSwitches'[b] = None
        /\ \A b \in Agents : children'[b] # None => pendingSwitches'[b] = pendingSwitches[b]
    BY <1>13 DEF ChildExit, DropSwitch, TypeOK
  <2>3. CASE children[a] # None /\ children[a].child = p /\ OnExit(a, children[a], procs[p], rest)
    <3>1. Sound(children[a])
      BY <2>1, <2>3 DEF EntryInv
    <3>2. ExitEffect(a, children[a], procs[p], rest)
      BY <2>1, <2>3, <3>1, OnExitEffect DEF Sound, TypeOK
    <3> QED  BY <1>13, <2>1, <2>2, <2>3, <3>1, <3>2, ExitKeeps DEF ChildExit, TypeOK
  <2>4. CASE /\ procs' = rest /\ Mute /\ UNCHANGED <<children, activeSessions>>
             /\ ~(children[a] # None /\ children[a].child = p)
    <3>1. \A b \in Agents : children[b] # None => children[b].child \in Pids /\ children[b].child # p
      <4>1. ASSUME NEW b \in Agents, children[b] # None
            PROVE  children[b].child \in Pids /\ children[b].child[1] = b
        BY <4>1 DEF EntryInv, Sound, Fitting, ChildEntry
      <4> QED  BY <2>4, <4>1
    <3>2. TypeOK'
      BY <1>13, <2>2, <2>4, AnswerTyped DEF ChildExit, TypeOK
    <3>3. EntryInv'
      BY <1>13, <2>2, <2>4, <3>1 DEF ChildExit, EntryInv, TypeOK
    <3> QED  BY <3>2, <3>3
  <2> QED  BY <1>13, <2>3, <2>4 DEF ChildExit
<1>14. ASSUME NEW p \in Pids, procs[p] # None, NEW proc \in Process, Set(p, proc),
              stored' \subseteq Sessions
       PROVE  TypeOK' /\ EntryInv'
  <2>1. procs' \in [Pids -> Process \cup {None}] /\ \A q \in Pids : procs[q] # None => procs'[q] # None
    BY <1>14, NoneAssumption DEF Set, TypeOK
  <2>2. TypeOK'
    BY <1>14, <2>1, AnswerTyped DEF Set, TypeOK
  <2>3. \A a \in Agents : children[a] # None => children[a].child \in Pids
    BY DEF EntryInv, Sound, Fitting, ChildEntry
  <2> QED  BY <1>14, <2>1, <2>2, <2>3 DEF Set, EntryInv
<1>15. ASSUME NEW p \in Pids, \/ Report(p) \/ Confirm(p) \/ Reject(p) \/ Block(p) \/ Die(p)
                               \/ \E s \in Sessions : Observe(p, s)
       PROVE  TypeOK' /\ EntryInv'
  <2>1. procs[p] # None /\ procs[p] \in Process
    BY <1>15 DEF Report, Confirm, Reject, Block, Die, Observe, Writing, TypeOK
  <2>2. \E proc \in Process : Set(p, proc)
    <3>1. CASE Report(p)
      BY <2>1, <3>1 DEF Report, Process, SessionOrNone
    <3>2. CASE Confirm(p)
      BY <2>1, <3>2 DEF Confirm, Process, SessionOrNone
    <3>3. CASE Reject(p)
      BY <2>1, <3>3 DEF Reject, Process, SessionOrNone
    <3>4. CASE Block(p)
      BY <2>1, <3>4 DEF Block, Process
    <3>5. CASE Die(p)
      BY <2>1, <3>5 DEF Die, Process
    <3>6. ASSUME NEW s \in Sessions, Observe(p, s) PROVE \E proc \in Process : Set(p, proc)
      BY <2>1, <3>6 DEF Observe, Process, SessionOrNone
    <3> QED  BY <1>15, <3>1, <3>2, <3>3, <3>4, <3>5, <3>6
  <2>3. stored' \subseteq Sessions
    BY <1>15 DEF Report, Confirm, Reject, Block, Die, Observe, TypeOK
  <2> QED  BY <1>14, <2>1, <2>2, <2>3
<1>16. CASE UNCHANGED vars
  BY <1>16 DEF vars, TypeOK, EntryInv
<1> QED
  BY <1>3, <1>4, <1>5, <1>6, <1>7, <1>8, <1>9, <1>10, <1>11, <1>12, <1>13, <1>15, <1>16 DEF Next

\* Every variable keeps its shape.
THEOREM Typed == Spec => []TypeOK
  BY InitSupervised, NextSupervised, PTL DEF Spec

-----------------------------------------------------------------------------
(* What a step may do to an entry, its process and its lock: five shapes   *)
(* that the safety properties are read off.                                *)

\* An agent without an entry gets one.
Begins(a) ==
    /\ children[a] = None
    /\ \E n : /\ Sound(n) /\ ~n.stopping /\ n.reset = None
             /\ Free(a) # {} /\ n.child = NextPid(a)
             /\ children' = [children EXCEPT ![a] = n]
             /\ procs' = [procs EXCEPT ![NextPid(a)] = Launched(n.parsed.resume, n.kind)]
             /\ activeSessions' \subseteq activeSessions \cup ({n.locked} \ {None})
    /\ \E r \in Requests : Answer(r)

\* An entry changes and keeps its process.
Keeps(a) ==
    /\ children[a] # None /\ procs' = procs
    /\ \E n : /\ Sound(n) /\ n.child = children[a].child
             /\ n.stopping \in {children[a].stopping, TRUE}
             /\ children' = [children EXCEPT ![a] = n]
             /\ activeSessions' \subseteq (activeSessions \ {children[a].locked}) \cup ({n.locked} \ {None})
             /\ \/ Mute
                \/ /\ children[a].reset # None /\ n.parsed = children[a].reset.parsed
                   /\ Conclude(children[a].reset.request, "timeout")

\* An entry's process has ended and its exit is handled: that of the entry as it is,
\* or as the reset just commanded has it.
Exits(a) ==
    /\ children[a] # None /\ ~procs[children[a].child].alive
    /\ \E e, rest :
         /\ Sound(e) /\ e.child = children[a].child /\ e.locked = children[a].locked
         /\ e.stopping = children[a].stopping
         /\ rest \in {procs, [procs EXCEPT ![e.child] = None]}
         /\ ExitEffect(a, e, procs[e.child], rest)
         /\ \/ e = children[a]
            \/ children[a].reset = None /\ e.reset # None /\ e.reset.request = used + 1 /\ used' = used + 1

\* Every entry is told to stop.
Halts ==
    /\ children' = [a \in Agents |-> IF children[a] = None THEN None
                                     ELSE [children[a] EXCEPT !.stopping = TRUE]]
    /\ UNCHANGED <<activeSessions, procs>> /\ Mute

\* No entry is concerned: a process ends, works, or is found gone, or a command is
\* put off or refused.
Works ==
    /\ UNCHANGED <<children, activeSessions>>
    /\ \A p \in Pids : procs'[p] # None /\ procs'[p].alive => procs[p] # None /\ procs[p].alive
    /\ \/ UNCHANGED answers
       \/ \E r \in Requests : Answer(r) \/ Conclude(r, "refused")

Shape == Halts \/ Works \/ \E a \in Agents : Begins(a) \/ Keeps(a) \/ Exits(a)

\* #launchSpawn of an agent without an entry.
LEMMA LaunchShape ==
  ASSUME TypeOK, NEW a \in Agents, children[a] = None, NEW parsed \in Parsed,
         NEW locks \in SUBSET Sessions, LaunchSpawn(a, parsed, locks),
         locks \ {parsed.resume} = activeSessions
  PROVE  Begins(a) \/ Works
<1> DEFINE n == [child |-> NextPid(a), parsed |-> parsed, restarts |-> 0, stopping |-> FALSE,
                 restarting |-> FALSE, cycle |-> None, kind |-> None, locked |-> parsed.resume,
                 reset |-> None, timer |-> "off"]
<1>1. parsed.request \in Requests /\ parsed.resume \in SessionOrNone
  BY DEF Parsed
<1>2. CASE /\ Free(a) # {} /\ children' = [children EXCEPT ![a] = n]
           /\ procs' = [procs EXCEPT ![NextPid(a)] = Launched(parsed.resume, None)]
           /\ activeSessions' = locks /\ Answer(parsed.request)
  <2>1. NextPid(a) \in Pids /\ 0 \in 0..MaxRestarts
    BY <1>2, PidFresh, SupervisorAssumption
  <2>2. n \in ChildEntry /\ n.child = NextPid(a) /\ n.locked = parsed.resume /\ n.parsed = parsed
        /\ n.reset = None /\ n.timer = "off" /\ ~n.stopping /\ n.kind = None
    BY <1>1, <2>1 DEF ChildEntry
  <2> HIDE DEF n
  <2>3. Sound(n)
    BY <2>2 DEF Sound, Fitting
  <2>4. activeSessions' \subseteq activeSessions \cup ({n.locked} \ {None})
    BY <1>2, <2>2, SupervisorAssumption
  <2> QED  BY <1>1, <1>2, <2>2, <2>3, <2>4 DEF Begins
<1>3. CASE activeSessions' = locks \ {parsed.resume} /\ Answer(parsed.request) /\ UNCHANGED <<children, procs>>
  BY <1>1, <1>3 DEF Works
<1> QED  BY <1>2, <1>3 DEF LaunchSpawn

\* A reset's signal, or its exit handled at once; e is the entry as it is or as the
\* command has it.
LEMMA TerminateShape ==
  ASSUME TypeOK, EntryInv, NEW a \in Agents, children[a] # None,
         NEW e, Fitting(e), e.reset # None,
         e.child = children[a].child, e.locked = children[a].locked,
         e.stopping = children[a].stopping,
         \/ e = children[a]
         \/ children[a].reset = None /\ e.reset.request = used + 1 /\ used' = used + 1,
         NEW timer \in {"term", "kill"}, TerminateForReset(a, e, timer)
  PROVE  Keeps(a) \/ Exits(a)
<1> DEFINE armed == [e EXCEPT !.timer = timer]
<1>1. /\ Sound(armed) /\ armed.child = e.child /\ armed.reset = e.reset
      /\ armed.locked = e.locked /\ armed.stopping = e.stopping /\ armed.parsed = e.parsed
      /\ armed.restarting = e.restarting /\ armed.cycle = e.cycle /\ armed.kind = e.kind
  BY DEF Sound, Fitting, ChildEntry
<1>2. procs[e.child] \in Process /\ activeSessions \subseteq Sessions
  <2>1. e.child \in Pids /\ procs[e.child] # None
    BY DEF EntryInv, Fitting, ChildEntry
  <2> QED  BY <2>1 DEF TypeOK
<1> HIDE DEF armed
<1>3. CASE children' = [children EXCEPT ![a] = armed] /\ Mute /\ UNCHANGED <<activeSessions, procs>>
  <2>1. activeSessions' \subseteq (activeSessions \ {children[a].locked}) \cup ({armed.locked} \ {None})
    BY <1>1, <1>2, <1>3, SupervisorAssumption
  <2> QED  BY <1>1, <1>3, <2>1 DEF Keeps
<1>4. CASE ~procs[e.child].alive /\ OnExit(a, e, procs[e.child], procs)
  <2>1. ExitEffect(a, e, procs[e.child], procs)
    BY <1>2, <1>4, OnExitEffect DEF TypeOK
  <2>2. ExitEffect(a, armed, procs[e.child], procs)
    BY <1>1, <2>1, SameExit
  <2>3. CASE e = children[a]
    <3>1. Sound(e)
      BY <2>3 DEF EntryInv
    <3> QED  BY <1>4, <2>1, <2>3, <3>1 DEF Exits
  <2>4. CASE children[a].reset = None /\ e.reset.request = used + 1 /\ used' = used + 1
    BY <1>1, <1>4, <2>2, <2>4 DEF Exits
  <2> QED  BY <2>3, <2>4
<1> QED  BY <1>3, <1>4 DEF TerminateForReset, armed

\* Every step has one of the shapes.
LEMMA StepShape == TypeOK /\ EntryInv /\ [Next]_vars => Shape
<1> SUFFICES ASSUME TypeOK, EntryInv, [Next]_vars PROVE Shape
  OBVIOUS
<1>1. \A a \in Agents : children[a] # None =>
         /\ Sound(children[a]) /\ children[a].child \in Pids /\ procs[children[a].child] \in Process
         /\ children[a].locked \in SessionOrNone
  <2> SUFFICES ASSUME NEW a \in Agents, children[a] # None
               PROVE  /\ Sound(children[a]) /\ children[a].child \in Pids
                      /\ procs[children[a].child] \in Process
                      /\ children[a].locked \in SessionOrNone
    OBVIOUS
  <2>1. Sound(children[a]) /\ procs[children[a].child] # None
    BY DEF EntryInv
  <2>2. children[a].child \in Pids /\ children[a].locked \in SessionOrNone
    BY <2>1 DEF Sound, Fitting, ChildEntry
  <2> QED  BY <2>1, <2>2 DEF TypeOK
<1>2. ASSUME UNCHANGED <<children, activeSessions, procs>>,
             Mute \/ \E r \in Requests : Answer(r) \/ Conclude(r, "refused")
      PROVE  Works
  BY <1>2 DEF Works, Mute
<1>3. ASSUME NEW a \in Agents, NEW n, children[a] # None, Sound(n), n.child = children[a].child,
             n.stopping \in {children[a].stopping, TRUE}, children' = [children EXCEPT ![a] = n],
             n.locked = children[a].locked,
             UNCHANGED <<activeSessions, procs>>, Mute
      PROVE  Keeps(a)
  <2>1. activeSessions' \subseteq (activeSessions \ {children[a].locked}) \cup ({n.locked} \ {None})
    BY <1>3, SupervisorAssumption DEF TypeOK
  <2> QED  BY <1>3, <2>1 DEF Keeps
<1>4. ASSUME NEW a \in Agents, NEW r \in Requests, SpawnFresh(a, r) PROVE Shape
  <2>1. [resume |-> None, request |-> r] \in Parsed /\ activeSessions \in SUBSET Sessions
        /\ activeSessions \ {None} = activeSessions
    BY SupervisorAssumption DEF Parsed, SessionOrNone, TypeOK
  <2>2. CASE children[a] = None /\ LaunchSpawn(a, [resume |-> None, request |-> r], activeSessions)
    <3>1. Begins(a) \/ Works
      BY <2>1, <2>2, LaunchShape
    <3> QED  BY <3>1 DEF Shape
  <2>3. CASE Refuse(r)
    BY <1>2, <2>3 DEF Refuse, Shape
  <2> QED  BY <1>4, <2>2, <2>3 DEF SpawnFresh
<1>5. ASSUME NEW a \in Agents, NEW r \in Requests, NEW s \in Sessions, SpawnResume(a, r, s)
      PROVE  Shape
  BY <1>2, <1>5 DEF SpawnResume, Refuse, Shape
<1>6. ASSUME NEW a \in Agents, NEW found \in BOOLEAN, SpawnChecked(a, found) PROVE Shape
  <2> DEFINE c == pendingSpawns[a]
  <2>1. c \in Check /\ c \in Parsed /\ children[a] = None /\ c.request \in Requests
    BY <1>6 DEF SpawnChecked, TypeOK, EntryInv, Check, Parsed, SessionOrNone
  <2>2. CASE c.resume \notin activeSessions /\ LaunchSpawn(a, c, activeSessions \cup {c.resume})
    <3>1. /\ activeSessions \cup {c.resume} \in SUBSET Sessions
          /\ (activeSessions \cup {c.resume}) \ {c.resume} = activeSessions
      BY <2>1, <2>2 DEF TypeOK, Check
    <3>2. Begins(a) \/ Works
      BY <2>1, <2>2, <3>1, LaunchShape
    <3> QED  BY <3>2 DEF Shape
  <2>3. CASE Refuse(c.request)
    BY <1>2, <2>1, <2>3 DEF Refuse, Shape
  <2> QED  BY <1>6, <2>2, <2>3 DEF SpawnChecked
<1>7. ASSUME NEW a \in Agents, Stop(a) PROVE Shape
  <2>1. CASE UNCHANGED children
    BY <1>2, <1>7, <2>1 DEF Stop, Shape
  <2>2. CASE children[a] # None /\ children' = [children EXCEPT ![a].stopping = TRUE]
    <3> DEFINE n == [children[a] EXCEPT !.stopping = TRUE]
    <3>1. Sound(n) /\ n.child = children[a].child /\ n.locked = children[a].locked /\ n.stopping = TRUE
      BY <1>1, <2>2 DEF Sound, Fitting, ChildEntry
    <3>2. children' = [children EXCEPT ![a] = n]
      BY <2>2
    <3> HIDE DEF n
    <3> QED  BY <1>3, <1>7, <2>2, <3>1, <3>2 DEF Stop, Shape
  <2> QED  BY <1>7, <2>1, <2>2 DEF Stop
<1>8. ASSUME StopAll PROVE Shape
  BY <1>8 DEF StopAll, Halts, Shape
<1>9. ASSUME NEW a \in Agents, NEW r \in Requests, Restart(a, r) PROVE Shape
  <2>1. CASE /\ children' = [children EXCEPT ![a].parsed.request = r, ![a].cycle = "restart",
                                            ![a].restarting = TRUE, ![a].restarts = 0]
             /\ Mute /\ UNCHANGED <<activeSessions, procs>>
    <3> DEFINE n == [children[a] EXCEPT !.parsed.request = r, !.cycle = "restart",
                                        !.restarting = TRUE, !.restarts = 0]
    <3>1. Sound(children[a]) /\ (children[a].reset = None \/ children[a].stopping) /\ 0 \in 0..MaxRestarts
      BY <1>1, <1>9, SupervisorAssumption DEF Restart
    <3>2. Sound(n) /\ n.child = children[a].child /\ n.locked = children[a].locked
          /\ n.stopping = children[a].stopping
      BY <3>1 DEF Sound, Fitting, ChildEntry, Parsed
    <3>3. children' = [children EXCEPT ![a] = n]
      BY <1>9, <2>1 DEF Restart, TypeOK
    <3> HIDE DEF n
    <3> QED  BY <1>3, <1>9, <2>1, <3>2, <3>3 DEF Restart, Shape
  <2>2. CASE Refuse(r)
    BY <1>2, <2>2 DEF Refuse, Shape
  <2> QED  BY <1>9, <2>1, <2>2 DEF Restart
<1>10. ASSUME NEW a \in Agents, NEW r \in Requests, NEW s \in Sessions, SwitchSession(a, r, s)
       PROVE  Shape
  BY <1>2, <1>10 DEF SwitchSession, Shape
<1>11. ASSUME NEW a \in Agents, NEW found \in BOOLEAN, SwitchChecked(a, found) PROVE Shape
  <2> DEFINE s == pendingSwitches[a].resume
             r == pendingSwitches[a].request
             e == children[a]
  <2>1. /\ children[a] # None /\ Sound(e) /\ e.reset = None
        /\ s \in Sessions /\ r \in Requests
    BY <1>11 DEF SwitchChecked, TypeOK, EntryInv, Check
  <2> HIDE DEF s, r
  <2>2. CASE Mute /\ UNCHANGED <<children, activeSessions, procs>>
    BY <1>2, <2>2 DEF Shape
  <2>3. CASE Refuse(r)
    BY <1>2, <2>1, <2>3 DEF Refuse, Shape
  <2> DEFINE n == [e EXCEPT !.parsed = [resume |-> s, request |-> r], !.locked = s,
                            !.cycle = "switch", !.kind = None, !.restarting = TRUE,
                            !.restarts = 0]
  <2>4. CASE /\ activeSessions' = (activeSessions \ {e.locked}) \cup {s}
             /\ ~e.stopping /\ children' = [children EXCEPT ![a] = n]
             /\ Mute /\ UNCHANGED <<procs>>
    <3>1. 0 \in 0..MaxRestarts /\ [resume |-> s, request |-> r] \in Parsed /\ s \in SessionOrNone
      BY <2>1, SupervisorAssumption DEF SessionOrNone, Parsed
    <3>2. n \in ChildEntry /\ n.child = e.child /\ n.reset = None /\ n.timer = e.timer
          /\ n.locked = s /\ n.parsed.resume = s /\ n.stopping = e.stopping
      BY <2>1, <3>1 DEF Sound, Fitting, ChildEntry
    <3>3. Sound(n)
      BY <2>1, <3>2 DEF Sound, Fitting
    <3> HIDE DEF n
    <3>4. Keeps(a)
      BY <2>1, <2>4, <3>2, <3>3, SupervisorAssumption DEF Keeps
    <3> QED  BY <3>4 DEF Shape
  <2> QED  BY <1>11, <2>2, <2>3, <2>4 DEF SwitchChecked, s, r
<1>12. ASSUME NEW a \in Agents, NEW r \in Requests, ResetSession(a, r) PROVE Shape
  <2> DEFINE e == children[a]
             n == [e EXCEPT !.reset = [request |-> r, previous |-> Reported(a), parsed |-> e.parsed],
                            !.parsed = [resume |-> None, request |-> r],
                            !.restarting = TRUE, !.restarts = 0]
  <2>1. CASE Conclude(r, "refused") /\ UNCHANGED <<children, activeSessions, procs>>
    BY <1>2, <2>1 DEF Shape
  <2>2. CASE TerminateForReset(a, n, "term")
    <3>1. Sound(e) /\ e.reset = None /\ children[a] # None /\ r = used + 1 /\ used' = used + 1
      BY <1>1, <1>12 DEF ResetSession, Command
    <3>2. Reported(a) \in SessionOrNone
      BY <1>1, <3>1 DEF Reported, Process
    <3>3. [request |-> r, previous |-> Reported(a), parsed |-> e.parsed] \in PendingReset
          /\ [resume |-> None, request |-> r] \in Parsed /\ 0 \in 0..MaxRestarts
      BY <3>1, <3>2, SupervisorAssumption DEF PendingReset, Parsed, SessionOrNone, Sound, Fitting, ChildEntry
    <3>4. Fitting(n) /\ n.reset # None /\ n.child = e.child /\ n.locked = e.locked
          /\ n.stopping = e.stopping /\ n.reset.request = r /\ n.timer = "off"
      BY <3>1, <3>3, NoneAssumption DEF Sound, Fitting, ChildEntry
    <3> HIDE DEF n
    <3>5. Keeps(a) \/ Exits(a)
      BY <2>2, <3>1, <3>4, TerminateShape
    <3> QED  BY <3>5 DEF Shape
  <2> QED  BY <1>12, <2>1, <2>2 DEF ResetSession, RefuseReset
<1>13. ASSUME NEW a \in Agents, ResetTimer(a) PROVE Shape
  <2> DEFINE e == children[a]
  <2>1. children[a] # None /\ Sound(e) /\ e.reset # None /\ e.reset \in PendingReset
    BY <1>1, <1>13 DEF ResetTimer, Sound, Fitting, ChildEntry
  <2>2. CASE TerminateForReset(a, e, "kill")
    <3>1. Keeps(a) \/ Exits(a)
      BY <2>1, <2>2, TerminateShape DEF Sound
    <3> QED  BY <3>1 DEF Shape
  <2>3. CASE FailResetTermination(a, e)
    <3> DEFINE n == [e EXCEPT !.parsed = e.reset.parsed, !.restarting = FALSE, !.reset = None,
                              !.timer = "off"]
    <3>1. Sound(n) /\ n.child = e.child /\ n.locked = e.locked /\ n.stopping = e.stopping
          /\ n.parsed = e.reset.parsed
      BY <2>1 DEF Sound, Fitting, ChildEntry, PendingReset
    <3> HIDE DEF n
    <3>2. children' = [children EXCEPT ![a] = n] /\ UNCHANGED <<activeSessions, procs>>
          /\ Conclude(e.reset.request, "timeout")
      BY <2>3 DEF FailResetTermination, n
    <3>3. activeSessions' \subseteq (activeSessions \ {e.locked}) \cup ({n.locked} \ {None})
      BY <3>1, <3>2, SupervisorAssumption DEF TypeOK
    <3>4. Keeps(a)
      BY <2>1, <3>1, <3>2, <3>3 DEF Keeps
    <3> QED  BY <3>4 DEF Shape
  <2> QED  BY <1>13, <2>2, <2>3 DEF ResetTimer
<1>14. ASSUME NEW p \in Pids, ChildExit(p) PROVE Shape
  <2> DEFINE a == p[1]
             rest == [procs EXCEPT ![p] = None]
  <2>1. a \in Agents /\ procs[p] # None /\ ~procs[p].alive /\ procs[p] \in Process
    BY <1>14 DEF ChildExit, TypeOK, Pids
  <2>2. CASE children[a] # None /\ children[a].child = p /\ OnExit(a, children[a], procs[p], rest)
    <3>1. ExitEffect(a, children[a], procs[p], rest)
      BY <1>1, <2>1, <2>2, OnExitEffect DEF Sound, TypeOK
    <3>2. Exits(a)
      BY <1>1, <2>1, <2>2, <3>1 DEF Exits
    <3> QED  BY <2>1, <3>2 DEF Shape
  <2>3. CASE procs' = rest /\ Mute /\ UNCHANGED <<children, activeSessions>>
    <3>1. \A q \in Pids : procs'[q] # None => procs'[q] = procs[q]
      BY <2>3 DEF TypeOK
    <3> QED  BY <2>3, <3>1 DEF Works, Mute, Shape
  <2> QED  BY <1>14, <2>2, <2>3 DEF ChildExit
<1>15. ASSUME NEW p \in Pids, \/ Report(p) \/ Confirm(p) \/ Reject(p) \/ Block(p) \/ Die(p)
                               \/ \E s \in Sessions : Observe(p, s)
       PROVE  Shape
  <2>1. procs[p] # None /\ procs[p] \in Process /\ procs[p].alive
    BY <1>15 DEF Report, Confirm, Reject, Block, Die, Observe, Writing, TypeOK
  <2>2. PICK proc : Set(p, proc)
    BY <1>15 DEF Report, Confirm, Reject, Block, Die, Observe
  <2>3. \A q \in Pids \ {p} : procs'[q] = procs[q]
    BY <2>2 DEF Set, TypeOK
  <2> QED  BY <2>1, <2>2, <2>3 DEF Set, Works, Mute, Shape
<1>16. CASE UNCHANGED vars
  BY <1>16 DEF vars, Works, Shape
<1> QED
  BY <1>4, <1>5, <1>6, <1>7, <1>8, <1>9, <1>10, <1>11, <1>12, <1>13, <1>14, <1>15, <1>16 DEF Next

-----------------------------------------------------------------------------
(* One wrapper, no leaked lock, resets armed, stops final.                 *)

\* What an exit's effect leaves: the entry is gone, or has a new process.
LEMMA ExitLeaves ==
  ASSUME TypeOK, NEW a \in Agents, NEW e, NEW rest, NEW proc, ExitEffect(a, e, proc, rest)
  PROVE  /\ \A b \in Agents \ {a} : children'[b] = children[b]
         /\ \/ children'[a] = None /\ Gone(a, e, rest)
            \/ \E n : ~e.stopping /\ children'[a] = n /\ Renewed(a, e, n, rest)
  BY DEF ExitEffect, Gone, Renewed, TypeOK

\* A living process stays the one its agent's entry has: entries are started and given
\* a process only where there is none that lives, and keep it otherwise.
LEMMA OneWrapperStep ==
  ASSUME TypeOK, EntryInv, OneWrapper, Shape
  PROVE  OneWrapper'
<1> SUFFICES ASSUME NEW p \in Pids, procs'[p] # None, procs'[p].alive
             PROVE  children'[p[1]] # None /\ children'[p[1]].child = p
  BY DEF OneWrapper
<1> DEFINE a == p[1]
<1>1. a \in Agents
  BY DEF Pids
<1>2. procs[p] # None /\ procs[p].alive => children[a] # None /\ children[a].child = p
  BY DEF OneWrapper
<1>3. CASE Halts
  <2>1. Sound(children[a]) /\ children[a].child = p
    BY <1>1, <1>2, <1>3 DEF Halts, EntryInv
  <2>2. [children[a] EXCEPT !.stopping = TRUE] \in ChildEntry
        /\ [children[a] EXCEPT !.stopping = TRUE].child = p
    BY <2>1 DEF Sound, Fitting, ChildEntry
  <2> QED  BY <1>1, <1>2, <1>3, <2>2, NoneAssumption DEF Halts
<1>4. CASE Works
  BY <1>2, <1>4 DEF Works
<1>5. ASSUME NEW b \in Agents, Begins(b) PROVE children'[a] # None /\ children'[a].child = p
  <2>1. PICK n : /\ Sound(n) /\ Free(b) # {} /\ n.child = NextPid(b)
                 /\ children' = [children EXCEPT ![b] = n]
                 /\ procs' = [procs EXCEPT ![NextPid(b)] = Launched(n.parsed.resume, n.kind)]
    BY <1>5 DEF Begins
  <2>2. NextPid(b) \in Pids /\ NextPid(b)[1] = b /\ n # None
    BY <2>1, PidFresh, NoneAssumption DEF Sound, Fitting
  <2>3. children[b] = None
    BY <1>5 DEF Begins
  <2> QED  BY <1>1, <1>2, <2>1, <2>2, <2>3 DEF TypeOK
<1>6. ASSUME NEW b \in Agents, Keeps(b) PROVE children'[a] # None /\ children'[a].child = p
  <2>1. PICK n : Sound(n) /\ n.child = children[b].child /\ children' = [children EXCEPT ![b] = n]
    BY <1>6 DEF Keeps
  <2>2. n # None /\ procs' = procs
    BY <1>6, <2>1, NoneAssumption DEF Keeps, Sound, Fitting
  <2> QED  BY <1>1, <1>2, <2>1, <2>2 DEF TypeOK
<1>7. ASSUME NEW b \in Agents, Exits(b) PROVE children'[a] # None /\ children'[a].child = p
  <2>1. PICK e, rest : /\ e.child = children[b].child
                       /\ rest \in {procs, [procs EXCEPT ![e.child] = None]}
                       /\ ExitEffect(b, e, procs[e.child], rest)
    BY <1>7 DEF Exits
  <2>2. children[b] # None /\ ~procs[children[b].child].alive
    BY <1>7 DEF Exits
  <2>3. rest[p] # None /\ rest[p].alive => procs[p] # None /\ procs[p].alive /\ a # b
    BY <1>2, <2>1, <2>2 DEF TypeOK
  <2>4. CASE Gone(b, e, rest)
    BY <1>1, <1>2, <2>3, <2>4 DEF Gone, TypeOK
  <2>5. ASSUME NEW n, Renewed(b, e, n, rest) PROVE children'[a] # None /\ children'[a].child = p
    <3>1. NextPid(b) \in Pids /\ NextPid(b)[1] = b /\ n # None
      BY <2>5, PidFresh, NoneAssumption DEF Renewed, Sound, Fitting
    <3>2. n.child = NextPid(b) /\ children'[b] = n
      BY <2>5 DEF Renewed, TypeOK
    <3>3. p = NextPid(b) \/ procs'[p] = rest[p]
      BY <2>1, <2>5, <3>1 DEF Renewed, TypeOK
    <3>4. CASE p = NextPid(b)
      BY <3>1, <3>2, <3>4
    <3>5. CASE procs'[p] = rest[p]
      BY <1>1, <1>2, <2>3, <2>5, <3>5 DEF Renewed, TypeOK
    <3> QED  BY <3>3, <3>4, <3>5
  <2> QED  BY <2>1, <2>4, <2>5 DEF ExitEffect
<1> QED  BY <1>3, <1>4, <1>5, <1>6, <1>7 DEF Shape

\* A lock moves with the entry that holds it and goes when its entry does.
LEMMA NoLockLeaksStep ==
  ASSUME TypeOK, EntryInv, NoLockLeaks, Shape
  PROVE  NoLockLeaks'
<1> SUFFICES ASSUME NEW s \in activeSessions'
             PROVE  \E a \in Agents : children'[a] # None /\ children'[a].locked = s
  BY DEF NoLockLeaks
<1>1. s \in activeSessions => \E a \in Agents : children[a] # None /\ children[a].locked = s
  BY DEF NoLockLeaks
<1>2. CASE Halts
  <2>1. PICK a \in Agents : children[a] # None /\ children[a].locked = s
    BY <1>1, <1>2 DEF Halts
  <2>2. Sound(children[a])
    BY <2>1 DEF EntryInv
  <2>3. [children[a] EXCEPT !.stopping = TRUE] \in ChildEntry
        /\ [children[a] EXCEPT !.stopping = TRUE].locked = s
    BY <2>1, <2>2 DEF Sound, Fitting, ChildEntry
  <2> QED  BY <1>2, <2>1, <2>3, NoneAssumption DEF Halts
<1>3. CASE Works
  BY <1>1, <1>3 DEF Works
<1>4. ASSUME NEW b \in Agents, NEW n, n # None, children' = [children EXCEPT ![b] = n],
             \/ s = n.locked
             \/ s \in activeSessions /\ (children[b] # None => s # children[b].locked)
      PROVE  \E a \in Agents : children'[a] # None /\ children'[a].locked = s
  BY <1>1, <1>4 DEF TypeOK
<1>5. ASSUME NEW b \in Agents, Begins(b)
      PROVE  \E a \in Agents : children'[a] # None /\ children'[a].locked = s
  BY <1>4, <1>5, NoneAssumption DEF Begins, Sound, Fitting
<1>6. ASSUME NEW b \in Agents, Keeps(b)
      PROVE  \E a \in Agents : children'[a] # None /\ children'[a].locked = s
  BY <1>4, <1>6, NoneAssumption DEF Keeps, Sound, Fitting
<1>7. ASSUME NEW b \in Agents, Exits(b)
      PROVE  \E a \in Agents : children'[a] # None /\ children'[a].locked = s
  <2>1. PICK e, rest : e.locked = children[b].locked /\ ExitEffect(b, e, procs[e.child], rest)
    BY <1>7 DEF Exits
  <2>2. CASE Gone(b, e, rest)
    BY <1>1, <2>1, <2>2 DEF Gone, TypeOK
  <2>3. ASSUME NEW n, Renewed(b, e, n, rest)
        PROVE  \E a \in Agents : children'[a] # None /\ children'[a].locked = s
    BY <1>4, <2>1, <2>3, NoneAssumption DEF Renewed, Sound, Fitting
  <2> QED  BY <2>1, <2>2, <2>3 DEF ExitEffect
<1> QED  BY <1>2, <1>3, <1>5, <1>6, <1>7 DEF Shape

\* Of a stopping entry nothing is left but itself or nothing.
StaysStopped ==
    \A a \in Agents : children[a] # None /\ children[a].stopping /\ children'[a] # None =>
        children'[a].stopping /\ children'[a].child = children[a].child

\* No shape gives a stopping entry a process or clears its stop.
LEMMA StopStep ==
  ASSUME TypeOK, EntryInv, Shape
  PROVE  StaysStopped
<1> SUFFICES ASSUME NEW a \in Agents, children[a] # None, children[a].stopping, children'[a] # None
             PROVE  children'[a].stopping /\ children'[a].child = children[a].child
  BY DEF StaysStopped
<1>1. CASE Halts
  <2>1. Sound(children[a])
    BY DEF EntryInv
  <2> QED  BY <1>1, <2>1 DEF Halts, Sound, Fitting, ChildEntry
<1>2. CASE Works
  BY <1>2 DEF Works
<1>3. ASSUME NEW b \in Agents, Begins(b)
      PROVE  children'[a].stopping /\ children'[a].child = children[a].child
  BY <1>3 DEF Begins, TypeOK
<1>4. ASSUME NEW b \in Agents, Keeps(b)
      PROVE  children'[a].stopping /\ children'[a].child = children[a].child
  BY <1>4 DEF Keeps, TypeOK
<1>5. ASSUME NEW b \in Agents, Exits(b)
      PROVE  children'[a].stopping /\ children'[a].child = children[a].child
  <2>1. PICK e, rest : e.stopping = children[b].stopping /\ ExitEffect(b, e, procs[e.child], rest)
    BY <1>5 DEF Exits
  <2> QED  BY <2>1, ExitLeaves
<1> QED  BY <1>1, <1>2, <1>3, <1>4, <1>5 DEF Shape

\* The supervisor's invariant.
SupervisorInv == EntryInv /\ OneWrapper /\ NoLockLeaks

\* It holds of the runner at its start.
LEMMA InitSupervisor == Init => TypeOK /\ SupervisorInv
  BY InitSupervised DEF Init, SupervisorInv, OneWrapper, NoLockLeaks

\* Every step keeps it: by its types, or by its shape.
LEMMA NextSupervisor == TypeOK /\ SupervisorInv /\ [Next]_vars => (TypeOK /\ SupervisorInv)'
  BY NextSupervised, StepShape, OneWrapperStep, NoLockLeaksStep DEF SupervisorInv

\* Every session locked against a second resume is the one that the entry of some agent
\* releases when it is removed: no spawn, switch, reset, rollback or crash leaks a lock.
THEOREM NoLockLeaked == Spec => []NoLockLeaks
<1>1. SupervisorInv => NoLockLeaks
  BY DEF SupervisorInv
<1> QED  BY <1>1, InitSupervisor, NextSupervisor, PTL DEF Spec

\* A living wrapper process is always the one its agent's entry has: the supervisor
\* neither replaces a process that has not ended nor loses sight of one.
THEOREM NeverTwoWrappers == Spec => []OneWrapper
<1>1. SupervisorInv => OneWrapper
  BY DEF SupervisorInv
<1> QED  BY <1>1, InitSupervisor, NextSupervisor, PTL DEF Spec

\* A reset is never pending without a termination timer, so that a process that ignores
\* its signals cannot hold it for longer than the grace periods.
THEOREM ResetsAreArmed == Spec => []ResetArmed
<1>1. SupervisorInv => ResetArmed
  BY DEF SupervisorInv, EntryInv, Sound, ResetArmed
<1> QED  BY <1>1, InitSupervisor, NextSupervisor, PTL DEF Spec

\* An agent told to stop gets no further process: every step leaves its entry stopping and
\* with the process it has, or removes it.
THEOREM StopsAreFinal == Spec => StopIsFinal
<1>1. TypeOK /\ SupervisorInv /\ [Next]_vars => [StaysStopped]_vars
  BY StepShape, StopStep DEF SupervisorInv
<1> QED  BY <1>1, InitSupervisor, NextSupervisor, PTL DEF Spec, StopIsFinal, StaysStopped

\* A wrapper that was live comes back in its session: the action of SessionSurvives.
ComesBack ==
    \A a \in Agents :
        LET e == children[a]
            new == children'[a]
        IN /\ e # None /\ e.reset = None /\ ~(e.restarting /\ e.cycle = "switch")
           /\ procs[e.child].state = "live"
           /\ new # None /\ new.child # e.child /\ used' = used
           => procs'[new.child].resume = procs[e.child].id

\* Only a handled exit replaces the process of an entry without a new command, and it
\* takes the session from the checkpoint of the process that ended.
LEMMA SurviveStep ==
  ASSUME TypeOK, EntryInv, Shape
  PROVE  ComesBack
<1> SUFFICES ASSUME NEW a \in Agents, children[a] # None, children[a].reset = None,
                    ~(children[a].restarting /\ children[a].cycle = "switch"),
                    procs[children[a].child].state = "live",
                    children'[a] # None, children'[a].child # children[a].child, used' = used
             PROVE  procs'[children'[a].child].resume = procs[children[a].child].id
  BY DEF ComesBack
<1>1. ~Halts
  <2>1. Sound(children[a])
    BY DEF EntryInv
  <2> QED  BY <2>1 DEF Halts, Sound, Fitting, ChildEntry
<1>2. ~Works
  BY DEF Works
<1>3. \A b \in Agents : ~Begins(b)
  BY DEF Begins, TypeOK
<1>4. \A b \in Agents : ~Keeps(b)
  BY DEF Keeps, TypeOK
<1>5. PICK b \in Agents : Exits(b)
  BY <1>1, <1>2, <1>3, <1>4 DEF Shape
<1>6. PICK e, rest : /\ ExitEffect(b, e, procs[e.child], rest)
                     /\ rest \in {procs, [procs EXCEPT ![e.child] = None]}
                     /\ e = children[b] \/ used' = used + 1
  BY <1>5 DEF Exits
<1>7. b = a /\ e = children[a]
  <2>1. used' # used + 1
    BY DEF TypeOK
  <2> QED  BY <1>6, <2>1, ExitLeaves
<1>8. PICK n : Renewed(a, e, n, rest) /\ n.parsed.resume = Target(e, procs[e.child])
  BY <1>6, <1>7 DEF ExitEffect, Gone, TypeOK
<1>9. NextPid(a) \in Pids /\ children'[a] = n /\ n.child = NextPid(a)
  BY <1>8, PidFresh DEF Renewed, TypeOK
<1>10. procs'[NextPid(a)] = Launched(n.parsed.resume, n.kind)
  BY <1>6, <1>8, <1>9 DEF Renewed, TypeOK
<1>11. Target(e, procs[e.child]) = procs[e.child].id
  BY <1>7 DEF Target
<1> QED  BY <1>7, <1>8, <1>9, <1>10, <1>11 DEF Launched

\* A wrapper that was live in a session and ends without having been asked to leave it is
\* restarted in that session or not at all.
THEOREM SessionsSurvive == Spec => SessionSurvives
<1>1. TypeOK /\ SupervisorInv /\ [Next]_vars => [ComesBack]_vars
  BY StepShape, SurviveStep DEF SupervisorInv
<1> QED  BY <1>1, InitSupervisor, NextSupervisor, PTL DEF Spec, SessionSurvives, ComesBack

-----------------------------------------------------------------------------
(* One result per request.  A request whose result is still to be sent is  *)
(* held at one place: by a look-up of its agent, or by the entry whose     *)
(* cycle or reset is under way.                                            *)

Places == {"spawn", "switch", "cycle"}

Holds(a, k, r) ==
    \/ k = "spawn" /\ pendingSpawns[a] # None /\ pendingSpawns[a].request = r
    \/ k = "switch" /\ pendingSwitches[a] # None /\ pendingSwitches[a].request = r
    \/ /\ k = "cycle" /\ children[a] # None
       /\ \/ children[a].reset # None /\ children[a].reset.request = r
          \/ children[a].reset = None /\ children[a].restarting /\ children[a].parsed.request = r

\* A request held was given out and is not answered, and held nowhere else; one
\* that was not given out is not answered; none is answered twice.
AnswerInv ==
    \A r \in Requests :
        /\ answers[r] <= 1
        /\ r > used => answers[r] = 0
        /\ \A a \in Agents, k \in Places : Holds(a, k, r) =>
              /\ r <= used /\ answers[r] = 0
              /\ \A b \in Agents, j \in Places : Holds(b, j, r) => a = b /\ k = j

\* The requests that a step leaves held, but for the one at place k of agent a, were
\* held there before.
HeldBefore(a, k) ==
    \A b \in Agents, j \in Places, r \in Requests :
        Holds(b, j, r)' => (b = a /\ j = k) \/ Holds(b, j, r)

\* Nothing is held at place k of agent a after the step.
Released(a, k) == \A r \in Requests : ~Holds(a, k, r)'

Sent(q) == answers' = [answers EXCEPT ![q] = @ + 1]

\* A step that answers nothing and takes up nothing.
LEMMA QuietKeeps ==
  ASSUME TypeOK, AnswerInv, UNCHANGED answers, used' \in {used, used + 1},
         \A b \in Agents, j \in Places, r \in Requests : Holds(b, j, r)' => Holds(b, j, r)
  PROVE  AnswerInv'
  BY DEF AnswerInv, TypeOK, Requests

\* A step that takes up the next request.
LEMMA TakeUpKeeps ==
  ASSUME TypeOK, AnswerInv, UNCHANGED answers, NEW q \in Requests, q = used + 1, used' = q,
         NEW a \in Agents, NEW k \in Places, HeldBefore(a, k),
         \A r \in Requests : Holds(a, k, r)' => r = q
  PROVE  AnswerInv'
  BY DEF AnswerInv, TypeOK, Requests, HeldBefore

\* A step that answers the next request at once.
LEMMA AtOnceKeeps ==
  ASSUME TypeOK, AnswerInv, NEW q \in Requests, Sent(q), q = used + 1, used' = q,
         \A b \in Agents, j \in Places, r \in Requests : Holds(b, j, r)' => Holds(b, j, r)
  PROVE  AnswerInv'
  BY DEF AnswerInv, TypeOK, Requests, Sent

\* A step that answers a held request and lets it go.
LEMMA ReleaseKeeps ==
  ASSUME TypeOK, AnswerInv, NEW q \in Requests, Sent(q), UNCHANGED used,
         NEW a \in Agents, NEW k \in Places, Holds(a, k, q), HeldBefore(a, k), Released(a, k)
  PROVE  AnswerInv'
  BY DEF AnswerInv, TypeOK, Requests, HeldBefore, Released, Sent

\* A step that hands a request from one place to another.
LEMMA HandOverKeeps ==
  ASSUME TypeOK, AnswerInv, UNCHANGED <<answers, used>>, NEW a \in Agents,
         NEW k \in Places, NEW l \in Places, NEW q \in Requests, Holds(a, k, q),
         \A b \in Agents, j \in Places, r \in Requests :
             Holds(b, j, r)' => IF b = a /\ j = l THEN r = q
                                ELSE Holds(b, j, r) /\ ~(b = a /\ j = k)
  PROVE  AnswerInv'
  BY DEF AnswerInv, TypeOK, Requests

\* At the start no request was given out.
LEMMA InitAnswers == Init => AnswerInv
  BY DEF Init, AnswerInv, Holds, Requests

\* A step that looks up nothing new and changes at most the entry of agent a takes
\* up nothing but at a's cycle.
LEMMA CycleOnly ==
  ASSUME TypeOK, NEW a \in Agents,
         \A b \in Agents : pendingSpawns'[b] \in {pendingSpawns[b], None},
         \A b \in Agents : pendingSwitches'[b] \in {pendingSwitches[b], None},
         \A b \in Agents \ {a} : children'[b] = children[b]
  PROVE  HeldBefore(a, "cycle")
  BY DEF HeldBefore, Holds, Places

\* A handled exit: the request of the cycle or reset is answered, or left to the new
\* process, and no longer held.
LEMMA ExitAnswers ==
  ASSUME TypeOK, AnswerInv, NEW a \in Agents, NEW e, children[a] # None, Fitting(e),
         NEW rest, NEW proc, ExitEffect(a, e, proc, rest),
         \A b \in Agents : pendingSpawns'[b] \in {pendingSpawns[b], None},
         \A b \in Agents : pendingSwitches'[b] \in {pendingSwitches[b], None},
         \/ e = children[a] /\ used' = used
         \/ e.reset # None /\ e.reset.request = used + 1 /\ used' = used + 1
  PROVE  AnswerInv'
<1>1. /\ e.parsed.request \in Requests
      /\ e.reset # None => e.reset.request \in Requests
  BY DEF Fitting, ChildEntry, Parsed, PendingReset
<1>2. \A b \in Agents \ {a} : children'[b] = children[b]
  BY DEF ExitEffect, Gone, Renewed, TypeOK
<1>3. HeldBefore(a, "cycle")
  BY <1>2, CycleOnly
<1>4. Released(a, "cycle")
  <2>1. children'[a] = None \/ (children'[a].restarting = FALSE /\ children'[a].reset = None)
    <3>1. Gone(a, e, rest) => children'[a] = None
      BY DEF Gone, TypeOK
    <3>2. ASSUME NEW n, Renewed(a, e, n, rest)
          PROVE  children'[a].restarting = FALSE /\ children'[a].reset = None
      <4>1. n.restarting = FALSE /\ n.reset = None
        BY <3>2 DEF Renewed, Sound, Fitting, ChildEntry
      <4> QED  BY <3>2, <4>1 DEF Renewed, TypeOK
    <3> QED  BY <3>1, <3>2 DEF ExitEffect
  <2> QED  BY <2>1 DEF Released, Holds
<1>5. \A b \in Agents, j \in Places, r \in Requests : Holds(b, j, r)' => Holds(b, j, r)
  BY <1>3, <1>4 DEF HeldBefore, Released
<1>6. CASE Mute
  BY <1>5, <1>6, QuietKeeps DEF Mute
<1>7. ASSUME NEW q \in Requests, Sent(q), q = used + 1, used' = used + 1 PROVE AnswerInv'
  BY <1>5, <1>7, AtOnceKeeps
<1>8. ASSUME NEW q \in Requests, Sent(q), used' = used, Holds(a, "cycle", q) PROVE AnswerInv'
  BY <1>3, <1>4, <1>8, ReleaseKeeps DEF Places
<1>9. CASE e.reset = None /\ e.restarting /\ Answer(e.parsed.request)
  <2>1. e = children[a] /\ used' = used
    BY <1>9
  <2>2. Holds(a, "cycle", e.parsed.request)
    BY <1>9, <2>1 DEF Holds
  <2> QED  BY <1>1, <1>8, <1>9, <2>1, <2>2 DEF Answer, Sent
<1>10. ASSUME e.reset # None, NEW v, Conclude(e.reset.request, v) PROVE AnswerInv'
  <2>1. CASE e = children[a] /\ used' = used
    <3>1. Holds(a, "cycle", e.reset.request)
      BY <1>10, <2>1 DEF Holds
    <3> QED  BY <1>1, <1>8, <1>10, <2>1, <3>1 DEF Conclude, Sent
  <2>2. CASE e.reset.request = used + 1 /\ used' = used + 1
    BY <1>1, <1>7, <1>10, <2>2 DEF Conclude, Sent
  <2> QED  BY <2>1, <2>2
<1> QED  BY <1>6, <1>9, <1>10 DEF ExitEffect

\* #launchSpawn and the refusal of a spawn answer at once, or the look-up they end.
LEMMA LaunchAnswers ==
  ASSUME TypeOK, NEW a \in Agents, NEW parsed,
         NEW locks, LaunchSpawn(a, parsed, locks) \/ Refuse(parsed.request)
  PROVE  /\ Sent(parsed.request)
         /\ \A b \in Agents, r \in Requests : Holds(b, "cycle", r)' => Holds(b, "cycle", r)
<1>1. Sent(parsed.request)
  BY DEF LaunchSpawn, Refuse, Answer, Sent
<1>2. CASE UNCHANGED children
  BY <1>1, <1>2 DEF Holds
<1>3. CASE children' = [children EXCEPT ![a] =
            [child |-> NextPid(a), parsed |-> parsed, restarts |-> 0, stopping |-> FALSE,
             restarting |-> FALSE, cycle |-> None, kind |-> None, locked |-> parsed.resume,
             reset |-> None, timer |-> "off"]]
  BY <1>1, <1>3 DEF Holds, TypeOK
<1> QED  BY <1>2, <1>3 DEF LaunchSpawn, Refuse

\* AnswerInv is kept by every step: each is quiet, takes up the next request, answers it
\* at once, answers one that is held, or hands one over.
LEMMA NextAnswers == TypeOK /\ EntryInv /\ AnswerInv /\ [Next]_vars => AnswerInv'
<1> SUFFICES ASSUME TypeOK, EntryInv, AnswerInv, [Next]_vars PROVE AnswerInv'
  OBVIOUS
<1> DEFINE Dropped ==
      /\ \A b \in Agents : pendingSpawns'[b] \in {pendingSpawns[b], None}
      /\ \A b \in Agents : pendingSwitches'[b] \in {pendingSwitches[b], None}
<1>1. ASSUME NEW a \in Agents, \A b \in Agents \ {a} : children'[b] = children[b], Dropped
      PROVE  HeldBefore(a, "cycle")
  BY <1>1, CycleOnly
<1>2. ASSUME Dropped, UNCHANGED children
      PROVE  \A b \in Agents, j \in Places, r \in Requests : Holds(b, j, r)' => Holds(b, j, r)
  BY <1>2 DEF Holds, Places
<1>3. ASSUME NEW r \in Requests, Command(r) PROVE r = used + 1 /\ used' = r
  BY <1>3 DEF Command
<1>4. ASSUME NEW a \in Agents, NEW r \in Requests, SpawnFresh(a, r) PROVE AnswerInv'
  <2>1. Sent(r) /\ \A b \in Agents, q \in Requests : Holds(b, "cycle", q)' => Holds(b, "cycle", q)
    <3> DEFINE parsed == [resume |-> None, request |-> r]
    <3>1. parsed.request = r
      OBVIOUS
    <3>2. LaunchSpawn(a, parsed, activeSessions) \/ Refuse(parsed.request)
      BY <1>4 DEF SpawnFresh
    <3> HIDE DEF parsed
    <3> QED  BY <3>1, <3>2, LaunchAnswers
  <2>2. \A b \in Agents, j \in Places, q \in Requests : Holds(b, j, q)' => Holds(b, j, q)
    BY <1>4, <2>1 DEF SpawnFresh, Holds, Places
  <2> QED  BY <1>3, <1>4, <2>1, <2>2, AtOnceKeeps DEF SpawnFresh
<1>5. ASSUME NEW a \in Agents, NEW r \in Requests, NEW s \in Sessions, SpawnResume(a, r, s)
      PROVE  AnswerInv'
  <2>1. CASE pendingSpawns' = [pendingSpawns EXCEPT ![a] = [resume |-> s, request |-> r]]
             /\ Mute /\ UNCHANGED <<children, activeSessions, procs>>
    <3>1. HeldBefore(a, "spawn")
      BY <1>5, <2>1 DEF SpawnResume, HeldBefore, Holds, Places, TypeOK
    <3>2. \A q \in Requests : Holds(a, "spawn", q)' => q = r
      BY <2>1 DEF Holds, TypeOK
    <3> QED  BY <1>3, <1>5, <2>1, <3>1, <3>2, TakeUpKeeps DEF SpawnResume, Mute, Places
  <2>2. CASE Refuse(r) /\ UNCHANGED pendingSpawns
    BY <1>2, <1>3, <1>5, <2>2, AtOnceKeeps DEF SpawnResume, Refuse, Answer, Sent
  <2> QED  BY <1>5, <2>1, <2>2 DEF SpawnResume
<1>6. ASSUME NEW a \in Agents, NEW found \in BOOLEAN, SpawnChecked(a, found) PROVE AnswerInv'
  <2> DEFINE c == pendingSpawns[a]
  <2>1. c # None /\ c.request \in Requests /\ Holds(a, "spawn", c.request)
    BY <1>6 DEF SpawnChecked, TypeOK, Check, Holds
  <2>2. /\ Sent(c.request)
        /\ \A b \in Agents, q \in Requests : Holds(b, "cycle", q)' => Holds(b, "cycle", q)
    BY <1>6, LaunchAnswers DEF SpawnChecked
  <2>3. HeldBefore(a, "spawn") /\ Released(a, "spawn")
    BY <1>6, <2>2 DEF SpawnChecked, HeldBefore, Released, Holds, Places, TypeOK
  <2> QED  BY <1>6, <2>1, <2>2, <2>3, ReleaseKeeps DEF SpawnChecked, Places
<1>7. ASSUME NEW a \in Agents, Stop(a) PROVE AnswerInv'
  <2>1. Dropped
    BY <1>7 DEF Stop, TypeOK
  <2>2. CASE UNCHANGED children
    BY <1>2, <1>7, <2>1, <2>2, QuietKeeps DEF Stop, Mute
  <2>3. CASE children[a] # None /\ children' = [children EXCEPT ![a].stopping = TRUE]
    <3> DEFINE n == [children[a] EXCEPT !.stopping = TRUE]
    <3>1. children[a] \in ChildEntry
      BY <2>3 DEF TypeOK
    <3>2. n.reset = children[a].reset /\ n.restarting = children[a].restarting
          /\ n.parsed = children[a].parsed /\ children' = [children EXCEPT ![a] = n]
      BY <2>3, <3>1 DEF ChildEntry
    <3> HIDE DEF n
    <3>3. \A b \in Agents, j \in Places, r \in Requests : Holds(b, j, r)' => Holds(b, j, r)
      BY <2>1, <2>3, <3>2 DEF Holds, Places, TypeOK
    <3> QED  BY <1>7, <3>3, QuietKeeps DEF Stop, Mute
  <2> QED  BY <1>7, <2>2, <2>3 DEF Stop
<1>8. ASSUME StopAll PROVE AnswerInv'
  <2>1. \A a \in Agents : children'[a] # None =>
           /\ children[a] # None /\ children'[a].reset = children[a].reset
           /\ children'[a].restarting = children[a].restarting
           /\ children'[a].parsed = children[a].parsed
    BY <1>8 DEF StopAll, TypeOK, ChildEntry
  <2>2. \A b \in Agents, j \in Places, r \in Requests : Holds(b, j, r)' => Holds(b, j, r)
    BY <1>8, <2>1 DEF StopAll, Holds, Places
  <2> QED  BY <1>8, <2>2, QuietKeeps DEF StopAll, Mute
<1>9. ASSUME NEW a \in Agents, NEW r \in Requests, Restart(a, r) PROVE AnswerInv'
  <2>1. CASE /\ children' = [children EXCEPT ![a].parsed.request = r, ![a].cycle = "restart",
                                            ![a].restarting = TRUE, ![a].restarts = 0]
             /\ pendingSwitches' = [pendingSwitches EXCEPT ![a] = None]
             /\ Mute /\ UNCHANGED <<activeSessions, procs>>
    <3> DEFINE n == [children[a] EXCEPT !.parsed.request = r, !.cycle = "restart",
                                        !.restarting = TRUE, !.restarts = 0]
    <3>1. children[a] \in ChildEntry
      BY <1>9 DEF Restart, TypeOK
    <3>2. n.reset = children[a].reset /\ n.parsed.request = r
      BY <3>1 DEF ChildEntry, Parsed
    <3>3. children' = [children EXCEPT ![a] = n]
      BY <1>9, <2>1 DEF Restart, TypeOK
    <3> HIDE DEF n
    <3>4. Dropped /\ \A b \in Agents \ {a} : children'[b] = children[b]
      BY <1>9, <2>1, <3>3 DEF Restart, TypeOK
    <3>5. HeldBefore(a, "cycle")
      BY <1>1, <3>4
    <3>6. CASE children[a].reset = None
      <4>1. \A q \in Requests : Holds(a, "cycle", q)' => q = r
        BY <3>2, <3>3, <3>6 DEF Holds, TypeOK
      <4> QED  BY <1>3, <1>9, <2>1, <3>5, <4>1, TakeUpKeeps DEF Restart, Mute, Places
    <3>7. CASE children[a].reset # None
      <4>1. \A q \in Requests : Holds(a, "cycle", q)' => Holds(a, "cycle", q)
        BY <1>9, <3>2, <3>3, <3>7 DEF Restart, Holds, TypeOK
      <4> QED  BY <1>3, <1>9, <2>1, <3>5, <4>1, QuietKeeps DEF Restart, Mute, HeldBefore
    <3> QED  BY <3>6, <3>7
  <2>2. CASE Refuse(r) /\ UNCHANGED pendingSwitches
    BY <1>2, <1>3, <1>9, <2>2, AtOnceKeeps DEF Restart, Refuse, Answer, Sent
  <2> QED  BY <1>9, <2>1, <2>2 DEF Restart
<1>10. ASSUME NEW a \in Agents, NEW r \in Requests, NEW s \in Sessions, SwitchSession(a, r, s)
       PROVE  AnswerInv'
  <2>1. HeldBefore(a, "switch")
    BY <1>10 DEF SwitchSession, HeldBefore, Holds, Places, TypeOK
  <2>2. \A q \in Requests : Holds(a, "switch", q)' => q = r
    BY <1>10 DEF SwitchSession, Holds, TypeOK
  <2> QED  BY <1>3, <1>10, <2>1, <2>2, TakeUpKeeps DEF SwitchSession, Mute, Places
<1>11. ASSUME NEW a \in Agents, NEW found \in BOOLEAN, SwitchChecked(a, found) PROVE AnswerInv'
  <2> DEFINE q == pendingSwitches[a].request
             e == children[a]
  <2>1. /\ pendingSwitches[a] # None /\ q \in Requests /\ Holds(a, "switch", q)
        /\ e \in ChildEntry /\ e.reset = None
    BY <1>11 DEF SwitchChecked, TypeOK, Check, Holds, EntryInv
  <2>2. Dropped /\ pendingSwitches'[a] = None
    BY <1>11 DEF SwitchChecked, TypeOK
  <2>3. CASE Mute /\ UNCHANGED children
    BY <1>2, <1>11, <2>2, <2>3, QuietKeeps DEF SwitchChecked, Mute
  <2>4. CASE Refuse(q)
    <3>1. HeldBefore(a, "switch")
      BY <1>2, <2>2, <2>4 DEF HeldBefore, Refuse
    <3>2. Released(a, "switch") /\ Sent(q)
      BY <2>2, <2>4 DEF Released, Holds, Refuse, Answer, Sent
    <3> QED  BY <1>11, <2>1, <3>1, <3>2, ReleaseKeeps DEF SwitchChecked, Places
  <2>5. CASE /\ children' = [children EXCEPT ![a] =
                  [e EXCEPT !.parsed = [resume |-> pendingSwitches[a].resume, request |-> q],
                            !.locked = pendingSwitches[a].resume, !.cycle = "switch",
                            !.kind = None, !.restarting = TRUE, !.restarts = 0]]
             /\ Mute
    <3> DEFINE n == [e EXCEPT !.parsed = [resume |-> pendingSwitches[a].resume, request |-> q],
                              !.locked = pendingSwitches[a].resume, !.cycle = "switch",
                              !.kind = None, !.restarting = TRUE, !.restarts = 0]
    <3>1. n.reset = None /\ n.parsed.request = q
      BY <2>1 DEF ChildEntry
    <3>2. children' = [children EXCEPT ![a] = n]
      BY <2>5
    <3> HIDE DEF n
    <3>3. ASSUME NEW b \in Agents, NEW j \in Places, NEW r \in Requests, Holds(b, j, r)'
          PROVE  IF b = a /\ j = "cycle" THEN r = q
                 ELSE Holds(b, j, r) /\ ~(b = a /\ j = "switch")
      BY <2>2, <3>1, <3>2, <3>3 DEF Holds, Places, TypeOK
    <3> QED  BY <1>11, <2>1, <2>5, <3>3, HandOverKeeps DEF SwitchChecked, Mute, Places
  <2> QED  BY <1>11, <2>3, <2>4, <2>5 DEF SwitchChecked
<1>12. ASSUME NEW a \in Agents, NEW r \in Requests, ResetSession(a, r) PROVE AnswerInv'
  <2> DEFINE e == children[a]
             n == [e EXCEPT !.reset = [request |-> r, previous |-> Reported(a), parsed |-> e.parsed],
                            !.parsed = [resume |-> None, request |-> r],
                            !.restarting = TRUE, !.restarts = 0]
  <2>1. Dropped
    BY <1>12 DEF ResetSession, TypeOK
  <2>2. CASE Conclude(r, "refused") /\ UNCHANGED <<children, activeSessions, procs>>
    BY <1>2, <1>3, <1>12, <2>1, <2>2, AtOnceKeeps DEF ResetSession, Conclude, Sent
  <2>3. CASE TerminateForReset(a, n, "term")
    <3>1. Sound(e) /\ e.reset = None /\ e # None /\ procs[e.child] \in Process
      <4>1. Sound(e) /\ procs[e.child] # None /\ e.reset = None /\ e # None
        BY <1>12 DEF ResetSession, EntryInv
      <4> QED  BY <4>1 DEF Sound, Fitting, ChildEntry, TypeOK
    <3>2. Reported(a) \in SessionOrNone
      BY <3>1 DEF Reported, Process
    <3>3. [request |-> r, previous |-> Reported(a), parsed |-> e.parsed] \in PendingReset
          /\ [resume |-> None, request |-> r] \in Parsed /\ 0 \in 0..MaxRestarts
      BY <3>1, <3>2, SupervisorAssumption DEF PendingReset, Parsed, SessionOrNone, Sound, Fitting, ChildEntry
    <3>4. Fitting(n) /\ n.reset # None /\ n.child = e.child /\ n.reset.request = r
      BY <3>1, <3>3, NoneAssumption DEF Sound, Fitting, ChildEntry
    <3> HIDE DEF n
    <3>5. CASE children' = [children EXCEPT ![a] = [n EXCEPT !.timer = "term"]] /\ Mute
      <4>1. [n EXCEPT !.timer = "term"].reset = n.reset
        BY <3>4 DEF Fitting, ChildEntry
      <4>2. \A q \in Requests : Holds(a, "cycle", q)' => q = r
        BY <3>1, <3>4, <3>5, <4>1 DEF Holds, TypeOK
      <4>3. HeldBefore(a, "cycle")
        BY <1>1, <2>1, <3>5 DEF TypeOK
      <4> QED  BY <1>3, <1>12, <3>5, <4>2, <4>3, TakeUpKeeps DEF ResetSession, Mute, Places
    <3>6. CASE OnExit(a, n, procs[n.child], procs)
      <4>1. ExitEffect(a, n, procs[n.child], procs)
        BY <3>1, <3>4, <3>6, OnExitEffect DEF TypeOK
      <4> QED  BY <1>3, <1>12, <2>1, <3>1, <3>4, <4>1, ExitAnswers DEF ResetSession
    <3> QED  BY <2>3, <3>5, <3>6 DEF TerminateForReset
  <2> QED  BY <1>12, <2>2, <2>3 DEF ResetSession, RefuseReset
<1>13. ASSUME NEW a \in Agents, ResetTimer(a) PROVE AnswerInv'
  <2> DEFINE e == children[a]
  <2>1. /\ e # None /\ Sound(e) /\ e.reset # None /\ e.reset.request \in Requests
        /\ procs[e.child] \in Process
    <3>1. e # None /\ Sound(e) /\ e.reset # None /\ procs[e.child] # None
      BY <1>13 DEF ResetTimer, EntryInv, Sound
    <3> QED  BY <3>1 DEF Sound, Fitting, ChildEntry, PendingReset, TypeOK
  <2>2. Dropped
    BY <1>13 DEF ResetTimer, DropSwitch, TypeOK
  <2>3. CASE children' = [children EXCEPT ![a] = [e EXCEPT !.timer = "kill"]] /\ Mute
    <3> DEFINE n == [e EXCEPT !.timer = "kill"]
    <3>1. n.reset = e.reset
      BY <2>1 DEF Sound, Fitting, ChildEntry
    <3> HIDE DEF n
    <3>2. children' = [children EXCEPT ![a] = n]
      BY <2>3 DEF n
    <3>3. \A b \in Agents, j \in Places, r \in Requests : Holds(b, j, r)' => Holds(b, j, r)
      BY <2>1, <2>2, <3>1, <3>2 DEF Holds, Places, TypeOK
    <3> QED  BY <1>13, <2>3, <3>3, QuietKeeps DEF ResetTimer, Mute
  <2>4. CASE OnExit(a, e, procs[e.child], procs)
    <3>1. ExitEffect(a, e, procs[e.child], procs)
      BY <2>1, <2>4, OnExitEffect DEF Sound, TypeOK
    <3> QED  BY <1>13, <2>1, <2>2, <3>1, ExitAnswers DEF ResetTimer, Sound
  <2>5. CASE FailResetTermination(a, e)
    <3> DEFINE n == [e EXCEPT !.parsed = e.reset.parsed, !.restarting = FALSE, !.reset = None,
                              !.timer = "off"]
    <3>1. n.reset = None /\ ~n.restarting
      BY <2>1 DEF Sound, Fitting, ChildEntry
    <3>2. children' = [children EXCEPT ![a] = n] /\ Sent(e.reset.request)
      BY <2>5 DEF FailResetTermination, Conclude, Sent
    <3> HIDE DEF n
    <3>3. Released(a, "cycle") /\ \A b \in Agents \ {a} : children'[b] = children[b]
      BY <3>1, <3>2 DEF Released, Holds, TypeOK
    <3>4. Holds(a, "cycle", e.reset.request)
      BY <2>1 DEF Holds
    <3> QED  BY <1>1, <1>13, <2>1, <2>2, <3>2, <3>3, <3>4, ReleaseKeeps DEF ResetTimer, Places
  <2> QED  BY <1>13, <2>3, <2>4, <2>5 DEF ResetTimer, TerminateForReset
<1>14. ASSUME NEW p \in Pids, ChildExit(p) PROVE AnswerInv'
  <2> DEFINE a == p[1]
             rest == [procs EXCEPT ![p] = None]
  <2>1. Dropped /\ a \in Agents /\ procs[p] \in Process
    BY <1>14 DEF ChildExit, DropSwitch, TypeOK, Pids
  <2>2. CASE children[a] # None /\ children[a].child = p /\ OnExit(a, children[a], procs[p], rest)
    <3>1. Fitting(children[a])
      BY <2>1, <2>2 DEF EntryInv, Sound
    <3>2. ExitEffect(a, children[a], procs[p], rest)
      BY <2>1, <2>2, <3>1, OnExitEffect DEF TypeOK
    <3> QED  BY <1>14, <2>1, <2>2, <3>1, <3>2, ExitAnswers DEF ChildExit
  <2>3. CASE Mute /\ UNCHANGED children
    BY <1>2, <1>14, <2>1, <2>3, QuietKeeps DEF ChildExit, Mute
  <2> QED  BY <1>14, <2>2, <2>3 DEF ChildExit
<1>15. ASSUME NEW p \in Pids, \/ Report(p) \/ Confirm(p) \/ Reject(p) \/ Block(p) \/ Die(p)
                               \/ \E s \in Sessions : Observe(p, s)
       PROVE  AnswerInv'
  <2>1. PICK proc : Set(p, proc)
    BY <1>15 DEF Report, Confirm, Reject, Block, Die, Observe
  <2> QED  BY <1>2, <2>1, QuietKeeps DEF Set, Mute
<1>16. CASE UNCHANGED vars
  BY <1>2, <1>16, QuietKeeps DEF vars
<1> QED
  BY <1>4, <1>5, <1>6, <1>7, <1>8, <1>9, <1>10, <1>11, <1>12, <1>13, <1>14, <1>15, <1>16 DEF Next

\* No request of the server is ever sent more than one result.
THEOREM AnswersOnce == Spec => []OneAnswer
<1>1. TypeOK /\ EntryInv /\ AnswerInv /\ [Next]_vars => (TypeOK /\ EntryInv /\ AnswerInv)'
  BY NextSupervised, NextAnswers
<1>2. AnswerInv => OneAnswer
  BY DEF AnswerInv, OneAnswer
<1> QED  BY <1>1, <1>2, InitSupervised, InitAnswers, PTL DEF Spec

\* A pending reset's result and the entry it leaves: the action of ResultsAreTrue.
Tells ==
    \A a \in Agents : children[a] # None /\ children[a].reset # None =>
        LET e == children[a]
            new == children'[a]
            said(v) == answers'[e.reset.request] > answers[e.reset.request] /\ verdict' = v
        IN /\ said("ok") => /\ new # None /\ new.child # e.child
                            /\ procs'[new.child].resume = None
                            /\ new.parsed = [resume |-> None, request |-> e.reset.request]
           /\ said("spawn_failed") =>
                 /\ new # None /\ new.locked = e.reset.previous
                 /\ procs'[new.child].resume = e.reset.previous
           /\ said("rollback_failed") => new = None
           /\ said("timeout") => new # None /\ new.child = e.child /\ new.parsed = e.reset.parsed

\* Nobody else holds the request of a pending reset, so that only the step that
\* concludes the reset can send a result for it.
LEMMA TellStep ==
  ASSUME TypeOK, EntryInv, AnswerInv, Shape
  PROVE  Tells
<1> SUFFICES ASSUME NEW a \in Agents, children[a] # None, children[a].reset # None,
                    answers'[children[a].reset.request] > answers[children[a].reset.request],
                    verdict' \in {"ok", "spawn_failed", "rollback_failed", "timeout"}
             PROVE  LET e == children[a]
                        new == children'[a]
                    IN /\ verdict' = "ok" =>
                            /\ new # None /\ new.child # e.child
                            /\ procs'[new.child].resume = None
                            /\ new.parsed = [resume |-> None, request |-> e.reset.request]
                       /\ verdict' = "spawn_failed" =>
                            /\ new # None /\ new.locked = e.reset.previous
                            /\ procs'[new.child].resume = e.reset.previous
                       /\ verdict' = "rollback_failed" => new = None
                       /\ verdict' = "timeout" =>
                            new # None /\ new.child = e.child /\ new.parsed = e.reset.parsed
  BY DEF Tells
<1> DEFINE e == children[a]
           q == e.reset.request
<1>1. /\ Sound(e) /\ procs[e.child] # None /\ e.child \in Pids
      /\ q \in Requests /\ answers[q] \in Nat
  <2>1. Sound(e) /\ procs[e.child] # None
    BY DEF EntryInv
  <2>2. e.child \in Pids /\ q \in Requests
    BY <2>1 DEF Sound, Fitting, ChildEntry, PendingReset
  <2> QED  BY <2>1, <2>2 DEF TypeOK
<1>2. verdict' # None /\ verdict' # "refused"
  BY NoneAssumption DEF Verdicts
<1>3. ~Mute /\ \A r \in Requests : ~Answer(r)
  BY <1>1, <1>2 DEF Mute, Answer
<1>4. ASSUME NEW r, NEW v, Conclude(r, v) PROVE r = q /\ verdict' = v
  BY <1>1, <1>4 DEF Conclude, TypeOK
<1>5. q <= used /\ \A b \in Agents, j \in Places : Holds(b, j, q) => a = b /\ j = "cycle"
  <2>1. Holds(a, "cycle", q) /\ "cycle" \in Places
    BY DEF Holds, Places
  <2> QED  BY <1>1, <2>1 DEF AnswerInv
<1>6. ~Halts
  BY <1>3 DEF Halts
<1>7. ~Works
  BY <1>1, <1>2, <1>3, <1>4 DEF Works
<1>8. \A b \in Agents : ~Begins(b)
  BY <1>3 DEF Begins
<1>9. ASSUME NEW b \in Agents, Keeps(b)
      PROVE  verdict' = "timeout" /\ children'[a] # None /\ children'[a].child = e.child
             /\ children'[a].parsed = e.reset.parsed
  <2>1. PICK n : /\ Sound(n) /\ n.child = children[b].child /\ children' = [children EXCEPT ![b] = n]
                 /\ children[b].reset # None /\ n.parsed = children[b].reset.parsed
                 /\ Conclude(children[b].reset.request, "timeout")
    BY <1>3, <1>9 DEF Keeps
  <2>2. children[b].reset.request = q /\ verdict' = "timeout" /\ children[b] # None
    BY <1>4, <1>9, <2>1 DEF Keeps
  <2>3. a = b
    BY <1>5, <2>1, <2>2 DEF Holds, Places
  <2> QED  BY <2>1, <2>2, <2>3, NoneAssumption DEF Sound, Fitting, TypeOK
<1>10. ASSUME NEW b \in Agents, Exits(b)
       PROVE  /\ verdict' # "timeout"
              /\ verdict' = "ok" =>
                   /\ children'[a] # None /\ children'[a].child # e.child
                   /\ procs'[children'[a].child].resume = None
                   /\ children'[a].parsed = [resume |-> None, request |-> q]
              /\ verdict' = "spawn_failed" =>
                   /\ children'[a] # None /\ children'[a].locked = e.reset.previous
                   /\ procs'[children'[a].child].resume = e.reset.previous
              /\ verdict' = "rollback_failed" => children'[a] = None
  <2>1. PICK f, rest : /\ Sound(f) /\ f.child = children[b].child /\ children[b] # None
                       /\ rest \in {procs, [procs EXCEPT ![f.child] = None]}
                       /\ ExitEffect(b, f, procs[f.child], rest)
                       /\ f = children[b] \/ (f.reset # None /\ f.reset.request = used + 1)
    BY <1>10 DEF Exits
  <2>2. ~(f.reset = None /\ f.restarting /\ Answer(f.parsed.request))
    BY <1>3, <2>1 DEF Sound, Fitting, ChildEntry, Parsed
  <2>3. f.reset # None
    BY <1>3, <2>1, <2>2 DEF ExitEffect
  <2>4. f.reset.request = q
    BY <1>3, <1>4, <2>1, <2>2 DEF ExitEffect
  <2>5. f = children[b]
    BY <1>1, <1>5, <2>1, <2>4 DEF TypeOK, Requests
  <2>6. a = b
    BY <1>5, <2>1, <2>3, <2>4, <2>5 DEF Holds, Places
  <2>7. CASE Gone(a, e, rest) /\ Conclude(q, "rollback_failed")
    BY <1>4, <2>7 DEF Gone, TypeOK
  <2>8. ASSUME NEW n, Renewed(a, e, n, rest), ~e.stopping,
               \/ Conclude(q, "ok") /\ n.parsed = e.parsed
               \/ Conclude(q, "spawn_failed") /\ n.locked = e.reset.previous
        PROVE  /\ verdict' \in {"ok", "spawn_failed"}
               /\ verdict' = "ok" =>
                    /\ children'[a] # None /\ children'[a].child # e.child
                    /\ procs'[children'[a].child].resume = None
                    /\ children'[a].parsed = [resume |-> None, request |-> q]
               /\ verdict' = "spawn_failed" =>
                    /\ children'[a] # None /\ children'[a].locked = e.reset.previous
                    /\ procs'[children'[a].child].resume = e.reset.previous
    <3>1. NextPid(a) \in Pids /\ procs[NextPid(a)] = None
      BY <2>8, PidFresh DEF Renewed
    <3>2. children'[a] = n /\ n # None /\ n.child = NextPid(a) /\ n.locked = n.parsed.resume
      BY <2>8, NoneAssumption DEF Renewed, Sound, Fitting, TypeOK
    <3>3. procs'[n.child].resume = n.parsed.resume
      BY <2>1, <2>8, <3>1, <3>2 DEF Renewed, Launched, TypeOK
    <3>4. e.parsed = [resume |-> None, request |-> q]
      BY <1>1, <2>8 DEF Sound, Fitting
    <3>5. CASE verdict' = "ok"
      BY <1>1, <1>4, <2>8, <3>1, <3>2, <3>3, <3>4, <3>5
    <3>6. CASE verdict' = "spawn_failed"
      BY <1>4, <2>8, <3>2, <3>3, <3>6
    <3> QED  BY <1>4, <2>8, <3>5, <3>6
  <2> QED  BY <1>3, <2>1, <2>2, <2>3, <2>5, <2>6, <2>7, <2>8 DEF ExitEffect
<1> QED  BY <1>6, <1>7, <1>8, <1>9, <1>10 DEF Shape

\* The result sent for a reset is true of the state the step leaves: ok of a fresh process
\* with the reset's id, spawn_failed of the session the server named, rollback_failed of an
\* agent that is gone, timeout of the entry as it was before the reset.
THEOREM ResultsTold == Spec => ResultsAreTrue
<1>1. TypeOK /\ EntryInv /\ AnswerInv /\ [Next]_vars => (TypeOK /\ EntryInv /\ AnswerInv)'
  BY NextSupervised, NextAnswers
<1>2. TypeOK /\ EntryInv /\ AnswerInv /\ [Next]_vars => [Tells]_vars
  BY StepShape, TellStep
<1> QED
  BY <1>1, <1>2, InitSupervised, InitAnswers, PTL DEF Spec, ResultsAreTrue, Tells
=============================================================================
