------------------------ MODULE DeliveryProtocolProofs ------------------------
(***************************************************************************)
(* Theorems about DeliveryProtocol: its types, that it implements          *)
(* MessageFate, and that no message is stuck.                              *)
(*                                                                         *)
(* What the wrapper knows of the numbers settled so far is a condition on  *)
(* its fields and on what is in the link (Fit).  Each function of the      *)
(* wrapper keeps it; those that only observe, acknowledge and schedule do  *)
(* so because they are Steady.                                             *)
(*                                                                         *)
(* That nothing is stuck rests on a second invariant (QuietInv) over the   *)
(* first: whatever the ledger has not accounted for has left something     *)
(* behind at the wrapper, in the link or with a sender (Settles).          *)
(***************************************************************************)
EXTENDS DeliveryProtocol, DeliveryEntryProofs

-----------------------------------------------------------------------------
(* The inductive invariant.                                                *)

\* The numbers that were dispatched or reported.
Settled == handled \cup reported

\* Wrapper r would not dispatch number s if it were pushed (again).
Knows(r, s) ==
    s <= r.resolved \/ s \in r.received \/ (r.pending # None /\ s \in r.pending.missing)

\* What request q gives up was not dispatched (D) and does not wait in an inbox.
GivenUp(q, inbox, D) ==
    /\ q \in Request
    /\ q.missing \subseteq 1..q.cutoff
    /\ q.missing \cap (inbox \cup D) = {}

\* A message on its way up: an acknowledgement covers settled numbers only,
\* and a request is the one r is waiting for, or an older one.
UpFits(m, r, D, H) ==
    /\ m \in UpMessage
    /\ m.type = "ack" => 1..m.seq \subseteq H
    /\ m.type = "resync" =>
          /\ GivenUp(m.request, r.inbox, D)
          /\ \A s \in m.request.missing : Knows(r, s)
          /\ m.ref <= r.ref
          /\ (m.ref = r.ref /\ r.inFlight /\ r.pending # None) => m.request = r.pending

\* A reply answers the request r is waiting for, or an older one.
ReplyFits(m, r) ==
    /\ m.ref \in Nat
    /\ m.ref <= r.ref
    /\ (m.ref = r.ref /\ r.inFlight /\ r.pending # None) => m.skipped = r.pending.missing

\* Wrapper r has accounted for settled numbers (H) only.
Sound(r, H) ==
    /\ r \in Wrapper
    /\ 1..r.resolved \subseteq H /\ 1..r.acked \subseteq H /\ 1..r.pendingAck \subseteq H
    /\ r.completed \subseteq H
    /\ r.retiring \subseteq r.received

\* Wrapper r, with the messages U and the replies R in its link, agrees with
\* the numbers D it dispatched, H that are settled and 1..n that were sent.
Agrees(r, U, R, D, H, n) ==
    /\ Sound(r, H)
    /\ n \in Nat /\ D \subseteq H /\ H \subseteq 1..n
    /\ r.inbox \subseteq r.received \cap (1..n) /\ r.inbox \cap H = {}
    /\ r.retiring \cap (r.inbox \cup D) = {}
    /\ r.pending # None => GivenUp(r.pending, r.inbox, D)
    /\ r.timer # None => r.connected
    /\ r.connected => r.supported
    /\ ~r.supported => r.inbox = {} /\ r.pending = None /\ ~r.inFlight
    /\ \A m \in Range(r.out) \cup U : UpFits(m, r, D, H)
    /\ \A m \in R : ReplyFits(m, r)

\* ... and once it has joined it knows all that are settled.
Aware(r, H) == \A s \in H : Knows(r, s)
Fit(r, U, R, D, H, n) == Agrees(r, U, R, D, H, n) /\ (r.supported => Aware(r, H))

\* A request is under way only while one is pending.
Open(r) == r.inFlight => r.pending # None

\* A status says that settled numbers (H) are accounted for.
Known(status, H) == status \in Status /\ 1..status.acked \subseteq H

\* A message on its way down.
DownFits(m, H, n) ==
    /\ m.type # "envelope" => Known(m.status, H)
    /\ m.type = "envelope" => m.seq <= n
    /\ m.type = "reply" /\ m.ok => m.skipped \subseteq H

DownMessage ==
    [type : {"join", "status"}, status : Status] \cup [type : {"envelope"}, seq : Seqs]
        \cup [type : {"reply"}, ref : Nat, ok : BOOLEAN, status : Status, skipped : SUBSET Seqs]

RepliesIn(msgs) == {m \in Range(msgs) : m.type = "reply"}
Replies == RepliesIn(down)

WrapperInv == Fit(w, Range(up), Replies, handled, Settled, Sent) /\ Open(w)

\* An entry owes an account of each number past its prefix that it has not skipped.
Owes(e) ==
    /\ e.resync = TRUE /\ e.resolved = {}
    /\ DOMAIN e.metadata = ((e.acked + 1)..e.issued) \ e.skipped

\* The ledger's prefix covers settled numbers, and what it skipped is reported.
EntryInv ==
    /\ entry = Absent => Settled = {}
    /\ entry # Absent =>
          /\ Owes(entry)
          /\ 1..entry.acked \subseteq Settled
          /\ entry.skipped \subseteq reported
          /\ reported \subseteq (1..entry.acked) \cup entry.skipped
          /\ entry.gen <= w.gen

\* A wrapper whose channel has not subscribed is out of the link.
LinkInv ==
    /\ w.gen \in Gens
    /\ server # "off" \/ w.supported => entry # Absent /\ entry.gen = w.gen
    /\ server \in {"off", "bound"} => down = <<>> /\ up = <<>> /\ ~w.connected /\ ~w.live
    /\ server = "bound" => Known(snap, Settled)

\* The first join reply of a process tells it of everything settled before.
FirstJoin ==
    ~w.supported =>
        /\ up = <<>>
        /\ entry # Absent /\ entry.gen = w.gen => Settled \subseteq 1..entry.acked
        /\ server = "bound" => Settled \subseteq 1..snap.acked
        /\ Subscribed => /\ down # <<>> /\ Head(down).type = "join"
                         /\ Settled \subseteq 1..Head(down).status.acked

DownInv ==
    /\ up \in Seq(UpMessage) /\ down \in Seq(DownMessage)
    /\ \A m \in Range(down) : DownFits(m, Settled, Sent)

SendStep == [at : {"issue", "status", "done"}] \cup [at : {"push"}, seq : Seqs]
                \cup [at : {"broadcast"}, status : Status]

\* A message taken up: the number it was given, the status that was read.
TakenFits(s, H, n) ==
    /\ s.at = "push" => s.seq <= n
    /\ s.at = "broadcast" => Known(s.status, H)

SendsInv ==
    /\ sends \in Seq(SendStep)
    /\ sends # <<>> => entry # Absent
    /\ \A i \in DOMAIN sends : TakenFits(sends[i], Settled, Sent)

ProtocolInv == TypeOK /\ WrapperInv /\ EntryInv /\ LinkInv /\ FirstJoin /\ DownInv /\ SendsInv

-----------------------------------------------------------------------------
(* Observing, acknowledging and scheduling.                                *)

Acks(H) == {m \in [type : {"ack"}, seq : Seqs] : 1..m.seq \subseteq H}

\* Wrapper q is wrapper r after steps that dispatch, request and give up nothing:
\* it still knows what r knows, and may have acknowledged settled numbers.
Steady(r, q, H) ==
    /\ Sound(q, H)
    /\ q.gen = r.gen /\ q.live = r.live /\ q.inbox = r.inbox
    /\ q.supported = r.supported /\ q.connected = r.connected
    /\ q.pending = r.pending /\ q.inFlight = r.inFlight /\ q.ref = r.ref
    /\ r.resolved <= q.resolved /\ q.received \subseteq r.received
    /\ \A s \in r.received : s \in q.received \/ s <= q.resolved
    /\ q.retiring \subseteq r.retiring
    /\ q.timer # None => r.timer # None \/ r.connected
    /\ Range(q.out) \subseteq Range(r.out) \cup Acks(H)

\* The fields of a wrapper, one by one.
LEMMA WrapperFields ==
  ASSUME NEW r \in Wrapper
  PROVE  /\ r.gen \in Nat /\ r.live \in BOOLEAN /\ r.inbox \in SUBSET Seqs /\ r.out \in Seq(UpMessage)
         /\ r.ackIssued \in Nat /\ r.resolved \in Nat /\ r.issued \in Nat
         /\ r.received \in SUBSET Seqs /\ r.retiring \in SUBSET Seqs
         /\ r.supported \in BOOLEAN /\ r.connected \in BOOLEAN /\ r.timer \in Nat \cup {None}
         /\ r.pending \in Request \cup {None} /\ r.inFlight \in BOOLEAN /\ r.ref \in Nat
         /\ r.acked \in Nat /\ r.completed \in SUBSET Seqs /\ r.pendingAck \in Nat
  BY DEF Wrapper

\* Steady steps compose.
LEMMA SteadyRefl ==
  ASSUME NEW H, NEW r, Sound(r, H)
  PROVE  Steady(r, r, H)
  BY WrapperFields DEF Steady, Sound

LEMMA SteadyTrans ==
  ASSUME NEW H, NEW r \in Wrapper, NEW q, NEW p, Steady(r, q, H), Steady(q, p, H)
  PROVE  Steady(r, p, H)
<1>1. q \in Wrapper /\ p \in Wrapper
  BY DEF Steady, Sound
<1>2. r.resolved \in Nat /\ q.resolved \in Nat /\ p.resolved \in Nat
  BY <1>1, WrapperFields
<1>3. r.received \subseteq Nat
  BY WrapperFields DEF Seqs
<1> QED
  BY <1>2, <1>3 DEF Steady

\* A steady step keeps what a wrapper agrees with and knows.
LEMMA SteadyAgrees ==
  ASSUME NEW U, NEW R, NEW D, NEW H, NEW n, NEW r, NEW q, Agrees(r, U, R, D, H, n), Steady(r, q, H)
  PROVE  /\ Agrees(q, U, R, D, H, n)
         /\ \A s \in H : Knows(r, s) => Knows(q, s)
         /\ Open(r) => Open(q)
<1>1. r \in Wrapper /\ q \in Wrapper /\ n \in Nat /\ H \subseteq 1..n
  BY DEF Steady, Sound, Agrees
<1>2. /\ r.resolved \in Nat /\ q.resolved \in Nat /\ r.received \subseteq Nat /\ q.received \subseteq Nat
      /\ r.inbox \subseteq Nat \ {0}
  BY <1>1, WrapperFields DEF Seqs
<1>3. ASSUME NEW s \in Nat, Knows(r, s) PROVE Knows(q, s)
  BY <1>2, <1>3 DEF Knows, Steady
<1>4. ASSUME NEW m, UpFits(m, r, D, H) PROVE UpFits(m, q, D, H)
  <2>1. m.type = "resync" => m.request.missing \subseteq Nat
    BY <1>4 DEF UpFits, GivenUp, Request, Seqs
  <2> QED
    BY <1>3, <1>4, <2>1 DEF UpFits, Steady
<1>5. ASSUME NEW m \in Acks(H) PROVE UpFits(m, q, D, H)
  BY <1>5 DEF Acks, UpFits, UpMessage
<1>6. q.inbox \subseteq q.received \cap (1..n)
  <2>1. ASSUME NEW x \in r.inbox PROVE x \in q.received
    <3>1. x \in r.received /\ x \notin H /\ x \in Nat \ {0}
      BY <1>2 DEF Agrees
    <3>2. 1..q.resolved \subseteq H
      BY DEF Steady, Sound
    <3> QED
      BY <3>1, <3>2, <1>2 DEF Steady
  <2> QED
    BY <2>1 DEF Steady, Agrees
<1>7. \A m \in Range(q.out) \cup U : UpFits(m, q, D, H)
  BY <1>4, <1>5 DEF Steady, Agrees
<1>8. \A m \in R : ReplyFits(m, q)
  BY DEF Steady, Agrees, ReplyFits
<1>9. Agrees(q, U, R, D, H, n)
  BY <1>6, <1>7, <1>8 DEF Agrees, Steady
<1> QED
  BY <1>1, <1>3, <1>9 DEF Open, Steady

LEMMA SteadyFit ==
  ASSUME NEW U, NEW R, NEW D, NEW H, NEW n, NEW r, NEW q, Fit(r, U, R, D, H, n), Steady(r, q, H)
  PROVE  Fit(q, U, R, D, H, n) /\ (Open(r) => Open(q))
  BY SteadyAgrees DEF Fit, Aware, Steady

\* All that a steady step keeps is the same, timer included.
Alike(r, q) ==
    /\ q.gen = r.gen /\ q.live = r.live /\ q.inbox = r.inbox
    /\ q.supported = r.supported /\ q.connected = r.connected
    /\ q.pending = r.pending /\ q.inFlight = r.inFlight /\ q.ref = r.ref
    /\ q.resolved = r.resolved /\ q.received = r.received /\ q.retiring = r.retiring
    /\ q.timer = r.timer

LEMMA AlikeSteady ==
  ASSUME NEW H, NEW r, NEW q, Sound(r, H), q \in Wrapper, Alike(r, q),
         1..q.acked \subseteq H, 1..q.pendingAck \subseteq H, q.completed \subseteq H,
         Range(q.out) \subseteq Range(r.out) \cup Acks(H)
  PROVE  Steady(r, q, H) /\ Sound(q, H)
<1>1. Sound(q, H) /\ r.resolved <= q.resolved
  BY WrapperFields DEF Sound, Alike
<1> QED
  BY <1>1 DEF Steady, Alike

\* #schedule sets or clears the timer.
LEMMA ScheduleSteady ==
  ASSUME NEW H, NEW r, Sound(r, H)
  PROVE  Steady(r, Schedule[r], H) /\ Schedule[r].out = r.out
<1>1. r \in Wrapper
  BY DEF Sound
<1>2. \/ Schedule[r] = r
      \/ r.connected /\ \E t \in Nat \cup {None} : Schedule[r] = [r EXCEPT !.timer = t]
  BY <1>1, WrapperFields DEF Schedule
<1>3. ASSUME r.connected, NEW t \in Nat \cup {None}
      PROVE  Steady(r, [r EXCEPT !.timer = t], H) /\ [r EXCEPT !.timer = t].out = r.out
  <2> DEFINE q == [r EXCEPT !.timer = t]
  <2>1. q \in Wrapper
    BY <1>1 DEF Wrapper
  <2>2. /\ q.gen = r.gen /\ q.live = r.live /\ q.inbox = r.inbox
        /\ q.supported = r.supported /\ q.connected = r.connected
        /\ q.pending = r.pending /\ q.inFlight = r.inFlight /\ q.ref = r.ref
        /\ q.resolved = r.resolved /\ q.received = r.received /\ q.retiring = r.retiring
        /\ q.acked = r.acked /\ q.completed = r.completed /\ q.pendingAck = r.pendingAck
        /\ q.out = r.out
    BY <1>1 DEF Wrapper
  <2> HIDE DEF q
  <2>3. r.resolved <= q.resolved
    BY <1>1, <2>2, WrapperFields
  <2>4. Sound(q, H)
    BY <2>1, <2>2 DEF Sound
  <2>5. Steady(r, q, H) /\ q.out = r.out
    BY <1>3, <2>2, <2>3, <2>4 DEF Steady
  <2> QED
    BY <2>5 DEF q
<1> QED
  BY <1>2, <1>3, SteadyRefl

\* confirm, of a prefix that is settled.
LEMMA ConfirmSteady ==
  ASSUME NEW H, NEW r, Sound(r, H), NEW seq \in Nat, 1..seq \subseteq H
  PROVE  /\ Steady(r, ConfirmThrough(seq)[r], H)
         /\ ConfirmThrough(seq)[r].resolved >= seq
         /\ ConfirmThrough(seq)[r].out = r.out
<1> DEFINE top == Larger(seq, r.resolved)
           q == [r EXCEPT !.resolved = top, !.received = @ \ (1..top), !.retiring = @ \ (1..top)]
<1>1. r \in Wrapper
  BY DEF Sound
<1>2. top \in Nat /\ top >= seq /\ top >= r.resolved /\ 1..top \subseteq H
  BY <1>1, WrapperFields DEF Larger, Sound
<1>3. ConfirmThrough(seq)[r] = Schedule[q]
  BY <1>1 DEF ConfirmThrough
<1> HIDE DEF top
<1>4. q \in Wrapper
  BY <1>1, <1>2, WrapperFields DEF Wrapper
<1>5. /\ q.gen = r.gen /\ q.live = r.live /\ q.inbox = r.inbox
      /\ q.supported = r.supported /\ q.connected = r.connected
      /\ q.pending = r.pending /\ q.inFlight = r.inFlight /\ q.ref = r.ref
      /\ q.resolved = top /\ q.received = r.received \ (1..top)
      /\ q.retiring = r.retiring \ (1..top)
      /\ q.timer = r.timer /\ q.out = r.out
      /\ q.acked = r.acked /\ q.completed = r.completed /\ q.pendingAck = r.pendingAck
  BY <1>1 DEF Wrapper
<1> HIDE DEF q
<1>6. r.received \subseteq Nat \ {0}
  BY <1>1, WrapperFields DEF Seqs
<1>7. Steady(r, q, H)
  BY <1>2, <1>4, <1>5, <1>6 DEF Steady, Sound
<1>8. Sound(q, H)
  BY <1>7 DEF Steady
<1>9. Steady(q, Schedule[q], H) /\ Schedule[q].out = q.out
  BY <1>8, ScheduleSteady
<1>10. Schedule[q] \in Wrapper /\ Schedule[q].resolved >= q.resolved
  BY <1>9 DEF Steady, Sound
<1>11. Schedule[q].resolved \in Nat
  BY <1>10, WrapperFields
<1> QED
  <2>1. Steady(r, Schedule[q], H)
    BY <1>1, <1>7, <1>9, SteadyTrans
  <2>2. Schedule[q].resolved >= seq
    BY <1>2, <1>5, <1>10, <1>11
  <2> QED
    BY <1>3, <1>5, <1>9, <2>1, <2>2

LEMMA ObserveSteady ==
  ASSUME NEW H, NEW r, Sound(r, H), NEW status \in Status, 1..status.acked \subseteq H
  PROVE  Steady(r, ObserveStatus(status)[r], H) /\ ObserveStatus(status)[r].resolved >= status.acked
<1> DEFINE q == [r EXCEPT !.issued = Larger(status.issued, @)]
<1>1. r \in Wrapper /\ status.acked \in Nat /\ status.issued \in Nat
  BY DEF Sound, Status
<1>2. Larger(status.issued, r.issued) \in Nat
  BY <1>1, WrapperFields DEF Larger
<1>3. ObserveStatus(status)[r] = ConfirmThrough(status.acked)[q]
  BY <1>1 DEF ObserveStatus
<1>4. q \in Wrapper
  BY <1>1, <1>2 DEF Wrapper
<1>5. Alike(r, q) /\ q.acked = r.acked /\ q.completed = r.completed /\ q.pendingAck = r.pendingAck
      /\ q.out = r.out
  BY <1>1 DEF Wrapper, Alike
<1> HIDE DEF q
<1>6. Steady(r, q, H) /\ Sound(q, H)
  <2>1. /\ 1..q.acked \subseteq H /\ 1..q.pendingAck \subseteq H /\ q.completed \subseteq H
        /\ Range(q.out) \subseteq Range(r.out) \cup Acks(H)
    BY <1>5 DEF Sound
  <2> QED
    BY <1>4, <1>5, <2>1, AlikeSteady
<1>7. Steady(q, ConfirmThrough(status.acked)[q], H) /\ ConfirmThrough(status.acked)[q].resolved >= status.acked
  BY <1>1, <1>6, ConfirmSteady
<1> QED
  BY <1>1, <1>3, <1>6, <1>7, SteadyTrans

\* The range of a sequence with one more element.
LEMMA RangeAppend ==
  ASSUME NEW S, NEW s \in Seq(S), NEW x \in S
  PROVE  Append(s, x) \in Seq(S) /\ Range(Append(s, x)) = Range(s) \cup {x}
<1>1. Append(s, x) \in Seq(S) /\ DOMAIN Append(s, x) = 1..Len(s) + 1 /\ DOMAIN s = 1..Len(s)
      /\ Len(s) \in Nat
  OBVIOUS
<1>2. \A i \in 1..Len(s) : Append(s, x)[i] = s[i]
  OBVIOUS
<1>3. Append(s, x)[Len(s) + 1] = x
  OBVIOUS
<1>4. \A i \in 1..Len(s) + 1 : i \in 1..Len(s) \/ i = Len(s) + 1
  BY <1>1
<1>5. Len(s) + 1 \in 1..Len(s) + 1 /\ 1..Len(s) \subseteq 1..Len(s) + 1
  BY <1>1
<1> QED
  BY <1>1, <1>2, <1>3, <1>4, <1>5 DEF Range

\* acknowledgeInterAgentDelivery pushes settled prefixes.
LEMMA PushSteady ==
  ASSUME NEW H, NEW r, Sound(r, H), NEW seq \in Nat, 1..seq \subseteq H
  PROVE  Steady(r, PushAck(r, seq), H)
<1> DEFINE c == ConfirmThrough(seq)[r]
           m == [type |-> "ack", seq |-> seq]
           q == [c EXCEPT !.ackIssued = seq, !.out = Append(@, m)]
<1>1. r \in Wrapper
  BY DEF Sound
<1>2. Steady(r, c, H)
  BY ConfirmSteady
<1> HIDE DEF c
<1>3. c \in Wrapper /\ Sound(c, H)
  BY <1>2 DEF Steady, Sound
<1>4. PushAck(r, seq) = r \/ PushAck(r, seq) = c \/ (seq > c.ackIssued /\ PushAck(r, seq) = q)
  <2>1. seq > r.issued => PushAck(r, seq) = r
    BY DEF PushAck
  <2>2. ~(seq > r.issued) => PushAck(r, seq) = PushNewer(seq)[c]
    BY DEF PushAck, c
  <2>3. PushNewer(seq)[c] = IF seq <= c.ackIssued THEN c ELSE q
    BY <1>3 DEF PushNewer
  <2> QED
    BY <1>3, <2>1, <2>2, <2>3, WrapperFields
<1>5. CASE seq > c.ackIssued /\ PushAck(r, seq) = q
  <2>1. seq \in Seqs /\ m \in UpMessage /\ m \in Acks(H)
    BY <1>3, <1>5, WrapperFields DEF Seqs, UpMessage, Acks
  <2>2. Append(c.out, m) \in Seq(UpMessage) /\ Range(Append(c.out, m)) = Range(c.out) \cup {m}
    BY <1>3, <2>1, WrapperFields, RangeAppend
  <2> HIDE DEF m
  <2>3. q \in Wrapper
    BY <1>3, <2>2 DEF Wrapper
  <2>4. Alike(c, q) /\ q.acked = c.acked /\ q.completed = c.completed /\ q.pendingAck = c.pendingAck
        /\ q.out = Append(c.out, m)
    BY <1>3 DEF Wrapper, Alike
  <2> HIDE DEF q
  <2>5. Steady(c, q, H)
    <3>1. /\ 1..q.acked \subseteq H /\ 1..q.pendingAck \subseteq H /\ q.completed \subseteq H
          /\ Range(q.out) \subseteq Range(c.out) \cup Acks(H)
      BY <1>3, <2>1, <2>2, <2>4 DEF Sound
    <3> QED
      BY <1>3, <2>3, <2>4, <3>1, AlikeSteady
  <2> QED
    BY <1>1, <1>2, <1>5, <2>5, SteadyTrans
<1> QED
  BY <1>2, <1>4, <1>5, SteadyRefl

LEMMA ReplaySteady ==
  ASSUME NEW H, NEW r, Sound(r, H)
  PROVE  Steady(r, ReplayPendingAck[r], H)
<1>1. r \in Wrapper /\ 1..r.pendingAck \subseteq H /\ r.pendingAck \in Nat
  BY WrapperFields DEF Sound
<1>2. ReplayPendingAck[r] = r \/ ReplayPendingAck[r] = PushAck(r, r.pendingAck)
  BY <1>1 DEF ReplayPendingAck
<1> QED
  BY <1>1, <1>2, PushSteady, SteadyRefl

\* #advance goes through completed numbers only.
LEMMA AdvanceSteady ==
  ASSUME NEW H, NEW n \in Nat, H \subseteq 1..n, NEW r, Sound(r, H)
  PROVE  /\ Steady(r, Advance[r], H)
         /\ Advance[r].out = r.out
<1> DEFINE a == ConsumeSkipped(r.acked, r.completed)
           q == [r EXCEPT !.acked = a, !.completed = @ \ ((r.acked + 1)..a)]
<1>1. r \in Wrapper /\ r.acked \in Nat /\ r.completed \subseteq Nat /\ 1..r.acked \subseteq H
      /\ r.completed \subseteq H
  BY WrapperFields DEF Sound, Seqs
<1>2. r.acked <= n /\ \A s \in r.completed : s <= n
  <2>1. r.acked = 0 \/ r.acked \in 1..r.acked
    BY <1>1
  <2> QED
    BY <1>1, <2>1
<1>3. a \in r.acked..n /\ \A k \in (r.acked + 1)..a : k \in r.completed
  BY <1>1, <1>2, ConsumeSkippedSpec
<1>4. Advance[r] = q
  BY <1>1 DEF Advance
<1> HIDE DEF a
<1>5. a \in Nat /\ 1..a \subseteq H
  BY <1>1, <1>3
<1>6. q \in Wrapper
  BY <1>1, <1>5 DEF Wrapper
<1>7. Alike(r, q) /\ q.acked = a /\ q.completed \subseteq r.completed /\ q.pendingAck = r.pendingAck
      /\ q.out = r.out
  BY <1>1 DEF Wrapper, Alike
<1> HIDE DEF q
<1> QED
  BY <1>1, <1>4, <1>5, <1>6, <1>7, AlikeSteady DEF Sound

\* complete, of a settled number.
LEMMA CompleteSteady ==
  ASSUME NEW H, NEW n \in Nat, H \subseteq 1..n, NEW r, Sound(r, H), NEW seq \in H
  PROVE  /\ Steady(r, Complete(seq)[r], H)
         /\ Complete(seq)[r].out = r.out
<1> DEFINE q == [r EXCEPT !.completed = @ \cup {seq}]
<1>1. r \in Wrapper /\ r.completed \in SUBSET Seqs /\ seq \in Seqs
  BY WrapperFields DEF Sound, Seqs
<1>2. Complete(seq)[r] = r \/ Complete(seq)[r] = Advance[q]
  BY <1>1 DEF Complete
<1>3. q \in Wrapper
  BY <1>1 DEF Wrapper
<1>4. Alike(r, q) /\ q.acked = r.acked /\ q.completed = r.completed \cup {seq}
      /\ q.pendingAck = r.pendingAck /\ q.out = r.out
  BY <1>1 DEF Wrapper, Alike
<1> HIDE DEF q
<1>5. Steady(r, q, H) /\ Sound(q, H)
  BY <1>3, <1>4, AlikeSteady DEF Sound
<1> QED
  BY <1>1, <1>2, <1>4, <1>5, AdvanceSteady, SteadyRefl, SteadyTrans

LEMMA SendAdvancedSteady ==
  ASSUME NEW H, NEW r, Sound(r, H), NEW base \in Nat
  PROVE  Steady(r, SendIfAdvanced(base)[r], H)
<1>1. r \in Wrapper /\ 1..r.acked \subseteq H /\ r.acked \in Nat
  BY WrapperFields DEF Sound
<1>2. SendIfAdvanced(base)[r] = r \/ SendIfAdvanced(base)[r] = PushAck(r, r.acked)
  BY <1>1 DEF SendIfAdvanced
<1> QED
  BY <1>1, <1>2, PushSteady, SteadyRefl

LEMMA BindSteady ==
  ASSUME NEW H, NEW n \in Nat, H \subseteq 1..n, NEW r, Sound(r, H), NEW acked \in Nat, 1..acked \subseteq H
  PROVE  Steady(r, BindAcked(acked)[r], H)
<1> DEFINE q == [r EXCEPT !.acked = acked]
<1>1. r \in Wrapper
  BY DEF Sound
<1>2. BindAcked(acked)[r] = r \/ BindAcked(acked)[r] = SendIfAdvanced(acked)[Advance[q]]
  BY <1>1 DEF BindAcked
<1>3. q \in Wrapper
  BY <1>1 DEF Wrapper
<1>4. Alike(r, q) /\ q.acked = acked /\ q.completed = r.completed
      /\ q.pendingAck = r.pendingAck /\ q.out = r.out
  BY <1>1 DEF Wrapper, Alike
<1> HIDE DEF q
<1>5. Steady(r, q, H) /\ Sound(q, H)
  BY <1>3, <1>4, AlikeSteady DEF Sound
<1>6. Steady(q, Advance[q], H) /\ Sound(Advance[q], H)
  <2>1. Steady(q, Advance[q], H)
    BY <1>5, AdvanceSteady
  <2> QED
    BY <2>1 DEF Steady
<1>7. Steady(r, Advance[q], H)
  BY <1>1, <1>5, <1>6, SteadyTrans
<1>8. Steady(Advance[q], SendIfAdvanced(acked)[Advance[q]], H)
  BY <1>6, SendAdvancedSteady
<1> QED
  BY <1>1, <1>2, <1>7, <1>8, SteadyRefl, SteadyTrans

\* The steps of CompleteAll, in ascending order; that they exist, though defined by
\* recursion, is shown by least counterexample.
LEMMA CompleteAllSteps ==
  ASSUME NEW r \in Wrapper, NEW S
  PROVE  \E step :
           /\ CompleteAll(S)[r] = step[MaxSeq] /\ step[0] = r
           /\ \A k \in 1..MaxSeq :
                step[k] = IF k \in S THEN SendIfAdvanced(step[k - 1].acked)[Complete(k)[step[k - 1]]]
                                     ELSE step[k - 1]
<1> DEFINE After(p, k) == IF k \in S THEN SendIfAdvanced(p.acked)[Complete(k)[p]] ELSE p
           Body(f, k) == IF k = 0 THEN r ELSE After(f[k - 1], k)
           Rec(f, j) == f = [k \in 0..j |-> Body(f, k)]
           step == CHOOSE f : Rec(f, MaxSeq)
<1>1. r \in Wrapper /\ MaxSeq \in Nat
  BY ProtocolAssumption
<1>2. CompleteAll(S)[r] = step[MaxSeq]
  BY <1>1 DEF CompleteAll
<1>3. \A p, k : After(p, k) = IF k \in S THEN SendIfAdvanced(p.acked)[Complete(k)[p]] ELSE p
  OBVIOUS
<1> HIDE DEF After
<1>4. \E f : Rec(f, MaxSeq)
  <2> DEFINE X == {j \in 0..MaxSeq : \E f : Rec(f, j)}
  <2>1. 0 \in X
    <3> DEFINE g == [k \in 0..0 |-> r]
    <3>1. g = [k \in 0..0 |-> Body(g, k)]
      OBVIOUS
    <3> HIDE DEF g, Body
    <3>2. \E f : Rec(f, 0)
      BY <3>1
    <3> QED
      BY <1>1, <3>2
  <2>2. ASSUME NEW j \in X, j < MaxSeq PROVE j + 1 \in X
    <3>1. PICK f : Rec(f, j)
      OBVIOUS
    <3> DEFINE g == [k \in 0..(j + 1) |-> IF k <= j THEN f[k] ELSE After(f[j], j + 1)]
    <3>2. j \in Nat /\ j + 1 \in 0..MaxSeq
      BY <1>1, <2>2
    <3>3. ASSUME NEW k \in 0..(j + 1) PROVE g[k] = Body(g, k)
      <4>1. CASE k = 0
        BY <3>1, <3>2, <4>1
      <4>2. CASE k # 0 /\ k <= j
        <5>1. f[k] = After(f[k - 1], k) /\ k - 1 \in 0..(j + 1) /\ k - 1 <= j
          BY <3>1, <3>2, <4>2
        <5> QED
          BY <3>2, <4>2, <5>1
      <4>3. CASE k = j + 1
        BY <3>2, <4>3
      <4> QED
        BY <3>2, <4>1, <4>2, <4>3
    <3> HIDE DEF Body
    <3>4. g = [k \in 0..(j + 1) |-> Body(g, k)]
      BY <3>3
    <3> HIDE DEF g
    <3> QED
      BY <3>2, <3>4
  <2> HIDE DEF Rec
  <2>3. ASSUME (0..MaxSeq) \ X # {} PROVE FALSE
    <3>1. PICK m \in (0..MaxSeq) \ X : \A y \in (0..MaxSeq) \ X : m <= y
      BY <2>3, LeastNatural, (0..MaxSeq) \ X \subseteq Nat
    <3>2. m # 0 /\ m - 1 \in 0..MaxSeq /\ ~(m <= m - 1) /\ m - 1 < MaxSeq /\ (m - 1) + 1 = m
      BY <1>1, <2>1, <3>1
    <3>3. m - 1 \in X
      BY <3>1, <3>2
    <3> QED
      BY <2>2, <3>1, <3>2, <3>3
  <2> QED
    BY <1>1, <2>3
<1>5. Rec(step, MaxSeq)
  BY <1>4
<1> HIDE DEF step
<1>6. step[0] = r
  BY <1>1, <1>5
<1>7. ASSUME NEW k \in 1..MaxSeq PROVE step[k] = After(step[k - 1], k)
  BY <1>1, <1>5
<1> HIDE DEF Rec, Body
<1>8. \A k \in 1..MaxSeq : step[k] = IF k \in S THEN SendIfAdvanced(step[k - 1].acked)[Complete(k)[step[k - 1]]]
                                               ELSE step[k - 1]
  BY <1>3, <1>7
<1> QED
  BY <1>2, <1>6, <1>8

\* The skipped numbers, completed one after the other.
LEMMA CompleteAllSteady ==
  ASSUME NEW H, NEW n \in Nat, H \subseteq 1..n, NEW r, Sound(r, H), NEW S \in SUBSET Seqs, S \subseteq H
  PROVE  Steady(r, CompleteAll(S)[r], H)
<1> DEFINE After(p, k) == IF k \in S THEN SendIfAdvanced(p.acked)[Complete(k)[p]] ELSE p
<1>1. r \in Wrapper /\ MaxSeq \in Nat
  BY ProtocolAssumption DEF Sound
<1>2. PICK step : /\ CompleteAll(S)[r] = step[MaxSeq] /\ step[0] = r
                  /\ \A k \in 1..MaxSeq : step[k] = After(step[k - 1], k)
  BY <1>1, CompleteAllSteps
<1>3. ASSUME NEW p, Steady(r, p, H), NEW k \in Nat \ {0}
      PROVE  Steady(r, After(p, k), H)
  <2>1. p \in Wrapper /\ Sound(p, H) /\ p.acked \in Nat
    BY <1>3, WrapperFields DEF Steady, Sound
  <2>2. ASSUME k \in S PROVE Steady(r, SendIfAdvanced(p.acked)[Complete(k)[p]], H)
    <3>1. Steady(p, Complete(k)[p], H)
      BY <2>1, <2>2, CompleteSteady
    <3>2. Sound(Complete(k)[p], H)
      BY <3>1 DEF Steady
    <3>3. Steady(Complete(k)[p], SendIfAdvanced(p.acked)[Complete(k)[p]], H)
      BY <2>1, <3>2, SendAdvancedSteady
    <3> QED
      BY <1>1, <1>3, <3>1, <3>3, SteadyTrans
  <2> QED
    BY <1>3, <2>2
<1> HIDE DEF After
<1> DEFINE X == {k \in 0..MaxSeq : ~Steady(r, step[k], H)}
<1>4. ASSUME X # {} PROVE FALSE
  <2>1. PICK m \in X : \A y \in X : m <= y
    BY <1>4, LeastNatural, X \subseteq Nat
  <2>2. m # 0
    BY <1>2, <2>1, SteadyRefl
  <2>3. m \in 1..MaxSeq /\ m - 1 \in 0..MaxSeq /\ ~(m <= m - 1) /\ m \in Nat \ {0}
    BY <1>1, <2>1, <2>2
  <2>4. Steady(r, step[m - 1], H)
    BY <2>1, <2>3
  <2>5. Steady(r, After(step[m - 1], m), H)
    BY <1>3, <2>3, <2>4
  <2> QED
    BY <1>2, <2>1, <2>3, <2>5
<1> QED
  BY <1>1, <1>2, <1>4

LEMMA ObserveAckedSteady ==
  ASSUME NEW H, NEW n \in Nat, H \subseteq 1..n, NEW r, Sound(r, H),
         NEW acked \in Nat, 1..acked \subseteq H, NEW S \in SUBSET Seqs, S \subseteq H
  PROVE  Steady(r, ObserveAcked(acked, S)[r], H)
<1> DEFINE pa == IF r.pendingAck <= acked THEN 0 ELSE r.pendingAck
           q == [r EXCEPT !.pendingAck = pa]
           b == BindAcked(acked)[q]
<1>1. r \in Wrapper
  BY DEF Sound
<1>2. pa \in Nat /\ 1..pa \subseteq H
  BY <1>1, WrapperFields DEF Sound
<1>3. ObserveAcked(acked, S)[r] = CompleteAll(S)[b]
  BY <1>1 DEF ObserveAcked
<1> HIDE DEF pa
<1>4. q \in Wrapper
  BY <1>1, <1>2 DEF Wrapper
<1>5. Alike(r, q) /\ q.acked = r.acked /\ q.completed = r.completed /\ q.pendingAck = pa
      /\ q.out = r.out
  BY <1>1 DEF Wrapper, Alike
<1> HIDE DEF q
<1>6. Steady(r, q, H) /\ Sound(q, H)
  BY <1>2, <1>4, <1>5, AlikeSteady DEF Sound
<1>7. Steady(q, b, H)
  BY <1>6, BindSteady
<1> HIDE DEF b
<1>8. Sound(b, H)
  BY <1>7 DEF Steady
<1>9. Steady(b, CompleteAll(S)[b], H)
  BY <1>8, CompleteAllSteady
<1> QED
  BY <1>1, <1>3, <1>6, <1>7, <1>9, SteadyTrans

\* acknowledgeEnvelope; while the wrapper is not live it pushes nothing.
LEMMA AcknowledgeSteady ==
  ASSUME NEW H, NEW n \in Nat, H \subseteq 1..n, NEW r, Sound(r, H), NEW seq \in H
  PROVE  /\ Steady(r, AcknowledgeEnvelope(r, seq), H)
         /\ ~r.live => AcknowledgeEnvelope(r, seq).out = r.out
<1> DEFINE c == Complete(seq)[r]
<1>1. r \in Wrapper /\ r.acked \in Nat
  BY WrapperFields DEF Sound
<1>2. Steady(r, c, H) /\ c.out = r.out
  BY CompleteSteady
<1>3. CASE r.live
  <2>1. AcknowledgeEnvelope(r, seq) = SendIfAdvanced(r.acked)[c]
    BY <1>3 DEF AcknowledgeEnvelope
  <2> HIDE DEF c
  <2>2. Sound(c, H)
    BY <1>2 DEF Steady
  <2> QED
    BY <1>1, <1>2, <1>3, <2>1, <2>2, SendAdvancedSteady, SteadyTrans
<1>4. CASE ~r.live
  <2> DEFINE pa == IF c.acked > r.acked THEN c.acked ELSE c.pendingAck
             q == [c EXCEPT !.pendingAck = pa]
  <2>1. AcknowledgeEnvelope(r, seq) = q
    BY <1>4 DEF AcknowledgeEnvelope
  <2> HIDE DEF c
  <2>2. Sound(c, H) /\ c \in Wrapper
    BY <1>2 DEF Steady, Sound
  <2>3. pa \in Nat /\ 1..pa \subseteq H
    BY <2>2, WrapperFields DEF Sound
  <2> HIDE DEF pa
  <2>4. q \in Wrapper
    BY <2>2, <2>3 DEF Wrapper
  <2>5. Alike(c, q) /\ q.acked = c.acked /\ q.completed = c.completed /\ q.pendingAck = pa
        /\ q.out = c.out
    BY <2>2 DEF Wrapper, Alike
  <2> HIDE DEF q
  <2>6. Steady(c, q, H)
    BY <2>2, <2>3, <2>4, <2>5, AlikeSteady DEF Sound
  <2> QED
    BY <1>1, <1>2, <2>1, <2>5, <2>6, SteadyTrans
<1> QED
  BY <1>3, <1>4

-----------------------------------------------------------------------------
(* Requesting.                                                             *)

\* What no method but the joining ones changes.
Still(r, q) ==
    /\ q.gen = r.gen /\ q.live = r.live
    /\ q.supported = r.supported /\ q.connected = r.connected
    /\ ~r.connected => q.out = r.out

LEMMA StillTrans ==
  ASSUME NEW r, NEW q, NEW p, Still(r, q), Still(q, p)
  PROVE  Still(r, p)
  BY DEF Still

\* #request numbers its push, so that no older answer is taken for its own.
LEMMA SendFit ==
  ASSUME NEW U, NEW R, NEW D, NEW H, NEW n, NEW r, Fit(r, U, R, D, H, n)
  PROVE  /\ Fit(Send[r], U, R, D, H, n) /\ Still(r, Send[r])
         /\ Open(r) => Open(Send[r])
<1> DEFINE k == r.ref + 1
           m == [type |-> "resync", ref |-> k, request |-> r.pending]
           q == [r EXCEPT !.inFlight = TRUE, !.ref = k, !.out = Append(@, m)]
<1>1. r \in Wrapper /\ Agrees(r, U, R, D, H, n)
  BY DEF Fit, Agrees, Sound
<1>2. r.ref \in Nat /\ k \in Nat /\ ~(k <= r.ref)
  BY <1>1, WrapperFields
<1>3. Send[r] = r \/ (r.pending # None /\ r.connected /\ Send[r] = q)
  BY <1>1, WrapperFields DEF Send
<1>4. CASE r.pending # None /\ r.connected /\ Send[r] = q
  <2>1. GivenUp(r.pending, r.inbox, D) /\ r.supported
    BY <1>1, <1>4 DEF Agrees
  <2>2. m \in UpMessage
    BY <1>2, <2>1 DEF UpMessage, GivenUp
  <2>3. Append(r.out, m) \in Seq(UpMessage) /\ Range(Append(r.out, m)) = Range(r.out) \cup {m}
    BY <1>1, <2>2, WrapperFields, RangeAppend
  <2>4. m.type = "resync" /\ m.ref = k /\ m.request = r.pending
    OBVIOUS
  <2> HIDE DEF m
  <2>5. q \in Wrapper
    BY <1>1, <1>2, <2>3 DEF Wrapper
  <2>6. /\ q.gen = r.gen /\ q.live = r.live /\ q.inbox = r.inbox
        /\ q.supported = r.supported /\ q.connected = r.connected
        /\ q.pending = r.pending /\ q.inFlight = TRUE /\ q.ref = k
        /\ q.resolved = r.resolved /\ q.received = r.received /\ q.retiring = r.retiring
        /\ q.timer = r.timer /\ q.acked = r.acked /\ q.completed = r.completed
        /\ q.pendingAck = r.pendingAck /\ q.out = Append(r.out, m)
    BY <1>1 DEF Wrapper
  <2> HIDE DEF q, k
  <2>7. ASSUME NEW s, Knows(r, s) PROVE Knows(q, s)
    BY <2>6, <2>7 DEF Knows
  <2>8. ASSUME NEW x, UpFits(x, r, D, H) PROVE UpFits(x, q, D, H)
    <3>1. x.type = "resync" => x.ref \in Nat
      BY <2>8 DEF UpFits, UpMessage
    <3>2. x.type = "resync" => x.ref <= k /\ x.ref # k
      BY <1>2, <2>8, <3>1 DEF UpFits, k
    <3> QED
      BY <2>6, <2>7, <2>8, <3>2 DEF UpFits
  <2>9. UpFits(m, q, D, H)
    <3>1. \A s \in r.pending.missing : Knows(q, s)
      BY <1>4, <2>6 DEF Knows
    <3> QED
      BY <1>2, <2>1, <2>2, <2>4, <2>6, <3>1 DEF UpFits
  <2>10. ASSUME NEW x \in R PROVE ReplyFits(x, q)
    <3>1. ReplyFits(x, r)
      BY <1>1 DEF Agrees
    <3> QED
      BY <1>2, <2>6, <3>1 DEF ReplyFits, k
  <2>11. Sound(q, H)
    BY <1>1, <2>5, <2>6 DEF Agrees, Sound
  <2>12. \A x \in Range(q.out) \cup U : UpFits(x, q, D, H)
    BY <1>1, <2>3, <2>6, <2>8, <2>9 DEF Agrees
  <2>13. Agrees(q, U, R, D, H, n)
    BY <1>1, <2>1, <2>6, <2>10, <2>11, <2>12 DEF Agrees
  <2>14. Fit(q, U, R, D, H, n)
    BY <2>6, <2>7, <2>13 DEF Fit, Aware
  <2> QED
    BY <1>4, <2>6, <2>14 DEF Still, Open
<1> QED
  BY <1>3, <1>4 DEF Still

\* The numbers a new request names are neither dispatched nor waiting.
LEMMA NumbersFree ==
  ASSUME NEW U, NEW R, NEW D, NEW H, NEW n, NEW r, Fit(r, U, R, D, H, n),
         r.supported, r.pending = None, NEW cutoff \in Nat
  PROVE  GivenUp([cutoff |-> cutoff, missing |-> Numbers(r, cutoff)], r.inbox, D)
<1>1. r \in Wrapper /\ Agrees(r, U, R, D, H, n) /\ Aware(r, H) /\ D \subseteq H
  BY DEF Fit, Agrees, Sound
<1>2. r.resolved \in Nat /\ r.retiring \subseteq Nat \ {0} /\ r.received \subseteq Nat
  BY <1>1, WrapperFields DEF Seqs
<1>3. \A S, k : Least(S, k) \subseteq S
  BY DEF Least
<1>4. \/ Numbers(r, cutoff) \subseteq {s \in r.retiring : s > r.resolved /\ s <= cutoff}
      \/ Numbers(r, cutoff) \subseteq ((r.resolved + 1)..cutoff) \ r.received
  BY <1>3 DEF Numbers, Missing
<1>5. Numbers(r, cutoff) \subseteq 1..cutoff
  BY <1>2, <1>4
<1>6. Numbers(r, cutoff) \cap (r.inbox \cup D) = {}
  <2>1. CASE Numbers(r, cutoff) \subseteq r.retiring
    BY <1>1, <2>1 DEF Agrees
  <2>2. CASE Numbers(r, cutoff) \subseteq ((r.resolved + 1)..cutoff) \ r.received
    <3>1. ASSUME NEW s \in D, s \in (r.resolved + 1)..cutoff, s \notin r.received PROVE FALSE
      <4>1. Knows(r, s)
        BY <1>1 DEF Aware
      <4> QED
        BY <1>2, <3>1, <4>1 DEF Knows
    <3> QED
      BY <1>1, <2>2, <3>1 DEF Agrees
  <2> QED
    BY <1>4, <2>1, <2>2
<1>7. [cutoff |-> cutoff, missing |-> Numbers(r, cutoff)] \in Request
  BY <1>5 DEF Request, Seqs
<1> QED
  BY <1>5, <1>6, <1>7 DEF GivenUp

\* #start, when no request is in progress.
LEMMA StartFit ==
  ASSUME NEW U, NEW R, NEW D, NEW H, NEW n, NEW r, Fit(r, U, R, D, H, n),
         r.supported, r.pending = None, ~r.inFlight, NEW cutoff \in Nat
  PROVE  /\ Fit(Start(cutoff)[r], U, R, D, H, n) /\ Still(r, Start(cutoff)[r])
         /\ Open(Start(cutoff)[r])
<1> DEFINE p == [cutoff |-> cutoff, missing |-> Numbers(r, cutoff)]
           q == [r EXCEPT !.pending = p]
<1>1. r \in Wrapper /\ Agrees(r, U, R, D, H, n)
  BY DEF Fit, Agrees, Sound
<1>2. Start(cutoff)[r] = r \/ Start(cutoff)[r] = Send[q]
  BY <1>1 DEF Start
<1>3. GivenUp(p, r.inbox, D) /\ p \in Request
  BY NumbersFree DEF GivenUp
<1> HIDE DEF p
<1>4. q \in Wrapper
  BY <1>1, <1>3 DEF Wrapper
<1>5. /\ q.gen = r.gen /\ q.live = r.live /\ q.inbox = r.inbox
      /\ q.supported = r.supported /\ q.connected = r.connected
      /\ q.pending = p /\ q.inFlight = r.inFlight /\ q.ref = r.ref
      /\ q.resolved = r.resolved /\ q.received = r.received /\ q.retiring = r.retiring
      /\ q.timer = r.timer /\ q.acked = r.acked /\ q.completed = r.completed
      /\ q.pendingAck = r.pendingAck /\ q.out = r.out
  BY <1>1 DEF Wrapper
<1> HIDE DEF q
<1>6. ASSUME NEW s, Knows(r, s) PROVE Knows(q, s)
  BY <1>5, <1>6 DEF Knows
<1>7. ASSUME NEW x, UpFits(x, r, D, H) PROVE UpFits(x, q, D, H)
  BY <1>5, <1>6, <1>7 DEF UpFits
<1>8. ASSUME NEW x, ReplyFits(x, r) PROVE ReplyFits(x, q)
  BY <1>5, <1>8 DEF ReplyFits
<1>9. Sound(q, H)
  BY <1>1, <1>4, <1>5 DEF Agrees, Sound
<1>10. Agrees(q, U, R, D, H, n)
  BY <1>1, <1>3, <1>5, <1>7, <1>8, <1>9 DEF Agrees
<1>11. Fit(q, U, R, D, H, n) /\ Still(r, q) /\ Open(q)
  BY <1>5, <1>6, <1>10 DEF Fit, Aware, Still, Open
<1>12. Fit(Send[q], U, R, D, H, n) /\ Still(q, Send[q]) /\ Open(Send[q])
  BY <1>11, SendFit
<1> QED
  BY <1>2, <1>11, <1>12, StillTrans DEF Still, Open

LEMMA ScheduleFit ==
  ASSUME NEW U, NEW R, NEW D, NEW H, NEW n, NEW r, Fit(r, U, R, D, H, n)
  PROVE  /\ Fit(Schedule[r], U, R, D, H, n) /\ Still(r, Schedule[r])
         /\ Open(r) => Open(Schedule[r])
<1>1. Sound(r, H)
  BY DEF Fit, Agrees
<1>2. Steady(r, Schedule[r], H) /\ Schedule[r].out = r.out
  BY <1>1, ScheduleSteady
<1> QED
  BY <1>2, SteadyFit DEF Steady, Still

\* The end of #request.
LEMMA FinishFit ==
  ASSUME NEW U, NEW R, NEW D, NEW H, NEW n, NEW r, Fit(r, U, R, D, H, n), r.supported
  PROVE  /\ Fit(Finish[r], U, R, D, H, n) /\ Still(r, Finish[r])
         /\ Open(Finish[r])
<1> DEFINE q == [r EXCEPT !.inFlight = FALSE]
           c == IF r.pending = None /\ r.retiring # {} THEN Start(r.issued)[q] ELSE q
<1>1. r \in Wrapper /\ Agrees(r, U, R, D, H, n) /\ r.issued \in Nat
  BY WrapperFields DEF Fit, Agrees, Sound
<1>2. Finish[r] = Schedule[c]
  BY <1>1 DEF Finish
<1>3. q \in Wrapper
  BY <1>1 DEF Wrapper
<1>4. /\ q.gen = r.gen /\ q.live = r.live /\ q.inbox = r.inbox
      /\ q.supported = r.supported /\ q.connected = r.connected
      /\ q.pending = r.pending /\ q.inFlight = FALSE /\ q.ref = r.ref
      /\ q.resolved = r.resolved /\ q.received = r.received /\ q.retiring = r.retiring
      /\ q.timer = r.timer /\ q.acked = r.acked /\ q.completed = r.completed
      /\ q.pendingAck = r.pendingAck /\ q.out = r.out
  BY <1>1 DEF Wrapper
<1> HIDE DEF q
<1>5. ASSUME NEW s, Knows(r, s) PROVE Knows(q, s)
  BY <1>4, <1>5 DEF Knows
<1>6. ASSUME NEW x, UpFits(x, r, D, H) PROVE UpFits(x, q, D, H)
  BY <1>4, <1>5, <1>6 DEF UpFits
<1>7. ASSUME NEW x, ReplyFits(x, r) PROVE ReplyFits(x, q)
  BY <1>4, <1>7 DEF ReplyFits
<1>8. Sound(q, H)
  BY <1>1, <1>3, <1>4 DEF Agrees, Sound
<1>9. Agrees(q, U, R, D, H, n)
  BY <1>1, <1>4, <1>6, <1>7, <1>8 DEF Agrees
<1>10. Fit(q, U, R, D, H, n) /\ Still(r, q) /\ Open(q)
  BY <1>4, <1>5, <1>9 DEF Fit, Aware, Still, Open
<1>11. Fit(c, U, R, D, H, n) /\ Still(r, c) /\ Open(c)
  <2>1. CASE r.pending = None /\ r.retiring # {}
    <3>1. Fit(Start(r.issued)[q], U, R, D, H, n) /\ Still(q, Start(r.issued)[q]) /\ Open(Start(r.issued)[q])
      BY <1>1, <1>4, <1>10, <2>1, StartFit
    <3> QED
      BY <1>10, <2>1, <3>1, StillTrans
  <2>2. CASE ~(r.pending = None /\ r.retiring # {})
    BY <1>10, <2>2
  <2> QED
    BY <2>1, <2>2
<1> HIDE DEF c
<1> QED
  BY <1>2, <1>11, ScheduleFit, StillTrans

\* The timer's callback.
LEMMA TimerFit ==
  ASSUME NEW U, NEW R, NEW D, NEW H, NEW n, NEW r, Fit(r, U, R, D, H, n), Open(r), r.timer # None
  PROVE  /\ Fit(TimerCallback(r), U, R, D, H, n) /\ Still(r, TimerCallback(r))
         /\ Open(TimerCallback(r))
<1> DEFINE q == [r EXCEPT !.timer = None]
           c == IF r.pending # None THEN Send[q] ELSE Start(r.timer)[q]
<1>1. r \in Wrapper /\ Agrees(r, U, R, D, H, n) /\ r.timer \in Nat /\ r.supported
  BY WrapperFields DEF Fit, Agrees, Sound
<1>2. TimerCallback(r) = Schedule[c]
  BY DEF TimerCallback
<1>3. q \in Wrapper
  BY <1>1 DEF Wrapper
<1>4. /\ q.gen = r.gen /\ q.live = r.live /\ q.inbox = r.inbox
      /\ q.supported = r.supported /\ q.connected = r.connected
      /\ q.pending = r.pending /\ q.inFlight = r.inFlight /\ q.ref = r.ref
      /\ q.resolved = r.resolved /\ q.received = r.received /\ q.retiring = r.retiring
      /\ q.timer = None /\ q.acked = r.acked /\ q.completed = r.completed
      /\ q.pendingAck = r.pendingAck /\ q.out = r.out
  BY <1>1 DEF Wrapper
<1> HIDE DEF q
<1>5. Steady(r, q, H)
  <2>1. Sound(q, H) /\ r.resolved <= q.resolved
    BY <1>1, <1>3, <1>4, WrapperFields DEF Agrees, Sound
  <2> QED
    BY <1>4, <2>1 DEF Steady
<1>6. Fit(q, U, R, D, H, n) /\ Still(r, q) /\ Open(q)
  BY <1>4, <1>5, SteadyFit DEF Still, Open
<1>7. Fit(c, U, R, D, H, n) /\ Still(r, c) /\ Open(c)
  <2>1. CASE r.pending = None
    <3>1. Fit(Start(r.timer)[q], U, R, D, H, n) /\ Still(q, Start(r.timer)[q]) /\ Open(Start(r.timer)[q])
      BY <1>1, <1>4, <1>6, <2>1, StartFit DEF Open
    <3> QED
      BY <1>6, <2>1, <3>1, StillTrans
  <2>2. CASE r.pending # None
    <3>1. Fit(Send[q], U, R, D, H, n) /\ Still(q, Send[q]) /\ Open(Send[q])
      BY <1>6, SendFit
    <3> QED
      BY <1>6, <2>2, <3>1, StillTrans
  <2> QED
    BY <2>1, <2>2
<1> HIDE DEF c
<1> QED
  BY <1>2, <1>7, ScheduleFit, StillTrans

\* retire, of everything that waits in the inbox.
LEMMA RetireFit ==
  ASSUME NEW U, NEW R, NEW D, NEW H, NEW n, NEW r, Fit(r, U, R, D, H, n), Open(r), r.supported
  PROVE  LET q == Retire([r EXCEPT !.inbox = {}], r.inbox)
         IN  Fit(q, U, R, D, H, n) /\ Still(r, q) /\ Open(q)
<1> DEFINE e == [r EXCEPT !.inbox = {}]
           G == {s \in r.inbox : s > e.resolved /\ s \in e.received}
           q == [e EXCEPT !.retiring = @ \cup G]
<1>1. r \in Wrapper /\ Agrees(r, U, R, D, H, n)
  BY DEF Fit, Agrees, Sound
<1>2. Retire(e, r.inbox) = StartIfFree[q]
  BY DEF Retire
<1>3. e \in Wrapper
  BY <1>1 DEF Wrapper
<1>4. /\ e.gen = r.gen /\ e.live = r.live /\ e.inbox = {}
      /\ e.supported = r.supported /\ e.connected = r.connected
      /\ e.pending = r.pending /\ e.inFlight = r.inFlight /\ e.ref = r.ref
      /\ e.resolved = r.resolved /\ e.received = r.received /\ e.retiring = r.retiring
      /\ e.timer = r.timer /\ e.acked = r.acked /\ e.completed = r.completed
      /\ e.pendingAck = r.pendingAck /\ e.out = r.out
  BY <1>1 DEF Wrapper
<1> HIDE DEF e
<1>5. G \subseteq r.inbox /\ G \subseteq r.received /\ G \in SUBSET Seqs
  BY <1>1, <1>4, WrapperFields
<1> HIDE DEF G
<1>6. q \in Wrapper
  BY <1>3, <1>5 DEF Wrapper
<1>7. /\ q.gen = r.gen /\ q.live = r.live /\ q.inbox = {}
      /\ q.supported = r.supported /\ q.connected = r.connected
      /\ q.pending = r.pending /\ q.inFlight = r.inFlight /\ q.ref = r.ref
      /\ q.resolved = r.resolved /\ q.received = r.received /\ q.retiring = r.retiring \cup G
      /\ q.timer = r.timer /\ q.acked = r.acked /\ q.completed = r.completed
      /\ q.pendingAck = r.pendingAck /\ q.out = r.out
  BY <1>3, <1>4 DEF Wrapper
<1> HIDE DEF q
<1>8. ASSUME NEW s, Knows(r, s) PROVE Knows(q, s)
  BY <1>7, <1>8 DEF Knows
<1>9. ASSUME NEW p, GivenUp(p, r.inbox, D) PROVE GivenUp(p, q.inbox, D)
  BY <1>7, <1>9 DEF GivenUp
<1>10. ASSUME NEW x, UpFits(x, r, D, H) PROVE UpFits(x, q, D, H)
  BY <1>7, <1>8, <1>9, <1>10 DEF UpFits
<1>11. ASSUME NEW x, ReplyFits(x, r) PROVE ReplyFits(x, q)
  BY <1>7, <1>11 DEF ReplyFits
<1>12. Sound(q, H)
  BY <1>1, <1>5, <1>6, <1>7 DEF Agrees, Sound
<1>13. q.retiring \cap (q.inbox \cup D) = {}
  BY <1>1, <1>5, <1>7 DEF Agrees
<1>14. Agrees(q, U, R, D, H, n)
  BY <1>1, <1>7, <1>9, <1>10, <1>11, <1>12, <1>13 DEF Agrees
<1>15. Fit(q, U, R, D, H, n) /\ Still(r, q) /\ Open(q) /\ q.issued \in Nat
  BY <1>6, <1>7, <1>8, <1>14, WrapperFields DEF Fit, Aware, Still, Open
<1>16. StartIfFree[q] = IF q.connected /\ q.pending = None THEN Start(q.issued)[q] ELSE q
  BY <1>6 DEF StartIfFree
<1>17. q.pending = None => ~q.inFlight
  BY <1>15 DEF Open
<1>18. Fit(StartIfFree[q], U, R, D, H, n) /\ Still(q, StartIfFree[q]) /\ Open(StartIfFree[q])
  <2>1. CASE q.connected /\ q.pending = None
    BY <1>7, <1>15, <1>16, <1>17, <2>1, StartFit
  <2>2. CASE ~(q.connected /\ q.pending = None)
    BY <1>15, <1>16, <2>2 DEF Still
  <2> QED
    BY <2>1, <2>2
<1> QED
  BY <1>2, <1>15, <1>18, StillTrans DEF e

\* receive: what reaches the inbox was not settled.
LEMMA ReceiveFit ==
  ASSUME NEW U, NEW R, NEW D, NEW H, NEW n, NEW r, Fit(r, U, R, D, H, n), r.supported,
         NEW seq \in Seqs, seq <= n
  PROVE  /\ Fit(Receive(r, seq), U, R, D, H, n) /\ Still(r, Receive(r, seq))
         /\ Open(r) => Open(Receive(r, seq))
<1> DEFINE top == Larger(seq, r.issued)
           q == [r EXCEPT !.issued = top, !.received = @ \cup {seq}, !.inbox = @ \cup {seq}]
<1>1. r \in Wrapper /\ Agrees(r, U, R, D, H, n) /\ Aware(r, H) /\ seq \in Nat
  BY DEF Fit, Agrees, Sound, Seqs
<1>2. Receive(r, seq) = r \/ (~Knows(r, seq) /\ Receive(r, seq) = Schedule[q])
  BY DEF Receive, Knows
<1>3. CASE ~Knows(r, seq) /\ Receive(r, seq) = Schedule[q]
  <2>1. top \in Nat /\ seq \in 1..n
    BY <1>1, WrapperFields DEF Larger, Seqs, Agrees
  <2> HIDE DEF top
  <2>2. q \in Wrapper
    BY <1>1, <2>1, WrapperFields DEF Wrapper
  <2>3. /\ q.gen = r.gen /\ q.live = r.live /\ q.inbox = r.inbox \cup {seq}
        /\ q.supported = r.supported /\ q.connected = r.connected
        /\ q.pending = r.pending /\ q.inFlight = r.inFlight /\ q.ref = r.ref
        /\ q.resolved = r.resolved /\ q.received = r.received \cup {seq} /\ q.retiring = r.retiring
        /\ q.timer = r.timer /\ q.acked = r.acked /\ q.completed = r.completed
        /\ q.pendingAck = r.pendingAck /\ q.out = r.out
    BY <1>1 DEF Wrapper
  <2> HIDE DEF q
  <2>4. seq \notin H /\ seq \notin D /\ seq \notin r.received
    BY <1>1, <1>3 DEF Aware, Knows, Agrees
  <2>5. ASSUME NEW s, Knows(r, s) PROVE Knows(q, s) /\ s # seq
    BY <1>3, <2>3, <2>5 DEF Knows
  <2>6. ASSUME NEW p, GivenUp(p, r.inbox, D), seq \notin p.missing PROVE GivenUp(p, q.inbox, D)
    BY <2>3, <2>6 DEF GivenUp
  <2>7. ASSUME NEW x, UpFits(x, r, D, H) PROVE UpFits(x, q, D, H)
    BY <2>3, <2>5, <2>6, <2>7 DEF UpFits
  <2>8. ASSUME NEW x, ReplyFits(x, r) PROVE ReplyFits(x, q)
    BY <2>3, <2>8 DEF ReplyFits
  <2>9. Sound(q, H)
    BY <1>1, <2>2, <2>3 DEF Agrees, Sound
  <2>10. q.inbox \subseteq q.received \cap (1..n) /\ q.inbox \cap H = {}
         /\ q.retiring \cap (q.inbox \cup D) = {}
    BY <1>1, <2>1, <2>3, <2>4 DEF Agrees, Sound
  <2>11. q.pending # None => GivenUp(q.pending, q.inbox, D)
    BY <1>1, <1>3, <2>3, <2>6 DEF Agrees, Knows
  <2>12. Agrees(q, U, R, D, H, n)
    BY <1>1, <2>3, <2>7, <2>8, <2>9, <2>10, <2>11 DEF Agrees
  <2>13. Fit(q, U, R, D, H, n) /\ Still(r, q) /\ (Open(r) => Open(q))
    BY <2>3, <2>5, <2>12 DEF Fit, Aware, Still, Open
  <2> QED
    BY <1>3, <2>13, ScheduleFit, StillTrans
<1> QED
  BY <1>2, <1>3 DEF Still

\* A break leaves nothing in the link, and no timer.
LEMMA DisconnectedFit ==
  ASSUME NEW U, NEW R, NEW D, NEW H, NEW n, NEW r, Fit(r, U, R, D, H, n)
  PROVE  LET q == Disconnected(r)
         IN  /\ Fit(q, {}, {}, D, H, n) /\ (Open(r) => Open(q))
             /\ q.gen = r.gen /\ q.supported = r.supported /\ ~q.connected /\ ~q.live
             /\ q.out = r.out
<1> DEFINE q == [r EXCEPT !.connected = FALSE, !.timer = None, !.live = FALSE]
<1>1. r \in Wrapper /\ Agrees(r, U, R, D, H, n)
  BY DEF Fit, Agrees, Sound
<1>2. q \in Wrapper
  BY <1>1 DEF Wrapper
<1>3. /\ q.gen = r.gen /\ q.live = FALSE /\ q.inbox = r.inbox
      /\ q.supported = r.supported /\ q.connected = FALSE
      /\ q.pending = r.pending /\ q.inFlight = r.inFlight /\ q.ref = r.ref
      /\ q.resolved = r.resolved /\ q.received = r.received /\ q.retiring = r.retiring
      /\ q.timer = None /\ q.acked = r.acked /\ q.completed = r.completed
      /\ q.pendingAck = r.pendingAck /\ q.out = r.out
  BY <1>1 DEF Wrapper
<1>4. Disconnected(r) = q
  BY DEF Disconnected
<1> HIDE DEF q
<1>5. ASSUME NEW s, Knows(r, s) PROVE Knows(q, s)
  BY <1>3, <1>5 DEF Knows
<1>6. ASSUME NEW x, UpFits(x, r, D, H) PROVE UpFits(x, q, D, H)
  BY <1>3, <1>5, <1>6 DEF UpFits
<1>7. Sound(q, H)
  BY <1>1, <1>2, <1>3 DEF Agrees, Sound
<1>8. Agrees(q, {}, {}, D, H, n)
  BY <1>1, <1>3, <1>6, <1>7 DEF Agrees
<1> QED
  BY <1>3, <1>4, <1>5, <1>8 DEF Fit, Aware, Open

\* A new process knows nothing, and has not joined.
LEMMA NewFit ==
  ASSUME NEW D, NEW H, NEW n \in Nat, D \subseteq H, H \subseteq 1..n, NEW g \in Nat
  PROVE  LET q == NewWrapper(g)
         IN  /\ Fit(q, {}, {}, D, H, n) /\ Open(q)
             /\ q.gen = g /\ ~q.supported /\ ~q.connected /\ ~q.live /\ q.out = <<>>
<1> DEFINE q == NewWrapper(g)
<1>1. q \in Wrapper
  BY DEF NewWrapper, Wrapper
<1>2. /\ q.gen = g /\ q.live = FALSE /\ q.inbox = {}
      /\ q.supported = FALSE /\ q.connected = FALSE
      /\ q.pending = None /\ q.inFlight = FALSE /\ q.ref = 0
      /\ q.resolved = 0 /\ q.received = {} /\ q.retiring = {}
      /\ q.timer = None /\ q.acked = 0 /\ q.completed = {}
      /\ q.pendingAck = 0 /\ q.out = <<>>
  BY DEF NewWrapper
<1> HIDE DEF q
<1>3. Sound(q, H)
  BY <1>1, <1>2 DEF Sound
<1>4. Range(q.out) = {}
  BY <1>2 DEF Range
<1>5. Agrees(q, {}, {}, D, H, n)
  BY <1>2, <1>3, <1>4 DEF Agrees
<1> QED
  BY <1>2, <1>5 DEF Fit, Open, q

\* A status: it observes and acknowledges.
LEMMA StatusFit ==
  ASSUME NEW U, NEW R, NEW D, NEW H, NEW n, NEW r, Fit(r, U, R, D, H, n),
         NEW status \in Status, 1..status.acked \subseteq H
  PROVE  /\ Fit(OnStatus(r, status), U, R, D, H, n) /\ Steady(r, OnStatus(r, status), H)
         /\ Open(r) => Open(OnStatus(r, status))
<1> DEFINE c == ObserveStatus(status)[r]
           d == ObserveAcked(status.acked, {})[c]
<1>1. r \in Wrapper /\ Sound(r, H) /\ n \in Nat /\ H \subseteq 1..n /\ status.acked \in Nat
  BY DEF Fit, Agrees, Sound, Status
<1>2. OnStatus(r, status) = ReplayPendingAck[d]
  BY DEF OnStatus
<1>3. Steady(r, c, H)
  BY <1>1, ObserveSteady
<1> HIDE DEF c
<1>4. Sound(c, H)
  BY <1>3 DEF Steady
<1>5. Steady(c, d, H)
  BY <1>1, <1>4, ObserveAckedSteady
<1> HIDE DEF d
<1>6. Sound(d, H)
  BY <1>5 DEF Steady
<1>7. Steady(d, ReplayPendingAck[d], H)
  BY <1>6, ReplaySteady
<1>8. Steady(r, OnStatus(r, status), H)
  BY <1>1, <1>2, <1>3, <1>5, <1>7, SteadyTrans
<1> QED
  BY <1>8, SteadyFit

\* A join reply: the first one tells the process what was settled before it.
LEMMA JoinFit ==
  ASSUME NEW U, NEW R, NEW D, NEW H, NEW n, NEW r, Fit(r, U, R, D, H, n), Open(r),
         NEW status \in Status, 1..status.acked \subseteq H,
         r.supported \/ H \subseteq 1..status.acked
  PROVE  LET q == OnJoinReply(r, status)
         IN  /\ Fit(q, U, R, D, H, n) /\ Open(q)
             /\ q.gen = r.gen /\ q.supported
<1> DEFINE a == [r EXCEPT !.ackIssued = 0, !.live = TRUE]
           b == ObserveAcked(status.acked, {})[a]
           c == [b EXCEPT !.supported = TRUE, !.connected = TRUE]
           d == ObserveStatus(status)[c]
           e == ResendAck(status)[d]
           f == ResumeRecovery(status)[e]
<1>1. /\ r \in Wrapper /\ Agrees(r, U, R, D, H, n) /\ Sound(r, H)
      /\ n \in Nat /\ H \subseteq 1..n /\ status.acked \in Nat /\ status.issued \in Nat
  BY DEF Fit, Agrees, Sound, Status
<1>2. a \in Wrapper
  BY <1>1 DEF Wrapper
<1>3. /\ a.gen = r.gen /\ a.inbox = r.inbox
      /\ a.supported = r.supported /\ a.connected = r.connected
      /\ a.pending = r.pending /\ a.inFlight = r.inFlight /\ a.ref = r.ref
      /\ a.resolved = r.resolved /\ a.received = r.received /\ a.retiring = r.retiring
      /\ a.timer = r.timer /\ a.acked = r.acked /\ a.completed = r.completed
      /\ a.pendingAck = r.pendingAck /\ a.out = r.out
  BY <1>1 DEF Wrapper
<1> HIDE DEF a
<1>4. Fit(a, U, R, D, H, n) /\ Open(a) /\ Sound(a, H)
  <2>1. ASSUME NEW s, Knows(r, s) PROVE Knows(a, s)
    BY <1>3, <2>1 DEF Knows
  <2>2. ASSUME NEW x, UpFits(x, r, D, H) PROVE UpFits(x, a, D, H)
    BY <1>3, <2>1, <2>2 DEF UpFits
  <2>3. ASSUME NEW x, ReplyFits(x, r) PROVE ReplyFits(x, a)
    BY <1>3, <2>3 DEF ReplyFits
  <2>4. Sound(a, H)
    BY <1>1, <1>2, <1>3 DEF Sound
  <2>5. Agrees(a, U, R, D, H, n)
    BY <1>1, <1>3, <2>2, <2>3, <2>4 DEF Agrees
  <2> QED
    BY <1>3, <2>1, <2>4, <2>5 DEF Fit, Aware, Open
<1>5. Steady(a, b, H)
  <2>1. 1..status.acked \subseteq H /\ {} \in SUBSET Seqs /\ {} \subseteq H
    OBVIOUS
  <2> QED
    BY <1>1, <1>4, <2>1, ObserveAckedSteady
<1> HIDE DEF b
<1>6. /\ Fit(b, U, R, D, H, n) /\ Open(b) /\ Sound(b, H) /\ b \in Wrapper
      /\ Agrees(b, U, R, D, H, n) /\ b.gen = r.gen /\ b.supported = r.supported
  BY <1>3, <1>4, <1>5, SteadyFit DEF Steady, Sound, Fit
<1>7. c \in Wrapper
  BY <1>6 DEF Wrapper
<1>8. /\ c.gen = b.gen /\ c.inbox = b.inbox
      /\ c.supported = TRUE /\ c.connected = TRUE
      /\ c.pending = b.pending /\ c.inFlight = b.inFlight /\ c.ref = b.ref
      /\ c.resolved = b.resolved /\ c.received = b.received /\ c.retiring = b.retiring
      /\ c.timer = b.timer /\ c.acked = b.acked /\ c.completed = b.completed
      /\ c.pendingAck = b.pendingAck /\ c.out = b.out
  BY <1>6 DEF Wrapper
<1> HIDE DEF c
<1>9. Agrees(c, U, R, D, H, n) /\ Sound(c, H) /\ Open(c) /\ (r.supported => Aware(c, H))
  <2>1. ASSUME NEW s, Knows(b, s) PROVE Knows(c, s)
    BY <1>8, <2>1 DEF Knows
  <2>2. ASSUME NEW x, UpFits(x, b, D, H) PROVE UpFits(x, c, D, H)
    BY <1>8, <2>1, <2>2 DEF UpFits
  <2>3. ASSUME NEW x, ReplyFits(x, b) PROVE ReplyFits(x, c)
    BY <1>8, <2>3 DEF ReplyFits
  <2>4. Sound(c, H)
    BY <1>6, <1>7, <1>8 DEF Sound
  <2>5. Agrees(c, U, R, D, H, n)
    BY <1>6, <1>8, <2>2, <2>3, <2>4 DEF Agrees
  <2> QED
    BY <1>6, <1>8, <2>1, <2>4, <2>5 DEF Fit, Aware, Open
<1>10. Steady(c, d, H) /\ d.resolved >= status.acked
  BY <1>9, ObserveSteady
<1> HIDE DEF d
<1>11. Agrees(d, U, R, D, H, n) /\ Open(d) /\ d.supported /\ d.gen = r.gen
       /\ Sound(d, H) /\ d \in Wrapper /\ d.resolved \in Nat
  BY <1>6, <1>8, <1>9, <1>10, SteadyAgrees, WrapperFields DEF Steady, Sound
<1>12. Aware(d, H)
  <2>1. CASE r.supported
    BY <1>9, <1>10, <2>1, SteadyAgrees DEF Aware
  <2>2. CASE H \subseteq 1..status.acked
    BY <1>1, <1>10, <1>11, <2>2 DEF Aware, Knows
  <2> QED
    BY <2>1, <2>2
<1>13. Fit(d, U, R, D, H, n)
  BY <1>11, <1>12 DEF Fit
<1>14. Fit(e, U, R, D, H, n) /\ Open(e) /\ e.supported /\ e.gen = r.gen /\ e \in Wrapper
  <2>1. e = d \/ e = PushAck(d, d.resolved)
    BY <1>11 DEF ResendAck
  <2>2. Steady(d, e, H)
    BY <1>11, <2>1, PushSteady, SteadyRefl DEF Sound
  <2> HIDE DEF e
  <2> QED
    BY <1>11, <1>13, <2>2, SteadyFit DEF Steady, Sound
<1> HIDE DEF e
<1>15. Fit(f, U, R, D, H, n) /\ Open(f) /\ f.supported /\ f.gen = r.gen
  <2>1. CASE e.pending # None
    <3>1. f = Send[e]
      BY <1>14, <2>1 DEF ResumeRecovery
    <3> QED
      BY <1>14, <3>1, SendFit DEF Still
  <2>2. CASE e.pending = None
    <3>1. f = Start(status.issued)[e] /\ ~e.inFlight
      BY <1>14, <2>2 DEF ResumeRecovery, Open
    <3> HIDE DEF f
    <3> QED
      BY <1>1, <1>14, <2>2, <3>1, StartFit DEF Still
  <2> QED
    BY <2>1, <2>2
<1>16. OnJoinReply(r, status) = ReplayPendingAck[f]
  <2>1. JoinRecovery(status)[b] = f
    BY <1>6 DEF JoinRecovery, c, d, e
  <2> QED
    BY <2>1 DEF OnJoinReply, a, b
<1> HIDE DEF f
<1>17. Steady(f, ReplayPendingAck[f], H)
  BY <1>15, ReplaySteady DEF Fit, Agrees
<1>18. Fit(ReplayPendingAck[f], U, R, D, H, n) /\ Open(ReplayPendingAck[f])
  BY <1>15, <1>17, SteadyFit
<1>19. ReplayPendingAck[f].gen = r.gen /\ ReplayPendingAck[f].supported
  BY <1>15, <1>17 DEF Steady
<1> QED
  BY <1>16, <1>18, <1>19

\* A reply: what the request named becomes received, then the status is observed.
LEMMA ReplyFit ==
  ASSUME NEW U, NEW R, NEW D, NEW H, NEW n, NEW r, Fit(r, U, R, D, H, n), Open(r), r.supported,
         NEW m, ReplyFits(m, r), m.status \in Status, 1..m.status.acked \subseteq H,
         m.ok => m.skipped \subseteq H
  PROVE  LET q == OnReply(r, m)
         IN  /\ Fit(q, U, R, D, H, n) /\ Open(q)
             /\ q.gen = r.gen /\ q.supported
<1> DEFINE a == [r EXCEPT !.received = @ \cup m.skipped, !.retiring = @ \ m.skipped, !.pending = None]
           b == ObserveStatus(m.status)[a]
           c == ObserveAcked(m.status.acked, m.skipped)[b]
           d == Finish[c]
<1>1. /\ r \in Wrapper /\ Agrees(r, U, R, D, H, n) /\ Sound(r, H) /\ Aware(r, H)
      /\ n \in Nat /\ H \subseteq 1..n /\ m.status.acked \in Nat
  BY DEF Fit, Agrees, Sound, Status
<1>2. CASE ~r.inFlight \/ m.ref # r.ref
  BY <1>2 DEF OnReply
<1>3. CASE r.inFlight /\ m.ref = r.ref /\ ~m.ok
  BY <1>3, FinishFit DEF OnReply, Still
<1>4. CASE r.inFlight /\ m.ref = r.ref /\ m.ok
  <2>1. /\ r.pending # None /\ m.skipped = r.pending.missing
        /\ GivenUp(r.pending, r.inbox, D) /\ m.skipped \subseteq H
    BY <1>1, <1>4 DEF Open, ReplyFits, Agrees
  <2>2. m.skipped \in SUBSET Seqs
    BY <2>1 DEF GivenUp, Request
  <2>3. a \in Wrapper
    BY <1>1, <2>2, WrapperFields DEF Wrapper
  <2>4. /\ a.gen = r.gen /\ a.inbox = r.inbox
        /\ a.supported = r.supported /\ a.connected = r.connected
        /\ a.pending = None /\ a.inFlight = r.inFlight /\ a.ref = r.ref
        /\ a.resolved = r.resolved /\ a.received = r.received \cup m.skipped
        /\ a.retiring = r.retiring \ m.skipped
        /\ a.timer = r.timer /\ a.acked = r.acked /\ a.completed = r.completed
        /\ a.pendingAck = r.pendingAck /\ a.out = r.out
    BY <1>1 DEF Wrapper
  <2> HIDE DEF a
  <2>5. ASSUME NEW s, Knows(r, s) PROVE Knows(a, s)
    BY <2>1, <2>4, <2>5 DEF Knows
  <2>6. ASSUME NEW x, UpFits(x, r, D, H) PROVE UpFits(x, a, D, H)
    BY <2>4, <2>5, <2>6 DEF UpFits
  <2>7. ASSUME NEW x, ReplyFits(x, r) PROVE ReplyFits(x, a)
    BY <2>4, <2>7 DEF ReplyFits
  <2>8. Sound(a, H)
    BY <1>1, <2>3, <2>4 DEF Sound
  <2>9. Agrees(a, U, R, D, H, n)
    BY <1>1, <2>4, <2>6, <2>7, <2>8 DEF Agrees
  <2>10. Fit(a, U, R, D, H, n)
    BY <1>1, <2>4, <2>5, <2>9 DEF Fit, Aware
  <2>11. Steady(a, b, H)
    BY <2>8, ObserveSteady
  <2>12. Fit(b, U, R, D, H, n) /\ Sound(b, H) /\ b.gen = r.gen /\ b.supported
    BY <2>4, <2>10, <2>11, SteadyFit DEF Steady
  <2> HIDE DEF b
  <2>13. Steady(b, c, H)
    BY <1>1, <2>1, <2>2, <2>12, ObserveAckedSteady
  <2>14. Fit(c, U, R, D, H, n) /\ c.gen = r.gen /\ c.supported
    BY <2>12, <2>13, SteadyFit DEF Steady
  <2> HIDE DEF c
  <2>15. Fit(d, U, R, D, H, n) /\ d.gen = r.gen /\ d.supported /\ Open(d)
    BY <2>14, FinishFit DEF Still
  <2> HIDE DEF d
  <2>16. Steady(d, ReplayPendingAck[d], H)
    BY <2>15, ReplaySteady DEF Fit, Agrees
  <2>17. OnReply(r, m) = ReplayPendingAck[d]
    BY <1>4 DEF OnReply, a, b, c, d
  <2>18. Fit(ReplayPendingAck[d], U, R, D, H, n) /\ Open(ReplayPendingAck[d])
    BY <2>15, <2>16, SteadyFit
  <2>19. ReplayPendingAck[d].gen = r.gen /\ ReplayPendingAck[d].supported
    BY <2>15, <2>16 DEF Steady
  <2> QED
    BY <2>17, <2>18, <2>19
<1> QED
  BY <1>2, <1>3, <1>4

-----------------------------------------------------------------------------
(* The ledger's entry.                                                     *)

LEMMA OwesFields ==
  ASSUME NEW e, Good(e), Owes(e)
  PROVE  /\ e # Absent /\ IsEntry(e) /\ e.issued \in Nat /\ e.acked \in Nat /\ e.acked <= e.issued
         /\ e.skipped \subseteq (e.acked + 1)..e.issued
         /\ e.gen \in Gens
  BY EntryFields, GoodPresent DEF Good, EntryShape

\* The prefix grows through the acknowledged and the skipped numbers only.
LEMMA AcknowledgeOwes ==
  ASSUME NEW e, Good(e), Owes(e), NEW seq \in Nat
  PROVE  LET f == AcknowledgeEntry(e, seq)
         IN  /\ Good(f) /\ Owes(f) /\ f.gen = e.gen /\ f.issued = e.issued
             /\ e.acked <= f.acked /\ f.acked <= f.issued
             /\ (e.acked + 1)..f.acked \subseteq (1..seq) \cup e.skipped
             /\ f.skipped = {s \in e.skipped : s > f.acked}
<1>1. /\ IsEntry(e) /\ e.acked \in Nat /\ e.issued \in Nat /\ e.acked <= e.issued
      /\ e.skipped \subseteq (e.acked + 1)..e.issued
  BY OwesFields
<1>2. CASE ~(e.acked < seq /\ seq <= e.issued)
  <2>1. AcknowledgeEntry(e, seq) = e
    BY <1>2 DEF AcknowledgeEntry
  <2>2. e.skipped = {s \in e.skipped : s > e.acked}
    BY <1>1
  <2> QED
    BY <1>1, <2>1, <2>2
<1>3. CASE e.acked < seq /\ seq <= e.issued
  <2> DEFINE p == IF seq = e.issued THEN "nil" ELSE e.pending
             m == [e EXCEPT !.acked = seq, !.pending = p]
             n == AdvanceSkipped(m)
             K == {s \in DOMAIN n.metadata : s > n.acked}
             f == [n EXCEPT !.metadata = Restrict(n.metadata, K)]
  <2>1. f = AcknowledgeEntry(e, seq)
    BY <1>3 DEF AcknowledgeEntry
  <2>2. p \in {"nil", "since"}
    BY <1>1, EntryFields
  <2> HIDE DEF p
  <2>3. IsEntry(m)
    BY <1>1, <2>2 DEF IsEntry
  <2>4. /\ m.acked = seq /\ m.issued = e.issued /\ m.skipped = e.skipped /\ m.resolved = {}
        /\ m.metadata = e.metadata /\ m.gen = e.gen /\ m.resync = TRUE
    BY <1>1 DEF IsEntry, Owes
  <2>5. m.acked <= m.issued /\ \A s \in m.skipped \cup m.resolved : s <= m.issued
    <3> HIDE DEF m
    <3> QED  BY <1>1, <1>3, <2>4
  <2> HIDE DEF m
  <2>6. /\ IsEntry(n) /\ n.metadata = e.metadata /\ n.issued = e.issued
        /\ n.gen = e.gen /\ n.resync = TRUE
        /\ seq <= n.acked /\ n.acked <= e.issued
        /\ \A k \in (seq + 1)..n.acked : k \in e.skipped
        /\ n.skipped = {s \in e.skipped : s > n.acked} /\ n.resolved = {}
    BY <2>3, <2>4, <2>5, AdvanceSkippedSpec
  <2> HIDE DEF n
  <2>7. n.acked \in Nat
    BY <2>6, EntryFields
  <2>8. DOMAIN Restrict(n.metadata, K) = K
    BY DEF Restrict
  <2>9. K = ((n.acked + 1)..e.issued) \ n.skipped
    BY <1>1, <1>3, <2>6, <2>7 DEF Owes
  <2> HIDE DEF K
  <2>10. /\ f.acked = n.acked /\ f.issued = e.issued /\ f.skipped = n.skipped /\ f.resolved = {}
         /\ f.metadata = Restrict(n.metadata, K) /\ f.gen = e.gen /\ f.resync = TRUE
    BY <2>6 DEF IsEntry
  <2> HIDE DEF f
  <2>11. Good(f)
    BY <2>1, AcknowledgeGood
  <2>12. Owes(f)
    BY <2>8, <2>9, <2>10 DEF Owes
  <2>13. (e.acked + 1)..f.acked \subseteq (1..seq) \cup e.skipped
    BY <1>1, <2>6, <2>7, <2>10
  <2> QED
    BY <1>1, <1>3, <2>1, <2>6, <2>7, <2>10, <2>11, <2>12, <2>13
<1> QED
  BY <1>2, <1>3

\* What is retired is owed, and becomes skipped or part of the prefix.
LEMMA RetireOwes ==
  ASSUME NEW e, Good(e), Owes(e), NEW M, M \subseteq 1..e.issued
  PROVE  LET added == Unaccounted(e, M)
             f == RetireEntry(e, added)
         IN  /\ Good(f) /\ Owes(f) /\ f.gen = e.gen /\ f.issued = e.issued
             /\ e.acked <= f.acked /\ f.acked <= f.issued
             /\ added \subseteq DOMAIN e.metadata
             /\ (e.acked + 1)..f.acked \subseteq e.skipped \cup added
             /\ f.skipped = {s \in e.skipped \cup added : s > f.acked}
<1> DEFINE added == Unaccounted(e, M)
           L == e.lost + Cardinality(added)
           S == e.skipped \cup added
           k == [e EXCEPT !.skipped = S, !.lost = L]
           m == RecordLosses(k, added)
           n == AdvanceSkipped(m)
<1>1. /\ IsEntry(e) /\ e.issued \in Nat /\ e.acked \in Nat /\ e.acked <= e.issued /\ e.lost \in Nat
      /\ e.skipped \subseteq (e.acked + 1)..e.issued /\ e.resolved = {} /\ e.resync = TRUE
  BY OwesFields, EntryFields DEF Owes
<1>2. /\ added \subseteq (e.acked + 1)..e.issued /\ added \cap (e.skipped \cup e.resolved) = {}
      /\ added \subseteq DOMAIN e.metadata
  <2>1. \A s \in M : s \in Nat /\ s <= e.issued
    BY <1>1
  <2>2. ASSUME NEW s \in added
        PROVE  s \in (e.acked + 1)..e.issued /\ s \notin e.skipped \cup e.resolved
    <3>1. s \in M /\ s > e.acked /\ s \notin e.skipped \cup e.resolved
      BY <2>2 DEF Unaccounted
    <3> QED
      BY <1>1, <2>1, <3>1
  <2> HIDE DEF added
  <2> QED
    BY <1>1, <2>2 DEF Owes
<1>3. Good(RetireEntry(e, added))
  BY <1>1, <1>2, RetireGood
<1>4. Less(e, RetireEntry(e, added)) /\ DOMAIN RetireEntry(e, added).metadata = DOMAIN e.metadata \ added
  BY <1>2, RetireLess
<1>5. n = RetireEntry(e, added)
  BY DEF RetireEntry
<1> HIDE DEF added
<1>6. S \subseteq (e.acked + 1)..e.issued /\ S \in SUBSET Seqs /\ L \in Nat
  <2>1. added \subseteq 1..e.issued /\ \A s \in (e.acked + 1)..e.issued : s \in Seqs
    BY <1>1, <1>2 DEF Seqs
  <2>2. Cardinality(added) \in Nat
    BY <1>1, <2>1, IssuedFinite
  <2>3. S \subseteq (e.acked + 1)..e.issued
    BY <1>1, <1>2
  <2>4. S \in SUBSET Seqs
    BY <2>1, <2>3
  <2>5. L \in Nat
    BY <1>1, <2>2
  <2> QED  BY <2>3, <2>4, <2>5
<1> HIDE DEF L, S
<1>7. IsEntry(k)
  BY <1>1, <1>6 DEF IsEntry
<1>8. /\ k.acked = e.acked /\ k.issued = e.issued /\ k.skipped = S /\ k.resolved = {}
  BY <1>1 DEF IsEntry
<1> HIDE DEF k
<1>9. IsEntry(m) /\ m.acked = e.acked /\ m.issued = e.issued /\ m.skipped = S /\ m.resolved = {}
  <2> DEFINE F == Drop(k.metadata, added)
             Y == Drop(k.early, added)
  <2>1. IsMap(k.metadata, Seqs, Descriptor) /\ IsMap(k.early, Seqs, Agents)
    BY <1>7, EntryFields
  <2>2. IsMap(F, Seqs, Descriptor)
    BY <2>1, DropIsMap
  <2>3. IsMap(Y, Seqs, Agents)
    BY <2>1, DropIsMap
  <2>4. m = [k EXCEPT !.metadata = F, !.early = Y]
    BY DEF RecordLosses
  <2> HIDE DEF F, Y, m
  <2>5. IsEntry(m)
    BY <1>7, <2>2, <2>3, <2>4 DEF IsEntry
  <2> QED  BY <1>7, <1>8, <2>4, <2>5 DEF IsEntry
<1> HIDE DEF m
<1>10. m.acked <= m.issued /\ \A s \in m.skipped \cup m.resolved : s <= m.issued
  <2>1. \A s \in (e.acked + 1)..e.issued : s <= e.issued
    BY <1>1
  <2> QED  BY <1>1, <1>6, <1>9, <2>1
<1>11. /\ IsEntry(n) /\ n.issued = e.issued /\ e.acked <= n.acked /\ n.acked <= e.issued
       /\ \A j \in (e.acked + 1)..n.acked : j \in S
       /\ n.skipped = {s \in S : s > n.acked} /\ n.resolved = {}
  BY <1>9, <1>10, AdvanceSkippedSpec
<1> HIDE DEF n
<1>12. n.acked \in Nat
  BY <1>11, EntryFields
<1>13. DOMAIN n.metadata = ((n.acked + 1)..n.issued) \ n.skipped
  <2>1. DOMAIN n.metadata = ((e.acked + 1)..e.issued) \ S
    BY <1>4, <1>5 DEF Owes, S
  <2> QED
    BY <1>1, <1>11, <1>12, <2>1
<1>14. Owes(n) /\ n.gen = e.gen
  BY <1>1, <1>4, <1>5, <1>11, <1>13 DEF Owes, Less
<1>15. (e.acked + 1)..n.acked \subseteq e.skipped \cup added
       /\ n.skipped = {s \in e.skipped \cup added : s > n.acked}
  BY <1>11 DEF S
<1>16. /\ Good(n) /\ Owes(n) /\ n.gen = e.gen /\ n.issued = e.issued
       /\ e.acked <= n.acked /\ n.acked <= n.issued
       /\ added \subseteq DOMAIN e.metadata
       /\ (e.acked + 1)..n.acked \subseteq e.skipped \cup added
       /\ n.skipped = {s \in e.skipped \cup added : s > n.acked}
  BY <1>2, <1>3, <1>5, <1>11, <1>14, <1>15
<1> QED
  BY <1>5, <1>16 DEF added

\* The number given out is owed.
LEMMA IssueOwes ==
  ASSUME NEW e, Good(e), Owes(e)
  PROVE  LET f == IssueWithMetadata(e, MessageFrom(Sender, FALSE))
         IN  /\ Good(f) /\ Owes(f) /\ f.gen = e.gen /\ f.issued = e.issued + 1
             /\ f.acked = e.acked /\ f.skipped = e.skipped
<1> DEFINE d == MessageFrom(Sender, FALSE)
           q == e.issued + 1
           G == Put(e.metadata, q, d)
           T == e.staged \cup {q}
           f == IssueWithMetadata(e, d)
<1>1. /\ IsEntry(e) /\ e.issued \in Nat /\ e.acked \in Nat /\ e.acked <= e.issued
      /\ e.skipped \subseteq (e.acked + 1)..e.issued /\ e.resolved = {} /\ e.resync = TRUE
  BY OwesFields DEF Owes
<1>2. d \in Descriptor /\ d # None /\ d.early = FALSE
  <2>1. d \in Descriptor /\ d.early = FALSE
    BY ProtocolAssumption DEF MessageFrom, Descriptor
  <2> HIDE DEF d
  <2> QED
    BY <2>1, NoneAssumption
<1> HIDE DEF d
<1>3. Good(f)
  <2>1. d # None => d \in Descriptor /\ (d.early => d.sender \in Agents)
    BY <1>2
  <2> QED
    BY <1>2, <2>1, IssueGood
<1>4. f = [e EXCEPT !.issued = q, !.pending = "since", !.metadata = G, !.early = e.early, !.staged = T]
  BY <1>1, <1>2 DEF IssueWithMetadata
<1>5. DOMAIN G = DOMAIN e.metadata \cup {q}
  BY DEF Put
<1> HIDE DEF f, G, T
<1>6. /\ f.issued = q /\ f.acked = e.acked /\ f.skipped = e.skipped /\ f.resolved = {}
      /\ f.metadata = G /\ f.gen = e.gen /\ f.resync = TRUE
  BY <1>1, <1>4 DEF IsEntry
<1>7. DOMAIN G = ((e.acked + 1)..q) \ e.skipped
  BY <1>1, <1>5 DEF Owes
<1>8. Good(f) /\ Owes(f) /\ f.gen = e.gen /\ f.issued = e.issued + 1
      /\ f.acked = e.acked /\ f.skipped = e.skipped
  BY <1>3, <1>6, <1>7 DEF Owes
<1> QED
  BY <1>8 DEF f, d

\* A process that comes back keeps its entry, another one starts with everything accounted for.
LEMMA BindOwes ==
  ASSUME NEW e, e # Absent => Good(e) /\ Owes(e), NEW g \in Gens, g \in Nat
  PROVE  LET f == BindResyncEntry(e, g, g, 0)
         IN  /\ Good(f) /\ Owes(f) /\ f.gen = g
             /\ e # Absent /\ e.gen = g =>
                  f.issued = e.issued /\ f.acked = e.acked /\ f.skipped = e.skipped
             /\ ~(e # Absent /\ e.gen = g) =>
                  /\ f.issued = IF e # Absent THEN e.issued ELSE 0
                  /\ f.acked = f.issued /\ f.skipped = {}
<1> DEFINE f == BindResyncEntry(e, g, g, 0)
<1>1. Good(f)
  BY BindResyncGood
<1>2. CASE e # Absent /\ e.gen = g
  <2>1. IsEntry(e)
    BY <1>2 DEF Good
  <2>2. f = [e EXCEPT !.resync = TRUE, !.token = 0]
    BY <1>2 DEF BindResyncEntry
  <2> HIDE DEF f
  <2>3. /\ f.issued = e.issued /\ f.acked = e.acked /\ f.skipped = e.skipped
        /\ f.resolved = e.resolved /\ f.metadata = e.metadata /\ f.gen = g /\ f.resync = TRUE
    BY <1>2, <2>1, <2>2 DEF IsEntry
  <2>4. Owes(f)
    BY <1>2, <2>3 DEF Owes
  <2> QED
    BY <1>1, <1>2, <2>3, <2>4 DEF f
<1>3. CASE ~(e # Absent /\ e.gen = g)
  <2> DEFINE k == IF e # Absent THEN e.issued ELSE 0
  <2>1. k \in Nat
    BY OwesFields
  <2>2. f = FreshEntry(g, g, 0, TRUE, k)
    BY <1>3 DEF BindResyncEntry
  <2> HIDE DEF f
  <2>3. /\ f.issued = k /\ f.acked = k /\ f.skipped = {}
        /\ f.resolved = {} /\ f.metadata = Empty /\ f.gen = g /\ f.resync = TRUE
    BY <2>2 DEF FreshEntry
  <2>4. DOMAIN Empty = {} /\ (k + 1)..k = {}
    BY <2>1, EmptyIsMap
  <2>5. Owes(f)
    BY <2>3, <2>4 DEF Owes
  <2> QED
    BY <1>1, <1>3, <2>3, <2>5 DEF f
<1> QED
  BY <1>2, <1>3

-----------------------------------------------------------------------------
(* Steps.                                                                  *)

\* What the invariant says of the wrapper after a step.
LEMMA WrapperAfter ==
  ASSUME Fit(w', Range(up'), Replies', handled', Settled', Sent'), Open(w')
  PROVE  WrapperInv'
  BY DEF WrapperInv

LEMMA RangeConcat ==
  ASSUME NEW S, NEW s \in Seq(S), NEW t \in Seq(S)
  PROVE  s \o t \in Seq(S) /\ Range(s \o t) = Range(s) \cup Range(t)
<1>1. s \o t \in Seq(S) /\ Len(s) \in Nat /\ Len(t) \in Nat
      /\ DOMAIN (s \o t) = 1..(Len(s) + Len(t)) /\ DOMAIN s = 1..Len(s) /\ DOMAIN t = 1..Len(t)
  OBVIOUS
<1>2. \A i \in 1..(Len(s) + Len(t)) : (s \o t)[i] = IF i <= Len(s) THEN s[i] ELSE t[i - Len(s)]
  OBVIOUS
<1>3. ASSUME NEW x \in Range(s \o t) PROVE x \in Range(s) \cup Range(t)
  <2>1. PICK i \in 1..(Len(s) + Len(t)) : x = (s \o t)[i]
    BY <1>1 DEF Range
  <2>2. CASE i <= Len(s)
    BY <1>1, <1>2, <2>1, <2>2 DEF Range
  <2>3. CASE ~(i <= Len(s))
    <3>1. i - Len(s) \in 1..Len(t) /\ x = t[i - Len(s)]
      BY <1>1, <1>2, <2>1, <2>3
    <3> QED
      BY <1>1, <3>1 DEF Range
  <2> QED
    BY <2>2, <2>3
<1>4. ASSUME NEW x \in Range(s) PROVE x \in Range(s \o t)
  <2>1. PICK i \in 1..Len(s) : x = s[i]
    BY <1>1 DEF Range
  <2>2. i \in 1..(Len(s) + Len(t)) /\ x = (s \o t)[i]
    BY <1>1, <1>2, <2>1
  <2> QED
    BY <1>1, <2>2 DEF Range
<1>5. ASSUME NEW x \in Range(t) PROVE x \in Range(s \o t)
  <2>1. PICK i \in 1..Len(t) : x = t[i]
    BY <1>1 DEF Range
  <2>2. i + Len(s) \in 1..(Len(s) + Len(t)) /\ x = (s \o t)[i + Len(s)]
    BY <1>1, <1>2, <2>1
  <2> QED
    BY <1>1, <2>2 DEF Range
<1> QED
  BY <1>1, <1>3, <1>4, <1>5

\* The head and the tail of a sequence are of its range.
LEMMA RangeTail ==
  ASSUME NEW S, NEW s \in Seq(S), s # <<>>
  PROVE  /\ Head(s) \in Range(s) /\ Head(s) \in S
         /\ Tail(s) \in Seq(S) /\ Range(Tail(s)) \subseteq Range(s)
<1>1. Len(s) \in Nat \ {0} /\ DOMAIN s = 1..Len(s) /\ Head(s) = s[1] /\ s[1] \in S
  OBVIOUS
<1>2. Tail(s) \in Seq(S) /\ DOMAIN Tail(s) = 1..(Len(s) - 1)
  BY <1>1
<1>3. \A i \in 1..(Len(s) - 1) : Tail(s)[i] = s[i + 1] /\ i + 1 \in 1..Len(s)
  BY <1>1
<1> QED
  BY <1>1, <1>2, <1>3 DEF Range

\* More is settled that r knows of, more is sent, messages leave the link, replies come in.
Grown(r, U, R, H, n, U2, R2, H2, n2) ==
    /\ n2 \in Nat /\ n <= n2 /\ U2 \subseteq U /\ H \subseteq H2 /\ H2 \subseteq 1..n2
    /\ r.inbox \cap H2 = {} /\ (r.supported => \A s \in H2 \ H : Knows(r, s))
    /\ \A m \in R2 : m \in R \/ ReplyFits(m, r)

\* A wrapper that was in accord with the entry still is.
LEMMA GrowFit ==
  ASSUME NEW U, NEW R, NEW D, NEW H, NEW n, NEW r, Fit(r, U, R, D, H, n),
         NEW U2, NEW R2, NEW H2, NEW n2, Grown(r, U, R, H, n, U2, R2, H2, n2)
  PROVE  Fit(r, U2, R2, D, H2, n2)
<1> USE DEF Grown
<1>1. Agrees(r, U, R, D, H, n) /\ n \in Nat
  BY DEF Fit, Agrees
<1>2. Sound(r, H2)
  BY <1>1 DEF Agrees, Sound
<1>3. \A m \in Range(r.out) \cup U2 : UpFits(m, r, D, H2)
  BY <1>1 DEF Agrees, UpFits
<1>4. \A m \in R2 : ReplyFits(m, r)
  BY <1>1 DEF Agrees
<1>5. r.inbox \subseteq r.received \cap (1..n2)
  <2>1. 1..n \subseteq 1..n2
    BY <1>1
  <2> QED
    BY <1>1, <2>1 DEF Agrees
<1>6. Agrees(r, U2, R2, D, H2, n2)
  BY <1>1, <1>2, <1>3, <1>4, <1>5 DEF Agrees
<1> QED
  BY <1>6 DEF Fit, Aware

\* A wrapper whose messages have been handed to the link.
Flushed(r) == [r EXCEPT !.out = <<>>]

\* What a handler pushed is in the link.
LEMMA FlushFit ==
  ASSUME NEW U, NEW R, NEW D, NEW H, NEW n, NEW r, Fit(r, U, R, D, H, n), Open(r),
         NEW q, q = Flushed(r)
  PROVE  /\ Fit(q, U \cup Range(r.out), R, D, H, n) /\ Open(q)
         /\ q \in Wrapper /\ q.out = <<>> /\ q.gen = r.gen /\ q.live = r.live
         /\ q.supported = r.supported /\ q.connected = r.connected
<1> USE DEF Flushed
<1>1. r \in Wrapper /\ Agrees(r, U, R, D, H, n)
  BY DEF Fit, Agrees, Sound
<1>2. q \in Wrapper /\ q.out = <<>> /\ Range(<<>>) = {}
  <2>1. <<>> \in Seq(UpMessage) /\ DOMAIN <<>> = {}
    OBVIOUS
  <2> QED
    BY <1>1, <2>1 DEF Wrapper, Range
<1>3. /\ q.gen = r.gen /\ q.live = r.live /\ q.inbox = r.inbox
      /\ q.supported = r.supported /\ q.connected = r.connected /\ q.timer = r.timer
      /\ q.pending = r.pending /\ q.inFlight = r.inFlight /\ q.ref = r.ref
      /\ q.resolved = r.resolved /\ q.received = r.received /\ q.retiring = r.retiring
      /\ q.acked = r.acked /\ q.completed = r.completed /\ q.pendingAck = r.pendingAck
  BY <1>1 DEF Wrapper
<1>4. Sound(q, H) /\ \A s \in Nat : Knows(r, s) = Knows(q, s)
  BY <1>1, <1>2, <1>3 DEF Agrees, Sound, Knows
<1>5. \A m \in Range(q.out) \cup U \cup Range(r.out) : UpFits(m, q, D, H)
  BY <1>1, <1>2, <1>3 DEF Agrees, UpFits, Knows
<1>6. \A m \in R : ReplyFits(m, q)
  BY <1>1, <1>3 DEF Agrees, ReplyFits
<1>7. Agrees(q, U \cup Range(r.out), R, D, H, n)
  BY <1>1, <1>3, <1>4, <1>5, <1>6 DEF Agrees
<1>8. q.supported => Aware(q, H)
  BY <1>3 DEF Fit, Aware, Knows
<1> QED
  BY <1>2, <1>3, <1>7, <1>8 DEF Fit, Open

\* A queued message is dispatched.
LEMMA DispatchFit ==
  ASSUME NEW U, NEW R, NEW D, NEW H, NEW n, NEW r, Fit(r, U, R, D, H, n), Open(r), NEW seq \in r.inbox
  PROVE  LET q == [r EXCEPT !.inbox = @ \ {seq}]
         IN  /\ Fit(q, U, R, D \cup {seq}, H \cup {seq}, n) /\ Open(q)
             /\ q.gen = r.gen /\ q.live = r.live /\ q.out = r.out
             /\ q.supported = r.supported /\ q.connected = r.connected
             /\ r.supported /\ seq \in 1..n /\ seq \notin H
<1> DEFINE q == [r EXCEPT !.inbox = @ \ {seq}]
<1>1. r \in Wrapper /\ Agrees(r, U, R, D, H, n)
  BY DEF Fit, Agrees, Sound
<1>2. q \in Wrapper
  BY <1>1, WrapperFields DEF Wrapper
<1>3. /\ q.gen = r.gen /\ q.live = r.live /\ q.inbox = r.inbox \ {seq} /\ q.out = r.out
      /\ q.supported = r.supported /\ q.connected = r.connected /\ q.timer = r.timer
      /\ q.pending = r.pending /\ q.inFlight = r.inFlight /\ q.ref = r.ref
      /\ q.resolved = r.resolved /\ q.received = r.received /\ q.retiring = r.retiring
      /\ q.acked = r.acked /\ q.completed = r.completed /\ q.pendingAck = r.pendingAck
  BY <1>1 DEF Wrapper
<1> HIDE DEF q
<1>4. seq \in r.received /\ seq \in 1..n /\ seq \notin H /\ r.supported
  BY <1>1 DEF Agrees
<1>5. Sound(q, H \cup {seq})
  BY <1>1, <1>2, <1>3 DEF Agrees, Sound
<1>6. \A p : GivenUp(p, r.inbox, D) => GivenUp(p, q.inbox, D \cup {seq})
  BY <1>3 DEF GivenUp
<1>7. \A m \in Range(q.out) \cup U : UpFits(m, q, D \cup {seq}, H \cup {seq})
  BY <1>1, <1>3, <1>6 DEF Agrees, UpFits, Knows
<1>8. \A m \in R : ReplyFits(m, q)
  BY <1>1, <1>3 DEF Agrees, ReplyFits
<1>9. Agrees(q, U, R, D \cup {seq}, H \cup {seq}, n)
  BY <1>1, <1>3, <1>4, <1>5, <1>6, <1>7, <1>8 DEF Agrees
<1>10. Aware(q, H \cup {seq})
  BY <1>3, <1>4 DEF Fit, Aware, Knows
<1> QED
  BY <1>3, <1>4, <1>9, <1>10 DEF Fit, Open, q

\* What the invariant says, at hand.
LEMMA Present ==
  ASSUME ProtocolInv
  PROVE  /\ Fit(w, Range(up), RepliesIn(down), handled, Settled, Sent) /\ Open(w)
         /\ w \in Wrapper /\ w.out = <<>> /\ w.gen \in Nat
         /\ entry # Absent => Good(entry) /\ Owes(entry) /\ Sent = entry.issued /\ Accounted = entry.acked
         /\ entry = Absent => Sent = 0 /\ Accounted = 0
         /\ Sent \in Nat /\ Settled \subseteq 1..Sent /\ Settled = handled \cup reported
         /\ w.connected => w.supported
         /\ ~w.supported => w.inbox = {} /\ ~w.inFlight /\ w.timer = None
<1>1. Fit(w, Range(up), RepliesIn(down), handled, Settled, Sent) /\ Open(w)
  BY DEF ProtocolInv, WrapperInv, Replies
<1>2. Agrees(w, Range(up), RepliesIn(down), handled, Settled, Sent)
  BY <1>1 DEF Fit
<1>3. w \in Wrapper /\ w.out = <<>> /\ (entry # Absent => IsEntry(entry) /\ EntryShape(entry))
  BY DEF ProtocolInv, TypeOK
<1>4. entry # Absent => Good(entry) /\ Owes(entry) /\ Sent = entry.issued /\ Accounted = entry.acked
  BY <1>3 DEF Good, ProtocolInv, EntryInv, Sent, Accounted
<1>5. entry = Absent => Sent = 0 /\ Accounted = 0
  BY DEF Sent, Accounted
<1>6. w.gen \in Nat
  BY <1>3, WrapperFields
<1>7. Sent \in Nat /\ Settled \subseteq 1..Sent /\ Settled = handled \cup reported
  BY <1>2 DEF Agrees, Settled
<1> QED
  BY <1>1, <1>2, <1>3, <1>4, <1>5, <1>6, <1>7 DEF Agrees

\* More is settled and sent: what was said of it stays true.
LEMMA KnownStays ==
  ASSUME NEW H, NEW H2, H \subseteq H2, NEW n \in Nat, NEW n2 \in Nat, n <= n2
  PROVE  /\ \A s : Known(s, H) => Known(s, H2)
         /\ \A m \in DownMessage : DownFits(m, H, n) => DownFits(m, H2, n2)
         /\ \A s \in SendStep : TakenFits(s, H, n) => TakenFits(s, H2, n2)
<1>1. \A s : Known(s, H) => Known(s, H2)
  BY DEF Known
<1>2. ASSUME NEW m \in DownMessage, DownFits(m, H, n) PROVE DownFits(m, H2, n2)
  <2>1. m.type = "envelope" => m.seq \in Nat
    BY <1>2 DEF DownMessage, Seqs
  <2> QED
    BY <1>1, <1>2, <2>1 DEF DownFits
<1>3. ASSUME NEW s \in SendStep, TakenFits(s, H, n) PROVE TakenFits(s, H2, n2)
  <2>1. s.at = "push" => s.seq \in Nat
    BY <1>3 DEF SendStep, Seqs
  <2> QED
    BY <1>1, <1>3, <2>1 DEF TakenFits
<1> QED
  BY <1>1, <1>2, <1>3

\* A handler of a wrapper that has joined (or has just read the first join reply).
LEMMA WrapperStep ==
  ASSUME ProtocolInv, NEW q,
         Fit(q, Range(up), RepliesIn(down), handled', Settled', Sent), Open(q),
         q.gen = w.gen, q.supported, server # "off" \/ w.supported,
         server \in {"off", "bound"} => ~q.connected /\ ~q.live /\ q.out = <<>>,
         Run(q), down' = down \/ (down # <<>> /\ down' = Tail(down)), handled \subseteq handled',
         entry' = entry, server' = server, snap' = snap, sends' = sends, reported' = reported
  PROVE  ProtocolInv'
<1>1. /\ Agrees(q, Range(up), RepliesIn(down), handled', Settled', Sent)
      /\ up \in Seq(UpMessage) /\ down \in Seq(DownMessage) /\ q.out \in Seq(UpMessage)
  BY WrapperFields DEF Fit, Agrees, Sound, ProtocolInv, DownInv
<1>2. Sent' = Sent /\ Sent \in Nat /\ Settled \subseteq Settled' /\ Settled' \subseteq 1..Sent
  BY <1>1, Present DEF Sent, Settled, Agrees
<1>3. entry # Absent /\ entry.gen = w.gen
  BY DEF ProtocolInv, LinkInv
<1>4. /\ Fit(w', Range(up) \cup Range(q.out), RepliesIn(down), handled', Settled', Sent) /\ Open(w')
      /\ w' \in Wrapper /\ w'.out = <<>> /\ w'.gen = w.gen /\ w'.live = q.live
      /\ w'.supported /\ w'.connected = q.connected
  <2>1. w' = Flushed(q)
    BY DEF Run, Flushed
  <2> QED
    BY <2>1, FlushFit
<1>5. up' \in Seq(UpMessage) /\ Range(up') = Range(up) \cup Range(q.out)
  BY <1>1, RangeConcat DEF Run
<1>6. down' \in Seq(DownMessage) /\ Range(down') \subseteq Range(down)
  BY <1>1, RangeTail
<1>7. RepliesIn(down') \subseteq RepliesIn(down)
  BY <1>6 DEF RepliesIn
<1>8. Fit(w', Range(up'), RepliesIn(down'), handled', Settled', Sent')
  <2>1. w'.inbox \cap Settled' = {}
    BY <1>4 DEF Fit, Agrees
  <2>2. Settled' \subseteq Settled' /\ Sent <= Sent' /\ Settled' \ Settled' = {} /\ Sent' \in Nat
        /\ Settled' \subseteq 1..Sent' /\ Range(up') \subseteq Range(up) \cup Range(q.out)
        /\ \A m \in RepliesIn(down') : m \in RepliesIn(down) \/ ReplyFits(m, w')
    BY <1>2, <1>5, <1>7
  <2> QED
    <3>1. Grown(w', Range(up) \cup Range(q.out), RepliesIn(down), Settled', Sent,
                Range(up'), RepliesIn(down'), Settled', Sent')
      BY <2>1, <2>2 DEF Grown
    <3> QED
      BY <1>4, <3>1, GrowFit
<1>16. /\ \A s : Known(s, Settled) => Known(s, Settled')
       /\ \A m \in DownMessage : DownFits(m, Settled, Sent) => DownFits(m, Settled', Sent')
       /\ \A s \in SendStep : TakenFits(s, Settled, Sent) => TakenFits(s, Settled', Sent')
  <2>1. Settled \subseteq Settled' /\ Sent \in Nat /\ Sent' \in Nat /\ Sent <= Sent'
    BY <1>2
  <2> QED
    BY <2>1, KnownStays
<1>9. TypeOK'
  <2>1. server \in {"off", "bound"} => up' = <<>> /\ down' = <<>>
    BY DEF ProtocolInv, LinkInv, Run
  <2> QED
    BY <1>4, <2>1 DEF ProtocolInv, TypeOK
<1>10. WrapperInv'
  BY <1>4, <1>8 DEF WrapperInv, Replies
<1>11. EntryInv'
  <2>1. Owes(entry') /\ 1..entry'.acked \subseteq Settled' /\ entry'.skipped \subseteq reported'
        /\ reported' \subseteq (1..entry'.acked) \cup entry'.skipped /\ entry'.gen <= w'.gen
    BY <1>2, <1>3, <1>4 DEF ProtocolInv, EntryInv
  <2> QED
    BY <1>3, <2>1 DEF EntryInv
<1>12. LinkInv'
  <2>1. server \in {"off", "bound"} => up' = <<>> /\ down' = <<>>
    BY DEF ProtocolInv, LinkInv, Run
  <2>2. server = "bound" => Known(snap, Settled')
    BY <1>16 DEF ProtocolInv, LinkInv
  <2> QED
    BY <1>3, <1>4, <2>1, <2>2 DEF ProtocolInv, LinkInv
<1>13. FirstJoin'
  BY <1>4 DEF FirstJoin
<1>14. DownInv'
  <2>1. \A m \in Range(down) : m \in DownMessage
    BY <1>1 DEF Range
  <2>2. \A m \in Range(down') : DownFits(m, Settled', Sent')
    BY <1>6, <1>16, <2>1 DEF ProtocolInv, DownInv
  <2> QED
    BY <1>5, <1>6, <2>2 DEF DownInv
<1>15. SendsInv'
  <2>1. \A i \in DOMAIN sends : sends[i] \in SendStep /\ TakenFits(sends[i], Settled, Sent)
    BY DEF ProtocolInv, SendsInv
  <2>2. \A i \in DOMAIN sends' : TakenFits(sends'[i], Settled', Sent')
    BY <1>16, <2>1
  <2> QED
    BY <2>2 DEF ProtocolInv, SendsInv
<1> QED
  BY <1>9, <1>10, <1>11, <1>12, <1>13, <1>14, <1>15 DEF ProtocolInv

LEMMA TimerInv ==
  ASSUME ProtocolInv, TimerFires
  PROVE  ProtocolInv'
<1> DEFINE q == TimerCallback(w)
<1>1. w.supported /\ w.connected
  BY Present DEF Fit, Agrees, TimerFires
<1>2. Fit(q, Range(up), RepliesIn(down), handled, Settled, Sent) /\ Still(w, q) /\ Open(q)
  BY Present, TimerFit DEF TimerFires
<1>3. server \notin {"off", "bound"}
  BY <1>1 DEF ProtocolInv, LinkInv
<1>4. Run(q) /\ handled' = handled /\ Settled' = Settled
  BY DEF TimerFires, Settled
<1> HIDE DEF q
<1> QED
  BY <1>1, <1>2, <1>3, <1>4, WrapperStep DEF TimerFires, Still

\* A request ends without its answer, connected or not.
LEMMA RequestEndsInv ==
  ASSUME ProtocolInv, ReplyTimeout \/ SlowReply
  PROVE  ProtocolInv'
<1> DEFINE q == Finish[w]
<1>1. w.supported
  BY Present DEF ReplyTimeout, SlowReply
<1>2. Fit(q, Range(up), RepliesIn(down), handled, Settled, Sent) /\ Still(w, q) /\ Open(q)
  BY <1>1, Present, FinishFit
<1>3. server \in {"off", "bound"} => ~q.connected /\ ~q.live /\ q.out = <<>>
  BY <1>2, Present DEF ProtocolInv, LinkInv, Still
<1>4. Run(q) /\ handled' = handled /\ Settled' = Settled
      /\ down' = down /\ entry' = entry /\ server' = server /\ snap' = snap /\ sends' = sends /\ reported' = reported
  BY DEF ReplyTimeout, SlowReply, Settled
<1> HIDE DEF q
<1> QED
  BY <1>1, <1>2, <1>3, <1>4, WrapperStep DEF Still

LEMMA InterruptInv ==
  ASSUME ProtocolInv, Interrupt
  PROVE  ProtocolInv'
<1> DEFINE q == Retire([w EXCEPT !.inbox = {}], w.inbox)
<1>1. w.supported
  BY DEF Interrupt
<1>2. Fit(q, Range(up), RepliesIn(down), handled, Settled, Sent) /\ Still(w, q) /\ Open(q)
  BY <1>1, Present, RetireFit
<1>3. Run(q) /\ handled' = handled /\ Settled' = Settled
  BY DEF Interrupt, Settled
<1> HIDE DEF q
<1>4. server \in {"off", "bound"} => ~q.connected /\ ~q.live /\ q.out = <<>>
  BY <1>2, Present DEF ProtocolInv, LinkInv, Still
<1> QED
  BY <1>1, <1>2, <1>3, <1>4, WrapperStep DEF Interrupt, Still

LEMMA DispatchInv ==
  ASSUME ProtocolInv, NEW seq \in 1..MaxSeq, Dispatch(seq)
  PROVE  ProtocolInv'
<1> DEFINE p == [w EXCEPT !.inbox = @ \ {seq}]
           q == AcknowledgeEnvelope(p, seq)
<1>1. seq \in w.inbox
  BY DEF Dispatch
<1>2. /\ Fit(p, Range(up), RepliesIn(down), handled \cup {seq}, Settled \cup {seq}, Sent) /\ Open(p)
      /\ p.gen = w.gen /\ p.live = w.live /\ p.out = w.out
      /\ p.supported = w.supported /\ p.connected = w.connected /\ w.supported
  BY <1>1, Present, DispatchFit
<1>3. Run(q) /\ handled' = handled \cup {seq} /\ Settled' = Settled \cup {seq}
  BY DEF Dispatch, Settled
<1> HIDE DEF p
<1>4. /\ Sound(p, Settled \cup {seq}) /\ Sent \in Nat /\ Settled \cup {seq} \subseteq 1..Sent
  BY <1>2 DEF Fit, Agrees
<1>5. Steady(p, q, Settled \cup {seq}) /\ (~p.live => q.out = p.out)
  BY <1>4, AcknowledgeSteady
<1> HIDE DEF q
<1>6. /\ Fit(q, Range(up), RepliesIn(down), handled \cup {seq}, Settled \cup {seq}, Sent) /\ Open(q)
  BY <1>2, <1>5, SteadyFit
<1>7. q.gen = w.gen /\ q.live = w.live /\ q.supported /\ q.connected = w.connected
  BY <1>2, <1>5 DEF Steady
<1>8. server \in {"off", "bound"} => ~q.connected /\ ~q.live /\ q.out = <<>>
  BY <1>2, <1>5, <1>7, Present DEF ProtocolInv, LinkInv
<1> QED
  BY <1>2, <1>3, <1>6, <1>7, <1>8, WrapperStep DEF Dispatch

LEMMA DeliverInv ==
  ASSUME ProtocolInv, Deliver
  PROVE  ProtocolInv'
<1> DEFINE m == Head(down)
           q == OnMessage(w, m)
<1>1. down \in Seq(DownMessage) /\ down # <<>>
  BY DEF ProtocolInv, DownInv, Deliver
<1>2. m \in Range(down) /\ m \in DownMessage /\ DownFits(m, Settled, Sent)
  BY <1>1, RangeTail DEF ProtocolInv, DownInv
<1>3. server \notin {"off", "bound"}
  BY <1>1 DEF ProtocolInv, LinkInv
<1>4. ~w.supported => m.type = "join" /\ Settled \subseteq 1..m.status.acked
  <2>1. server \in {"off", "bound", "subscribed", "live"}
    BY DEF ProtocolInv, TypeOK
  <2> QED
    BY <1>3, <2>1 DEF ProtocolInv, FirstJoin, Subscribed
<1>5. m.type = "reply" => ReplyFits(m, w)
  <2>1. Agrees(w, Range(up), RepliesIn(down), handled, Settled, Sent)
    BY Present DEF Fit
  <2> QED
    BY <1>2, <2>1 DEF Agrees, RepliesIn
<1>6. Run(q) /\ down' = Tail(down) /\ handled' = handled /\ Settled' = Settled
  BY DEF Deliver, Settled
<1> HIDE DEF m
<1>7. /\ Fit(q, Range(up), RepliesIn(down), handled, Settled, Sent) /\ Open(q)
      /\ q.gen = w.gen /\ q.supported
  <2>1. CASE m.type = "join"
    <3>1. m.status \in Status /\ 1..m.status.acked \subseteq Settled
      BY <1>2, <2>1 DEF DownFits, Known
    <3>2. q = OnJoinReply(w, m.status)
      BY <2>1 DEF OnMessage
    <3>3. w.supported \/ Settled \subseteq 1..m.status.acked
      BY <1>4
    <3> HIDE DEF q
    <3> QED
      BY <3>1, <3>2, <3>3, Present, JoinFit
  <2>2. CASE m.type = "status"
    <3>1. m.status \in Status /\ 1..m.status.acked \subseteq Settled
      BY <1>2, <2>2 DEF DownFits, Known
    <3>2. q = OnStatus(w, m.status)
      BY <2>2 DEF OnMessage
    <3> HIDE DEF q
    <3>3. Fit(q, Range(up), RepliesIn(down), handled, Settled, Sent) /\ Steady(w, q, Settled) /\ Open(q)
      BY <3>1, <3>2, Present, StatusFit
    <3> QED
      BY <1>4, <2>2, <3>3 DEF Steady
  <2>3. CASE m.type = "envelope"
    <3>1. m.seq \in Seqs /\ m.seq <= Sent
      BY <1>2, <2>3 DEF DownFits, DownMessage
    <3>2. q = Receive(w, m.seq)
      BY <2>3 DEF OnMessage
    <3> HIDE DEF q
    <3>3. w.supported
      BY <1>4, <2>3
    <3>4. Fit(q, Range(up), RepliesIn(down), handled, Settled, Sent) /\ Still(w, q) /\ Open(q)
      BY <3>1, <3>2, <3>3, Present, ReceiveFit
    <3> QED
      BY <3>3, <3>4 DEF Still
  <2>4. CASE m.type = "reply"
    <3>1. m.status \in Status /\ 1..m.status.acked \subseteq Settled /\ (m.ok => m.skipped \subseteq Settled)
      BY <1>2, <2>4 DEF DownFits, Known
    <3>2. q = OnReply(w, m)
      BY <2>4 DEF OnMessage
    <3> HIDE DEF q
    <3>3. w.supported /\ ReplyFits(m, w)
      BY <1>4, <1>5, <2>4
    <3> QED
      BY <3>1, <3>2, <3>3, Present, ReplyFit
  <2> QED
    BY <1>2, <2>1, <2>2, <2>3, <2>4 DEF DownMessage
<1> HIDE DEF q
<1> QED
  BY <1>1, <1>3, <1>6, <1>7, WrapperStep DEF Deliver

\* What a broadcast does to the link down.
LEMMA Posted ==
  ASSUME ProtocolInv, NEW msgs \in Seq(DownMessage), Broadcast(msgs)
  PROVE  /\ down' \in Seq(DownMessage) /\ Range(down') \subseteq Range(down) \cup Range(msgs)
         /\ down # <<>> => down' # <<>> /\ Head(down') = Head(down)
         /\ ~Subscribed => down' = down
<1>1. down \in Seq(DownMessage)
  BY DEF ProtocolInv, DownInv
<1>2. CASE Subscribed
  <2>1. down' = down \o msgs
    BY <1>2 DEF Broadcast
  <2>2. down # <<>> => down \o msgs # <<>> /\ Head(down \o msgs) = Head(down)
    BY <1>1
  <2> QED
    BY <1>1, <1>2, <2>1, <2>2, RangeConcat
<1>3. CASE ~Subscribed
  BY <1>1, <1>3 DEF Broadcast
<1> QED
  BY <1>2, <1>3

\* A step of a channel: the entry's prefix may grow, and what is settled with it.
LEMMA ServerStep ==
  ASSUME ProtocolInv, NEW msgs \in Seq(DownMessage), Broadcast(msgs),
         w' = w, handled' = handled, snap' = snap,
         server' = server \/ (server = "subscribed" /\ server' = "live"),
         up' = up \/ (up # <<>> /\ up' = Tail(up)),
         entry # Absent, Good(entry'), Owes(entry'), entry'.gen = entry.gen,
         entry.acked <= entry'.acked, entry.issued <= entry'.issued,
         reported \subseteq reported', 1..entry'.acked \subseteq Settled',
         entry'.skipped \subseteq reported', reported' \subseteq (1..entry'.acked) \cup entry'.skipped,
         Settled' \subseteq 1..entry'.issued, w.inbox \cap Settled' = {},
         \A s \in Settled' \ Settled : Knows(w, s), ~w.supported => Settled' = Settled,
         \A m \in Range(msgs) : DownFits(m, Settled', Sent') /\ (m.type = "reply" => ReplyFits(m, w)),
         sends' \in Seq(SendStep), \A i \in DOMAIN sends' : TakenFits(sends'[i], Settled', Sent')
  PROVE  ProtocolInv'
<1>1. entry' # Absent /\ Sent' = entry'.issued /\ Sent' \in Nat /\ entry'.acked \in Nat
      /\ Sent \in Nat /\ Sent = entry.issued /\ entry.acked \in Nat
  <2>1. entry' # Absent /\ entry'.issued \in Nat /\ entry'.acked \in Nat /\ entry.acked \in Nat
    BY Present, OwesFields
  <2> QED
    BY <2>1, Present DEF Sent
<1>2. Settled \subseteq Settled' /\ Sent <= Sent' /\ Settled' \subseteq 1..Sent'
  BY <1>1 DEF Settled
<1>3. /\ \A s : Known(s, Settled) => Known(s, Settled')
      /\ \A m \in DownMessage : DownFits(m, Settled, Sent) => DownFits(m, Settled', Sent')
  BY <1>1, <1>2, KnownStays
<1>4. /\ down' \in Seq(DownMessage) /\ Range(down') \subseteq Range(down) \cup Range(msgs)
      /\ down # <<>> => down' # <<>> /\ Head(down') = Head(down)
      /\ ~Subscribed => down' = down
  BY Posted
<1>5. up' \in Seq(UpMessage) /\ Range(up') \subseteq Range(up) /\ (up = <<>> => up' = <<>>)
  <2>1. up \in Seq(UpMessage)
    BY DEF ProtocolInv, DownInv
  <2>2. up # <<>> => Tail(up) \in Seq(UpMessage) /\ Range(Tail(up)) \subseteq Range(up)
    BY <2>1, RangeTail
  <2>3. CASE up' = up
    BY <2>1, <2>3
  <2>4. CASE up # <<>> /\ up' = Tail(up)
    BY <2>2, <2>4
  <2> QED
    BY <2>3, <2>4
<1>6. server \in {"off", "bound"} => ~Subscribed /\ server' = server
  BY DEF Subscribed
<1>7. TypeOK'
  <2>1. IsEntry(entry') /\ EntryShape(entry')
    BY DEF Good
  <2>2. server' \in {"off", "bound", "subscribed", "live"}
    BY DEF ProtocolInv, TypeOK
  <2>3. server' = "off" => down' = <<>> /\ up' = <<>>
    BY <1>4, <1>5, <1>6 DEF ProtocolInv, LinkInv
  <2> QED
    BY <2>1, <2>2, <2>3 DEF ProtocolInv, TypeOK
<1>8. WrapperInv'
  <2>1. \A m \in RepliesIn(down') : m \in RepliesIn(down) \/ ReplyFits(m, w)
    BY <1>4 DEF RepliesIn
  <2>2. Fit(w, Range(up), RepliesIn(down), handled, Settled, Sent) /\ Open(w)
    BY Present
  <2>3. Fit(w, Range(up'), RepliesIn(down'), handled, Settled', Sent')
    <3>1. /\ Sent' \in Nat /\ Sent <= Sent' /\ Range(up') \subseteq Range(up)
          /\ Settled \subseteq Settled' /\ Settled' \subseteq 1..Sent'
          /\ w.inbox \cap Settled' = {} /\ (w.supported => \A s \in Settled' \ Settled : Knows(w, s))
      BY <1>1, <1>2, <1>5
    <3> QED
      <4>1. Grown(w, Range(up), RepliesIn(down), Settled, Sent, Range(up'), RepliesIn(down'), Settled', Sent')
        BY <2>1, <3>1 DEF Grown
      <4> QED
        BY <2>2, <4>1, GrowFit
  <2> QED
    BY <2>2, <2>3, WrapperAfter DEF Replies
<1>9. EntryInv'
  <2>1. entry'.gen <= w'.gen
    BY DEF ProtocolInv, EntryInv
  <2> QED
    BY <1>1, <2>1 DEF EntryInv
<1>10. LinkInv'
  <2>1. server' # "off" \/ w'.supported => entry'.gen = w'.gen
    BY <1>6 DEF ProtocolInv, LinkInv
  <2>2. server' \in {"off", "bound"} => down' = <<>> /\ up' = <<>> /\ ~w'.connected /\ ~w'.live
    BY <1>4, <1>5, <1>6 DEF ProtocolInv, LinkInv
  <2>3. server' = "bound" => Known(snap', Settled')
    BY <1>3 DEF ProtocolInv, LinkInv
  <2> QED
    BY <1>1, <2>1, <2>2, <2>3 DEF ProtocolInv, LinkInv
<1>11. FirstJoin'
  <2> SUFFICES ASSUME ~w.supported
               PROVE  /\ up' = <<>>
                      /\ entry'.gen = w.gen => Settled' \subseteq 1..entry'.acked
                      /\ server' = "bound" => Settled' \subseteq 1..snap'.acked
                      /\ Subscribed' => /\ down' # <<>> /\ Head(down').type = "join"
                                        /\ Settled' \subseteq 1..Head(down').status.acked
    BY DEF FirstJoin
  <2>1. 1..entry.acked \subseteq 1..entry'.acked
    BY <1>1
  <2>2. Subscribed' => Subscribed
    BY DEF Subscribed
  <2> QED
    BY <1>4, <1>5, <2>1, <2>2 DEF ProtocolInv, FirstJoin
<1>12. DownInv'
  <2>1. \A m \in Range(down) : m \in DownMessage /\ DownFits(m, Settled, Sent)
    BY DEF Range, ProtocolInv, DownInv
  <2>2. \A m \in Range(down') : DownFits(m, Settled', Sent')
    BY <1>3, <1>4, <2>1
  <2> QED
    BY <1>4, <1>5, <2>2 DEF DownInv
<1>13. SendsInv'
  BY <1>1 DEF SendsInv
<1> QED
  BY <1>7, <1>8, <1>9, <1>10, <1>11, <1>12, <1>13 DEF ProtocolInv

\* A step of a channel that leaves the entry alone.
LEMMA ChannelIdle ==
  ASSUME ProtocolInv, NEW msgs \in Seq(DownMessage), Broadcast(msgs),
         w' = w, handled' = handled, reported' = reported, snap' = snap, up' = up,
         server' = server \/ (server = "subscribed" /\ server' = "live"),
         entry' = entry, entry # Absent,
         \A m \in Range(msgs) : DownFits(m, Settled, Sent) /\ m.type # "reply",
         sends' \in Seq(SendStep), \A i \in DOMAIN sends' : TakenFits(sends'[i], Settled, Sent)
  PROVE  ProtocolInv'
<1>1. Settled' = Settled /\ Sent' = Sent
  BY DEF Settled, Sent
<1>2. Good(entry) /\ Owes(entry) /\ Sent = entry.issued /\ Settled \subseteq 1..Sent
      /\ entry.acked \in Nat /\ entry.issued \in Nat
  BY Present, OwesFields
<1>3. w.inbox \cap Settled = {}
  BY Present DEF Fit, Agrees
<1>4. 1..entry.acked \subseteq Settled /\ entry.skipped \subseteq reported
      /\ reported \subseteq (1..entry.acked) \cup entry.skipped
  BY DEF ProtocolInv, EntryInv
<1>5. /\ Good(entry') /\ Owes(entry') /\ entry'.gen = entry.gen
      /\ entry.acked <= entry'.acked /\ entry.issued <= entry'.issued
      /\ reported \subseteq reported' /\ 1..entry'.acked \subseteq Settled'
      /\ entry'.skipped \subseteq reported' /\ reported' \subseteq (1..entry'.acked) \cup entry'.skipped
      /\ Settled' \subseteq 1..entry'.issued /\ w.inbox \cap Settled' = {}
      /\ \A s \in Settled' \ Settled : Knows(w, s)
      /\ \A m \in Range(msgs) : DownFits(m, Settled', Sent') /\ (m.type = "reply" => ReplyFits(m, w))
      /\ \A i \in DOMAIN sends' : TakenFits(sends'[i], Settled', Sent')
  BY <1>1, <1>2, <1>3, <1>4
<1> QED
  BY <1>1, <1>5, ServerStep

\* The status of an entry accounts for settled numbers.
LEMMA StatusKnown ==
  ASSUME ProtocolInv, entry # Absent
  PROVE  /\ Known(StatusOf(entry), Settled)
         /\ StatusMessage(StatusOf(entry)) \in DownMessage
         /\ DownFits(StatusMessage(StatusOf(entry)), Settled, Sent)
<1>1. entry.acked \in Nat /\ entry.issued \in Nat /\ 1..entry.acked \subseteq Settled
  BY Present, OwesFields DEF ProtocolInv, EntryInv
<1>2. Known(StatusOf(entry), Settled)
  BY <1>1 DEF Known, StatusOf, Status
<1>3. StatusOf(entry) \in Status
  BY <1>2 DEF Known
<1> QED
  BY <1>2, <1>3 DEF StatusMessage, DownMessage, DownFits

\* One message more.
LEMMA RangeSingle ==
  ASSUME NEW m, m \in DownMessage
  PROVE  <<m>> \in Seq(DownMessage) /\ Range(<<m>>) = {m}
  BY DEF Range

LEMMA AfterJoinInv ==
  ASSUME ProtocolInv, AfterJoin
  PROVE  ProtocolInv'
<1> DEFINE m == StatusMessage(StatusOf(entry))
<1>1. entry # Absent
  BY DEF AfterJoin, ProtocolInv, LinkInv
<1>2. m \in DownMessage /\ DownFits(m, Settled, Sent) /\ m.type # "reply"
  BY <1>1, StatusKnown DEF StatusMessage
<1>3. sends \in Seq(SendStep) /\ \A i \in DOMAIN sends : TakenFits(sends[i], Settled, Sent)
  BY DEF ProtocolInv, SendsInv
<1>4. Broadcast(<<m>>)
  BY DEF AfterJoin
<1> HIDE DEF m
<1>5. <<m>> \in Seq(DownMessage) /\ Range(<<m>>) = {m}
  BY <1>2, RangeSingle
<1> QED
  BY <1>1, <1>2, <1>3, <1>4, <1>5, ChannelIdle DEF AfterJoin

\* Nothing is broadcast.
LEMMA Silent ==
  ASSUME ProtocolInv, down' = down
  PROVE  <<>> \in Seq(DownMessage) /\ Range(<<>>) = {} /\ Broadcast(<<>>)
<1>1. down \in Seq(DownMessage)
  BY DEF ProtocolInv, DownInv
<1>2. <<>> \in Seq(DownMessage) /\ DOMAIN <<>> = {} /\ down \o <<>> = down
  BY <1>1
<1> QED
  BY <1>2 DEF Range, Broadcast

LEMMA PreflightInv ==
  ASSUME ProtocolInv, Preflight
  PROVE  ProtocolInv'
<1> DEFINE x == [at |-> "issue"]
<1>1. entry # Absent
  BY DEF Preflight, ProtocolInv, LinkInv
<1>2. sends \in Seq(SendStep) /\ \A i \in DOMAIN sends : TakenFits(sends[i], Settled, Sent)
  BY DEF ProtocolInv, SendsInv
<1>3. x \in SendStep /\ TakenFits(x, Settled, Sent)
  BY DEF SendStep, TakenFits
<1>4. sends' = Append(sends, x)
  BY DEF Preflight
<1> HIDE DEF x
<1>5. sends' \in Seq(SendStep) /\ \A i \in DOMAIN sends' : TakenFits(sends'[i], Settled, Sent)
  BY <1>2, <1>3, <1>4
<1>6. <<>> \in Seq(DownMessage) /\ Range(<<>>) = {} /\ Broadcast(<<>>)
  BY Silent DEF Preflight
<1> QED
  BY <1>1, <1>5, <1>6, ChannelIdle DEF Preflight

\* A message taken up is at another step.
LEMMA SendsAfter ==
  ASSUME ProtocolInv, NEW i \in DOMAIN sends, NEW x \in SendStep, NEW n \in Nat, TakenFits(x, Settled, n),
         Sent <= n, sends' = [sends EXCEPT ![i] = x]
  PROVE  /\ sends' \in Seq(SendStep) /\ \A j \in DOMAIN sends' : TakenFits(sends'[j], Settled, n)
         /\ entry # Absent
<1>1. sends \in Seq(SendStep) /\ \A j \in DOMAIN sends : TakenFits(sends[j], Settled, Sent)
  BY DEF ProtocolInv, SendsInv
<1>2. \A j \in DOMAIN sends : TakenFits(sends[j], Settled, n)
  <2>1. \A s \in SendStep : TakenFits(s, Settled, Sent) => TakenFits(s, Settled, n)
    BY Present, KnownStays
  <2> QED
    BY <1>1, <2>1
<1>3. entry # Absent
  BY <1>1 DEF ProtocolInv, SendsInv
<1> QED
  BY <1>1, <1>2, <1>3

LEMMA ReadStatusInv ==
  ASSUME ProtocolInv, NEW i \in 1..MaxSeq, ReadStatus(i)
  PROVE  ProtocolInv'
<1> DEFINE x == [at |-> "broadcast", status |-> StatusOf(entry)]
<1>1. i \in DOMAIN sends /\ entry # Absent /\ sends' = [sends EXCEPT ![i] = x]
  BY DEF ReadStatus, At, ProtocolInv, SendsInv
<1>2. x \in SendStep /\ TakenFits(x, Settled, Sent)
  BY <1>1, StatusKnown DEF SendStep, TakenFits, Known
<1> HIDE DEF x
<1>3. /\ sends' \in Seq(SendStep) /\ \A j \in DOMAIN sends' : TakenFits(sends'[j], Settled, Sent)
      /\ entry # Absent
  <2>1. Sent \in Nat /\ Sent <= Sent
    BY Present
  <2> QED
    BY <1>1, <1>2, <2>1, SendsAfter
<1>4. <<>> \in Seq(DownMessage) /\ Range(<<>>) = {} /\ Broadcast(<<>>)
  BY Silent DEF ReadStatus
<1> QED
  BY <1>3, <1>4, ChannelIdle DEF ReadStatus

LEMMA PushInv ==
  ASSUME ProtocolInv, NEW i \in 1..MaxSeq, Push(i)
  PROVE  ProtocolInv'
<1> DEFINE x == [at |-> "status"]
           m == EnvelopeMessage(sends[i].seq)
<1>1. i \in DOMAIN sends /\ sends[i].at = "push" /\ sends' = [sends EXCEPT ![i] = x] /\ Broadcast(<<m>>)
  BY DEF Push, At
<1>2. x \in SendStep /\ TakenFits(x, Settled, Sent)
  BY DEF SendStep, TakenFits
<1>3. m \in DownMessage /\ DownFits(m, Settled, Sent) /\ m.type # "reply"
  <2>1. sends[i] \in SendStep /\ TakenFits(sends[i], Settled, Sent)
    BY <1>1 DEF ProtocolInv, SendsInv
  <2>2. sends[i].seq \in Seqs /\ sends[i].seq <= Sent
    BY <1>1, <2>1 DEF SendStep, TakenFits
  <2> QED
    BY <2>2 DEF EnvelopeMessage, DownMessage, DownFits
<1> HIDE DEF x, m
<1>4. /\ sends' \in Seq(SendStep) /\ \A j \in DOMAIN sends' : TakenFits(sends'[j], Settled, Sent)
      /\ entry # Absent
  <2>1. Sent \in Nat /\ Sent <= Sent
    BY Present
  <2> QED
    BY <1>1, <1>2, <2>1, SendsAfter
<1>5. <<m>> \in Seq(DownMessage) /\ Range(<<m>>) = {m}
  BY <1>3, RangeSingle
<1> QED
  BY <1>1, <1>3, <1>4, <1>5, ChannelIdle DEF Push

LEMMA SendStatusInv ==
  ASSUME ProtocolInv, NEW i \in 1..MaxSeq, SendStatus(i)
  PROVE  ProtocolInv'
<1> DEFINE x == [at |-> "done"]
           m == StatusMessage(sends[i].status)
<1>1. i \in DOMAIN sends /\ sends[i].at = "broadcast" /\ sends' = [sends EXCEPT ![i] = x] /\ Broadcast(<<m>>)
  BY DEF SendStatus, At
<1>2. x \in SendStep /\ TakenFits(x, Settled, Sent)
  BY DEF SendStep, TakenFits
<1>3. m \in DownMessage /\ DownFits(m, Settled, Sent) /\ m.type # "reply"
  <2>1. TakenFits(sends[i], Settled, Sent)
    BY <1>1 DEF ProtocolInv, SendsInv
  <2>2. Known(sends[i].status, Settled) /\ sends[i].status \in Status
    BY <1>1, <2>1 DEF TakenFits, Known
  <2> QED
    BY <2>2 DEF StatusMessage, DownMessage, DownFits
<1> HIDE DEF x, m
<1>4. /\ sends' \in Seq(SendStep) /\ \A j \in DOMAIN sends' : TakenFits(sends'[j], Settled, Sent)
      /\ entry # Absent
  <2>1. Sent \in Nat /\ Sent <= Sent
    BY Present
  <2> QED
    BY <1>1, <1>2, <2>1, SendsAfter
<1>5. <<m>> \in Seq(DownMessage) /\ Range(<<m>>) = {m}
  BY <1>3, RangeSingle
<1> QED
  BY <1>1, <1>3, <1>4, <1>5, ChannelIdle DEF SendStatus

LEMMA IssueInv ==
  ASSUME ProtocolInv, NEW i \in 1..MaxSeq, Issue(i)
  PROVE  /\ ProtocolInv'
         /\ Sent' = Sent + 1 /\ Accounted' = Accounted
<1>1. i \in DOMAIN sends /\ entry # Absent
  BY DEF Issue, At, ProtocolInv, SendsInv
<1>2. Good(entry) /\ Owes(entry) /\ entry.acked \in Nat /\ entry.issued \in Nat
      /\ Sent = entry.issued /\ Accounted = entry.acked /\ Settled \subseteq 1..Sent
  BY <1>1, Present, OwesFields
<1>3. /\ Good(entry') /\ Owes(entry') /\ entry'.gen = entry.gen /\ entry'.issued = entry.issued + 1
      /\ entry'.acked = entry.acked /\ entry'.skipped = entry.skipped
  BY <1>2, IssueOwes DEF Issue
<1>4. entry' # Absent /\ Sent' = Sent + 1 /\ Accounted' = Accounted
  BY <1>2, <1>3, OwesFields DEF Sent, Accounted
<1> DEFINE x == [at |-> "push", seq |-> entry'.issued]
<1>5. sends' = [sends EXCEPT ![i] = x]
  BY DEF Issue
<1>6. x \in SendStep /\ TakenFits(x, Settled, Sent')
  BY <1>2, <1>3, <1>4 DEF SendStep, TakenFits, Seqs
<1> HIDE DEF x
<1>7. sends' \in Seq(SendStep) /\ \A j \in DOMAIN sends' : TakenFits(sends'[j], Settled, Sent')
  <2>1. Sent' \in Nat /\ Sent <= Sent'
    BY <1>2, <1>4
  <2> QED
    BY <1>1, <1>5, <1>6, <2>1, SendsAfter
<1>8. <<>> \in Seq(DownMessage) /\ Range(<<>>) = {} /\ Broadcast(<<>>)
  BY Silent DEF Issue
<1>9. Settled' = Settled /\ reported' = reported /\ w.inbox \cap Settled = {}
  BY Present DEF Issue, Settled, Fit, Agrees
<1>10. /\ entry.acked <= entry'.acked /\ entry.issued <= entry'.issued
       /\ reported \subseteq reported' /\ 1..entry'.acked \subseteq Settled'
       /\ entry'.skipped \subseteq reported' /\ reported' \subseteq (1..entry'.acked) \cup entry'.skipped
       /\ w.inbox \cap Settled' = {} /\ \A s \in Settled' \ Settled : Knows(w, s)
  BY <1>1, <1>2, <1>3, <1>9 DEF ProtocolInv, EntryInv
<1>11. Settled' \subseteq 1..entry'.issued
  BY <1>2, <1>3, <1>9
<1>12. ProtocolInv'
  BY <1>1, <1>3, <1>7, <1>8, <1>9, <1>10, <1>11, ServerStep DEF Issue
<1> QED
  BY <1>4, <1>12

LEMMA SubscribeInv ==
  ASSUME ProtocolInv, Subscribe
  PROVE  ProtocolInv'
<1> DEFINE m == [type |-> "join", status |-> snap]
<1>1. down = <<>> /\ up = <<>> /\ ~w.connected /\ ~w.live /\ Known(snap, Settled)
      /\ entry # Absent /\ entry.gen = w.gen
  BY DEF Subscribe, ProtocolInv, LinkInv
<1>2. m \in DownMessage /\ DownFits(m, Settled, Sent) /\ m.type = "join" /\ m.status = snap
  BY <1>1 DEF DownMessage, DownFits, Known
<1>3. down' = <<m>>
  BY <1>1 DEF Subscribe
<1> HIDE DEF m
<1>4. down' \in Seq(DownMessage) /\ Range(down') = {m} /\ Head(down') = m /\ down' # <<>>
  BY <1>2, <1>3, RangeSingle
<1>5. Settled' = Settled /\ Sent' = Sent
  BY DEF Subscribe, Settled, Sent
<1>6. TypeOK'
  BY DEF ProtocolInv, TypeOK, Subscribe
<1>7. WrapperInv'
  <2>1. Fit(w, Range(up), RepliesIn(down), handled, Settled, Sent) /\ Open(w)
        /\ Sent \in Nat /\ Settled \subseteq 1..Sent /\ w.inbox \cap Settled = {}
    BY Present DEF Fit, Agrees
  <2>2. RepliesIn(down') = {}
    BY <1>2, <1>4 DEF RepliesIn
  <2>3. Fit(w, Range(up), RepliesIn(down'), handled, Settled, Sent)
    <3>1. Sent <= Sent /\ \A s \in Settled \ Settled : Knows(w, s)
      BY <2>1
    <3>2. \A k \in RepliesIn(down') : k \in RepliesIn(down) \/ ReplyFits(k, w)
      BY <2>2
    <3> QED
      <4>1. Grown(w, Range(up), RepliesIn(down), Settled, Sent, Range(up), RepliesIn(down'), Settled, Sent)
        BY <2>1, <3>1, <3>2 DEF Grown
      <4> QED
        BY <2>1, <4>1, GrowFit
  <2> QED
    BY <1>5, <2>1, <2>3, WrapperAfter DEF Replies, Subscribe
<1>8. EntryInv'
  BY <1>5 DEF ProtocolInv, EntryInv, Subscribe
<1>9. LinkInv'
  BY DEF ProtocolInv, LinkInv, Subscribe
<1>10. FirstJoin'
  BY <1>1, <1>2, <1>4, <1>5 DEF ProtocolInv, FirstJoin, Subscribe
<1>11. DownInv'
  BY <1>2, <1>4, <1>5 DEF ProtocolInv, DownInv, Subscribe
<1>12. SendsInv'
  BY <1>5 DEF ProtocolInv, SendsInv, Subscribe
<1> QED
  BY <1>6, <1>7, <1>8, <1>9, <1>10, <1>11, <1>12 DEF ProtocolInv

LEMMA BreakInv ==
  ASSUME ProtocolInv, Break
  PROVE  ProtocolInv'
<1> DEFINE q == Disconnected(w)
<1>1. Fit(w, Range(up), RepliesIn(down), handled, Settled, Sent) /\ Open(w) /\ w.out = <<>>
  BY Present
<1>2. /\ Fit(q, {}, {}, handled, Settled, Sent) /\ Open(q)
      /\ q.gen = w.gen /\ q.supported = w.supported /\ ~q.connected /\ ~q.live /\ q.out = <<>>
  BY <1>1, DisconnectedFit
<1>3. w' = q /\ up' = <<>> /\ down' = <<>> /\ server' = "off" /\ snap' = None
      /\ entry' = entry /\ sends' = sends /\ handled' = handled /\ reported' = reported
  BY DEF Break
<1> HIDE DEF q
<1>4. <<>> \in Seq(DownMessage) /\ <<>> \in Seq(UpMessage) /\ Range(<<>>) = {}
  BY DEF Range
<1>5. Settled' = Settled /\ Sent' = Sent
  BY <1>3 DEF Settled, Sent
<1>6. TypeOK'
  BY <1>2, <1>3 DEF ProtocolInv, TypeOK, Fit, Agrees, Sound
<1>7. WrapperInv'
  <2>1. RepliesIn(down') = {} /\ Range(up') = {}
    BY <1>3, <1>4 DEF RepliesIn
  <2> QED
    BY <1>2, <1>3, <1>5, <2>1, WrapperAfter DEF Replies
<1>8. EntryInv'
  BY <1>2, <1>3, <1>5 DEF ProtocolInv, EntryInv
<1>9. LinkInv'
  BY <1>2, <1>3 DEF ProtocolInv, LinkInv
<1>10. FirstJoin'
  BY <1>2, <1>3, <1>5 DEF ProtocolInv, FirstJoin, Subscribed
<1>11. DownInv'
  BY <1>3, <1>4 DEF DownInv
<1>12. SendsInv'
  BY <1>3, <1>5 DEF ProtocolInv, SendsInv
<1> QED
  BY <1>6, <1>7, <1>8, <1>9, <1>10, <1>11, <1>12 DEF ProtocolInv

\* The prefix moved up over settled numbers.
LEMMA Accounts ==
  ASSUME ProtocolInv, entry # Absent, Good(entry'), Owes(entry'), entry'.issued = entry.issued,
         entry.acked <= entry'.acked, 1..entry'.acked \subseteq Settled', handled' = handled
  PROVE  /\ Fate!Account /\ Sent' = Sent
         /\ Accounted = entry.acked /\ Accounted' = entry'.acked /\ Sent = entry.issued
<1>1. Good(entry) /\ Owes(entry) /\ Sent = entry.issued /\ Accounted = entry.acked
  BY Present
<1>2. entry.acked \in Nat /\ entry'.acked \in Nat /\ entry'.acked <= entry'.issued /\ entry' # Absent
  BY <1>1, OwesFields
<1>3. Sent' = Sent /\ Accounted' = entry'.acked
  BY <1>1, <1>2 DEF Sent, Accounted
<1>4. \A m \in (entry.acked + 1)..entry'.acked : m \in handled \cup reported'
  BY <1>2 DEF Settled
<1> QED
  BY <1>1, <1>2, <1>3, <1>4 DEF Fate!Account

\* What a valid request, or the orderly end of a connection, retires.
LEMMA RetireStep ==
  ASSUME ProtocolInv, entry # Absent, NEW M, M \subseteq 1..entry.issued,
         entry' = RetireEntry(entry, Unaccounted(entry, M)),
         reported' = reported \cup (Unaccounted(entry, M) \cap DOMAIN entry.metadata),
         handled' = handled
  PROVE  LET added == Unaccounted(entry, M)
         IN  /\ Good(entry') /\ Owes(entry') /\ entry'.gen = entry.gen /\ entry'.issued = entry.issued
             /\ entry.acked <= entry'.acked
             /\ reported' = reported \cup added /\ Settled' = Settled \cup added
             /\ added \subseteq M /\ added \cap reported = {} /\ added \subseteq (entry.acked + 1)..entry.issued
             /\ M \subseteq Settled' /\ 1..entry'.acked \subseteq Settled'
             /\ entry'.skipped \subseteq reported' /\ reported' \subseteq (1..entry'.acked) \cup entry'.skipped
             /\ Settled' \subseteq 1..entry'.issued
<1> DEFINE added == Unaccounted(entry, M)
<1>1. /\ Good(entry) /\ Owes(entry) /\ entry.acked \in Nat /\ entry.issued \in Nat /\ entry.acked <= entry.issued
      /\ Settled \subseteq 1..entry.issued
  BY Present, OwesFields
<1>2. /\ Good(entry') /\ Owes(entry') /\ entry'.gen = entry.gen /\ entry'.issued = entry.issued
      /\ entry.acked <= entry'.acked /\ entry'.acked <= entry'.issued
      /\ added \subseteq DOMAIN entry.metadata
      /\ (entry.acked + 1)..entry'.acked \subseteq entry.skipped \cup added
      /\ entry'.skipped = {s \in entry.skipped \cup added : s > entry'.acked}
  <2> DEFINE f == RetireEntry(entry, added)
  <2>1. /\ Good(f) /\ Owes(f) /\ f.gen = entry.gen /\ f.issued = entry.issued
        /\ entry.acked <= f.acked /\ f.acked <= f.issued
        /\ added \subseteq DOMAIN entry.metadata
        /\ (entry.acked + 1)..f.acked \subseteq entry.skipped \cup added
        /\ f.skipped = {s \in entry.skipped \cup added : s > f.acked}
    BY <1>1, RetireOwes
  <2>2. entry' = f
    OBVIOUS
  <2> HIDE DEF added, f
  <2> QED
    BY <2>1, <2>2
<1>3. entry'.acked \in Nat
  BY <1>2, OwesFields
<1>4. added \subseteq M /\ \A s \in M : s > entry.acked => s \in added \cup entry.skipped
  BY <1>1 DEF Unaccounted, Owes
<1>5. reported' = reported \cup added
  BY <1>2
<1> HIDE DEF added
<1>6. Settled' = Settled \cup added
  BY <1>5 DEF Settled
<1>7. added \subseteq ((entry.acked + 1)..entry.issued) \ entry.skipped
  BY <1>1, <1>2 DEF Owes
<1>8. /\ 1..entry.acked \subseteq Settled /\ entry.skipped \subseteq reported
      /\ reported \subseteq (1..entry.acked) \cup entry.skipped
  BY DEF ProtocolInv, EntryInv
<1>9. added \cap reported = {} /\ added \subseteq (entry.acked + 1)..entry.issued
  BY <1>1, <1>7, <1>8
<1>10. M \subseteq Settled'
  BY <1>1, <1>4, <1>6, <1>8 DEF Settled
<1>11. 1..entry'.acked \subseteq Settled'
  <2>1. ASSUME NEW s \in 1..entry'.acked PROVE s \in 1..entry.acked \/ s \in (entry.acked + 1)..entry'.acked
    BY <1>1, <1>3
  <2> QED
    BY <1>2, <1>6, <1>8, <2>1 DEF Settled
<1>12. entry'.skipped \subseteq reported'
  BY <1>2, <1>5, <1>8
<1>14. Settled' \subseteq 1..entry'.issued
  <2>1. ASSUME NEW s \in added PROVE s \in 1..entry.issued
    BY <1>1, <1>9, <2>1
  <2> QED
    BY <1>1, <1>2, <1>6, <2>1
<1>13. reported' \subseteq (1..entry'.acked) \cup entry'.skipped
  <2>1. ASSUME NEW s \in reported' PROVE s \in 1..entry'.acked \/ s \in entry'.skipped
    <3>1. s \in 1..entry.acked \/ s \in entry.skipped \cup added
      BY <1>5, <1>8, <2>1
    <3>2. s \in 1..entry.issued
      BY <1>1, <1>2, <1>14, <2>1 DEF Settled
    <3> QED
      BY <1>1, <1>2, <1>3, <3>1, <3>2
  <2> QED
    BY <2>1
<1> QED
  BY <1>2, <1>4, <1>5, <1>6, <1>9, <1>10, <1>11, <1>12, <1>13, <1>14 DEF added

LEMMA HandleAckInv ==
  ASSUME ProtocolInv, HandleAck
  PROVE  ProtocolInv' /\ Fate!Confirm
<1> DEFINE seq == Head(up).seq
           m == StatusMessage(StatusOf(entry'))
<1>1. entry # Absent /\ up # <<>> /\ up \in Seq(UpMessage) /\ w.supported
  BY DEF HandleAck, ProtocolInv, LinkInv, DownInv, FirstJoin
<1>2. Head(up) \in Range(up) /\ Head(up) \in UpMessage /\ Head(up).type = "ack"
  BY <1>1, RangeTail DEF HandleAck
<1>3. seq \in Nat /\ 1..seq \subseteq Settled
  <2>1. UpFits(Head(up), w, handled, Settled)
    BY <1>2, Present DEF Fit, Agrees
  <2> QED
    BY <1>2, <2>1 DEF UpFits, UpMessage, Seqs
<1>4. /\ Good(entry) /\ Owes(entry) /\ Sent = entry.issued /\ Settled \subseteq 1..Sent
      /\ entry.acked \in Nat /\ entry.issued \in Nat
  BY <1>1, Present, OwesFields
<1>5. entry' = AcknowledgeEntry(entry, seq)
  BY DEF HandleAck
<1> HIDE DEF seq
<1>6. /\ Good(entry') /\ Owes(entry') /\ entry'.gen = entry.gen /\ entry'.issued = entry.issued
      /\ entry.acked <= entry'.acked /\ entry'.acked <= entry'.issued
      /\ (entry.acked + 1)..entry'.acked \subseteq (1..seq) \cup entry.skipped
      /\ entry'.skipped = {s \in entry.skipped : s > entry'.acked}
  <2> DEFINE f == AcknowledgeEntry(entry, seq)
  <2>1. /\ Good(f) /\ Owes(f) /\ f.gen = entry.gen /\ f.issued = entry.issued
        /\ entry.acked <= f.acked /\ f.acked <= f.issued
        /\ (entry.acked + 1)..f.acked \subseteq (1..seq) \cup entry.skipped
        /\ f.skipped = {s \in entry.skipped : s > f.acked}
    BY <1>3, <1>4, AcknowledgeOwes
  <2> QED
    BY <1>5, <2>1
<1>7. entry'.acked \in Nat /\ entry'.issued \in Nat
  BY <1>6, OwesFields
<1>8. Settled' = Settled /\ reported' = reported
  BY DEF HandleAck, Settled
<1>9. /\ 1..entry.acked \subseteq Settled /\ entry.skipped \subseteq reported
      /\ reported \subseteq (1..entry.acked) \cup entry.skipped
  BY <1>1 DEF ProtocolInv, EntryInv
<1>10. 1..entry'.acked \subseteq Settled
  <2>1. ASSUME NEW s \in 1..entry'.acked PROVE s \in 1..entry.acked \/ s \in (entry.acked + 1)..entry'.acked
    BY <1>4, <1>7
  <2> QED
    BY <1>3, <1>6, <1>9, <2>1 DEF Settled
<1>11. reported \subseteq (1..entry'.acked) \cup entry'.skipped
  <2>1. ASSUME NEW s \in reported PROVE s \in 1..entry'.acked \/ s \in entry'.skipped
    <3>1. s \in 1..entry.issued
      BY <1>4, <2>1 DEF Settled
    <3> QED
      BY <1>4, <1>6, <1>7, <1>9, <2>1, <3>1
  <2> QED
    BY <2>1
<1>12. m \in DownMessage /\ DownFits(m, Settled, Sent') /\ m.type = "status"
  BY <1>7, <1>10 DEF StatusMessage, StatusOf, DownMessage, DownFits, Known, Status
<1>13. Broadcast(<<m>>)
  BY DEF HandleAck
<1> HIDE DEF m
<1>14. <<m>> \in Seq(DownMessage) /\ Range(<<m>>) = {m}
  BY <1>12, RangeSingle
<1>15. sends' \in Seq(SendStep) /\ \A i \in DOMAIN sends' : TakenFits(sends'[i], Settled', Sent')
  <2>1. Sent' = Sent
    BY <1>1, <1>6, <1>8, <1>10, Accounts DEF HandleAck
  <2> QED
    BY <1>8, <2>1 DEF HandleAck, ProtocolInv, SendsInv
<1>16. w.inbox \cap Settled = {}
  BY Present DEF Fit, Agrees
<1>17. /\ entry.issued <= entry'.issued
       /\ reported \subseteq reported' /\ 1..entry'.acked \subseteq Settled'
       /\ entry'.skipped \subseteq reported' /\ reported' \subseteq (1..entry'.acked) \cup entry'.skipped
       /\ Settled' \subseteq 1..entry'.issued /\ w.inbox \cap Settled' = {}
       /\ \A s \in Settled' \ Settled : Knows(w, s)
       /\ \A k \in Range(<<m>>) : DownFits(k, Settled', Sent') /\ (k.type = "reply" => ReplyFits(k, w))
  BY <1>4, <1>6, <1>8, <1>9, <1>10, <1>11, <1>12, <1>14, <1>16
<1>18. ProtocolInv'
  BY <1>1, <1>6, <1>8, <1>13, <1>14, <1>15, <1>17, ServerStep DEF HandleAck
<1>19. Fate!Confirm
  <2>1. Fate!Account /\ Sent' = Sent
    BY <1>1, <1>6, <1>17, Accounts DEF HandleAck
  <2> QED
    BY <2>1 DEF Fate!Confirm, HandleAck
<1> QED
  BY <1>18, <1>19

LEMMA RangePair ==
  ASSUME NEW m, NEW k, m \in DownMessage, k \in DownMessage
  PROVE  <<m>> \o <<k>> \in Seq(DownMessage) /\ Range(<<m>> \o <<k>>) = {m, k}
<1>1. <<m>> \in Seq(DownMessage) /\ Range(<<m>>) = {m} /\ <<k>> \in Seq(DownMessage) /\ Range(<<k>>) = {k}
  BY RangeSingle
<1>2. <<m>> \o <<k>> \in Seq(DownMessage) /\ Range(<<m>> \o <<k>>) = Range(<<m>>) \cup Range(<<k>>)
  <2> DEFINE s == <<m>>
             t == <<k>>
  <2>1. s \in Seq(DownMessage) /\ t \in Seq(DownMessage)
    BY <1>1
  <2> HIDE DEF s, t
  <2>2. s \o t \in Seq(DownMessage) /\ Range(s \o t) = Range(s) \cup Range(t)
    BY <2>1, RangeConcat
  <2> QED
    BY <2>2 DEF s, t
<1> QED
  BY <1>1, <1>2

\* A valid request retires what it names, and its answer tells the wrapper so.
LEMMA ValidResyncInv ==
  ASSUME ProtocolInv, HandleResync, Head(up).request.cutoff <= entry.issued
  PROVE  ProtocolInv' /\ Fate!Report
<1> DEFINE q == Head(up).request
           added == Unaccounted(entry, q.missing)
           a == StatusMessage(StatusOf(entry'))
           b == [type |-> "reply", ref |-> Head(up).ref, ok |-> TRUE,
                 status |-> StatusOf(entry'), skipped |-> q.missing]
<1>1. entry # Absent /\ up # <<>> /\ up \in Seq(UpMessage) /\ w.supported
  BY DEF HandleResync, ProtocolInv, LinkInv, DownInv, FirstJoin
<1>2. Head(up) \in Range(up) /\ Head(up) \in UpMessage /\ Head(up).type = "resync"
  BY <1>1, RangeTail DEF HandleResync
<1>3. Agrees(w, Range(up), RepliesIn(down), handled, Settled, Sent)
  BY Present DEF Fit
<1>4. UpFits(Head(up), w, handled, Settled) /\ Head(up).ref \in Nat
  BY <1>2, <1>3 DEF Agrees, UpMessage
<1>5. /\ GivenUp(q, w.inbox, handled) /\ \A s \in q.missing : Knows(w, s)
      /\ ReplyFits(b, w)
  BY <1>2, <1>4 DEF UpFits, ReplyFits
<1>6. entry.issued \in Nat /\ entry.acked \in Nat /\ Good(entry) /\ Owes(entry)
      /\ Sent = entry.issued /\ Accounted = entry.acked
  BY <1>1, Present, OwesFields
<1>7. q.missing \subseteq 1..entry.issued /\ q.missing \in SUBSET Seqs
      /\ q.missing \cap (w.inbox \cup handled) = {}
  <2>1. q.cutoff \in Nat /\ q.missing \subseteq 1..q.cutoff /\ q.missing \in SUBSET Seqs
    BY <1>5 DEF GivenUp, Request
  <2>2. 1..q.cutoff \subseteq 1..entry.issued
    BY <1>6, <2>1
  <2> QED
    BY <1>5, <2>1, <2>2 DEF GivenUp
<1>8. /\ entry' = RetireEntry(entry, added) /\ reported' = reported \cup (added \cap DOMAIN entry.metadata)
      /\ handled' = handled /\ Broadcast(<<a>> \o <<b>>)
  BY DEF HandleResync
<1> HIDE DEF q
<1>9. /\ Good(entry') /\ Owes(entry') /\ entry'.gen = entry.gen /\ entry'.issued = entry.issued
      /\ entry.acked <= entry'.acked
      /\ reported' = reported \cup added /\ Settled' = Settled \cup added
      /\ added \subseteq q.missing /\ added \subseteq (entry.acked + 1)..entry.issued
      /\ q.missing \subseteq Settled' /\ 1..entry'.acked \subseteq Settled'
      /\ entry'.skipped \subseteq reported' /\ reported' \subseteq (1..entry'.acked) \cup entry'.skipped
      /\ Settled' \subseteq 1..entry'.issued
  BY <1>1, <1>7, <1>8, RetireStep
<1> HIDE DEF added
<1>10. Fate!Account /\ Sent' = Sent
  BY <1>1, <1>8, <1>9, Accounts
<1>11. Known(StatusOf(entry'), Settled')
  <2>1. entry'.acked \in Nat /\ entry'.issued \in Nat
    BY <1>9, OwesFields
  <2> QED
    BY <1>9, <2>1 DEF StatusOf, Known, Status
<1>12. a \in DownMessage /\ DownFits(a, Settled', Sent') /\ a.type = "status"
  BY <1>11 DEF StatusMessage, DownMessage, DownFits, Known
<1>13. b \in DownMessage /\ DownFits(b, Settled', Sent')
  BY <1>4, <1>7, <1>9, <1>11 DEF DownMessage, DownFits, Known
<1> HIDE DEF a, b
<1>14. <<a>> \o <<b>> \in Seq(DownMessage) /\ Range(<<a>> \o <<b>>) = {a, b}
  BY <1>12, <1>13, RangePair
<1>15. \A k \in {a, b} : DownFits(k, Settled', Sent') /\ (k.type = "reply" => ReplyFits(k, w))
  BY <1>5, <1>12, <1>13
<1>16. sends' \in Seq(SendStep) /\ \A i \in DOMAIN sends' : TakenFits(sends'[i], Settled', Sent')
  <2>1. \A s \in SendStep : TakenFits(s, Settled, Sent) => TakenFits(s, Settled', Sent')
    <3>1. Settled \subseteq Settled' /\ Sent \in Nat /\ Sent' \in Nat /\ Sent <= Sent'
      BY <1>6, <1>9, <1>10
    <3> QED
      BY <3>1, KnownStays
  <2>2. sends \in Seq(SendStep) /\ \A i \in DOMAIN sends : TakenFits(sends[i], Settled, Sent)
    BY DEF ProtocolInv, SendsInv
  <2> QED
    BY <2>1, <2>2 DEF HandleResync
<1>17. w.inbox \cap Settled' = {} /\ \A s \in Settled' \ Settled : Knows(w, s)
  BY <1>3, <1>5, <1>7, <1>9 DEF Agrees
<1>18. entry.issued <= entry'.issued /\ reported \subseteq reported'
  BY <1>6, <1>9
<1>19. ProtocolInv'
  BY <1>1, <1>8, <1>9, <1>14, <1>15, <1>16, <1>17, <1>18, ServerStep DEF HandleResync
<1>20. Fate!Report
  <2>1. (reported' \ reported) \cap handled = {} /\ reported' \ reported \subseteq (Accounted + 1)..Sent
    BY <1>6, <1>7, <1>9
  <2> QED
    BY <1>10, <1>18, <2>1 DEF Fate!Report, HandleResync
<1> QED
  BY <1>19, <1>20

\* Any other request changes nothing and is refused.
LEMMA RefusedResyncInv ==
  ASSUME ProtocolInv, HandleResync, ~(Head(up).request.cutoff <= entry.issued)
  PROVE  ProtocolInv' /\ UNCHANGED Fate!fateVars
<1> DEFINE b == [type |-> "reply", ref |-> Head(up).ref, ok |-> FALSE,
                 status |-> StatusOf(entry), skipped |-> Head(up).request.missing]
<1>1. entry # Absent /\ up # <<>> /\ up \in Seq(UpMessage) /\ w.supported
  BY DEF HandleResync, ProtocolInv, LinkInv, DownInv, FirstJoin
<1>2. Head(up) \in Range(up) /\ Head(up) \in UpMessage /\ Head(up).type = "resync"
  BY <1>1, RangeTail DEF HandleResync
<1>3. Agrees(w, Range(up), RepliesIn(down), handled, Settled, Sent)
  BY Present DEF Fit
<1>4. UpFits(Head(up), w, handled, Settled) /\ Head(up).ref \in Nat
      /\ Head(up).request.missing \in SUBSET Seqs
  BY <1>2, <1>3 DEF Agrees, UpMessage, Request
<1>5. ReplyFits(b, w)
  BY <1>2, <1>4 DEF UpFits, ReplyFits
<1>6. entry.issued \in Nat /\ entry.acked \in Nat /\ Good(entry) /\ Owes(entry)
      /\ Sent = entry.issued /\ Settled \subseteq 1..Sent
  BY <1>1, Present, OwesFields
<1>7. entry' = entry /\ reported' = reported /\ handled' = handled /\ abandoned' = abandoned
  BY DEF HandleResync
<1>8. Settled' = Settled /\ Sent' = Sent /\ Accounted' = Accounted
  BY <1>7 DEF Settled, Sent, Accounted
<1>9. Broadcast(<<>> \o <<b>>)
  <2> DEFINE c == [type |-> "reply", ref |-> Head(up).ref, ok |-> Head(up).request.cutoff <= entry.issued,
                   status |-> StatusOf(entry'), skipped |-> Head(up).request.missing]
  <2>1. Broadcast(<<>> \o <<c>>)
    BY DEF HandleResync
  <2>2. (Head(up).request.cutoff <= entry.issued) = FALSE
    OBVIOUS
  <2>3. StatusOf(entry') = StatusOf(entry)
    BY <1>7
  <2>4. c = b
    BY <2>2, <2>3, Zenon
  <2> HIDE DEF b, c
  <2> QED
    BY <2>1, <2>4
<1>10. b \in DownMessage /\ DownFits(b, Settled, Sent)
  BY <1>1, <1>4, StatusKnown DEF DownMessage, DownFits, Known
<1> HIDE DEF b
<1>11. <<>> \o <<b>> \in Seq(DownMessage) /\ Range(<<>> \o <<b>>) = {b}
  <2>1. <<b>> \in Seq(DownMessage) /\ Range(<<b>>) = {b} /\ <<>> \in Seq(DownMessage) /\ Range(<<>>) = {}
    BY <1>10, RangeSingle DEF Range
  <2> QED
    BY <2>1, RangeConcat
<1>12. w.inbox \cap Settled = {}
  BY <1>3 DEF Agrees
<1>13. 1..entry.acked \subseteq Settled /\ entry.skipped \subseteq reported
       /\ reported \subseteq (1..entry.acked) \cup entry.skipped
  BY <1>1 DEF ProtocolInv, EntryInv
<1>14. sends' \in Seq(SendStep) /\ \A i \in DOMAIN sends' : TakenFits(sends'[i], Settled', Sent')
  BY <1>8 DEF HandleResync, ProtocolInv, SendsInv
<1>15. /\ Good(entry') /\ Owes(entry') /\ entry'.gen = entry.gen
       /\ entry.acked <= entry'.acked /\ entry.issued <= entry'.issued
       /\ reported \subseteq reported' /\ 1..entry'.acked \subseteq Settled'
       /\ entry'.skipped \subseteq reported' /\ reported' \subseteq (1..entry'.acked) \cup entry'.skipped
       /\ Settled' \subseteq 1..entry'.issued /\ w.inbox \cap Settled' = {}
       /\ \A s \in Settled' \ Settled : Knows(w, s)
       /\ \A k \in Range(<<>> \o <<b>>) : DownFits(k, Settled', Sent') /\ (k.type = "reply" => ReplyFits(k, w))
  BY <1>5, <1>6, <1>7, <1>8, <1>10, <1>11, <1>12, <1>13
<1>16. ProtocolInv'
  BY <1>1, <1>7, <1>8, <1>9, <1>11, <1>14, <1>15, ServerStep DEF HandleResync
<1> QED
  BY <1>7, <1>8, <1>16 DEF Fate!fateVars

\* The wrapper process ends; the one that replaces it knows nothing.
LEMMA DieInv ==
  ASSUME ProtocolInv, NEW orderly \in BOOLEAN, Die(orderly)
  PROVE  ProtocolInv' /\ (Fate!Abandon \/ UNCHANGED Fate!fateVars)
<1> DEFINE added == Unaccounted(entry, 1..entry.issued)
           q == NewWrapper(w.gen + 1)
<1>1. w.gen \in Nat /\ w.gen + 1 \in Gens /\ w.gen + 1 \in Nat
  BY Present, ProtocolAssumption DEF Die
<1>2. handled \subseteq Settled' /\ handled' = handled
  BY DEF Die, Settled
<1>3. /\ entry # Absent => /\ Good(entry') /\ Owes(entry') /\ entry'.gen = entry.gen /\ Sent' = Sent
                           /\ 1..entry'.acked \subseteq Settled' /\ entry'.skipped \subseteq reported'
                           /\ reported' \subseteq (1..entry'.acked) \cup entry'.skipped
      /\ entry = Absent => entry' = Absent /\ Settled' = {}
      /\ Settled \subseteq Settled' /\ Settled' \subseteq 1..Sent' /\ Sent' = Sent
      /\ Fate!Abandon \/ UNCHANGED Fate!fateVars
  <2>1. CASE orderly /\ server = "live"
    <3>1. entry # Absent
      BY <2>1 DEF ProtocolInv, LinkInv
    <3>2. /\ entry' = RetireEntry(entry, added)
          /\ reported' = reported \cup (added \cap DOMAIN entry.metadata)
          /\ abandoned' = abandoned \cup (added \cap DOMAIN entry.metadata)
      BY <2>1 DEF Die
    <3>3. /\ Good(entry) /\ Owes(entry) /\ Accounted = entry.acked /\ Sent = entry.issued
          /\ 1..entry.issued \subseteq 1..entry.issued
      BY <3>1, Present
    <3>4. /\ Good(entry') /\ Owes(entry') /\ entry'.gen = entry.gen /\ entry'.issued = entry.issued
          /\ entry.acked <= entry'.acked
          /\ reported' = reported \cup added /\ Settled' = Settled \cup added
          /\ added \cap reported = {} /\ added \subseteq (entry.acked + 1)..entry.issued
          /\ 1..entry'.acked \subseteq Settled'
          /\ entry'.skipped \subseteq reported' /\ reported' \subseteq (1..entry'.acked) \cup entry'.skipped
          /\ Settled' \subseteq 1..entry'.issued
      BY <1>2, <3>1, <3>2, <3>3, RetireStep
    <3>5. abandoned' = abandoned \cup added
      <4>1. added \subseteq DOMAIN entry.metadata
        BY <3>3, RetireOwes
      <4> QED
        BY <3>2, <4>1
    <3> HIDE DEF added
    <3>6. Fate!Account /\ Sent' = Sent /\ Sent = entry.issued
      BY <1>2, <3>1, <3>4, Accounts
    <3>7. Fate!Abandon
      <4>1. reported' \ reported = added /\ reported \subseteq reported'
        BY <3>4
      <4> QED
        BY <1>2, <3>3, <3>4, <3>5, <3>6, <4>1 DEF Fate!Abandon
    <3> QED
      BY <3>1, <3>4, <3>6, <3>7
  <2>2. CASE ~(orderly /\ server = "live")
    <3>1. entry' = entry /\ reported' = reported \cup {} /\ abandoned' = abandoned \cup {}
      BY <2>2 DEF Die
    <3>2. Settled' = Settled /\ Sent' = Sent /\ Accounted' = Accounted /\ reported' = reported
          /\ abandoned' = abandoned
      BY <1>2, <3>1 DEF Settled, Sent, Accounted
    <3>3. UNCHANGED Fate!fateVars
      BY <1>2, <3>2 DEF Fate!fateVars
    <3>4. entry # Absent => /\ 1..entry.acked \subseteq Settled /\ entry.skipped \subseteq reported
                            /\ reported \subseteq (1..entry.acked) \cup entry.skipped
      BY DEF ProtocolInv, EntryInv
    <3>5. entry = Absent => Settled = {}
      BY DEF ProtocolInv, EntryInv
    <3> QED
      BY <3>1, <3>2, <3>3, <3>4, <3>5, Present
  <2> QED
    BY <2>1, <2>2
<1>4. Sent' \in Nat /\ Sent \in Nat
  BY <1>3, Present
<1>5. /\ Fit(q, {}, {}, handled, Settled', Sent') /\ Open(q)
      /\ q.gen = w.gen + 1 /\ ~q.supported /\ ~q.connected /\ ~q.live /\ q.out = <<>>
  BY <1>1, <1>2, <1>3, <1>4, NewFit
<1>6. w' = q /\ up' = <<>> /\ down' = <<>> /\ server' = "off" /\ snap' = None /\ sends' = sends
  BY DEF Die
<1> HIDE DEF q
<1>7. <<>> \in Seq(DownMessage) /\ <<>> \in Seq(UpMessage) /\ Range(<<>>) = {}
  BY DEF Range
<1>8. entry # Absent => entry' # Absent /\ entry.gen \in Nat /\ entry.gen <= w.gen
  <2>1. entry # Absent => entry.gen \in Gens
    BY Present, OwesFields
  <2>2. entry # Absent => entry' # Absent
    BY <1>3, OwesFields
  <2> QED
    BY <2>1, <2>2, ProtocolAssumption DEF ProtocolInv, EntryInv
<1>9. TypeOK'
  BY <1>3, <1>5, <1>6 DEF TypeOK, Good, Fit, Agrees, Sound
<1>10. WrapperInv'
  <2>1. RepliesIn(down') = {} /\ Range(up') = {}
    BY <1>6, <1>7 DEF RepliesIn
  <2> QED
    BY <1>2, <1>5, <1>6, <2>1, WrapperAfter DEF Replies
<1>11. EntryInv'
  <2>1. entry # Absent => entry'.gen <= w'.gen
    BY <1>1, <1>3, <1>5, <1>6, <1>8
  <2> QED
    BY <1>3, <1>8, <2>1 DEF EntryInv
<1>12. LinkInv'
  BY <1>1, <1>5, <1>6 DEF LinkInv
<1>13. FirstJoin'
  <2>1. entry' # Absent => entry'.gen # w'.gen
    BY <1>1, <1>3, <1>5, <1>6, <1>8
  <2> QED
    BY <1>6, <2>1 DEF FirstJoin, Subscribed
<1>14. DownInv'
  BY <1>6, <1>7 DEF DownInv
<1>15. SendsInv'
  <2>1. \A s \in SendStep : TakenFits(s, Settled, Sent) => TakenFits(s, Settled', Sent')
    <3>1. Settled \subseteq Settled' /\ Sent \in Nat /\ Sent' \in Nat /\ Sent <= Sent'
      BY <1>3, <1>4
    <3> QED
      BY <3>1, KnownStays
  <2>2. sends \in Seq(SendStep) /\ \A i \in DOMAIN sends : TakenFits(sends[i], Settled, Sent)
    BY DEF ProtocolInv, SendsInv
  <2>3. \A i \in DOMAIN sends' : TakenFits(sends'[i], Settled', Sent')
    BY <1>6, <2>1, <2>2
  <2> QED
    BY <1>6, <1>8, <2>3 DEF ProtocolInv, SendsInv
<1> QED
  BY <1>3, <1>9, <1>10, <1>11, <1>12, <1>13, <1>14, <1>15 DEF ProtocolInv

\* A wrapper joins: the process that was there before left nothing unaccounted for.
LEMMA JoinBindInv ==
  ASSUME ProtocolInv, JoinBind
  PROVE  ProtocolInv' /\ (Fate!Abandon \/ UNCHANGED Fate!fateVars)
<1>1. /\ w.gen \in Gens /\ w.gen \in Nat /\ down = <<>> /\ up = <<>> /\ ~w.connected /\ ~w.live
      /\ w.supported => entry # Absent /\ entry.gen = w.gen
  BY Present DEF JoinBind, ProtocolInv, LinkInv
<1>2. /\ entry # Absent => Good(entry) /\ Owes(entry) /\ entry.acked \in Nat /\ entry.issued \in Nat
                           /\ entry.acked <= entry.issued /\ Sent = entry.issued /\ Accounted = entry.acked
      /\ Settled \subseteq 1..Sent
  BY Present, OwesFields
<1>3. /\ Good(entry') /\ Owes(entry') /\ entry'.gen = w.gen
      /\ entry # Absent /\ entry.gen = w.gen =>
           entry'.issued = entry.issued /\ entry'.acked = entry.acked /\ entry'.skipped = entry.skipped
      /\ ~(entry # Absent /\ entry.gen = w.gen) =>
           /\ entry'.issued = IF entry # Absent THEN entry.issued ELSE 0
           /\ entry'.acked = entry'.issued /\ entry'.skipped = {}
  <2> DEFINE f == BindResyncEntry(entry, w.gen, w.gen, 0)
  <2>1. /\ Good(f) /\ Owes(f) /\ f.gen = w.gen
        /\ entry # Absent /\ entry.gen = w.gen =>
             f.issued = entry.issued /\ f.acked = entry.acked /\ f.skipped = entry.skipped
        /\ ~(entry # Absent /\ entry.gen = w.gen) =>
             /\ f.issued = IF entry # Absent THEN entry.issued ELSE 0
             /\ f.acked = f.issued /\ f.skipped = {}
    BY <1>1, <1>2, BindOwes
  <2> QED
    BY <2>1 DEF JoinBind
<1>4. /\ entry' # Absent /\ entry'.acked \in Nat /\ entry'.issued \in Nat
      /\ Sent' = entry'.issued /\ Accounted' = entry'.acked
  <2>1. entry' # Absent /\ entry'.acked \in Nat /\ entry'.issued \in Nat
    BY <1>3, OwesFields
  <2> QED
    BY <2>1 DEF Sent, Accounted
<1>5. /\ entry # Absent => /\ 1..entry.acked \subseteq Settled /\ entry.skipped \subseteq reported
                           /\ reported \subseteq (1..entry.acked) \cup entry.skipped
      /\ entry = Absent => Settled = {}
  BY DEF ProtocolInv, EntryInv
<1>6. handled' = handled /\ server' = "bound" /\ snap' = StatusOf(entry') /\ w' = w
      /\ down' = down /\ up' = up /\ sends' = sends
  BY DEF JoinBind
<1>7. /\ reported \subseteq reported' /\ Settled' \subseteq 1..Sent' /\ 1..entry'.acked \subseteq Settled'
      /\ entry'.skipped \subseteq reported' /\ reported' \subseteq (1..entry'.acked) \cup entry'.skipped
      /\ Sent' = Sent
      /\ w.supported => Settled' = Settled
      /\ ~w.supported => Settled' \subseteq 1..entry'.acked
      /\ Fate!Abandon \/ UNCHANGED Fate!fateVars
  <2>1. CASE entry # Absent /\ entry.gen = w.gen
    <3>1. reported' = reported \cup {} /\ abandoned' = abandoned \cup {}
      BY <2>1 DEF JoinBind, RetiresGeneration
    <3>2. /\ Settled' = Settled /\ Sent' = Sent /\ Accounted' = Accounted /\ reported' = reported
          /\ abandoned' = abandoned
      BY <1>2, <1>3, <1>4, <1>6, <2>1, <3>1 DEF Settled
    <3>3. UNCHANGED Fate!fateVars
      BY <1>6, <3>2 DEF Fate!fateVars
    <3>4. ~w.supported => Settled \subseteq 1..entry.acked
      BY <2>1 DEF ProtocolInv, FirstJoin
    <3> QED
      BY <1>2, <1>3, <1>5, <2>1, <3>2, <3>3, <3>4
  <2>2. CASE entry # Absent /\ entry.gen # w.gen
    <3> DEFINE rest == DOMAIN entry.metadata
    <3>1. reported' = reported \cup rest /\ abandoned' = abandoned \cup rest
      BY <2>2 DEF JoinBind, RetiresGeneration
    <3>2. rest = ((entry.acked + 1)..entry.issued) \ entry.skipped
      BY <1>2, <2>2 DEF Owes
    <3> HIDE DEF rest
    <3>3. Settled' = Settled \cup rest
      BY <1>6, <3>1 DEF Settled
    <3>4. entry'.issued = entry.issued /\ entry'.acked = entry.issued /\ entry'.skipped = {} /\ Sent' = Sent
      BY <1>2, <1>3, <1>4, <2>2
    <3>5. rest \cap reported = {} /\ rest \subseteq (entry.acked + 1)..entry.issued
      BY <1>2, <1>5, <2>2, <3>2
    <3>6. Settled' = 1..entry.issued
      <4>1. ASSUME NEW s \in 1..entry.issued PROVE s \in Settled'
        BY <1>2, <1>5, <2>2, <3>2, <3>3, <4>1 DEF Settled
      <4>2. rest \subseteq 1..entry.issued
        BY <1>2, <2>2, <3>2
      <4> QED
        BY <1>2, <2>2, <3>3, <4>1, <4>2
    <3>7. Fate!Account
      BY <1>2, <1>3, <1>6, <2>2, <3>4, <3>6, Accounts
    <3>8. Fate!Abandon
      <4>1. reported' \ reported = rest /\ reported \subseteq reported'
        BY <3>1, <3>5
      <4> QED
        BY <1>2, <1>6, <2>2, <3>1, <3>4, <3>5, <3>7, <4>1 DEF Fate!Abandon
    <3>9. reported' \subseteq 1..entry.issued
      BY <3>6 DEF Settled
    <3> QED
      BY <1>1, <1>2, <2>2, <3>1, <3>4, <3>6, <3>8, <3>9
  <2>3. CASE entry = Absent
    <3>1. reported' = reported \cup {} /\ abandoned' = abandoned \cup {}
      BY <2>3 DEF JoinBind, RetiresGeneration
    <3>2. Sent' = 0 /\ Accounted' = 0 /\ Sent = 0 /\ Accounted = 0 /\ entry'.skipped = {}
      BY <1>3, <1>4, <2>3, Present
    <3>3. Settled' = Settled /\ reported' = reported /\ abandoned' = abandoned /\ Settled = {} /\ reported = {}
      BY <1>5, <1>6, <2>3, <3>1 DEF Settled
    <3>4. UNCHANGED Fate!fateVars
      BY <1>6, <3>2, <3>3 DEF Fate!fateVars
    <3> QED
      BY <1>1, <1>4, <2>3, <3>2, <3>3, <3>4
  <2> QED
    BY <2>1, <2>2, <2>3
<1>8. Settled \subseteq Settled' /\ Sent' \in Nat /\ Sent \in Nat
  BY <1>6, <1>7, Present DEF Settled
<1>9. Known(snap', Settled') /\ snap'.acked = entry'.acked
  BY <1>4, <1>6, <1>7 DEF Known, StatusOf, Status
<1>10. TypeOK'
  BY <1>3, <1>6 DEF ProtocolInv, TypeOK, Good
<1>11. WrapperInv'
  <2>1. Fit(w, Range(up), RepliesIn(down), handled, Settled, Sent) /\ Open(w)
    BY Present
  <2>2. w.inbox \cap Settled' = {} /\ (w.supported => \A s \in Settled' \ Settled : Knows(w, s))
    BY <1>7, <2>1, Present DEF Fit, Agrees
  <2>3. Fit(w, Range(up), RepliesIn(down), handled, Settled', Sent')
    <3>1. Sent <= Sent' /\ \A m \in RepliesIn(down) : m \in RepliesIn(down) \/ ReplyFits(m, w)
      BY <1>7, <1>8
    <3> QED
      <4>1. Grown(w, Range(up), RepliesIn(down), Settled, Sent, Range(up), RepliesIn(down), Settled', Sent')
        BY <1>7, <1>8, <2>2, <3>1 DEF Grown
      <4> QED
        BY <2>1, <4>1, GrowFit
  <2> QED
    BY <1>6, <2>1, <2>3, WrapperAfter DEF Replies
<1>12. EntryInv'
  BY <1>1, <1>3, <1>4, <1>6, <1>7 DEF EntryInv
<1>13. LinkInv'
  BY <1>1, <1>3, <1>4, <1>6, <1>9 DEF LinkInv
<1>14. FirstJoin'
  BY <1>1, <1>6, <1>7, <1>9 DEF FirstJoin, Subscribed
<1>15. DownInv'
  <2>1. Range(down) = {}
    BY <1>1 DEF Range
  <2> QED
    BY <1>6, <2>1 DEF ProtocolInv, DownInv
<1>16. SendsInv'
  <2>1. \A s \in SendStep : TakenFits(s, Settled, Sent) => TakenFits(s, Settled', Sent')
    <3>1. Sent <= Sent'
      BY <1>7, <1>8
    <3> QED
      BY <1>8, <3>1, KnownStays
  <2>2. sends \in Seq(SendStep) /\ \A i \in DOMAIN sends : TakenFits(sends[i], Settled, Sent)
    BY DEF ProtocolInv, SendsInv
  <2>3. \A i \in DOMAIN sends' : TakenFits(sends'[i], Settled', Sent')
    BY <1>6, <2>1, <2>2
  <2> QED
    BY <1>4, <1>6, <2>3 DEF ProtocolInv, SendsInv
<1> QED
  BY <1>7, <1>10, <1>11, <1>12, <1>13, <1>14, <1>15, <1>16 DEF ProtocolInv

LEMMA Initially == Init => ProtocolInv /\ Fate!Init
<1> SUFFICES ASSUME Init PROVE ProtocolInv /\ Fate!Init
  OBVIOUS
<1>1. entry = Absent /\ Settled = {} /\ Sent = 0 /\ Accounted = 0
  BY DEF Init, Settled, Sent, Accounted
<1>2. <<>> \in Seq(DownMessage) /\ <<>> \in Seq(UpMessage) /\ <<>> \in Seq(SendStep) /\ Range(<<>>) = {}
      /\ DOMAIN <<>> = {}
  BY DEF Range
<1> DEFINE q == NewWrapper(0)
<1>3. /\ Fit(q, {}, {}, {}, {}, 0) /\ Open(q)
      /\ q.gen = 0 /\ ~q.supported /\ ~q.connected /\ ~q.live /\ q.out = <<>>
  <2>1. {} \subseteq {} /\ {} \subseteq 1..0 /\ 0 \in Nat
    OBVIOUS
  <2> QED
    BY <2>1, NewFit
<1>4. w = q /\ up = <<>> /\ down = <<>> /\ server = "off" /\ sends = <<>> /\ handled = {}
  BY DEF Init
<1> HIDE DEF q
<1>5. TypeOK
  BY <1>1, <1>3, <1>4 DEF TypeOK, Fit, Agrees, Sound
<1>6. WrapperInv
  <2>1. Replies = {} /\ Range(up) = {}
    BY <1>2, <1>4 DEF Replies, RepliesIn
  <2> QED
    BY <1>1, <1>3, <1>4, <2>1 DEF WrapperInv
<1>7. EntryInv /\ LinkInv /\ FirstJoin
  BY <1>1, <1>3, <1>4, ProtocolAssumption DEF EntryInv, LinkInv, FirstJoin, Subscribed
<1>8. DownInv /\ SendsInv
  BY <1>2, <1>4 DEF DownInv, SendsInv
<1>9. Fate!Init
  BY <1>1 DEF Fate!Init, Init
<1> QED
  BY <1>5, <1>6, <1>7, <1>8, <1>9 DEF ProtocolInv

\* A dispatch is a message handled: one that was sent and not settled.
LEMMA DispatchHandles ==
  ASSUME ProtocolInv, NEW seq \in 1..MaxSeq, Dispatch(seq)
  PROVE  Fate!Handle
<1>1. Fit(w, Range(up), RepliesIn(down), handled, Settled, Sent) /\ Open(w) /\ seq \in w.inbox
  BY Present DEF Dispatch
<1>2. seq \in 1..Sent /\ seq \notin Settled
  BY <1>1, DispatchFit
<1>3. Sent' = Sent /\ Accounted' = Accounted
  BY DEF Dispatch, Sent, Accounted
<1> QED
  BY <1>2, <1>3 DEF Fate!Handle, Dispatch, Settled

\* The other steps of the wrapper, and most of the channels', settle nothing.
LEMMA Stutters ==
  ASSUME entry' = entry, handled' = handled, reported' = reported, abandoned' = abandoned
  PROVE  UNCHANGED Fate!fateVars
  BY DEF Fate!fateVars, Sent, Accounted

LEMMA StepInv ==
  ASSUME ProtocolInv, [Next]_vars
  PROVE  ProtocolInv' /\ [Fate!Next]_(Fate!fateVars)
<1>1. CASE JoinBind
  BY <1>1, JoinBindInv DEF Fate!Next
<1>2. CASE Subscribe
  BY <1>2, SubscribeInv, Stutters DEF Subscribe
<1>3. CASE AfterJoin
  BY <1>3, AfterJoinInv, Stutters DEF AfterJoin
<1>4. CASE Preflight
  BY <1>4, PreflightInv, Stutters DEF Preflight
<1>5. ASSUME NEW i \in 1..MaxSeq, Issue(i)
      PROVE  ProtocolInv' /\ Fate!Take
  BY <1>5, IssueInv DEF Fate!Take, Issue
<1>6. ASSUME NEW i \in 1..MaxSeq, Push(i)
      PROVE  ProtocolInv' /\ UNCHANGED Fate!fateVars
  BY <1>6, PushInv, Stutters DEF Push
<1>7. ASSUME NEW i \in 1..MaxSeq, ReadStatus(i)
      PROVE  ProtocolInv' /\ UNCHANGED Fate!fateVars
  BY <1>7, ReadStatusInv, Stutters DEF ReadStatus
<1>8. ASSUME NEW i \in 1..MaxSeq, SendStatus(i)
      PROVE  ProtocolInv' /\ UNCHANGED Fate!fateVars
  BY <1>8, SendStatusInv, Stutters DEF SendStatus
<1>9. CASE HandleAck
  BY <1>9, HandleAckInv DEF Fate!Next
<1>10. CASE HandleResync
  BY <1>10, ValidResyncInv, RefusedResyncInv DEF Fate!Next
<1>11. CASE Deliver
  BY <1>11, DeliverInv, Stutters DEF Deliver
<1>12. CASE TimerFires
  BY <1>12, TimerInv, Stutters DEF TimerFires
<1>13. CASE ReplyTimeout
  BY <1>13, RequestEndsInv, Stutters DEF ReplyTimeout
<1>14. CASE SlowReply
  BY <1>14, RequestEndsInv, Stutters DEF SlowReply
<1>15. ASSUME NEW seq \in 1..MaxSeq, Dispatch(seq)
       PROVE  ProtocolInv' /\ Fate!Handle
  BY <1>15, DispatchInv, DispatchHandles
<1>16. CASE Interrupt
  BY <1>16, InterruptInv, Stutters DEF Interrupt
<1>17. CASE Break
  BY <1>17, BreakInv, Stutters DEF Break
<1>18. ASSUME NEW orderly \in BOOLEAN, Die(orderly)
       PROVE  ProtocolInv' /\ (Fate!Abandon \/ UNCHANGED Fate!fateVars)
  BY <1>18, DieInv
<1>19. CASE UNCHANGED vars
  <2>1. UNCHANGED Fate!fateVars
    BY <1>19, Stutters DEF vars
  <2>2. ProtocolInv'
    BY <1>19 DEF vars, ProtocolInv, TypeOK, WrapperInv, EntryInv, LinkInv, FirstJoin, DownInv, SendsInv,
                 Settled, Sent, Replies, Subscribed
  <2> QED
    BY <2>1, <2>2
<1> QED
  BY <1>1, <1>2, <1>3, <1>4, <1>5, <1>6, <1>7, <1>8, <1>9, <1>10, <1>11, <1>12, <1>13, <1>14, <1>15,
     <1>16, <1>17, <1>18, <1>19 DEF Next, Fate!Next

-----------------------------------------------------------------------------
(* Nothing is stuck.                                                       *)

\* The numbers the wrapper r has completed.
Completed(r) == r.completed \cup (1..r.acked)

\* What r has counted: the acknowledged prefix is the confirmed one or waits to be
\* replayed, and what it has received and completed was issued.
Counted(r) ==
    /\ r.acked <= r.issued /\ r.resolved <= r.acked /\ r.pendingAck <= r.acked
    /\ r.acked <= r.resolved \/ r.acked <= r.pendingAck
    /\ r.acked + 1 \notin r.completed
    /\ r.completed \cup r.received \subseteq 1..r.issued

\* What r has asked for, or will, was issued.
Bounded(r) ==
    /\ r.timer # None => r.timer <= r.issued
    /\ r.pending # None => r.pending.missing \subseteq 1..r.issued

\* What r has received and not confirmed waits for the host, is given up, or is
\* completed (or in X, about to be).
Placed(r, X) ==
    \A s \in r.received : s > r.resolved => s \in r.inbox \cup r.retiring \cup Completed(r) \cup X

\* A connected wrapper that has something to ask for waits for its timer or a reply.
Awake(r) == r.connected /\ r.supported => Idle(r) \/ r.timer # None \/ r.inFlight

\* The prefix k is accounted for (the ledger is at a), or an acknowledgement of it
\* is under way.
Carries(r, U, a, k) ==
    k <= a \/ \E m \in U \cup Range(r.out) : m.type = "ack" /\ k <= m.seq

\* What a live wrapper has acknowledged reaches the ledger.
Delivers(r, U, a) == r.live => Carries(r, U, a, r.acked) /\ Carries(r, U, a, r.ackIssued)

Settles(r, U, a) ==
    Counted(r) /\ Bounded(r) /\ Placed(r, {}) /\ Awake(r) /\ Delivers(r, U, a)

\* A status is no newer than the ledger, which is at a.
Past(status, a) == status.acked <= status.issued /\ status.acked <= a

StatusInv ==
    /\ \A m \in Range(down) : m.type # "envelope" => Past(m.status, Accounted)
    /\ server = "bound" => Past(snap, Accounted)
    /\ \A i \in DOMAIN sends : sends[i].at = "broadcast" => Past(sends[i].status, Accounted)

\* Each number was given to a message that was taken up.
Numbered == {i \in DOMAIN sends : sends[i].at # "issue"}
NumberInv == Len(sends) <= MaxSeq /\ Sent = Cardinality(Numbered)

\* A joined channel's wrapper is connected or will read the join reply, and knows
\* how many (n) were issued or will be told.
Informing(m, n) == m.type \in {"join", "status"} /\ n <= m.status.issued
Tells(s, n) == s.at \in {"push", "status"} \/ (s.at = "broadcast" /\ n <= s.status.issued)

NewsInv ==
    /\ w.live = w.connected
    /\ Subscribed => w.connected \/ \E m \in Range(down) : m.type = "join"
    /\ server = "live" =>
          \/ Sent <= w.issued
          \/ \E m \in Range(down) : Informing(m, Sent)
          \/ \E i \in DOMAIN sends : Tells(sends[i], Sent)

QuietInv == Settles(w, Range(up), Accounted) /\ StatusInv /\ NumberInv /\ NewsInv

-----------------------------------------------------------------------------
(* Asking.                                                                 *)

\* A non-empty set of numbers has a least member.
LEMMA LeastSome ==
  ASSUME NEW S, S \subseteq Nat, S # {}
  PROVE  Least(S, RangeLimit) # {}
<1>1. PICK m \in S : \A y \in S : m <= y
  BY LeastNatural
<1>2. {t \in S : t < m} = {}
  <2>1. ASSUME NEW t \in S PROVE ~(t < m)
    BY <1>1, t \in Nat, m \in Nat
  <2> QED  BY <2>1
<1>3. Cardinality({t \in S : t < m}) = 0
  BY <1>2, FS_EmptySet
<1>4. m \in Least(S, RangeLimit)
  BY <1>3, ProtocolAssumption DEF Least
<1> QED  BY <1>4

\* A wrapper that has nothing to ask for has received all that it knows was issued.
LEMMA IdleReceived ==
  ASSUME NEW r \in Wrapper, Idle(r)
  PROVE  /\ r.pending = None /\ r.retiring = {}
         /\ (r.resolved + 1)..r.issued \subseteq r.received
<1>1. r.resolved \in Nat /\ r.issued \in Nat
  BY WrapperFields
<1>2. ((r.resolved + 1)..r.issued) \ r.received \subseteq Nat
  BY <1>1
<1>3. ((r.resolved + 1)..r.issued) \ r.received = {}
  BY <1>2, LeastSome DEF Idle, Missing
<1> QED  BY <1>3 DEF Idle

\* What the methods that ask leave alone.
SameCounts(r, q) ==
    /\ q.acked = r.acked /\ q.completed = r.completed /\ q.pendingAck = r.pendingAck
    /\ q.ackIssued = r.ackIssued /\ q.issued = r.issued /\ q.inbox = r.inbox
    /\ q.resolved = r.resolved /\ q.received = r.received /\ q.retiring = r.retiring
    /\ q.live = r.live /\ q.connected = r.connected /\ q.supported = r.supported

\* Wrapper q is r after methods that ask.
Asks(r, q) ==
    /\ q \in Wrapper /\ SameCounts(r, q)
    /\ Range(r.out) \subseteq Range(q.out)
    /\ Bounded(r) => Bounded(q)

\* Asking is a preorder.
LEMMA AsksRefl == ASSUME NEW r \in Wrapper PROVE Asks(r, r)
  BY DEF Asks, SameCounts

LEMMA AsksTrans ==
  ASSUME NEW r, NEW q, NEW p, Asks(r, q), Asks(q, p)
  PROVE  Asks(r, p)
<1>1. SameCounts(r, p)
  BY DEF Asks, SameCounts
<1> QED  BY <1>1 DEF Asks

\* Asking changes nothing of what a wrapper has counted and pushed.
LEMMA AsksKeeps ==
  ASSUME NEW U, NEW a, NEW X, NEW r, NEW q, Asks(r, q)
  PROVE  /\ Counted(r) => Counted(q)
         /\ Placed(r, X) => Placed(q, X)
         /\ \A k : Carries(r, U, a, k) => Carries(q, U, a, k)
         /\ Delivers(r, U, a) => Delivers(q, U, a)
<1>1. Counted(r) => Counted(q)
  BY DEF Asks, SameCounts, Counted
<1>2. Placed(r, X) => Placed(q, X)
  BY DEF Asks, SameCounts, Placed, Completed
<1>3. ASSUME NEW k, Carries(r, U, a, k) PROVE Carries(q, U, a, k)
  BY <1>3 DEF Asks, Carries
<1>4. Delivers(r, U, a) => Delivers(q, U, a)
  BY <1>3 DEF Asks, SameCounts, Delivers
<1> QED  BY <1>1, <1>2, <1>3, <1>4

\* #schedule.
LEMMA ScheduleAsks ==
  ASSUME NEW r \in Wrapper
  PROVE  /\ Asks(r, Schedule[r]) /\ Awake(Schedule[r])
         /\ Schedule[r].pending = r.pending /\ Schedule[r].inFlight = r.inFlight
         /\ Schedule[r].out = r.out
<1>1. \/ /\ Schedule[r] = r
         /\ ~(r.connected /\ r.supported) \/ r.timer # None \/ r.inFlight
      \/ Schedule[r] = [r EXCEPT !.timer = None] /\ Idle(r)
      \/ Schedule[r] = [r EXCEPT !.timer = r.issued]
  BY WrapperFields DEF Schedule
<1>2. CASE Schedule[r] = r /\ (~(r.connected /\ r.supported) \/ r.timer # None \/ r.inFlight)
  BY <1>2, AsksRefl DEF Awake
<1>3. ASSUME NEW t \in Nat \cup {None}, t = None \/ t = r.issued
      PROVE  LET q == [r EXCEPT !.timer = t]
             IN  /\ Asks(r, q) /\ q.timer = t /\ q.pending = r.pending /\ q.inFlight = r.inFlight
                 /\ q.out = r.out
  <2> DEFINE q == [r EXCEPT !.timer = t]
  <2>1. q \in Wrapper
    BY DEF Wrapper
  <2>2. /\ SameCounts(r, q) /\ q.pending = r.pending /\ q.inFlight = r.inFlight /\ q.out = r.out
        /\ q.timer = t
    BY DEF Wrapper, SameCounts
  <2> HIDE DEF q
  <2>3. r.issued \in Nat
    BY WrapperFields
  <2>4. Bounded(r) => Bounded(q)
    BY <1>3, <2>2, <2>3 DEF Bounded, SameCounts
  <2>5. Asks(r, q)
    BY <2>1, <2>2, <2>4 DEF Asks
  <2> QED  BY <2>2, <2>5 DEF q
<1>4. CASE Schedule[r] = [r EXCEPT !.timer = None] /\ Idle(r)
  <2>1. /\ Asks(r, Schedule[r]) /\ Schedule[r].pending = r.pending
        /\ Schedule[r].inFlight = r.inFlight /\ Schedule[r].out = r.out
    BY <1>3, <1>4
  <2>2. Idle(Schedule[r])
    BY <1>4, <2>1 DEF Idle, Missing, Asks, SameCounts
  <2> QED  BY <2>1, <2>2 DEF Awake
<1>5. CASE Schedule[r] = [r EXCEPT !.timer = r.issued]
  <2>1. r.issued \in Nat
    BY WrapperFields
  <2>2. /\ Asks(r, Schedule[r]) /\ Schedule[r].pending = r.pending
        /\ Schedule[r].inFlight = r.inFlight /\ Schedule[r].out = r.out
        /\ Schedule[r].timer = r.issued
    BY <1>3, <1>5, <2>1
  <2> QED  BY <2>1, <2>2, NothingAssumption DEF Awake
<1> QED  BY <1>1, <1>2, <1>4, <1>5

\* #request; what is pending and can be sent is then under way.
LEMMA SendAsks ==
  ASSUME NEW r \in Wrapper
  PROVE  /\ Asks(r, Send[r]) /\ (Awake(r) => Awake(Send[r]))
         /\ r.pending # None => Awake(Send[r])
<1> DEFINE k == r.ref + 1
           m == [type |-> "resync", ref |-> k, request |-> r.pending]
           q == [r EXCEPT !.inFlight = TRUE, !.ref = k, !.out = Append(@, m)]
<1>1. \/ Send[r] = r /\ (r.pending = None \/ r.inFlight \/ ~r.connected)
      \/ r.pending # None /\ Send[r] = q
  BY WrapperFields DEF Send
<1>2. CASE Send[r] = r /\ (r.pending = None \/ r.inFlight \/ ~r.connected)
  BY <1>2, AsksRefl DEF Awake
<1>3. CASE r.pending # None /\ Send[r] = q
  <2>1. k \in Nat /\ r.pending \in Request
    BY <1>3, WrapperFields
  <2>2. m \in UpMessage
    BY <2>1 DEF UpMessage
  <2>3. Append(r.out, m) \in Seq(UpMessage) /\ Range(Append(r.out, m)) = Range(r.out) \cup {m}
    BY <2>2, WrapperFields, RangeAppend
  <2> HIDE DEF m
  <2>4. q \in Wrapper
    BY <2>1, <2>3 DEF Wrapper
  <2>5. /\ SameCounts(r, q) /\ q.pending = r.pending /\ q.inFlight = TRUE
        /\ q.timer = r.timer /\ q.out = Append(r.out, m)
    BY DEF Wrapper, SameCounts
  <2> HIDE DEF q
  <2>6. Asks(r, q)
    BY <2>3, <2>4, <2>5 DEF Asks, Bounded, SameCounts
  <2> QED  BY <1>3, <2>5, <2>6 DEF Awake
<1> QED  BY <1>1, <1>2, <1>3

\* A number that is named in a request lies between the confirmed prefix and the cutoff.
LEMMA NumbersBetween ==
  ASSUME NEW r \in Wrapper, NEW cutoff \in Nat
  PROVE  /\ Numbers(r, cutoff) \subseteq (r.resolved + 1)..cutoff
         /\ Numbers(r, cutoff) = {} =>
              /\ (r.resolved + 1)..cutoff \subseteq r.received
              /\ \A s \in r.retiring : s <= r.resolved \/ s > cutoff
<1> DEFINE R == {s \in r.retiring : s > r.resolved /\ s <= cutoff}
           M == ((r.resolved + 1)..cutoff) \ r.received
<1>1. r.resolved \in Nat /\ r.retiring \subseteq Nat
  BY WrapperFields DEF Seqs
<1>2. R \subseteq (r.resolved + 1)..cutoff /\ R \subseteq Nat /\ M \subseteq Nat
  BY <1>1
<1>3. \A s \in r.retiring : s \notin R => s <= r.resolved \/ s > cutoff
  BY <1>1
<1>4. M = {} => (r.resolved + 1)..cutoff \subseteq r.received
  OBVIOUS
<1>5. M \subseteq (r.resolved + 1)..cutoff
  OBVIOUS
<1>6. Missing(r, cutoff) = Least(M, RangeLimit)
  BY DEF Missing
<1>7. Numbers(r, cutoff) = IF Least(R, RangeLimit) # {} THEN Least(R, RangeLimit)
                                                        ELSE Least(M, RangeLimit)
  BY <1>6 DEF Numbers
<1> HIDE DEF R, M
<1>8. Least(R, RangeLimit) \subseteq R /\ Least(M, RangeLimit) \subseteq M
  BY DEF Least
<1>9. Numbers(r, cutoff) = {} => R = {} /\ M = {}
  BY <1>2, <1>7, LeastSome
<1> QED  BY <1>2, <1>3, <1>4, <1>5, <1>7, <1>8, <1>9

\* #start, up to a cutoff that was issued.
LEMMA StartAsks ==
  ASSUME NEW r \in Wrapper, NEW cutoff \in Nat, cutoff <= r.issued
  PROVE  /\ Asks(r, Start(cutoff)[r])
         /\ IF Numbers(r, cutoff) = {} THEN Start(cutoff)[r] = r ELSE Awake(Start(cutoff)[r])
<1> DEFINE p == [cutoff |-> cutoff, missing |-> Numbers(r, cutoff)]
           q == [r EXCEPT !.pending = p]
<1>1. Start(cutoff)[r] = IF Numbers(r, cutoff) = {} THEN r ELSE Send[q]
  BY DEF Start
<1>2. r.resolved \in Nat /\ r.issued \in Nat
  BY WrapperFields
<1>3. Numbers(r, cutoff) \subseteq 1..cutoff /\ Numbers(r, cutoff) \subseteq 1..r.issued
  BY <1>2, NumbersBetween
<1>4. p \in Request /\ p.missing \subseteq 1..r.issued
  BY <1>3 DEF Request, Seqs
<1>5. p # None
  BY <1>4, NothingAssumption
<1> HIDE DEF p
<1>6. q \in Wrapper
  BY <1>4 DEF Wrapper
<1>7. SameCounts(r, q) /\ q.pending = p /\ q.timer = r.timer /\ q.out = r.out
  BY DEF Wrapper, SameCounts
<1> HIDE DEF q
<1>8. Asks(r, q)
  BY <1>4, <1>6, <1>7 DEF Asks, Bounded, SameCounts
<1>9. Asks(q, Send[q]) /\ Awake(Send[q])
  BY <1>5, <1>6, <1>7, SendAsks
<1>10. Asks(r, Send[q])
  BY <1>8, <1>9, AsksTrans
<1> QED  BY <1>1, <1>9, <1>10, AsksRefl

\* A wrapper that wakes up stays awake.
LEMMA StartAwake ==
  ASSUME NEW r \in Wrapper, Awake(r), NEW cutoff \in Nat, cutoff <= r.issued
  PROVE  Asks(r, Start(cutoff)[r]) /\ Awake(Start(cutoff)[r])
  BY StartAsks

\* The end of #request.
LEMMA FinishAsks ==
  ASSUME NEW r \in Wrapper
  PROVE  Asks(r, Finish[r]) /\ Awake(Finish[r])
<1> DEFINE q == [r EXCEPT !.inFlight = FALSE]
           c == IF r.pending = None /\ r.retiring # {} THEN Start(r.issued)[q] ELSE q
<1>1. Finish[r] = Schedule[c] /\ r.issued \in Nat
  BY WrapperFields DEF Finish
<1>2. q \in Wrapper
  BY DEF Wrapper
<1>3. SameCounts(r, q) /\ q.pending = r.pending /\ q.timer = r.timer /\ q.out = r.out
  BY DEF Wrapper, SameCounts
<1> HIDE DEF q
<1>4. Asks(r, q)
  BY <1>2, <1>3 DEF Asks, Bounded, SameCounts
<1>5. q.issued = r.issued /\ r.issued <= q.issued
  BY <1>1, <1>3 DEF SameCounts
<1>6. Asks(q, c)
  BY <1>1, <1>2, <1>5, StartAsks, AsksRefl
<1>7. Asks(r, c)
  BY <1>4, <1>6, AsksTrans
<1> HIDE DEF c
<1>8. Asks(c, Schedule[c]) /\ Awake(Schedule[c])
  BY <1>7, ScheduleAsks DEF Asks
<1> QED  BY <1>1, <1>7, <1>8, AsksTrans

\* The timer's callback.
LEMMA TimerAsks ==
  ASSUME NEW r \in Wrapper, Bounded(r), r.timer # None
  PROVE  Asks(r, TimerCallback(r)) /\ Awake(TimerCallback(r))
<1> DEFINE q == [r EXCEPT !.timer = None]
           c == IF r.pending # None THEN Send[q] ELSE Start(r.timer)[q]
<1>1. TimerCallback(r) = Schedule[c]
  BY DEF TimerCallback
<1>2. r.timer \in Nat /\ r.timer <= r.issued
  BY WrapperFields DEF Bounded
<1>3. q \in Wrapper
  BY DEF Wrapper
<1>4. SameCounts(r, q) /\ q.pending = r.pending /\ q.timer = None /\ q.out = r.out
  BY DEF Wrapper, SameCounts
<1> HIDE DEF q
<1>5. Asks(r, q) /\ r.timer <= q.issued
  BY <1>2, <1>3, <1>4 DEF Asks, Bounded, SameCounts
<1>6. Asks(q, c)
  BY <1>2, <1>3, <1>5, StartAsks, SendAsks
<1>7. Asks(r, c)
  BY <1>5, <1>6, AsksTrans
<1> HIDE DEF c
<1>8. Asks(c, Schedule[c]) /\ Awake(Schedule[c])
  BY <1>7, ScheduleAsks DEF Asks
<1> QED  BY <1>1, <1>7, <1>8, AsksTrans

\* retire, of everything that waits in the inbox.
LEMMA RetireSettles ==
  ASSUME NEW U, NEW a, NEW r \in Wrapper, Settles(r, U, a)
  PROVE  LET q == Retire([r EXCEPT !.inbox = {}], r.inbox)
         IN  q \in Wrapper /\ Settles(q, U, a) /\ q.live = r.live /\ q.connected = r.connected /\ q.issued = r.issued
<1> DEFINE e == [r EXCEPT !.inbox = {}]
           G == {s \in r.inbox : s > e.resolved /\ s \in e.received}
           q == [e EXCEPT !.retiring = @ \cup G]
<1>1. Retire(e, r.inbox) = StartIfFree[q]
  BY DEF Retire
<1>2. e \in Wrapper /\ e.resolved = r.resolved /\ e.received = r.received
  BY DEF Wrapper
<1>3. /\ e.acked = r.acked /\ e.completed = r.completed /\ e.pendingAck = r.pendingAck
      /\ e.ackIssued = r.ackIssued /\ e.issued = r.issued /\ e.inbox = {}
      /\ e.retiring = r.retiring
      /\ e.live = r.live /\ e.connected = r.connected /\ e.supported = r.supported
      /\ e.pending = r.pending /\ e.timer = r.timer /\ e.inFlight = r.inFlight /\ e.out = r.out
  BY DEF Wrapper
<1> HIDE DEF e
<1>4. G = {s \in r.inbox : s > r.resolved /\ s \in r.received}
  BY <1>2
<1>5. G \in SUBSET Seqs /\ G \subseteq r.received /\ r.retiring \in SUBSET Seqs
  BY <1>4, WrapperFields
<1> HIDE DEF G
<1>6. q \in Wrapper
  BY <1>2, <1>3, <1>5 DEF Wrapper
<1>7. /\ q.acked = r.acked /\ q.completed = r.completed /\ q.pendingAck = r.pendingAck
      /\ q.ackIssued = r.ackIssued /\ q.issued = r.issued /\ q.inbox = {}
      /\ q.resolved = r.resolved /\ q.received = r.received /\ q.retiring = r.retiring \cup G
      /\ q.live = r.live /\ q.connected = r.connected /\ q.supported = r.supported
      /\ q.pending = r.pending /\ q.timer = r.timer /\ q.inFlight = r.inFlight /\ q.out = r.out
  BY <1>2, <1>3 DEF Wrapper
<1> HIDE DEF q
<1>8. Counted(q) /\ Bounded(q) /\ Delivers(q, U, a)
  BY <1>7 DEF Settles, Counted, Bounded, Delivers, Carries
<1>9. Placed(q, {})
  BY <1>4, <1>7 DEF Settles, Placed, Completed
<1>10. r.issued \in Nat /\ r.resolved \in Nat /\ r.received \subseteq 1..r.issued
  BY WrapperFields DEF Settles, Counted
<1>11. Asks(q, StartIfFree[q]) /\ Awake(StartIfFree[q])
  <2>1. q.issued \in Nat /\ q.issued <= q.issued
    BY <1>7, <1>10
  <2>2. CASE ~(q.connected /\ q.pending = None)
    <3>1. StartIfFree[q] = q
      BY <1>6, <2>2 DEF StartIfFree
    <3>2. Awake(q)
      BY <1>7, <2>2 DEF Settles, Awake, Idle
    <3> QED  BY <1>6, <3>1, <3>2, AsksRefl
  <2>3. CASE q.connected /\ q.pending = None
    <3>1. StartIfFree[q] = Start(q.issued)[q]
      BY <1>6, <2>3 DEF StartIfFree
    <3>2. Numbers(q, q.issued) = {} => Awake(q)
      <4> SUFFICES ASSUME Numbers(q, q.issued) = {} PROVE Awake(q)
        OBVIOUS
      <4>1. \A s \in q.retiring : s <= q.resolved \/ s > q.issued
        BY <1>6, <2>1, NumbersBetween
      <4>2. G = {}
        BY <1>4, <1>5, <1>7, <1>10, <4>1
      <4>3. q.retiring = r.retiring
        BY <1>7, <4>2
      <4>4. Idle(r) => Idle(q)
        BY <1>7, <4>3 DEF Idle, Missing
      <4> QED  BY <1>7, <4>4 DEF Settles, Awake
    <3> QED  BY <1>6, <2>1, <3>1, <3>2, StartAsks
  <2> QED  BY <2>2, <2>3
<1>12. Settles(StartIfFree[q], U, a)
  <2>1. Counted(StartIfFree[q]) /\ Placed(StartIfFree[q], {}) /\ Delivers(StartIfFree[q], U, a)
    BY <1>8, <1>9, <1>11, AsksKeeps
  <2>2. Bounded(StartIfFree[q])
    BY <1>8, <1>11 DEF Asks
  <2> QED  BY <1>11, <2>1, <2>2 DEF Settles
<1> QED  BY <1>1, <1>7, <1>11, <1>12 DEF e, Asks, SameCounts

\* What is settled after asking.
LEMMA AsksSettles ==
  ASSUME NEW U, NEW a, NEW r, NEW q, Asks(r, q), Awake(q),
         Counted(r), Bounded(r), Placed(r, {}), Delivers(r, U, a)
  PROVE  Settles(q, U, a)
<1>1. Counted(q) /\ Placed(q, {}) /\ Delivers(q, U, a)
  BY AsksKeeps
<1> QED  BY <1>1 DEF Settles, Asks

-----------------------------------------------------------------------------
(* Counting.                                                               *)

\* Wrapper q is r after methods that complete, confirm and acknowledge.
Onward(r, q) ==
    /\ q \in Wrapper
    /\ q.issued = r.issued /\ q.pendingAck = r.pendingAck /\ q.inbox = r.inbox
    /\ q.live = r.live /\ q.connected = r.connected /\ q.supported = r.supported
    /\ r.acked <= q.acked /\ Completed(r) \subseteq Completed(q)
    /\ r.resolved <= q.resolved /\ q.received \subseteq r.received
    /\ \A s \in r.retiring : s \in q.retiring \/ s <= q.resolved
    /\ Range(r.out) \subseteq Range(q.out)
    /\ q.ackIssued = r.ackIssued \/ \E m \in Range(q.out) : m.type = "ack" /\ m.seq = q.ackIssued
    /\ Bounded(r) => Bounded(q)
    /\ Awake(r) => Awake(q)

\* So is going onward, ...
LEMMA OnwardRefl == ASSUME NEW r \in Wrapper PROVE Onward(r, r)
  BY WrapperFields DEF Onward

LEMMA OnwardTrans ==
  ASSUME NEW r \in Wrapper, NEW q, NEW p, Onward(r, q), Onward(q, p)
  PROVE  Onward(r, p)
<1>1. q \in Wrapper /\ p \in Wrapper
  BY DEF Onward
<1>2. /\ r.acked \in Nat /\ q.acked \in Nat /\ p.acked \in Nat
      /\ r.resolved \in Nat /\ q.resolved \in Nat /\ p.resolved \in Nat
      /\ r.retiring \subseteq Nat
  BY <1>1, WrapperFields DEF Seqs
<1>3. r.acked <= p.acked /\ r.resolved <= p.resolved
  BY <1>2 DEF Onward
<1>4. \A s \in r.retiring : s \in p.retiring \/ s <= p.resolved
  BY <1>2 DEF Onward
<1> QED  BY <1>3, <1>4 DEF Onward

\* What onward methods leave of what a wrapper has placed and pushed.
LEMMA OnwardKeeps ==
  ASSUME NEW U, NEW a, NEW X, NEW r \in Wrapper, NEW q, Onward(r, q)
  PROVE  /\ Placed(r, X) => Placed(q, X)
         /\ \A k : Carries(r, U, a, k) => Carries(q, U, a, k)
         /\ Carries(r, U, a, r.ackIssued) => Carries(q, U, a, q.ackIssued)
<1>1. q \in Wrapper /\ r.resolved \in Nat /\ q.resolved \in Nat /\ r.received \subseteq Nat
      /\ q.ackIssued \in Nat /\ r.resolved <= q.resolved
  BY WrapperFields DEF Onward, Seqs
<1>2. ASSUME Placed(r, X) PROVE Placed(q, X)
  <2> SUFFICES ASSUME NEW s \in q.received, s > q.resolved
               PROVE  s \in q.inbox \cup q.retiring \cup Completed(q) \cup X
    BY DEF Placed
  <2>1. s \in r.received /\ s > r.resolved /\ ~(s <= q.resolved)
    BY <1>1 DEF Onward
  <2>2. s \in r.inbox \cup r.retiring \cup Completed(r) \cup X
    BY <1>2, <2>1 DEF Placed
  <2> QED  BY <2>1, <2>2 DEF Onward
<1>3. ASSUME NEW k, Carries(r, U, a, k) PROVE Carries(q, U, a, k)
  BY <1>3 DEF Onward, Carries
<1>4. ASSUME Carries(r, U, a, r.ackIssued) PROVE Carries(q, U, a, q.ackIssued)
  <2>1. CASE q.ackIssued = r.ackIssued
    BY <1>3, <1>4, <2>1
  <2>2. CASE \E m \in Range(q.out) : m.type = "ack" /\ m.seq = q.ackIssued
    BY <1>1, <2>2 DEF Carries
  <2> QED  BY <2>1, <2>2 DEF Onward
<1> QED  BY <1>2, <1>3, <1>4

\* What #schedule leaves alone; q may have forgotten what its prefix has passed.
LEMMA ScheduleOnward ==
  ASSUME NEW r \in Wrapper, NEW q \in Wrapper,
         q.issued = r.issued, q.pendingAck = r.pendingAck, q.inbox = r.inbox,
         q.live = r.live, q.connected = r.connected, q.supported = r.supported,
         q.acked = r.acked, q.completed = r.completed, q.ackIssued = r.ackIssued,
         r.resolved <= q.resolved, q.received \subseteq r.received,
         \A s \in r.retiring : s \in q.retiring \/ s <= q.resolved,
         q.out = r.out, q.timer = r.timer, q.pending = r.pending
  PROVE  Onward(r, Schedule[q])
<1> DEFINE p == Schedule[q]
<1>1. Asks(q, p) /\ Awake(p) /\ p.out = q.out
  BY ScheduleAsks
<1> HIDE DEF p
<1>2. p \in Wrapper /\ SameCounts(q, p) /\ r.acked \in Nat
  BY <1>1, WrapperFields DEF Asks
<1>3. Completed(p) = Completed(r)
  BY <1>2 DEF SameCounts, Completed
<1>4. Bounded(r) => Bounded(p)
  BY <1>1 DEF Asks, Bounded
<1>5. Onward(r, p)
  BY <1>1, <1>2, <1>3, <1>4 DEF Onward, SameCounts
<1> QED  BY <1>5 DEF p

\* confirm.
LEMMA ConfirmOnward ==
  ASSUME NEW r \in Wrapper, NEW seq \in Nat
  PROVE  LET c == ConfirmThrough(seq)[r]
         IN  /\ Onward(r, c) /\ Awake(c) /\ c.out = r.out /\ c.ackIssued = r.ackIssued
             /\ c.acked = r.acked /\ c.completed = r.completed
             /\ c.resolved = Larger(seq, r.resolved)
<1> DEFINE top == Larger(seq, r.resolved)
           q == [r EXCEPT !.resolved = top, !.received = @ \ (1..top), !.retiring = @ \ (1..top)]
<1>1. r.resolved \in Nat /\ top \in Nat /\ r.resolved <= top
  BY WrapperFields DEF Larger
<1>2. ConfirmThrough(seq)[r] = Schedule[q]
  BY DEF ConfirmThrough
<1> HIDE DEF top
<1>3. q \in Wrapper
  BY <1>1, WrapperFields DEF Wrapper
<1>4. /\ q.issued = r.issued /\ q.pendingAck = r.pendingAck /\ q.inbox = r.inbox
      /\ q.live = r.live /\ q.connected = r.connected /\ q.supported = r.supported
      /\ q.acked = r.acked /\ q.completed = r.completed /\ q.ackIssued = r.ackIssued
      /\ q.resolved = top /\ q.received = r.received \ (1..top) /\ q.retiring = r.retiring \ (1..top)
      /\ q.out = r.out /\ q.timer = r.timer /\ q.pending = r.pending
  BY DEF Wrapper
<1> HIDE DEF q
<1>5. r.retiring \subseteq Nat \ {0}
  BY WrapperFields DEF Seqs
<1>6. \A s \in r.retiring : s \in q.retiring \/ s <= q.resolved
  BY <1>1, <1>4, <1>5
<1>7. Onward(r, Schedule[q])
  BY <1>1, <1>3, <1>4, <1>6, ScheduleOnward
<1>8. Asks(q, Schedule[q]) /\ Awake(Schedule[q]) /\ Schedule[q].out = q.out
  BY <1>3, ScheduleAsks
<1>9. SameCounts(q, Schedule[q])
  BY <1>8 DEF Asks
<1> QED  BY <1>2, <1>4, <1>7, <1>8, <1>9 DEF SameCounts, top

\* acknowledgeInterAgentDelivery of a number that was issued.
LEMMA PushOnward ==
  ASSUME NEW r \in Wrapper, NEW seq \in Nat
  PROVE  LET c == PushAck(r, seq)
         IN  /\ Onward(r, c) /\ c.acked = r.acked /\ c.completed = r.completed
             /\ seq > r.issued => c = r
             /\ seq <= r.issued => c.resolved = Larger(seq, r.resolved) /\ seq <= c.ackIssued
<1> DEFINE c == ConfirmThrough(seq)[r]
           m == [type |-> "ack", seq |-> seq]
           q == [c EXCEPT !.ackIssued = seq, !.out = Append(@, m)]
<1>1. /\ Onward(r, c) /\ Awake(c) /\ c.acked = r.acked /\ c.completed = r.completed
      /\ c.resolved = Larger(seq, r.resolved)
  BY ConfirmOnward
<1>2. c \in Wrapper
  BY <1>1 DEF Onward
<1>3. PushAck(r, seq) = IF seq > r.issued THEN r ELSE PushNewer(seq)[c]
  BY DEF PushAck
<1> HIDE DEF c
<1>4. PushNewer(seq)[c] = IF seq <= c.ackIssued THEN c ELSE q
  BY <1>2 DEF PushNewer
<1>5. r.issued \in Nat /\ c.ackIssued \in Nat
  BY <1>2, WrapperFields
<1>6. CASE seq > r.issued
  BY <1>3, <1>5, <1>6, OnwardRefl
<1>7. CASE seq <= r.issued /\ seq <= c.ackIssued
  BY <1>1, <1>3, <1>4, <1>5, <1>7
<1>8. CASE seq <= r.issued /\ ~(seq <= c.ackIssued)
  <2>1. seq \in Seqs
    BY <1>5, <1>8 DEF Seqs
  <2>2. m \in UpMessage /\ m.type = "ack" /\ m.seq = seq
    BY <2>1 DEF UpMessage
  <2>3. Append(c.out, m) \in Seq(UpMessage) /\ Range(Append(c.out, m)) = Range(c.out) \cup {m}
    BY <1>2, <2>2, WrapperFields, RangeAppend
  <2> HIDE DEF m
  <2>4. q \in Wrapper
    BY <1>2, <2>3 DEF Wrapper
  <2>5. /\ q.issued = c.issued /\ q.pendingAck = c.pendingAck /\ q.inbox = c.inbox
        /\ q.live = c.live /\ q.connected = c.connected /\ q.supported = c.supported
        /\ q.acked = c.acked /\ q.completed = c.completed /\ q.ackIssued = seq
        /\ q.resolved = c.resolved /\ q.received = c.received /\ q.retiring = c.retiring
        /\ q.out = Append(c.out, m) /\ q.timer = c.timer /\ q.pending = c.pending
        /\ q.inFlight = c.inFlight
    BY <1>2 DEF Wrapper
  <2> HIDE DEF q
  <2>6. (Bounded(c) => Bounded(q)) /\ (Awake(c) => Awake(q))
    BY <2>5 DEF Bounded, Awake, Idle, Missing
  <2>7. c.acked \in Nat /\ c.resolved \in Nat
    BY <1>2, WrapperFields
  <2>8. Onward(c, q)
    BY <2>2, <2>3, <2>4, <2>5, <2>6, <2>7 DEF Onward, Completed
  <2>9. Onward(r, q)
    BY <1>1, <2>8, OnwardTrans
  <2> QED  BY <1>1, <1>3, <1>4, <1>5, <1>8, <2>5, <2>9
<1> QED  BY <1>5, <1>6, <1>7, <1>8

\* The acknowledgements in the link and in what was pushed are of numbers.
LEMMA AckNumbers ==
  ASSUME NEW U, U \subseteq UpMessage, NEW r \in Wrapper
  PROVE  \A m \in U \cup Range(r.out) : m.type = "ack" => m.seq \in Nat
<1>1. Range(r.out) \subseteq UpMessage
  BY WrapperFields DEF Range
<1>2. ASSUME NEW m \in UpMessage, m.type = "ack" PROVE m.seq \in Nat
  BY <1>2 DEF UpMessage, Seqs
<1> QED  BY <1>1, <1>2

\* What is pushed is carried.
LEMMA PushCarries ==
  ASSUME NEW U, U \subseteq UpMessage, NEW a \in Nat, NEW r \in Wrapper, NEW seq \in Nat,
         seq <= r.issued, Carries(r, U, a, r.ackIssued)
  PROVE  Carries(PushAck(r, seq), U, a, seq)
<1> DEFINE c == PushAck(r, seq)
<1>1. Onward(r, c) /\ seq <= c.ackIssued
  BY PushOnward
<1>2. Carries(c, U, a, c.ackIssued) /\ c \in Wrapper /\ c.ackIssued \in Nat
  BY <1>1, OnwardKeeps, WrapperFields DEF Onward
<1> HIDE DEF c
<1>3. \A m \in U \cup Range(c.out) : m.type = "ack" => m.seq \in Nat
  BY <1>2, AckNumbers
<1>4. Carries(c, U, a, seq)
  BY <1>1, <1>2, <1>3 DEF Carries
<1> QED  BY <1>4 DEF c

\* The numbers that r has completed are at most n.
Within(r, n) == r.acked <= n /\ r.completed \subseteq 1..n

\* #advance runs through completed numbers.
LEMMA AdvanceOnward ==
  ASSUME NEW r \in Wrapper, NEW n \in Nat, Within(r, n)
  PROVE  LET q == Advance[r]
         IN  /\ Onward(r, q) /\ q.resolved = r.resolved /\ q.received = r.received
             /\ q.ackIssued = r.ackIssued /\ q.out = r.out
             /\ q.acked = r.acked \/ (q.acked > r.acked /\ q.acked \in r.completed)
             /\ q.completed \subseteq r.completed /\ q.acked + 1 \notin q.completed
<1> DEFINE a == ConsumeSkipped(r.acked, r.completed)
           q == [r EXCEPT !.acked = a, !.completed = @ \ ((r.acked + 1)..a)]
<1>1. /\ r.acked \in Nat /\ r.completed \in SUBSET Seqs /\ r.acked <= n
      /\ r.completed \subseteq Nat /\ \A s \in r.completed : s <= n
  BY WrapperFields DEF Within, Seqs
<1>2. /\ a \in r.acked..n /\ a + 1 \notin r.completed
      /\ \A k \in (r.acked + 1)..a : k \in r.completed
  BY <1>1, ConsumeSkippedSpec
<1>3. Advance[r] = q
  BY DEF Advance
<1> HIDE DEF a
<1>4. a \in Nat /\ r.acked <= a /\ (a = r.acked \/ (a > r.acked /\ a \in r.completed))
  BY <1>1, <1>2
<1>5. q \in Wrapper
  BY <1>1, <1>4 DEF Wrapper
<1>6. /\ q.issued = r.issued /\ q.pendingAck = r.pendingAck /\ q.inbox = r.inbox
      /\ q.live = r.live /\ q.connected = r.connected /\ q.supported = r.supported
      /\ q.acked = a /\ q.completed = r.completed \ ((r.acked + 1)..a)
      /\ q.ackIssued = r.ackIssued
      /\ q.resolved = r.resolved /\ q.received = r.received /\ q.retiring = r.retiring
      /\ q.out = r.out /\ q.timer = r.timer /\ q.pending = r.pending /\ q.inFlight = r.inFlight
  BY DEF Wrapper
<1> HIDE DEF q
<1>7. Completed(r) \subseteq Completed(q)
  BY <1>1, <1>4, <1>6 DEF Completed
<1>8. (Bounded(r) => Bounded(q)) /\ (Awake(r) => Awake(q))
  BY <1>6 DEF Bounded, Awake, Idle, Missing
<1>9. r.resolved \in Nat
  BY WrapperFields
<1>10. Onward(r, q)
  BY <1>4, <1>5, <1>6, <1>7, <1>8, <1>9 DEF Onward
<1> QED  BY <1>2, <1>3, <1>4, <1>6, <1>10

\* complete finds room for every number, as long as there are no more than it keeps.
LEMMA CompleteOnward ==
  ASSUME NEW r \in Wrapper, NEW n \in Nat, Within(r, n), n <= CompletionLimit, NEW seq \in 1..n,
         r.acked + 1 \notin r.completed
  PROVE  LET q == Complete(seq)[r]
         IN  /\ Onward(r, q) /\ q.resolved = r.resolved /\ q.received = r.received
             /\ q.ackIssued = r.ackIssued /\ q.out = r.out
             /\ q.acked = r.acked \/ (q.acked > r.acked /\ q.acked \in r.completed \cup {seq})
             /\ q.completed \subseteq r.completed \cup {seq} /\ q.acked + 1 \notin q.completed
             /\ seq \in Completed(q)
<1> DEFINE p == [r EXCEPT !.completed = @ \cup {seq}]
<1>1. /\ r.acked \in Nat /\ r.completed \in SUBSET Seqs /\ r.completed \subseteq 1..n
      /\ r.acked <= n /\ seq \in Seqs /\ CompletionLimit \in Nat
  BY WrapperFields, ProtocolAssumption DEF Within, Seqs
<1>2. ASSUME seq \notin r.completed PROVE ~(Cardinality(r.completed) >= CompletionLimit)
  <2>1. IsFiniteSet(1..n) /\ Cardinality(1..n) = n
    BY FS_Interval
  <2>2. IsFiniteSet(r.completed)
    BY <1>1, <2>1, FS_Subset
  <2>3. Cardinality(r.completed \cup {seq}) = Cardinality(r.completed) + 1
    BY <1>2, <2>2, FS_AddElement
  <2>4. Cardinality(r.completed \cup {seq}) <= n
    BY <1>1, <2>1, FS_Subset
  <2>5. Cardinality(r.completed) \in Nat
    BY <2>2, FS_CardinalityType
  <2> QED  BY <1>1, <2>3, <2>4, <2>5
<1>3. Complete(seq)[r] = IF seq <= r.acked THEN r ELSE Advance[p]
  BY <1>2 DEF Complete
<1>4. p \in Wrapper
  BY <1>1 DEF Wrapper
<1>5. /\ p.issued = r.issued /\ p.pendingAck = r.pendingAck /\ p.inbox = r.inbox
      /\ p.live = r.live /\ p.connected = r.connected /\ p.supported = r.supported
      /\ p.acked = r.acked /\ p.completed = r.completed \cup {seq}
      /\ p.ackIssued = r.ackIssued
      /\ p.resolved = r.resolved /\ p.received = r.received /\ p.retiring = r.retiring
      /\ p.out = r.out /\ p.timer = r.timer /\ p.pending = r.pending /\ p.inFlight = r.inFlight
  BY DEF Wrapper
<1> HIDE DEF p
<1>6. Within(p, n)
  BY <1>1, <1>5 DEF Within
<1>7. (Bounded(r) => Bounded(p)) /\ (Awake(r) => Awake(p))
  BY <1>5 DEF Bounded, Awake, Idle, Missing
<1>8. Onward(r, p) /\ seq \in Completed(p)
  <2>1. r.resolved \in Nat
    BY WrapperFields
  <2> QED  BY <1>1, <1>4, <1>5, <1>7, <2>1 DEF Onward, Completed
<1> DEFINE q == Advance[p]
<1>9. /\ Onward(p, q) /\ q.resolved = p.resolved /\ q.received = p.received
      /\ q.ackIssued = p.ackIssued /\ q.out = p.out
      /\ q.acked = p.acked \/ (q.acked > p.acked /\ q.acked \in p.completed)
      /\ q.completed \subseteq p.completed /\ q.acked + 1 \notin q.completed
  BY <1>4, <1>6, AdvanceOnward
<1> HIDE DEF q
<1>10. Onward(r, q) /\ seq \in Completed(q)
  BY <1>8, <1>9, OnwardTrans DEF Onward
<1>11. CASE seq <= r.acked
  <2>1. seq \in Completed(r)
    BY <1>1, <1>11 DEF Completed
  <2> QED  BY <1>3, <1>11, <2>1, OnwardRefl
<1>12. CASE ~(seq <= r.acked)
  BY <1>3, <1>5, <1>9, <1>10, <1>12 DEF q
<1> QED  BY <1>11, <1>12

\* What a wrapper that has completed a number acknowledges.
LEMMA CompleteCounts ==
  ASSUME NEW U, U \subseteq UpMessage, NEW a \in Nat, NEW r \in Wrapper, NEW n \in Nat, Within(r, n),
         n <= CompletionLimit, NEW seq \in 1..n, seq <= r.issued, Counted(r)
  PROVE  LET q == SendIfAdvanced(r.acked)[Complete(seq)[r]]
         IN  /\ Onward(r, q) /\ Within(q, n) /\ Counted(q) /\ seq \in Completed(q)
             /\ Delivers(r, U, a) => Delivers(q, U, a)
<1> DEFINE c == Complete(seq)[r]
           q == SendIfAdvanced(r.acked)[c]
<1>1. /\ Onward(r, c) /\ c.resolved = r.resolved /\ c.received = r.received
      /\ c.ackIssued = r.ackIssued /\ c.out = r.out
      /\ c.acked = r.acked \/ (c.acked > r.acked /\ c.acked \in r.completed \cup {seq})
      /\ c.completed \subseteq r.completed \cup {seq} /\ c.acked + 1 \notin c.completed
      /\ seq \in Completed(c)
  BY CompleteOnward DEF Counted
<1> HIDE DEF c
<1>2. c \in Wrapper /\ c.issued = r.issued /\ c.pendingAck = r.pendingAck /\ c.live = r.live
  BY <1>1 DEF Onward
<1>3. /\ r.acked \in Nat /\ c.acked \in Nat /\ r.issued \in Nat /\ r.resolved \in Nat
      /\ r.pendingAck \in Nat /\ r.completed \subseteq 1..n /\ r.acked <= n
  BY <1>2, WrapperFields DEF Within
<1>4. /\ Within(c, n) /\ c.acked <= c.issued /\ c.resolved <= c.acked /\ c.pendingAck <= c.acked
      /\ c.completed \cup c.received \subseteq 1..c.issued
  BY <1>1, <1>2, <1>3 DEF Within, Counted
<1>5. q = IF c.acked > r.acked THEN PushAck(c, c.acked) ELSE c
  BY <1>2 DEF SendIfAdvanced
<1>6. CASE c.acked = r.acked
  <2>1. q = c
    BY <1>3, <1>5, <1>6
  <2>2. Counted(c)
    BY <1>1, <1>2, <1>4, <1>6 DEF Counted
  <2>3. Delivers(r, U, a) => Delivers(c, U, a)
    BY <1>1, <1>2, <1>6 DEF Delivers, Carries
  <2> HIDE DEF q
  <2> QED  BY <1>1, <1>4, <2>1, <2>2, <2>3 DEF q, c
<1>7. CASE c.acked > r.acked
  <2>1. q = PushAck(c, c.acked)
    BY <1>5, <1>7
  <2> HIDE DEF q
  <2>2. /\ Onward(c, q) /\ q.acked = c.acked /\ q.completed = c.completed
        /\ q.resolved = Larger(c.acked, c.resolved)
    BY <1>2, <1>3, <1>4, <2>1, PushOnward
  <2>3. Onward(r, q) /\ seq \in Completed(q)
    BY <1>1, <2>2, OnwardTrans DEF Onward
  <2>4. /\ q.resolved = q.acked /\ q.pendingAck = c.pendingAck /\ q.issued = c.issued
        /\ q.received \subseteq c.received
    BY <1>1, <1>3, <1>4, <2>2 DEF Larger, Onward
  <2>5. Counted(q)
    BY <1>1, <1>3, <1>4, <2>2, <2>4 DEF Counted
  <2>6. ASSUME Delivers(r, U, a), q.live PROVE Carries(q, U, a, q.acked) /\ Carries(q, U, a, q.ackIssued)
    <3>1. q.live = r.live
      BY <2>3 DEF Onward
    <3>2. Carries(c, U, a, c.ackIssued)
      BY <1>1, <2>6, <3>1 DEF Delivers, Carries
    <3>3. Carries(q, U, a, c.acked)
      BY <1>2, <1>3, <1>4, <2>1, <3>2, PushCarries
    <3>4. Carries(q, U, a, q.ackIssued)
      BY <1>2, <2>2, <3>2, OnwardKeeps
    <3> QED  BY <2>2, <3>3, <3>4
  <2>7. Delivers(r, U, a) => Delivers(q, U, a)
    BY <2>6 DEF Delivers
  <2>8. Within(q, n)
    BY <1>4, <2>2 DEF Within
  <2> QED  BY <2>3, <2>5, <2>7, <2>8 DEF q, c
<1> QED  BY <1>1, <1>6, <1>7

\* Nothing to complete.
LEMMA CompleteNone ==
  ASSUME NEW r \in Wrapper
  PROVE  CompleteAll({})[r] = r
<1>1. PICK step : /\ CompleteAll({})[r] = step[MaxSeq] /\ step[0] = r
                  /\ \A k \in 1..MaxSeq : step[k] = step[k - 1]
  BY CompleteAllSteps
<1> DEFINE X == {k \in 0..MaxSeq : step[k] # r}
<1>2. ASSUME X # {} PROVE FALSE
  <2>1. PICK m \in X : \A y \in X : m <= y
    BY <1>2, LeastNatural, X \subseteq Nat
  <2>2. m # 0
    BY <1>1, <2>1
  <2>3. m \in 1..MaxSeq /\ m - 1 \in 0..MaxSeq /\ ~(m <= m - 1)
    BY ProtocolAssumption, <2>1, <2>2
  <2>4. step[m - 1] = r
    BY <2>1, <2>3
  <2> QED  BY <1>1, <2>1, <2>3, <2>4
<1>3. MaxSeq \in 0..MaxSeq
  BY ProtocolAssumption
<1> QED  BY <1>1, <1>2, <1>3

\* Each number of S is completed, and what is acknowledged with it is carried.
LEMMA CompleteAllCounts ==
  ASSUME NEW U, U \subseteq UpMessage, NEW a \in Nat, NEW r \in Wrapper, Within(r, MaxSeq),
         MaxSeq <= CompletionLimit, NEW S, S \subseteq 1..MaxSeq, S \subseteq 1..r.issued, Counted(r)
  PROVE  LET q == CompleteAll(S)[r]
         IN  /\ Onward(r, q) /\ Counted(q) /\ S \subseteq Completed(q)
             /\ Delivers(r, U, a) => Delivers(q, U, a)
<1>1. MaxSeq \in Nat /\ r.issued \in Nat
  BY ProtocolAssumption, WrapperFields
<1>2. PICK step :
        /\ CompleteAll(S)[r] = step[MaxSeq] /\ step[0] = r
        /\ \A k \in 1..MaxSeq :
             step[k] = IF k \in S THEN SendIfAdvanced(step[k - 1].acked)[Complete(k)[step[k - 1]]]
                                  ELSE step[k - 1]
  BY CompleteAllSteps
<1> DEFINE P(p, k) == /\ Onward(r, p) /\ Within(p, MaxSeq) /\ Counted(p)
                      /\ \A s \in S : s <= k => s \in Completed(p)
                      /\ Delivers(r, U, a) => Delivers(p, U, a)
<1>3. P(step[0], 0)
  <2>1. \A s \in S : ~(s <= 0)
    OBVIOUS
  <2> QED  BY <1>2, <2>1, OnwardRefl
<1>4. ASSUME NEW k \in 1..MaxSeq, NEW p, P(p, k - 1)
      PROVE  P(IF k \in S THEN SendIfAdvanced(p.acked)[Complete(k)[p]] ELSE p, k)
  <2>1. CASE k \in S
    <3> DEFINE q == SendIfAdvanced(p.acked)[Complete(k)[p]]
    <3>1. p \in Wrapper /\ p.issued = r.issued
      BY <1>4 DEF Onward
    <3>2. k <= p.issued
      BY <1>1, <2>1, <3>1
    <3>3. /\ Onward(p, q) /\ Within(q, MaxSeq) /\ Counted(q) /\ k \in Completed(q)
          /\ Delivers(p, U, a) => Delivers(q, U, a)
      BY <1>1, <1>4, <3>1, <3>2, CompleteCounts
    <3> HIDE DEF q
    <3>4. Onward(r, q) /\ Completed(p) \subseteq Completed(q)
      BY <1>4, <3>3, OnwardTrans DEF Onward
    <3>5. ASSUME NEW s \in S, s <= k PROVE s \in Completed(q)
      <4>1. s = k \/ s <= k - 1
        BY <1>1, <3>5
      <4> QED  BY <1>4, <3>3, <3>4, <4>1
    <3>6. P(q, k)
      BY <1>4, <3>3, <3>4, <3>5
    <3> QED  BY <2>1, <3>6 DEF q
  <2>2. CASE k \notin S
    <3>1. \A s \in S : s <= k => s <= k - 1
      BY <1>1, <2>2
    <3> QED  BY <1>4, <2>2, <3>1
  <2> QED  BY <2>1, <2>2
<1> HIDE DEF P
<1>5. ASSUME NEW k \in 0..MaxSeq PROVE P(step[k], k)
  <2> DEFINE X == {j \in 0..MaxSeq : ~P(step[j], j)}
  <2>1. ASSUME X # {} PROVE FALSE
    <3>1. PICK m \in X : \A y \in X : m <= y
      BY <2>1, LeastNatural, X \subseteq Nat
    <3>2. m # 0
      BY <1>3, <3>1
    <3>3. m \in 1..MaxSeq /\ m - 1 \in 0..MaxSeq /\ ~(m <= m - 1)
      BY <1>1, <3>1, <3>2
    <3>4. P(step[m - 1], m - 1)
      BY <3>1, <3>3
    <3>5. P(step[m], m)
      BY <1>2, <1>4, <3>3, <3>4
    <3> QED  BY <3>1, <3>5
  <2> QED  BY <2>1
<1>6. P(step[MaxSeq], MaxSeq)
  BY <1>1, <1>5
<1> QED  BY <1>1, <1>2, <1>6 DEF P

\* What r has counted when the ledger was said to be at b: until the status is
\* observed, r may not know of all that it accounts for.
CountedFrom(r, b) ==
    /\ r.acked <= r.issued \/ r.acked <= b
    /\ r.resolved <= r.acked /\ r.pendingAck <= r.acked
    /\ r.acked <= r.resolved \/ r.acked <= r.pendingAck \/ r.acked <= b
    /\ r.acked + 1 \notin r.completed
    /\ r.completed \cup r.received \subseteq 1..r.issued

\* Wrapper p is r but for the acknowledgement that waits to be replayed.
Reset(r, p) ==
    /\ p.issued = r.issued /\ p.inbox = r.inbox /\ p.acked = r.acked /\ p.completed = r.completed
    /\ p.live = r.live /\ p.connected = r.connected /\ p.supported = r.supported
    /\ p.ackIssued = r.ackIssued /\ p.resolved = r.resolved /\ p.received = r.received
    /\ p.retiring = r.retiring /\ p.out = r.out /\ p.timer = r.timer /\ p.pending = r.pending
    /\ p.inFlight = r.inFlight

\* observe, of a status without skipped numbers: what r had acknowledged beyond b it
\* still has, and anything more is pushed.
LEMMA ObserveCounts ==
  ASSUME NEW U, U \subseteq UpMessage, NEW a \in Nat, NEW r \in Wrapper, NEW n \in Nat, Within(r, n),
         NEW b \in 0..n, b <= a, r.acked <= r.issued, r.resolved <= r.acked \/ r.resolved <= b,
         r.pendingAck <= r.acked, r.acked <= r.resolved \/ r.acked <= r.pendingAck,
         r.acked + 1 \notin r.completed, r.completed \cup r.received \subseteq 1..r.issued
  PROVE  LET p == [r EXCEPT !.pendingAck = IF @ <= b THEN 0 ELSE @]
             q == BindAcked(b)[p]
         IN  /\ p \in Wrapper /\ Onward(p, q) /\ Within(q, n) /\ CountedFrom(q, b) /\ b <= q.acked
             /\ Reset(r, p)
             /\ Carries(p, U, a, p.ackIssued) =>
                  (q.acked = r.acked /\ b < r.acked) \/ Carries(q, U, a, q.acked)
<1> DEFINE pa == IF r.pendingAck <= b THEN 0 ELSE r.pendingAck
           p == [r EXCEPT !.pendingAck = pa]
           q == BindAcked(b)[p]
           e == [p EXCEPT !.acked = b]
           d == Advance[e]
<1>1. /\ r.acked \in Nat /\ r.resolved \in Nat /\ r.issued \in Nat /\ r.pendingAck \in Nat
      /\ b \in Nat /\ r.completed \in SUBSET Seqs
  BY WrapperFields
<1>2. pa \in Nat /\ ((pa = 0 /\ r.pendingAck <= b) \/ (pa = r.pendingAck /\ ~(pa <= b)))
  BY <1>1
<1> HIDE DEF pa
<1>3. p \in Wrapper
  BY <1>2 DEF Wrapper
<1>4. /\ p.issued = r.issued /\ p.pendingAck = pa /\ p.inbox = r.inbox
      /\ p.live = r.live /\ p.connected = r.connected /\ p.supported = r.supported
      /\ p.acked = r.acked /\ p.completed = r.completed /\ p.ackIssued = r.ackIssued
      /\ p.resolved = r.resolved /\ p.received = r.received /\ p.retiring = r.retiring
      /\ p.out = r.out /\ p.timer = r.timer /\ p.pending = r.pending /\ p.inFlight = r.inFlight
  BY DEF Wrapper
<1> HIDE DEF p
<1>5. Reset(r, p)
  BY <1>4 DEF Reset
<1>7. q = IF b < p.acked THEN p ELSE SendIfAdvanced(b)[d]
  BY <1>3 DEF BindAcked
<1>8. /\ Onward(p, q) /\ Within(q, n) /\ CountedFrom(q, b) /\ b <= q.acked
      /\ Carries(p, U, a, p.ackIssued) => (q.acked = r.acked /\ b < r.acked) \/ Carries(q, U, a, q.acked)
  <2>1. CASE b < p.acked
    <3>1. Within(p, n) /\ CountedFrom(p, b)
      BY <1>1, <1>2, <1>4, <2>1 DEF Within, CountedFrom
    <3> QED  BY <1>1, <1>3, <1>4, <1>7, <2>1, <3>1, OnwardRefl
  <2>2. CASE ~(b < p.acked)
    <3>1. e \in Wrapper
      BY <1>1, <1>3 DEF Wrapper
    <3>2. /\ e.issued = r.issued /\ e.pendingAck = pa /\ e.inbox = r.inbox
          /\ e.live = r.live /\ e.connected = r.connected /\ e.supported = r.supported
          /\ e.acked = b /\ e.completed = r.completed /\ e.ackIssued = r.ackIssued
          /\ e.resolved = r.resolved /\ e.received = r.received /\ e.retiring = r.retiring
          /\ e.out = r.out /\ e.timer = p.timer /\ e.pending = p.pending /\ e.inFlight = p.inFlight
      BY <1>3, <1>4 DEF Wrapper
    <3> HIDE DEF e
    <3>3. r.acked <= b /\ pa = 0
      BY <1>1, <1>2, <1>4, <2>2
    <3>4. Onward(p, e) /\ Within(e, n)
      <4>1. Completed(p) \subseteq Completed(e)
        BY <1>1, <1>4, <3>2, <3>3 DEF Completed
      <4>2. (Bounded(p) => Bounded(e)) /\ (Awake(p) => Awake(e))
        BY <1>4, <3>2 DEF Bounded, Awake, Idle, Missing
      <4> QED  BY <1>1, <1>4, <3>1, <3>2, <3>3, <4>1, <4>2 DEF Onward, Within
    <3>5. /\ Onward(e, d) /\ d.resolved = e.resolved /\ d.received = e.received
          /\ d.ackIssued = e.ackIssued /\ d.out = e.out
          /\ d.acked = e.acked \/ (d.acked > e.acked /\ d.acked \in e.completed)
          /\ d.completed \subseteq e.completed /\ d.acked + 1 \notin d.completed
      BY <3>1, <3>4, AdvanceOnward
    <3> HIDE DEF d
    <3>6. d \in Wrapper /\ d.acked \in Nat /\ d.issued = r.issued /\ d.pendingAck = 0
      BY <3>2, <3>3, <3>5, WrapperFields DEF Onward
    <3>7. Onward(p, d) /\ Within(d, n)
      BY <1>3, <3>4, <3>5, <3>6, OnwardTrans DEF Within
    <3>8. d.completed \cup d.received \subseteq 1..d.issued /\ d.resolved <= d.acked
      BY <1>1, <3>2, <3>3, <3>5, <3>6
    <3>9. SendIfAdvanced(b)[d] = IF d.acked > b THEN PushAck(d, d.acked) ELSE d
      BY <3>6 DEF SendIfAdvanced
    <3>10. CASE d.acked = b
      <4>1. q = d
        BY <1>1, <1>7, <2>2, <3>9, <3>10
      <4>2. CountedFrom(d, b)
        BY <1>1, <3>5, <3>6, <3>8, <3>10 DEF CountedFrom
      <4>3. Carries(d, U, a, d.acked)
        BY <3>10 DEF Carries
      <4> QED  BY <1>1, <3>7, <3>10, <4>1, <4>2, <4>3
    <3>11. CASE d.acked > b
      <4>1. q = PushAck(d, d.acked)
        BY <1>7, <2>2, <3>9, <3>11
      <4> HIDE DEF q
      <4>2. d.acked <= d.issued
        BY <1>1, <3>2, <3>5, <3>6, <3>11
      <4>3. /\ Onward(d, q) /\ q.acked = d.acked /\ q.completed = d.completed
            /\ q.resolved = Larger(d.acked, d.resolved)
        BY <3>6, <4>1, <4>2, PushOnward
      <4>4. q.resolved = q.acked /\ q.issued = d.issued /\ q.pendingAck = 0 /\ q.received \subseteq d.received
        BY <1>1, <3>2, <3>5, <3>6, <3>8, <4>3 DEF Larger, Onward
      <4>5. CountedFrom(q, b)
        BY <1>1, <3>5, <3>6, <3>8, <4>2, <4>3, <4>4 DEF CountedFrom
      <4>6. Onward(p, q) /\ Within(q, n)
        BY <1>3, <3>7, <4>3, OnwardTrans DEF Within
      <4>7. ASSUME Carries(p, U, a, p.ackIssued) PROVE Carries(q, U, a, q.acked)
        <5>1. Carries(d, U, a, d.ackIssued)
          BY <1>4, <3>2, <3>5, <4>7 DEF Carries
        <5>2. Carries(q, U, a, d.acked)
          BY <3>6, <4>1, <4>2, <5>1, PushCarries
        <5> QED  BY <4>3, <5>2
      <4> QED  BY <1>1, <3>6, <3>11, <4>3, <4>5, <4>6, <4>7
    <3> QED  BY <1>1, <3>2, <3>5, <3>6, <3>10, <3>11
  <2> QED  BY <2>1, <2>2
<1> HIDE DEF q
<1> QED  BY <1>3, <1>5, <1>8 DEF p, q, pa

-----------------------------------------------------------------------------
(* What the wrapper does with each message leaves it settled.              *)

\* Nothing that r knows of is forgotten: it may have learned that more was issued.
Later(r, q) ==
    /\ q \in Wrapper /\ r.issued <= q.issued
    /\ q.live = r.live /\ q.connected = r.connected /\ q.supported = r.supported
    /\ \A X : Placed(r, X) => Placed(q, X)
    /\ Bounded(r) => Bounded(q)

\* Both go Later, ...
LEMMA OnwardLater ==
  ASSUME NEW r \in Wrapper, NEW q, Onward(r, q)
  PROVE  Later(r, q)
<1>1. \A X : Placed(r, X) => Placed(q, X)
  BY OnwardKeeps
<1> QED  BY <1>1, WrapperFields DEF Onward, Later

LEMMA AsksLater ==
  ASSUME NEW r \in Wrapper, NEW q, Asks(r, q)
  PROVE  Later(r, q)
<1>1. \A X : Placed(r, X) => Placed(q, X)
  BY AsksKeeps
<1> QED  BY <1>1, WrapperFields DEF Asks, SameCounts, Later

\* ... and Later is transitive.
LEMMA LaterTrans ==
  ASSUME NEW r \in Wrapper, NEW q, NEW p, Later(r, q), Later(q, p)
  PROVE  Later(r, p)
<1>1. q \in Wrapper /\ p \in Wrapper
  BY DEF Later
<1>2. r.issued \in Nat /\ q.issued \in Nat /\ p.issued \in Nat
  BY <1>1, WrapperFields
<1> QED  BY <1>2 DEF Later

\* A status is observed: the prefix is confirmed, and r knows how many were issued.
LEMMA StatusLater ==
  ASSUME NEW r \in Wrapper, NEW status \in Status
  PROVE  LET q == ObserveStatus(status)[r]
         IN  /\ Later(r, q) /\ Awake(q) /\ q.out = r.out /\ q.ackIssued = r.ackIssued
             /\ q.acked = r.acked /\ q.completed = r.completed /\ q.received \subseteq r.received
             /\ q.pendingAck = r.pendingAck /\ status.issued <= q.issued
             /\ q.resolved = Larger(status.acked, r.resolved)
<1> DEFINE i == Larger(status.issued, r.issued)
           p == [r EXCEPT !.issued = i]
           q == ConfirmThrough(status.acked)[p]
<1>1. status.issued \in Nat /\ status.acked \in Nat /\ r.issued \in Nat
  BY WrapperFields DEF Status
<1>2. i \in Nat /\ r.issued <= i /\ status.issued <= i
  BY <1>1 DEF Larger
<1>3. ObserveStatus(status)[r] = q
  BY DEF ObserveStatus
<1> HIDE DEF i
<1>4. p \in Wrapper
  BY <1>2 DEF Wrapper
<1>5. /\ p.issued = i /\ p.pendingAck = r.pendingAck /\ p.inbox = r.inbox
      /\ p.live = r.live /\ p.connected = r.connected /\ p.supported = r.supported
      /\ p.acked = r.acked /\ p.completed = r.completed /\ p.ackIssued = r.ackIssued
      /\ p.resolved = r.resolved /\ p.received = r.received /\ p.retiring = r.retiring
      /\ p.out = r.out /\ p.timer = r.timer /\ p.pending = r.pending /\ p.inFlight = r.inFlight
  BY DEF Wrapper
<1> HIDE DEF p
<1>6. Later(r, p)
  <2>1. \A X : Placed(r, X) => Placed(p, X)
    BY <1>5 DEF Placed, Completed
  <2>2. Bounded(r) => Bounded(p)
    <3>1. r.timer # None => r.timer \in Nat
      BY WrapperFields
    <3>2. 1..r.issued \subseteq 1..i
      BY <1>1, <1>2
    <3> QED  BY <1>1, <1>2, <1>5, <3>1, <3>2 DEF Bounded
  <2> QED  BY <1>2, <1>4, <1>5, <2>1, <2>2 DEF Later
<1>7. /\ Onward(p, q) /\ Awake(q) /\ q.out = p.out /\ q.ackIssued = p.ackIssued
      /\ q.acked = p.acked /\ q.completed = p.completed
      /\ q.resolved = Larger(status.acked, p.resolved)
  BY <1>1, <1>4, ConfirmOnward
<1> HIDE DEF q
<1>8. Later(r, q)
  BY <1>4, <1>6, <1>7, OnwardLater, LaterTrans
<1>9. q.received \subseteq r.received /\ q.pendingAck = r.pendingAck /\ q.issued = i
  BY <1>5, <1>7 DEF Onward
<1> QED  BY <1>2, <1>3, <1>5, <1>7, <1>8, <1>9

\* A status is observed and the acknowledged prefix bound to it.
Heard(status) == [r \in Wrapper |-> LET o == ObserveStatus(status)[r]
                  IN  BindAcked(status.acked)[[o EXCEPT !.pendingAck = IF @ <= status.acked THEN 0 ELSE @]]]

\* What a wrapper that has heard a status has counted.
LEMMA HeardCounts ==
  ASSUME NEW U, U \subseteq UpMessage, NEW a \in 0..MaxSeq, NEW r \in Wrapper, Within(r, MaxSeq),
         NEW status \in Status, status.acked <= a, status.acked <= status.issued, Counted(r)
  PROVE  LET q == Heard(status)[r]
         IN  /\ Later(r, q) /\ Within(q, MaxSeq) /\ Counted(q) /\ Awake(q) /\ status.issued <= q.issued
             /\ Delivers(r, U, a) => Delivers(q, U, a)
<1> DEFINE b == status.acked
           o == ObserveStatus(status)[r]
           p == [o EXCEPT !.pendingAck = IF @ <= b THEN 0 ELSE @]
           q == BindAcked(b)[p]
<1>1. /\ r.acked \in Nat /\ r.resolved \in Nat /\ r.issued \in Nat /\ r.pendingAck \in Nat
      /\ status.acked \in Nat /\ status.issued \in Nat /\ MaxSeq \in Nat
  BY WrapperFields, ProtocolAssumption DEF Status
<1>2. Heard(status)[r] = q
  BY DEF Heard
<1>3. /\ Later(r, o) /\ Awake(o) /\ o.out = r.out /\ o.ackIssued = r.ackIssued
      /\ o.acked = r.acked /\ o.completed = r.completed /\ o.received \subseteq r.received
      /\ o.pendingAck = r.pendingAck /\ status.issued <= o.issued
      /\ o.resolved = Larger(status.acked, r.resolved)
  BY StatusLater
<1> HIDE DEF o
<1>4. o \in Wrapper /\ o.issued \in Nat /\ r.issued <= o.issued /\ o.resolved \in Nat
  BY <1>3, WrapperFields DEF Later
<1>5. /\ Within(o, MaxSeq) /\ b \in 0..MaxSeq /\ o.acked <= o.issued
      /\ o.resolved <= o.acked \/ o.resolved <= b
      /\ o.pendingAck <= o.acked /\ (o.acked <= o.resolved \/ o.acked <= o.pendingAck)
      /\ b <= o.resolved /\ b <= o.issued
  BY <1>1, <1>3, <1>4 DEF Within, Counted, Larger
<1>6. o.acked + 1 \notin o.completed /\ o.completed \cup o.received \subseteq 1..o.issued
  BY <1>1, <1>3, <1>4 DEF Counted
<1>7. a \in Nat /\ b <= a
  OBVIOUS
<1>8. /\ p \in Wrapper /\ Onward(p, q) /\ Within(q, MaxSeq) /\ CountedFrom(q, b) /\ Reset(o, p)
      /\ Carries(p, U, a, p.ackIssued) =>
           (q.acked = o.acked /\ b < o.acked) \/ Carries(q, U, a, q.acked)
  BY <1>1, <1>4, <1>5, <1>6, <1>7, ObserveCounts
<1> HIDE DEF p, q
<1>9. Later(o, p) /\ Awake(p)
  <2>1. \A X : Placed(o, X) => Placed(p, X)
    BY <1>8 DEF Reset, Placed, Completed
  <2>2. (Bounded(o) => Bounded(p)) /\ (Awake(o) => Awake(p))
    BY <1>8 DEF Reset, Bounded, Awake, Idle, Missing
  <2>3. p \in Wrapper /\ o.issued <= p.issued
        /\ p.live = o.live /\ p.connected = o.connected /\ p.supported = o.supported
    BY <1>4, <1>8 DEF Reset
  <2> QED  BY <1>3, <2>1, <2>2, <2>3 DEF Later
<1>10. Later(r, q) /\ Awake(q) /\ q \in Wrapper
  BY <1>3, <1>4, <1>8, <1>9, OnwardLater, LaterTrans DEF Onward
<1>11. q.issued = o.issued /\ o.resolved <= q.resolved /\ q.live = r.live
  BY <1>3, <1>8 DEF Onward, Reset, Later
<1>12. Counted(q)
  <2>1. q.acked \in Nat /\ q.resolved \in Nat
    BY <1>10, WrapperFields
  <2> QED  BY <1>1, <1>4, <1>5, <1>8, <1>11, <2>1 DEF CountedFrom, Counted
<1>13. ASSUME Delivers(r, U, a), q.live PROVE Carries(q, U, a, q.acked) /\ Carries(q, U, a, q.ackIssued)
  <2>1. Carries(p, U, a, p.ackIssued) /\ Carries(p, U, a, r.acked)
    BY <1>3, <1>8, <1>11, <1>13 DEF Delivers, Carries, Reset
  <2>2. Carries(q, U, a, q.ackIssued) /\ Carries(q, U, a, r.acked)
    BY <1>8, <2>1, OnwardKeeps
  <2> QED  BY <1>3, <1>8, <2>1, <2>2
<1>14. Delivers(r, U, a) => Delivers(q, U, a)
  BY <1>13 DEF Delivers
<1> QED  BY <1>2, <1>3, <1>8, <1>10, <1>11, <1>12, <1>14

\* An acknowledgement made while disconnected is replayed.
LEMMA ReplaySettles ==
  ASSUME NEW U, U \subseteq UpMessage, NEW a \in Nat, NEW r \in Wrapper,
         Counted(r), Bounded(r), Placed(r, {}), Awake(r),
         r.live => /\ Carries(r, U, a, r.ackIssued)
                   /\ Carries(r, U, a, r.acked) \/ r.acked <= r.pendingAck
  PROVE  Settles(ReplayPendingAck[r], U, a) /\ Later(r, ReplayPendingAck[r])
<1>1. r.acked \in Nat /\ r.pendingAck \in Nat /\ r.issued \in Nat /\ r.resolved \in Nat
  BY WrapperFields
<1>2. ReplayPendingAck[r] = IF r.pendingAck # 0 THEN PushAck(r, r.pendingAck) ELSE r
  BY DEF ReplayPendingAck
<1>3. CASE r.pendingAck = 0
  <2>1. r.live => Carries(r, U, a, r.acked)
    BY <1>1, <1>3 DEF Carries
  <2> QED  BY <1>2, <1>3, <2>1, OnwardRefl, OnwardLater DEF Settles, Delivers
<1>4. CASE r.pendingAck # 0
  <2> DEFINE q == PushAck(r, r.pendingAck)
  <2>1. r.pendingAck <= r.issued /\ r.pendingAck <= r.acked
    BY <1>1 DEF Counted
  <2>2. /\ Onward(r, q) /\ q.acked = r.acked /\ q.completed = r.completed
        /\ q.resolved = Larger(r.pendingAck, r.resolved)
    BY <1>1, <2>1, PushOnward
  <2>3. r.live => Carries(q, U, a, r.pendingAck)
    BY <1>1, <2>1, PushCarries
  <2> HIDE DEF q
  <2>4. Counted(q)
    BY <1>1, <2>1, <2>2 DEF Counted, Onward, Larger
  <2>5. Later(r, q) /\ Bounded(q) /\ Placed(q, {}) /\ Awake(q)
    BY <2>2, OnwardLater DEF Onward, Later
  <2>6. ASSUME q.live PROVE Carries(q, U, a, q.acked) /\ Carries(q, U, a, q.ackIssued)
    <3>1. r.live
      BY <2>2, <2>6 DEF Onward
    <3>2. Carries(q, U, a, q.ackIssued) /\ (Carries(r, U, a, r.acked) => Carries(q, U, a, r.acked))
      BY <2>2, <3>1, OnwardKeeps
    <3>3. r.acked <= r.pendingAck => r.acked = r.pendingAck
      BY <1>1, <2>1
    <3> QED  BY <2>2, <2>3, <3>1, <3>2, <3>3
  <2>7. Settles(q, U, a)
    BY <2>4, <2>5, <2>6 DEF Settles, Delivers
  <2> QED  BY <1>2, <1>4, <2>5, <2>7 DEF q
<1> QED  BY <1>3, <1>4

\* A status of the entry.
LEMMA OnStatusSettles ==
  ASSUME NEW U, U \subseteq UpMessage, NEW a \in 0..MaxSeq, NEW r \in Wrapper, Within(r, MaxSeq),
         NEW status \in Status, status.acked <= a, status.acked <= status.issued, Settles(r, U, a)
  PROVE  LET q == OnStatus(r, status)
         IN  Settles(q, U, a) /\ Later(r, q) /\ status.issued <= q.issued
<1> DEFINE h == Heard(status)[r]
<1>1. /\ Later(r, h) /\ Within(h, MaxSeq) /\ Counted(h) /\ Awake(h) /\ status.issued <= h.issued
      /\ Delivers(r, U, a) => Delivers(h, U, a)
  BY HeardCounts DEF Settles
<1>2. OnStatus(r, status) = ReplayPendingAck[h]
  <2> DEFINE o == ObserveStatus(status)[r]
             c == BindAcked(status.acked)[[o EXCEPT !.pendingAck = IF @ <= status.acked THEN 0 ELSE @]]
  <2>1. o \in Wrapper
    BY StatusLater DEF Later
  <2>2. h = c
    BY DEF Heard
  <2> HIDE DEF h
  <2>3. ObserveAcked(status.acked, {})[o] = CompleteAll({})[c]
    BY <2>1 DEF ObserveAcked
  <2>4. h \in Wrapper
    BY <1>1 DEF Later
  <2>5. CompleteAll({})[c] = h
    BY <2>2, <2>4, CompleteNone
  <2> QED  BY <2>3, <2>5 DEF OnStatus
<1> HIDE DEF h
<1>3. h \in Wrapper /\ Bounded(h) /\ Placed(h, {}) /\ Delivers(h, U, a)
  BY <1>1 DEF Later, Settles
<1>4. Settles(ReplayPendingAck[h], U, a) /\ Later(h, ReplayPendingAck[h])
  <2>1. a \in Nat
    OBVIOUS
  <2> QED  BY <1>1, <1>3, <2>1, ReplaySettles DEF Delivers
<1> HIDE DEF Heard
<1>5. status.issued <= ReplayPendingAck[h].issued
  <2>1. status.issued \in Nat /\ h.issued \in Nat /\ ReplayPendingAck[h].issued \in Nat
    BY <1>3, <1>4, WrapperFields DEF Status, Later
  <2> QED  BY <1>1, <1>4, <2>1 DEF Later
<1> QED  BY <1>1, <1>2, <1>4, <1>5, LaterTrans

\* A request's reply.  What it skipped is completed.
LEMMA OnReplySettles ==
  ASSUME NEW U, U \subseteq UpMessage, NEW a \in 0..MaxSeq, NEW r \in Wrapper, Within(r, MaxSeq),
         MaxSeq <= CompletionLimit, NEW m, m.status \in Status, m.status.acked <= a,
         m.status.acked <= m.status.issued, Settles(r, U, a),
         r.inFlight /\ m.ref = r.ref => m.skipped \subseteq 1..r.issued,
         m.ok => m.skipped \subseteq 1..MaxSeq
  PROVE  LET q == OnReply(r, m)
         IN  /\ q \in Wrapper /\ Settles(q, U, a)
             /\ q.live = r.live /\ q.connected = r.connected /\ r.issued <= q.issued
<1> DEFINE S == m.skipped
<1>1. a \in Nat /\ r.issued \in Nat /\ MaxSeq \in Nat
  BY WrapperFields, ProtocolAssumption
<1>2. CASE ~r.inFlight \/ m.ref # r.ref
  <2>1. OnReply(r, m) = r
    BY <1>2 DEF OnReply
  <2>2. r.issued <= r.issued
    BY <1>1
  <2> QED  BY <2>1, <2>2
<1>3. CASE ~(~r.inFlight \/ m.ref # r.ref) /\ ~m.ok
  <2>1. OnReply(r, m) = Finish[r]
    BY <1>3 DEF OnReply
  <2>2. Asks(r, Finish[r]) /\ Awake(Finish[r])
    BY FinishAsks
  <2>3. Settles(Finish[r], U, a)
    BY <2>2, AsksSettles DEF Settles
  <2> QED  BY <1>1, <2>1, <2>2, <2>3 DEF Asks, SameCounts
<1>4. CASE ~(~r.inFlight \/ m.ref # r.ref) /\ m.ok
  <2> DEFINE e == [r EXCEPT !.received = @ \cup S, !.retiring = @ \ S, !.pending = None]
             h == Heard(m.status)[e]
             c == CompleteAll(S)[h]
             f == Finish[c]
             q == ReplayPendingAck[f]
  <2>1. S \subseteq 1..r.issued /\ S \subseteq 1..MaxSeq /\ S \subseteq Seqs
    BY <1>1, <1>4 DEF Seqs
  <2>2. e \in Wrapper
    BY <2>1, WrapperFields DEF Wrapper
  <2>3. OnReply(r, m) = q
    <3> DEFINE o == ObserveStatus(m.status)[e]
               d == BindAcked(m.status.acked)[[o EXCEPT !.pendingAck = IF @ <= m.status.acked THEN 0 ELSE @]]
    <3> HIDE DEF e
    <3>1. o \in Wrapper
      BY <2>2, StatusLater DEF Later
    <3>2. h = d
      BY <2>2 DEF Heard
    <3> HIDE DEF h
    <3>3. ObserveAcked(m.status.acked, S)[o] = CompleteAll(S)[d]
      BY <3>1 DEF ObserveAcked
    <3>4. ObserveAcked(m.status.acked, S)[o] = c
      BY <3>2, <3>3
    <3> QED  BY <1>4, <3>4 DEF OnReply, e
  <2>4. /\ e.issued = r.issued /\ e.pendingAck = r.pendingAck /\ e.inbox = r.inbox
        /\ e.live = r.live /\ e.connected = r.connected /\ e.supported = r.supported
        /\ e.acked = r.acked /\ e.completed = r.completed /\ e.ackIssued = r.ackIssued
        /\ e.resolved = r.resolved /\ e.received = r.received \cup S /\ e.retiring = r.retiring \ S
        /\ e.out = r.out /\ e.timer = r.timer /\ e.pending = None
    BY DEF Wrapper
  <2> HIDE DEF e
  <2>5. Counted(e) /\ Bounded(e) /\ Placed(e, S) /\ Within(e, MaxSeq) /\ Delivers(e, U, a)
    <3>1. Counted(e)
      BY <2>1, <2>4 DEF Settles, Counted
    <3>2. Placed(e, S)
      BY <2>4 DEF Settles, Placed, Completed
    <3>3. Bounded(e) /\ Within(e, MaxSeq) /\ Delivers(e, U, a)
      BY <2>4 DEF Settles, Bounded, Within, Delivers, Carries
    <3> QED  BY <3>1, <3>2, <3>3
  <2>6. /\ Later(e, h) /\ Within(h, MaxSeq) /\ Counted(h) /\ Delivers(h, U, a)
    BY <2>2, <2>5, HeardCounts
  <2> HIDE DEF h
  <2>7. h \in Wrapper /\ S \subseteq 1..h.issued
    <3>1. h \in Wrapper /\ e.issued <= h.issued
      BY <2>6 DEF Later
    <3>2. h.issued \in Nat
      BY <3>1, WrapperFields
    <3> QED  BY <1>1, <2>1, <2>4, <3>1, <3>2
  <2>8. Onward(h, c) /\ Counted(c) /\ S \subseteq Completed(c) /\ Delivers(c, U, a)
    BY <1>1, <2>1, <2>6, <2>7, CompleteAllCounts
  <2> HIDE DEF c
  <2>9. Later(e, c) /\ c \in Wrapper
    BY <2>2, <2>6, <2>7, <2>8, OnwardLater, LaterTrans DEF Later
  <2>10. Placed(c, {}) /\ Bounded(c)
    <3>1. Placed(c, S) /\ Bounded(c)
      BY <2>5, <2>9 DEF Later
    <3> QED  BY <2>8, <3>1 DEF Placed
  <2>11. Asks(c, f) /\ Awake(f)
    BY <2>9, FinishAsks
  <2> HIDE DEF f
  <2>12. Settles(f, U, a) /\ Later(c, f) /\ f \in Wrapper
    BY <2>8, <2>9, <2>10, <2>11, AsksSettles, AsksLater DEF Later
  <2>13. Settles(q, U, a) /\ Later(f, q)
    BY <1>1, <2>12, ReplaySettles DEF Settles, Delivers
  <2>14. Later(e, q)
    BY <2>2, <2>9, <2>12, <2>13, LaterTrans
  <2> QED  BY <2>3, <2>4, <2>13, <2>14 DEF Later
<1> QED  BY <1>2, <1>3, <1>4

\* An envelope.
LEMMA ReceiveSettles ==
  ASSUME NEW U, NEW a, NEW r \in Wrapper, NEW seq \in Seqs, Settles(r, U, a)
  PROVE  LET q == Receive(r, seq)
         IN  /\ q \in Wrapper /\ Settles(q, U, a)
             /\ q.live = r.live /\ q.connected = r.connected /\ r.issued <= q.issued
<1> DEFINE i == Larger(seq, r.issued)
           p == [r EXCEPT !.issued = i, !.received = @ \cup {seq}, !.inbox = @ \cup {seq}]
<1>1. seq \in Nat \ {0} /\ r.issued \in Nat
  BY WrapperFields DEF Seqs
<1>2. i \in Nat /\ r.issued <= i /\ seq <= i
  BY <1>1 DEF Larger
<1>3. Receive(r, seq) = r \/ Receive(r, seq) = Schedule[p]
  BY DEF Receive
<1>4. CASE Receive(r, seq) = r
  BY <1>1, <1>4
<1>5. CASE Receive(r, seq) = Schedule[p]
  <2> HIDE DEF i
  <2>1. p \in Wrapper
    BY <1>2, WrapperFields DEF Wrapper
  <2>2. /\ p.issued = i /\ p.pendingAck = r.pendingAck /\ p.inbox = r.inbox \cup {seq}
        /\ p.live = r.live /\ p.connected = r.connected /\ p.supported = r.supported
        /\ p.acked = r.acked /\ p.completed = r.completed /\ p.ackIssued = r.ackIssued
        /\ p.resolved = r.resolved /\ p.received = r.received \cup {seq} /\ p.retiring = r.retiring
        /\ p.out = r.out /\ p.timer = r.timer /\ p.pending = r.pending
    BY DEF Wrapper
  <2> HIDE DEF p
  <2>3. 1..r.issued \subseteq 1..i /\ seq \in 1..i
    BY <1>1, <1>2
  <2>4. Counted(p)
    <3>1. r.acked \in Nat
      BY WrapperFields
    <3> QED  BY <1>1, <1>2, <2>2, <2>3, <3>1 DEF Settles, Counted
  <2>5. Bounded(p)
    <3>1. r.timer # None => r.timer \in Nat
      BY WrapperFields
    <3> QED  BY <1>1, <1>2, <2>2, <2>3, <3>1 DEF Settles, Bounded
  <2>6. Placed(p, {}) /\ Delivers(p, U, a)
    BY <2>2 DEF Settles, Placed, Completed, Delivers, Carries
  <2>7. Asks(p, Schedule[p]) /\ Awake(Schedule[p])
    BY <2>1, ScheduleAsks
  <2>8. Settles(Schedule[p], U, a)
    BY <2>4, <2>5, <2>6, <2>7, AsksSettles
  <2> QED  BY <1>2, <1>5, <2>2, <2>7, <2>8 DEF Asks, SameCounts
<1> QED  BY <1>3, <1>4, <1>5

\* The join reply.  Nothing of the new link is acknowledged yet: what r had
\* acknowledged beyond the status is resent, or replayed.
LEMMA OnJoinSettles ==
  ASSUME NEW U, U \subseteq UpMessage, NEW a \in 0..MaxSeq, NEW r \in Wrapper, Within(r, MaxSeq),
         NEW status \in Status, status.acked <= a, status.acked <= status.issued, Settles(r, U, a)
  PROVE  LET q == OnJoinReply(r, status)
         IN  q \in Wrapper /\ Settles(q, U, a) /\ q.live = TRUE /\ q.connected = TRUE
             /\ r.issued <= q.issued /\ status.issued <= q.issued
<1> DEFINE b == status.acked
           e == [r EXCEPT !.ackIssued = 0, !.live = TRUE]
           p == [e EXCEPT !.pendingAck = IF @ <= b THEN 0 ELSE @]
           d == BindAcked(b)[p]
           j == [d EXCEPT !.supported = TRUE, !.connected = TRUE]
           o == ObserveStatus(status)[j]
           s == ResendAck(status)[o]
           u == ResumeRecovery(status)[s]
           q == ReplayPendingAck[u]
<1>1. a \in Nat /\ MaxSeq \in Nat /\ b \in Nat /\ status.issued \in Nat /\ b \in 0..MaxSeq
      /\ r.issued \in Nat /\ r.acked \in Nat /\ r.resolved \in Nat
  BY WrapperFields, ProtocolAssumption DEF Status
<1>2. e \in Wrapper
  BY DEF Wrapper
<1>3. /\ e.issued = r.issued /\ e.pendingAck = r.pendingAck /\ e.inbox = r.inbox
      /\ e.live = TRUE /\ e.acked = r.acked /\ e.completed = r.completed /\ e.ackIssued = 0
      /\ e.resolved = r.resolved /\ e.received = r.received /\ e.retiring = r.retiring
      /\ e.out = r.out /\ e.timer = r.timer /\ e.pending = r.pending
  BY DEF Wrapper
<1> HIDE DEF e
<1>4. Placed(e, {}) /\ Bounded(e)
  BY <1>3 DEF Settles, Placed, Completed, Bounded
<1>5. /\ Within(e, MaxSeq) /\ e.acked <= e.issued /\ (e.resolved <= e.acked \/ e.resolved <= b)
      /\ e.pendingAck <= e.acked /\ (e.acked <= e.resolved \/ e.acked <= e.pendingAck)
      /\ e.acked + 1 \notin e.completed /\ e.completed \cup e.received \subseteq 1..e.issued
  BY <1>3 DEF Settles, Counted, Within
<1>6. /\ p \in Wrapper /\ Onward(p, d) /\ CountedFrom(d, b) /\ b <= d.acked /\ Reset(e, p)
      /\ Carries(p, U, a, p.ackIssued) =>
           (d.acked = e.acked /\ b < e.acked) \/ Carries(d, U, a, d.acked)
  BY <1>1, <1>2, <1>5, ObserveCounts
<1>7. OnJoinReply(r, status) = q
  <2>1. d \in Wrapper
    BY <1>6 DEF Onward
  <2>2. ObserveAcked(b, {})[e] = CompleteAll({})[d]
    BY <1>2 DEF ObserveAcked
  <2>3. ObserveAcked(b, {})[e] = d
    BY <2>1, <2>2, CompleteNone
  <2> HIDE DEF d
  <2>4. JoinRecovery(status)[d] = u
    BY <2>1 DEF JoinRecovery
  <2> QED  BY <2>3, <2>4 DEF OnJoinReply, e
<1> HIDE DEF p
<1>8. Carries(p, U, a, p.ackIssued)
  BY <1>1, <1>3, <1>6 DEF Carries, Reset
<1>9. d \in Wrapper /\ d.issued = r.issued /\ d.live = TRUE
  BY <1>3, <1>6 DEF Onward, Reset
<1>10. Placed(d, {}) /\ Bounded(d) /\ Carries(d, U, a, d.ackIssued)
  <2>1. Placed(p, {}) /\ Bounded(p)
    BY <1>4, <1>6 DEF Reset, Placed, Completed, Bounded
  <2> QED  BY <1>6, <1>8, <2>1, OnwardKeeps DEF Onward
<1> HIDE DEF d
<1>11. j \in Wrapper
  BY <1>9 DEF Wrapper
<1>12. /\ j.issued = d.issued /\ j.pendingAck = d.pendingAck /\ j.inbox = d.inbox
       /\ j.live = TRUE /\ j.connected = TRUE /\ j.acked = d.acked /\ j.completed = d.completed
       /\ j.ackIssued = d.ackIssued /\ j.resolved = d.resolved /\ j.received = d.received
       /\ j.retiring = d.retiring /\ j.out = d.out /\ j.timer = d.timer /\ j.pending = d.pending
  BY <1>9 DEF Wrapper
<1> HIDE DEF j
<1>13. Placed(j, {}) /\ Bounded(j)
  BY <1>10, <1>12 DEF Placed, Completed, Bounded
<1>14. /\ Later(j, o) /\ Awake(o) /\ o.out = j.out /\ o.ackIssued = j.ackIssued
       /\ o.acked = j.acked /\ o.completed = j.completed /\ o.received \subseteq j.received
       /\ o.pendingAck = j.pendingAck /\ status.issued <= o.issued
       /\ o.resolved = Larger(b, j.resolved)
  BY <1>11, StatusLater
<1> HIDE DEF o
<1>15. o \in Wrapper /\ Placed(o, {}) /\ Bounded(o) /\ j.issued <= o.issued
       /\ o.live = TRUE /\ o.connected = TRUE
  BY <1>12, <1>13, <1>14 DEF Later
<1>16. /\ o.issued \in Nat /\ o.acked \in Nat /\ o.resolved \in Nat /\ j.resolved \in Nat
       /\ j.issued \in Nat
  BY <1>11, <1>15, WrapperFields
<1>17. Counted(o)
  BY <1>1, <1>6, <1>12, <1>14, <1>15, <1>16 DEF CountedFrom, Counted, Larger
<1>18. Carries(o, U, a, o.ackIssued) /\ ((d.acked = e.acked /\ b < e.acked) \/ Carries(o, U, a, o.acked))
  BY <1>6, <1>8, <1>10, <1>12, <1>14 DEF Carries
<1>19. Onward(o, s) /\ Counted(s) /\ (Carries(s, U, a, s.acked) \/ s.acked <= s.pendingAck)
  <2>1. s = IF o.resolved > b THEN PushAck(o, o.resolved) ELSE o
    BY <1>15 DEF ResendAck
  <2>2. CASE ~(o.resolved > b)
    <3>1. o.acked <= o.resolved => o.acked <= b
      BY <1>1, <1>16, <2>2
    <3>2. b < e.acked /\ d.acked = e.acked => o.acked <= o.pendingAck
      BY <1>1, <1>3, <1>12, <1>14, <1>17, <3>1 DEF Counted
    <3> QED  BY <1>15, <1>17, <1>18, <2>1, <2>2, <3>2, OnwardRefl
  <2>3. CASE o.resolved > b
    <3>1. s = PushAck(o, o.resolved)
      BY <2>1, <2>3
    <3>2. o.resolved <= o.issued /\ o.resolved <= o.acked
      BY <1>16, <1>17 DEF Counted
    <3> HIDE DEF s
    <3>3. /\ Onward(o, s) /\ s.acked = o.acked /\ s.completed = o.completed
          /\ s.resolved = Larger(o.resolved, o.resolved)
      BY <1>15, <1>16, <3>1, <3>2, PushOnward
    <3>4. Carries(s, U, a, o.resolved)
      BY <1>1, <1>15, <1>16, <1>18, <3>1, <3>2, PushCarries
    <3>5. Counted(s)
      BY <1>17, <3>3 DEF Counted, Onward, Larger
    <3>6. Carries(s, U, a, s.acked) \/ s.acked <= s.pendingAck
      <4>1. o.acked <= o.resolved \/ o.acked <= o.pendingAck
        BY <1>17 DEF Counted
      <4>2. o.acked <= o.resolved => o.acked = o.resolved
        BY <1>16, <3>2
      <4> QED  BY <3>3, <3>4, <4>1, <4>2 DEF Onward
    <3> QED  BY <3>3, <3>5, <3>6
  <2> QED  BY <2>2, <2>3
<1> HIDE DEF s
<1>20. s \in Wrapper /\ s.issued = o.issued /\ Awake(s) /\ Carries(s, U, a, s.ackIssued)
  BY <1>14, <1>15, <1>18, <1>19, OnwardKeeps DEF Onward
<1>21. Asks(s, u) /\ Awake(u)
  <2>1. u = IF s.pending # None THEN Send[s] ELSE Start(status.issued)[s]
    BY <1>20 DEF ResumeRecovery
  <2> QED  BY <1>1, <1>14, <1>20, <2>1, SendAsks, StartAwake
<1> HIDE DEF u
<1>22. /\ Counted(u) /\ Carries(u, U, a, u.ackIssued)
       /\ Carries(u, U, a, u.acked) \/ u.acked <= u.pendingAck
  BY <1>19, <1>20, <1>21, AsksKeeps DEF Asks, SameCounts
<1>23. Later(o, u) /\ u \in Wrapper
  BY <1>15, <1>19, <1>20, <1>21, OnwardLater, AsksLater, LaterTrans DEF Later
<1>24. Settles(q, U, a) /\ Later(u, q)
  BY <1>1, <1>15, <1>21, <1>22, <1>23, ReplaySettles DEF Later
<1> HIDE DEF q
<1>25. Later(o, q) /\ q.issued \in Nat
  BY <1>15, <1>23, <1>24, LaterTrans, WrapperFields DEF Later
<1> QED
  BY <1>1, <1>7, <1>9, <1>12, <1>14, <1>15, <1>16, <1>24, <1>25 DEF Later

\* A message is dispatched: its acknowledgement is pushed, or waits for the connection.
LEMMA DispatchSettles ==
  ASSUME NEW U, U \subseteq UpMessage, NEW a \in Nat, NEW r \in Wrapper, Within(r, MaxSeq),
         MaxSeq <= CompletionLimit, Settles(r, U, a), NEW seq \in 1..MaxSeq, seq <= r.issued
  PROVE  LET q == AcknowledgeEnvelope([r EXCEPT !.inbox = @ \ {seq}], seq)
         IN  /\ q \in Wrapper /\ Settles(q, U, a)
             /\ q.live = r.live /\ q.connected = r.connected /\ q.issued = r.issued
<1> DEFINE p == [r EXCEPT !.inbox = @ \ {seq}]
           c == Complete(seq)[p]
           q == AcknowledgeEnvelope(p, seq)
<1>1. p \in Wrapper
  BY WrapperFields DEF Wrapper
<1>2. /\ p.issued = r.issued /\ p.pendingAck = r.pendingAck /\ p.inbox = r.inbox \ {seq}
      /\ p.live = r.live /\ p.connected = r.connected /\ p.supported = r.supported
      /\ p.acked = r.acked /\ p.completed = r.completed /\ p.ackIssued = r.ackIssued
      /\ p.resolved = r.resolved /\ p.received = r.received /\ p.retiring = r.retiring
      /\ p.out = r.out /\ p.timer = r.timer /\ p.pending = r.pending /\ p.inFlight = r.inFlight
  BY DEF Wrapper
<1> HIDE DEF p
<1>3. /\ Counted(p) /\ Bounded(p) /\ Placed(p, {seq}) /\ Awake(p) /\ Delivers(p, U, a) /\ Within(p, MaxSeq)
  <2>1. Placed(p, {seq})
    BY <1>2 DEF Settles, Placed, Completed
  <2>2. Counted(p) /\ Bounded(p) /\ Within(p, MaxSeq)
    BY <1>2 DEF Settles, Counted, Bounded, Within
  <2>3. Awake(p) /\ Delivers(p, U, a)
    BY <1>2 DEF Settles, Awake, Idle, Missing, Delivers, Carries
  <2> QED  BY <2>1, <2>2, <2>3
<1>4. MaxSeq \in Nat /\ p.acked \in Nat /\ p.pendingAck \in Nat /\ p.resolved \in Nat /\ p.issued \in Nat
  BY <1>1, WrapperFields, ProtocolAssumption
<1>5. ASSUME NEW x, Onward(p, x), seq \in Completed(x), Counted(x), Delivers(x, U, a)
      PROVE  Settles(x, U, a)
  <2>1. Placed(x, {seq}) /\ Bounded(x) /\ Awake(x)
    BY <1>1, <1>3, <1>5, OnwardKeeps DEF Onward
  <2>2. Placed(x, {})
    BY <1>5, <2>1 DEF Placed
  <2> QED  BY <1>5, <2>1, <2>2 DEF Settles
<1>6. CASE p.live
  <2>1. q = SendIfAdvanced(p.acked)[c]
    BY <1>6 DEF AcknowledgeEnvelope
  <2>2. /\ Onward(p, q) /\ Counted(q) /\ seq \in Completed(q) /\ Delivers(q, U, a)
    BY <1>1, <1>2, <1>3, <1>4, <2>1, CompleteCounts
  <2> HIDE DEF q
  <2>3. Settles(q, U, a)
    BY <1>5, <2>2
  <2> QED  BY <1>2, <2>2, <2>3 DEF q, p, Onward
<1>7. CASE ~p.live
  <2>1. /\ Onward(p, c) /\ c.resolved = p.resolved /\ c.received = p.received
        /\ c.acked = p.acked \/ (c.acked > p.acked /\ c.acked \in p.completed \cup {seq})
        /\ c.completed \subseteq p.completed \cup {seq} /\ c.acked + 1 \notin c.completed
        /\ seq \in Completed(c)
    BY <1>1, <1>3, <1>4, CompleteOnward DEF Counted
  <2> DEFINE pa == IF c.acked > p.acked THEN c.acked ELSE c.pendingAck
             x == [c EXCEPT !.pendingAck = pa]
  <2>2. q = x
    BY <1>7 DEF AcknowledgeEnvelope
  <2> HIDE DEF c
  <2>3. c \in Wrapper /\ c.acked \in Nat /\ c.pendingAck = p.pendingAck /\ c.live = p.live
        /\ c.connected = p.connected /\ c.issued = p.issued
    BY <2>1, WrapperFields DEF Onward
  <2>4. pa \in Nat /\ pa <= c.acked /\ (c.acked <= p.resolved \/ c.acked <= pa)
    BY <1>3, <1>4, <2>1, <2>3 DEF Counted
  <2> HIDE DEF pa
  <2>5. x \in Wrapper
    BY <2>3, <2>4 DEF Wrapper
  <2>6. /\ x.issued = c.issued /\ x.pendingAck = pa /\ x.inbox = c.inbox
        /\ x.live = c.live /\ x.connected = c.connected /\ x.supported = c.supported
        /\ x.acked = c.acked /\ x.completed = c.completed /\ x.ackIssued = c.ackIssued
        /\ x.resolved = c.resolved /\ x.received = c.received /\ x.retiring = c.retiring
        /\ x.out = c.out /\ x.timer = c.timer /\ x.pending = c.pending /\ x.inFlight = c.inFlight
    BY <2>3 DEF Wrapper
  <2> HIDE DEF x
  <2>7. Counted(x)
    BY <1>2, <1>3, <1>4, <2>1, <2>3, <2>4, <2>6 DEF Counted
  <2>8. Placed(c, {seq}) /\ Bounded(c) /\ Awake(c)
    BY <1>1, <1>3, <2>1, OnwardKeeps DEF Onward
  <2>9. Placed(x, {})
    BY <2>1, <2>6, <2>8 DEF Placed, Completed
  <2>10. Bounded(x) /\ Awake(x) /\ Delivers(x, U, a)
    BY <1>7, <2>3, <2>6, <2>8 DEF Bounded, Awake, Idle, Missing, Delivers
  <2>11. Settles(x, U, a)
    BY <2>7, <2>9, <2>10 DEF Settles
  <2> HIDE DEF q
  <2> QED  BY <1>2, <2>2, <2>3, <2>5, <2>6, <2>11 DEF q, p
<1> QED  BY <1>6, <1>7

\* The connection breaks, or the process is replaced.
LEMMA DisconnectedSettles ==
  ASSUME NEW U, NEW V, NEW a, NEW r \in Wrapper, Settles(r, U, a)
  PROVE  Settles(Disconnected(r), V, a)
<1> DEFINE q == Disconnected(r)
<1>1. /\ q.issued = r.issued /\ q.pendingAck = r.pendingAck /\ q.inbox = r.inbox
      /\ q.live = FALSE /\ q.connected = FALSE /\ q.acked = r.acked /\ q.completed = r.completed
      /\ q.resolved = r.resolved /\ q.received = r.received /\ q.retiring = r.retiring
      /\ q.timer = None /\ q.pending = r.pending
  BY DEF Wrapper, Disconnected
<1> HIDE DEF q
<1>2. Counted(q) /\ Bounded(q) /\ Placed(q, {}) /\ Awake(q) /\ Delivers(q, V, a)
  BY <1>1 DEF Settles, Counted, Bounded, Placed, Completed, Awake, Delivers
<1>3. Settles(q, V, a)
  BY <1>2 DEF Settles
<1> QED  BY <1>3 DEF q

\* A new process has nothing to ask for.
LEMMA NewSettles ==
  ASSUME NEW g, NEW U, NEW a
  PROVE  Settles(NewWrapper(g), U, a)
  BY DEF NewWrapper, Settles, Counted, Bounded, Placed, Awake, Delivers

\* What a handler pushed is in the link, and the ledger moves on.
LEMMA FlushSettles ==
  ASSUME NEW U, NEW a, NEW r \in Wrapper, Settles(r, U, a)
  PROVE  Settles([r EXCEPT !.out = <<>>], U \cup Range(r.out), a)
<1> DEFINE q == [r EXCEPT !.out = <<>>]
<1>1. /\ q.issued = r.issued /\ q.pendingAck = r.pendingAck /\ q.inbox = r.inbox
      /\ q.live = r.live /\ q.connected = r.connected /\ q.supported = r.supported
      /\ q.acked = r.acked /\ q.completed = r.completed /\ q.ackIssued = r.ackIssued
      /\ q.resolved = r.resolved /\ q.received = r.received /\ q.retiring = r.retiring
      /\ q.timer = r.timer /\ q.pending = r.pending /\ q.inFlight = r.inFlight
  BY DEF Wrapper
<1> HIDE DEF q
<1>2. Counted(q) /\ Bounded(q) /\ Placed(q, {}) /\ Awake(q)
  BY <1>1 DEF Settles, Counted, Bounded, Placed, Completed, Awake, Idle, Missing
<1>3. Delivers(q, U \cup Range(r.out), a)
  BY <1>1 DEF Settles, Delivers, Carries
<1>4. Settles(q, U \cup Range(r.out), a)
  BY <1>2, <1>3 DEF Settles
<1> QED  BY <1>4 DEF q

\* The ledger moves on, and what leaves the link is accounted for.
LEMMA SettlesOn ==
  ASSUME NEW U, NEW V, NEW a \in Nat, NEW a2 \in Nat, a <= a2, NEW r \in Wrapper, Settles(r, U, a),
         \A m \in U : m.type = "ack" => m \in V \/ (m.seq \in Nat /\ m.seq <= a2)
  PROVE  Settles(r, V, a2)
<1>1. ASSUME NEW k \in Nat, Carries(r, U, a, k) PROVE Carries(r, V, a2, k)
  BY <1>1 DEF Carries
<1>2. r.acked \in Nat /\ r.ackIssued \in Nat
  BY WrapperFields
<1>3. Delivers(r, U, a) => Delivers(r, V, a2)
  BY <1>1, <1>2 DEF Delivers
<1> QED  BY <1>3 DEF Settles

-----------------------------------------------------------------------------
(* The steps.                                                              *)

\* The ledger only moves on.
LEMMA LedgerMoves ==
  ASSUME ProtocolInv, [Next]_vars
  PROVE  /\ ProtocolInv' /\ Accounted \in Nat /\ Accounted' \in Nat /\ Accounted <= Accounted'
         /\ Accounted <= Sent /\ Accounted' <= Sent' /\ Sent \in Nat /\ Sent' \in Nat
         /\ Sent' = Sent \/ Sent' = Sent + 1
         /\ entry' # Absent => Past(StatusOf(entry'), Accounted') /\ entry'.issued = Sent'
<1>1. ProtocolInv' /\ [Fate!Next]_(Fate!fateVars)
  BY StepInv
<1>2. Accounted \in Nat /\ Sent \in Nat /\ Accounted <= Sent
  BY Present, OwesFields
<1>3. /\ Accounted' \in Nat /\ Sent' \in Nat /\ Accounted' <= Sent'
      /\ entry' # Absent => Past(StatusOf(entry'), Accounted') /\ entry'.issued = Sent'
  <2>1. CASE entry' = Absent
    BY <2>1 DEF Accounted, Sent
  <2>2. CASE entry' # Absent
    <3>1. Good(entry')
      BY <1>1, <2>2 DEF ProtocolInv, TypeOK, Good
    <3>2. entry'.acked \in Nat /\ entry'.issued \in Nat /\ entry'.acked <= entry'.issued
      BY <3>1, EntryFields DEF Good, EntryShape
    <3> QED  BY <2>2, <3>2 DEF Accounted, Sent, Past, StatusOf
  <2> QED  BY <2>1, <2>2
<1>4. Accounted <= Accounted' /\ (Sent' = Sent \/ Sent' = Sent + 1)
  BY <1>1, <1>2, <1>3 DEF Fate!Next, Fate!Take, Fate!Handle, Fate!Confirm, Fate!Report, Fate!Abandon,
                          Fate!Account, Fate!fateVars
<1> QED  BY <1>1, <1>2, <1>3, <1>4

\* There are no more numbers than messages.
LEMMA SentBounded ==
  ASSUME ProtocolInv, NumberInv
  PROVE  Sent <= MaxSeq /\ Accounted <= MaxSeq /\ Accounted \in 0..MaxSeq /\ Within(w, MaxSeq)
         /\ Settled \subseteq 1..MaxSeq
<1>1. Len(sends) \in Nat /\ DOMAIN sends = 1..Len(sends) /\ Len(sends) <= MaxSeq /\ MaxSeq \in Nat
  BY ProtocolAssumption DEF ProtocolInv, SendsInv, NumberInv
<1>2. IsFiniteSet(1..Len(sends)) /\ Cardinality(1..Len(sends)) = Len(sends)
  <2>1. ASSUME NEW n \in Nat PROVE IsFiniteSet(1..n) /\ Cardinality(1..n) = n
    BY FS_Interval
  <2> QED  BY <1>1, <2>1
<1>3. Cardinality(Numbered) <= Len(sends) /\ Cardinality(Numbered) \in Nat
  <2>1. Numbered \subseteq 1..Len(sends)
    BY <1>1 DEF Numbered
  <2> QED  BY <1>2, <2>1, FS_Subset, FS_CardinalityType
<1>4. Sent \in Nat /\ Sent <= MaxSeq /\ Accounted \in Nat /\ Accounted <= Sent
  BY <1>1, <1>3, Present, OwesFields DEF NumberInv
<1>5. Settled \subseteq 1..Sent /\ Sound(w, Settled)
  BY Present DEF Fit, Agrees
<1>6. Settled \subseteq 1..MaxSeq
  BY <1>1, <1>4, <1>5
<1>7. Within(w, MaxSeq)
  <2>1. w.acked \in Nat /\ 1..w.acked \subseteq 1..MaxSeq /\ w.completed \subseteq 1..MaxSeq
    BY <1>5, <1>6, Present, WrapperFields DEF Sound
  <2>2. w.acked = 0 \/ w.acked \in 1..w.acked
    BY <2>1
  <2> QED  BY <1>1, <2>1, <2>2 DEF Within
<1> QED  BY <1>1, <1>4, <1>6, <1>7

\* A message of a sequence is its head or in its tail.
LEMMA HeadOrTail ==
  ASSUME NEW S, NEW s \in Seq(S), s # <<>>, NEW m \in Range(s)
  PROVE  m = Head(s) \/ m \in Range(Tail(s))
<1>1. Len(s) \in Nat \ {0} /\ DOMAIN s = 1..Len(s) /\ Head(s) = s[1]
  OBVIOUS
<1>2. Tail(s) \in Seq(S) /\ DOMAIN Tail(s) = 1..(Len(s) - 1)
  BY <1>1
<1>3. \A i \in 1..(Len(s) - 1) : Tail(s)[i] = s[i + 1]
  BY <1>1
<1>4. PICK i \in 1..Len(s) : m = s[i]
  BY <1>1 DEF Range
<1>5. CASE i = 1
  BY <1>1, <1>4, <1>5
<1>6. CASE i # 1
  <2>1. i - 1 \in 1..(Len(s) - 1) /\ (i - 1) + 1 = i
    BY <1>1, <1>6
  <2>2. Tail(s)[i - 1] = m
    BY <1>3, <1>4, <2>1
  <2> QED  BY <1>2, <2>1, <2>2 DEF Range
<1> QED  BY <1>5, <1>6

\* A step of the wrapper, which may have read a message.
LEMMA WrapperQuiet ==
  ASSUME ProtocolInv, QuietInv, [Next]_vars, NEW q \in Wrapper, Settles(q, Range(up), Accounted),
         Run(q), entry' = entry, server' = server, snap' = snap, sends' = sends,
         w.issued <= q.issued, q.live = q.connected, w.connected => q.connected,
         Range(down') \subseteq Range(down),
         \A m \in Range(down) :
            \/ m \in Range(down')
            \/ (m.type = "join" => q.connected) /\ (Informing(m, Sent) => Sent <= q.issued)
  PROVE  QuietInv'
<1>1. Accounted' = Accounted /\ Sent' = Sent /\ Sent \in Nat
  BY Present DEF Accounted, Sent
<1>2. /\ w' = [q EXCEPT !.out = <<>>] /\ w'.issued = q.issued
      /\ w'.live = q.live /\ w'.connected = q.connected
  BY DEF Run, Wrapper
<1>3. Settles(w', Range(up'), Accounted')
  <2>1. up \in Seq(UpMessage) /\ q.out \in Seq(UpMessage)
    BY WrapperFields DEF ProtocolInv, DownInv
  <2>2. Range(up') = Range(up) \cup Range(q.out)
    BY <2>1, RangeConcat DEF Run
  <2> QED  BY <1>1, <1>2, <2>2, FlushSettles
<1>4. StatusInv'
  BY <1>1 DEF QuietInv, StatusInv, Past
<1>5. NumberInv'
  BY <1>1 DEF QuietInv, NumberInv, Numbered
<1>6. NewsInv'
  <2>1. Subscribed' => w'.connected \/ \E m \in Range(down') : m.type = "join"
    BY <1>2 DEF QuietInv, NewsInv, Subscribed
  <2>2. server = "live" => \/ Sent <= w.issued
                           \/ \E m \in Range(down) : Informing(m, Sent)
                           \/ \E i \in DOMAIN sends : Tells(sends[i], Sent)
    BY DEF QuietInv, NewsInv
  <2>3. w.issued \in Nat /\ q.issued \in Nat
    BY Present, WrapperFields
  <2>4. Sent <= w.issued => Sent' <= w'.issued
    BY <1>1, <1>2, <2>3
  <2>5. ASSUME NEW m \in Range(down), Informing(m, Sent)
        PROVE  Sent' <= w'.issued \/ \E k \in Range(down') : Informing(k, Sent')
    BY <1>1, <1>2, <2>5 DEF Informing
  <2>6. \A i \in DOMAIN sends : Tells(sends[i], Sent) => i \in DOMAIN sends' /\ Tells(sends'[i], Sent')
    BY <1>1 DEF Tells
  <2> QED  BY <1>2, <2>1, <2>2, <2>4, <2>5, <2>6 DEF NewsInv
<1> QED  BY <1>3, <1>4, <1>5, <1>6 DEF QuietInv

\* A step of the channel or of a sender.
LEMMA ServerQuiet ==
  ASSUME ProtocolInv, QuietInv, [Next]_vars, w' = w,
         \A m \in Range(up) : m.type = "ack" => m \in Range(up') \/ m.seq <= Accounted',
         \A m \in Range(down') : m \in Range(down) \/ (m.type # "envelope" => Past(m.status, Accounted')),
         server' = "bound" => Past(snap', Accounted') \/ (server = "bound" /\ snap' = snap),
         \A i \in DOMAIN sends' : sends'[i].at = "broadcast" =>
            Past(sends'[i].status, Accounted') \/ (i \in DOMAIN sends /\ sends'[i] = sends[i]),
         NumberInv', NewsInv'
  PROVE  QuietInv'
<1>1. Accounted \in Nat /\ Accounted' \in Nat /\ Accounted <= Accounted'
  BY LedgerMoves
<1>2. Settles(w', Range(up'), Accounted')
  <2>1. w \in Wrapper /\ Settles(w, Range(up), Accounted)
    BY Present DEF QuietInv
  <2>2. \A m \in Range(up) : m.type = "ack" => m.seq \in Nat
    <3>1. Range(up) \subseteq UpMessage
      BY DEF ProtocolInv, DownInv, Range
    <3> QED  BY <2>1, <3>1, AckNumbers
  <2> QED  BY <1>1, <2>1, <2>2, SettlesOn
<1>3. ASSUME NEW s \in Status, Past(s, Accounted) PROVE Past(s, Accounted')
  BY <1>1, <1>3 DEF Past, Status
<1>4. StatusInv'
  <2>1. \A m \in Range(down) : m.type # "envelope" => m.status \in Status
    BY DEF ProtocolInv, DownInv, DownFits, Known
  <2>2. \A i \in DOMAIN sends : sends[i].at = "broadcast" => sends[i].status \in Status
    BY DEF ProtocolInv, SendsInv, TakenFits, Known
  <2>3. server = "bound" => snap \in Status
    BY DEF ProtocolInv, LinkInv, Known
  <2>4. \A m \in Range(down') : m.type # "envelope" => Past(m.status, Accounted')
    BY <1>3, <2>1 DEF QuietInv, StatusInv
  <2>5. server' = "bound" => Past(snap', Accounted')
    BY <1>3, <2>3 DEF QuietInv, StatusInv, Past
  <2>6. \A i \in DOMAIN sends' : sends'[i].at = "broadcast" => Past(sends'[i].status, Accounted')
    BY <1>3, <2>2 DEF QuietInv, StatusInv, Past
  <2> QED  BY <2>4, <2>5, <2>6 DEF StatusInv
<1> QED  BY <1>2, <1>4 DEF QuietInv

\* The shape of sends, and what changing one of them does to the count.
LEMMA NumberOn ==
  ASSUME ProtocolInv, QuietInv, Sent' = Sent,
         sends' = sends \/ \E i \in DOMAIN sends, x \in SendStep :
                              /\ sends' = [sends EXCEPT ![i] = x]
                              /\ sends[i].at # "issue" /\ x.at # "issue"
  PROVE  NumberInv'
<1>1. CASE sends' = sends
  BY <1>1 DEF QuietInv, NumberInv, Numbered
<1>2. ASSUME NEW i \in DOMAIN sends, NEW x \in SendStep, sends' = [sends EXCEPT ![i] = x],
             sends[i].at # "issue", x.at # "issue"
      PROVE  NumberInv'
  <2>1. sends \in Seq(SendStep)
    BY DEF ProtocolInv, SendsInv
  <2>2. DOMAIN sends' = DOMAIN sends /\ Len(sends') = Len(sends)
        /\ \A j \in DOMAIN sends : sends'[j] = IF j = i THEN x ELSE sends[j]
    BY <1>2, <2>1
  <2>3. Numbered' = Numbered
    BY <1>2, <2>2 DEF Numbered
  <2> QED  BY <2>2, <2>3 DEF QuietInv, NumberInv
<1> QED  BY <1>1, <1>2

\* A join or another status tells the wrapper; what it was told so far stays on the way.
LEMMA NewsOn ==
  ASSUME ProtocolInv, QuietInv, w' = w,
         Subscribed' => (Subscribed /\ Range(down) \subseteq Range(down'))
                        \/ \E m \in Range(down') : m.type = "join",
         server' = "live" =>
            \/ \E m \in Range(down') : Informing(m, Sent')
            \/ \E i \in DOMAIN sends' : Tells(sends'[i], Sent')
            \/ /\ server = "live" /\ Sent' = Sent /\ Range(down) \subseteq Range(down')
               /\ \A i \in DOMAIN sends : Tells(sends[i], Sent) => i \in DOMAIN sends' /\ sends'[i] = sends[i]
  PROVE  NewsInv'
<1>1. (w.live = w.connected)'
  BY DEF QuietInv, NewsInv
<1>2. Subscribed' => w'.connected \/ \E m \in Range(down') : m.type = "join"
  BY DEF QuietInv, NewsInv
<1>3. server' = "live" =>
          \/ Sent' <= w'.issued
          \/ \E m \in Range(down') : Informing(m, Sent')
          \/ \E i \in DOMAIN sends' : Tells(sends'[i], Sent')
  <2>1. CASE server = "live" /\ Sent' = Sent /\ Range(down) \subseteq Range(down')
             /\ \A i \in DOMAIN sends : Tells(sends[i], Sent) => i \in DOMAIN sends' /\ sends'[i] = sends[i]
    <3>1. \/ Sent <= w.issued
          \/ \E m \in Range(down) : Informing(m, Sent)
          \/ \E i \in DOMAIN sends : Tells(sends[i], Sent)
      BY <2>1 DEF QuietInv, NewsInv
    <3> QED  BY <2>1, <3>1 DEF Informing, Tells
  <2> QED  BY <2>1
<1> QED  BY <1>1, <1>2, <1>3 DEF NewsInv

\* A broadcast reaches the link of a channel that has subscribed.
LEMMA Broadcasts ==
  ASSUME ProtocolInv, NEW msgs \in Seq(DownMessage), Broadcast(msgs)
  PROVE  /\ Range(down) \subseteq Range(down') /\ Range(down') \subseteq Range(down) \cup Range(msgs)
         /\ Subscribed => Range(msgs) \subseteq Range(down')
<1>1. down \in Seq(DownMessage)
  BY DEF ProtocolInv, DownInv
<1>2. CASE Subscribed
  <2>1. down' = down \o msgs
    BY <1>2 DEF Broadcast
  <2> QED  BY <1>1, <2>1, RangeConcat
<1>3. CASE ~Subscribed
  BY <1>3 DEF Broadcast
<1> QED  BY <1>2, <1>3

\* The recipient's channel binds, ...
LEMMA JoinBindQuiet ==
  ASSUME ProtocolInv, QuietInv, [Next]_vars, JoinBind
  PROVE  QuietInv'
<1>1. w' = w /\ up' = up /\ down' = down /\ sends' = sends /\ server' = "bound" /\ snap' = StatusOf(entry')
  BY DEF JoinBind
<1>2. Sent' = Sent /\ entry' # Absent
  <2>1. w.gen \in Gens /\ w.gen \in Nat
    BY Present DEF ProtocolInv, LinkInv
  <2>2. entry # Absent => Good(entry) /\ Owes(entry) /\ Sent = entry.issued
    BY Present
  <2> DEFINE f == BindResyncEntry(entry, w.gen, w.gen, 0)
  <2>3. /\ Good(f)
        /\ f.issued = IF entry # Absent THEN entry.issued ELSE 0
    <3>1. /\ Good(f)
          /\ entry # Absent /\ entry.gen = w.gen => f.issued = entry.issued
          /\ ~(entry # Absent /\ entry.gen = w.gen) => f.issued = IF entry # Absent THEN entry.issued ELSE 0
      BY <2>1, <2>2, BindOwes
    <3> QED  BY <3>1
  <2>4. entry' = f
    BY DEF JoinBind
  <2> HIDE DEF f
  <2>5. entry' # Absent
    <3>1. f # Absent
      BY <2>3, GoodPresent DEF Good
    <3> QED  BY <2>4, <3>1
  <2> QED  BY <2>3, <2>4, <2>5 DEF Sent
<1>3. Past(snap', Accounted')
  BY <1>1, <1>2, LedgerMoves DEF StatusOf
<1>4. NumberInv'
  BY <1>1, <1>2, NumberOn
<1>5. NewsInv'
  BY <1>1, NewsOn DEF Subscribed
<1> QED  BY <1>1, <1>3, <1>4, <1>5, ServerQuiet

\* ... subscribes and answers, ...
LEMMA SubscribeQuiet ==
  ASSUME ProtocolInv, QuietInv, [Next]_vars, Subscribe
  PROVE  QuietInv'
<1> DEFINE m == [type |-> "join", status |-> snap]
<1>1. /\ w' = w /\ up' = up /\ sends' = sends /\ server' = "subscribed" /\ entry' = entry
      /\ down' = Append(down, m) /\ server = "bound"
  BY DEF Subscribe
<1>2. Sent' = Sent /\ Accounted' = Accounted
  BY <1>1 DEF Sent, Accounted
<1>3. Range(down') = Range(down) \cup {m}
  <2>1. snap \in Status
    BY <1>1 DEF ProtocolInv, LinkInv, Known
  <2>2. m \in DownMessage /\ down \in Seq(DownMessage)
    BY <2>1 DEF DownMessage, ProtocolInv, DownInv
  <2> HIDE DEF m
  <2> QED  BY <1>1, <2>2, RangeAppend
<1>4. Past(m.status, Accounted') /\ m.type = "join"
  BY <1>1, <1>2 DEF QuietInv, StatusInv, Past
<1>5. NumberInv'
  BY <1>1, <1>2, NumberOn
<1>6. NewsInv'
  BY <1>1, <1>3, <1>4, NewsOn
<1> HIDE DEF m
<1> QED  BY <1>1, <1>3, <1>4, <1>5, <1>6, ServerQuiet

\* A status of the entry, of any message, tells the wrapper how many were issued.
LEMMA StatusInforms ==
  ASSUME ProtocolInv, [Next]_vars, entry' # Absent
  PROVE  LET m == StatusMessage(StatusOf(entry'))
         IN  /\ m \in DownMessage /\ Informing(m, Sent') /\ Past(m.status, Accounted') /\ m.type = "status"
             /\ <<m>> \in Seq(DownMessage) /\ Range(<<m>>) = {m}
<1> DEFINE m == StatusMessage(StatusOf(entry'))
<1>1. Past(StatusOf(entry'), Accounted') /\ entry'.issued = Sent' /\ Sent' \in Nat /\ Accounted' \in Nat
  BY LedgerMoves
<1>2. m.status = StatusOf(entry') /\ m.type = "status" /\ m.status.issued = entry'.issued
  BY DEF StatusMessage, StatusOf
<1>3. entry'.acked \in Nat /\ entry'.issued \in Nat
  BY EntryFields, LedgerMoves DEF ProtocolInv, TypeOK
<1>4. m \in DownMessage
  BY <1>3 DEF StatusMessage, StatusOf, DownMessage, Status
<1>5. Informing(m, Sent') /\ Past(m.status, Accounted')
  BY <1>1, <1>2 DEF Informing
<1>6. <<m>> \in Seq(DownMessage) /\ Range(<<m>>) = {m}
  BY <1>4, RangeSingle
<1> QED  BY <1>2, <1>4, <1>5, <1>6

\* ... and broadcasts the status once more.
LEMMA AfterJoinQuiet ==
  ASSUME ProtocolInv, QuietInv, [Next]_vars, AfterJoin
  PROVE  QuietInv'
<1>1. /\ w' = w /\ up' = up /\ sends' = sends /\ server' = "live" /\ entry' = entry /\ snap' = snap
      /\ server = "subscribed" /\ entry # Absent
  BY DEF AfterJoin, ProtocolInv, LinkInv
<1> DEFINE m == StatusMessage(StatusOf(entry'))
<1>2. /\ m \in DownMessage /\ Informing(m, Sent') /\ Past(m.status, Accounted') /\ m.type = "status"
      /\ <<m>> \in Seq(DownMessage) /\ Range(<<m>>) = {m}
  BY <1>1, StatusInforms
<1>3. Broadcast(<<m>>)
  BY <1>1 DEF AfterJoin
<1> HIDE DEF m
<1>4. Range(down) \subseteq Range(down') /\ Range(down') \subseteq Range(down) \cup {m} /\ m \in Range(down')
  BY <1>1, <1>2, <1>3, Broadcasts DEF Subscribed
<1>5. Sent' = Sent
  BY <1>1 DEF Sent
<1>6. NumberInv'
  BY <1>1, <1>5, NumberOn
<1>7. NewsInv'
  BY <1>1, <1>2, <1>4, NewsOn DEF Subscribed
<1> QED  BY <1>1, <1>2, <1>4, <1>6, <1>7, ServerQuiet

\* A message taken up.
LEMMA PreflightQuiet ==
  ASSUME ProtocolInv, QuietInv, [Next]_vars, Preflight
  PROVE  QuietInv'
<1> DEFINE x == [at |-> "issue"]
<1>1. /\ w' = w /\ up' = up /\ down' = down /\ server' = server /\ entry' = entry /\ snap' = snap
      /\ sends' = Append(sends, x) /\ Len(sends) < MaxSeq
  BY DEF Preflight
<1>2. Sent' = Sent
  BY <1>1 DEF Sent
<1>3. x \in SendStep /\ x.at = "issue" /\ sends \in Seq(SendStep) /\ MaxSeq \in Nat
  BY ProtocolAssumption DEF SendStep, ProtocolInv, SendsInv
<1> HIDE DEF x
<1>4. /\ Len(sends) \in Nat /\ Len(sends') = Len(sends) + 1
      /\ DOMAIN sends = 1..Len(sends) /\ DOMAIN sends' = 1..(Len(sends) + 1)
      /\ sends'[Len(sends) + 1] = x /\ \A i \in 1..Len(sends) : sends'[i] = sends[i]
  BY <1>1, <1>3
<1>5. NumberInv'
  <2>1. Numbered' = Numbered
    BY <1>3, <1>4 DEF Numbered
  <2> QED  BY <1>1, <1>2, <1>3, <1>4, <2>1 DEF QuietInv, NumberInv
<1>6. NewsInv'
  BY <1>1, <1>2, <1>4, NewsOn DEF Subscribed
<1>7. \A i \in DOMAIN sends' : sends'[i].at = "broadcast" => i \in DOMAIN sends /\ sends'[i] = sends[i]
  BY <1>3, <1>4
<1> QED  BY <1>1, <1>5, <1>6, <1>7, ServerQuiet

\* ... is numbered, ...
LEMMA IssueQuiet ==
  ASSUME ProtocolInv, QuietInv, [Next]_vars, NEW i \in 1..MaxSeq, Issue(i)
  PROVE  QuietInv'
<1> DEFINE x == [at |-> "push", seq |-> entry'.issued]
<1>1. /\ w' = w /\ up' = up /\ down' = down /\ server' = server /\ snap' = snap
      /\ sends' = [sends EXCEPT ![i] = x] /\ i \in DOMAIN sends /\ sends[i].at = "issue" /\ x.at = "push"
  BY DEF Issue, At
<1> HIDE DEF x
<1>2. Sent' = Sent + 1
  BY IssueInv
<1>3. sends \in Seq(SendStep)
  BY DEF ProtocolInv, SendsInv
<1>4. /\ Len(sends) \in Nat /\ Len(sends') = Len(sends) /\ DOMAIN sends' = DOMAIN sends
      /\ DOMAIN sends = 1..Len(sends)
      /\ \A j \in DOMAIN sends : sends'[j] = IF j = i THEN x ELSE sends[j]
  BY <1>1, <1>3
<1>5. NumberInv'
  <2>1. Numbered' = Numbered \cup {i} /\ i \notin Numbered
    BY <1>1, <1>4 DEF Numbered
  <2>2. IsFiniteSet(Numbered)
    <3>1. ASSUME NEW n \in Nat PROVE IsFiniteSet(1..n)
      BY FS_Interval
    <3>2. Numbered \subseteq 1..Len(sends)
      BY <1>4 DEF Numbered
    <3> QED  BY <1>4, <3>1, <3>2, FS_Subset
  <2>3. Cardinality(Numbered') = Cardinality(Numbered) + 1
    BY <2>1, <2>2, FS_AddElement
  <2> QED  BY <1>2, <1>4, <2>3 DEF QuietInv, NumberInv
<1>6. NewsInv'
  <2>1. i \in DOMAIN sends' /\ Tells(sends'[i], Sent')
    BY <1>1, <1>4 DEF Tells
  <2> QED  BY <1>1, <2>1, NewsOn DEF Subscribed
<1>7. \A j \in DOMAIN sends' : sends'[j].at = "broadcast" => j \in DOMAIN sends /\ sends'[j] = sends[j]
  BY <1>1, <1>4
<1> QED  BY <1>1, <1>5, <1>6, <1>7, ServerQuiet

\* ... and goes on to another step.
LEMMA SenderQuiet ==
  ASSUME ProtocolInv, QuietInv, [Next]_vars, w' = w, up' = up, server' = server, snap' = snap,
         entry' = entry, NEW i \in DOMAIN sends, NEW x \in SendStep, sends' = [sends EXCEPT ![i] = x],
         sends[i].at # "issue", x.at # "issue",
         x.at = "broadcast" => Past(x.status, Accounted'),
         Range(down) \subseteq Range(down'),
         \A m \in Range(down') : m \in Range(down) \/ (m.type # "envelope" => Past(m.status, Accounted')),
         server = "live" /\ Tells(sends[i], Sent) =>
            Tells(x, Sent) \/ \E m \in Range(down') : Informing(m, Sent)
  PROVE  QuietInv'
<1>1. Sent' = Sent
  BY DEF Sent
<1>2. sends \in Seq(SendStep)
  BY DEF ProtocolInv, SendsInv
<1>3. /\ DOMAIN sends' = DOMAIN sends
      /\ \A j \in DOMAIN sends : sends'[j] = IF j = i THEN x ELSE sends[j]
  BY <1>2
<1>4. NumberInv'
  BY <1>1, NumberOn
<1>5. NewsInv'
  <2>1. CASE server = "live" /\ Tells(sends[i], Sent)
    <3>1. \/ \E m \in Range(down') : Informing(m, Sent')
          \/ \E j \in DOMAIN sends' : Tells(sends'[j], Sent')
      BY <1>1, <1>3, <2>1
    <3> QED  BY <3>1, NewsOn DEF Subscribed
  <2>2. CASE ~(server = "live" /\ Tells(sends[i], Sent))
    <3>1. server = "live" =>
             \A j \in DOMAIN sends : Tells(sends[j], Sent) => j \in DOMAIN sends' /\ sends'[j] = sends[j]
      BY <1>3, <2>2
    <3> QED  BY <1>1, <3>1, NewsOn DEF Subscribed
  <2> QED  BY <2>1, <2>2
<1>6. \A j \in DOMAIN sends' : sends'[j].at = "broadcast" =>
        Past(sends'[j].status, Accounted') \/ (j \in DOMAIN sends /\ sends'[j] = sends[j])
  BY <1>3
<1> QED  BY <1>4, <1>5, <1>6, ServerQuiet

\* A message is pushed, ...
LEMMA PushQuiet ==
  ASSUME ProtocolInv, QuietInv, [Next]_vars, NEW i \in 1..MaxSeq, Push(i)
  PROVE  QuietInv'
<1> DEFINE x == [at |-> "status"]
           m == EnvelopeMessage(sends[i].seq)
<1>1. /\ w' = w /\ up' = up /\ server' = server /\ snap' = snap /\ entry' = entry
      /\ i \in DOMAIN sends /\ sends[i].at = "push" /\ sends' = [sends EXCEPT ![i] = x]
      /\ x.at = "status" /\ x \in SendStep /\ Broadcast(<<m>>)
  BY DEF Push, At, SendStep
<1>2. Tells(x, Sent)
  BY DEF Tells
<1>3. m \in DownMessage /\ m.type = "envelope"
  <2>1. sends[i] \in SendStep
    BY <1>1 DEF ProtocolInv, SendsInv
  <2>2. sends[i].seq \in Seqs
    BY <1>1, <2>1 DEF SendStep
  <2> QED  BY <2>2 DEF EnvelopeMessage, DownMessage
<1> HIDE DEF x, m
<1>4. <<m>> \in Seq(DownMessage) /\ Range(<<m>>) = {m}
  BY <1>3, RangeSingle
<1>5. Range(down) \subseteq Range(down') /\ Range(down') \subseteq Range(down) \cup {m}
  BY <1>1, <1>4, Broadcasts
<1> QED  BY <1>1, <1>2, <1>3, <1>5, SenderQuiet

\* ... the status is read, ...
LEMMA ReadStatusQuiet ==
  ASSUME ProtocolInv, QuietInv, [Next]_vars, NEW i \in 1..MaxSeq, ReadStatus(i)
  PROVE  QuietInv'
<1> DEFINE x == [at |-> "broadcast", status |-> StatusOf(entry)]
<1>1. /\ w' = w /\ up' = up /\ server' = server /\ snap' = snap /\ entry' = entry /\ down' = down
      /\ i \in DOMAIN sends /\ sends[i].at = "status" /\ sends' = [sends EXCEPT ![i] = x]
      /\ x.at = "broadcast" /\ x.status = StatusOf(entry)
  BY DEF ReadStatus, At
<1>2. entry # Absent
  BY <1>1 DEF ProtocolInv, SendsInv
<1>3. x \in SendStep
  BY <1>2, StatusKnown DEF SendStep, Known
<1>4. Past(x.status, Accounted') /\ StatusOf(entry).issued = Sent /\ Sent \in Nat
  BY <1>1, <1>2, LedgerMoves, Present DEF StatusOf
<1> HIDE DEF x
<1>5. Tells(x, Sent)
  BY <1>1, <1>4 DEF Tells
<1> QED  BY <1>1, <1>3, <1>4, <1>5, SenderQuiet

\* ... and is broadcast.
LEMMA SendStatusQuiet ==
  ASSUME ProtocolInv, QuietInv, [Next]_vars, NEW i \in 1..MaxSeq, SendStatus(i)
  PROVE  QuietInv'
<1> DEFINE x == [at |-> "done"]
           m == StatusMessage(sends[i].status)
<1>1. /\ w' = w /\ up' = up /\ server' = server /\ snap' = snap /\ entry' = entry
      /\ i \in DOMAIN sends /\ sends[i].at = "broadcast" /\ sends' = [sends EXCEPT ![i] = x]
      /\ x.at = "done" /\ x \in SendStep /\ Broadcast(<<m>>)
      /\ m.type = "status" /\ m.status = sends[i].status
  BY DEF SendStatus, At, SendStep, StatusMessage
<1>2. sends[i].status \in Status
  BY <1>1 DEF ProtocolInv, SendsInv, TakenFits, Known
<1>3. m \in DownMessage
  BY <1>2 DEF StatusMessage, DownMessage
<1> HIDE DEF x, m
<1>4. <<m>> \in Seq(DownMessage) /\ Range(<<m>>) = {m}
  BY <1>3, RangeSingle
<1>5. /\ Range(down) \subseteq Range(down') /\ Range(down') \subseteq Range(down) \cup {m}
      /\ Subscribed => m \in Range(down')
  BY <1>1, <1>4, Broadcasts
<1>6. Accounted' = Accounted /\ Past(m.status, Accounted')
  BY <1>1 DEF QuietInv, StatusInv, Accounted
<1>7. server = "live" /\ Tells(sends[i], Sent) => m \in Range(down') /\ Informing(m, Sent)
  BY <1>1, <1>5 DEF Subscribed, Tells, Informing
<1> QED  BY <1>1, <1>5, <1>6, <1>7, SenderQuiet

\* An acknowledgement that the ledger takes is accounted for.
LEMMA AcknowledgeReaches ==
  ASSUME NEW e, Good(e), Owes(e), NEW seq \in Nat, seq <= e.issued
  PROVE  seq <= AcknowledgeEntry(e, seq).acked
<1>1. /\ IsEntry(e) /\ e.acked \in Nat /\ e.issued \in Nat /\ e.acked <= e.issued
      /\ e.skipped \subseteq (e.acked + 1)..e.issued
  BY OwesFields
<1>2. CASE ~(e.acked < seq)
  BY <1>1, <1>2 DEF AcknowledgeEntry
<1>3. CASE e.acked < seq
  <2> DEFINE p == IF seq = e.issued THEN "nil" ELSE e.pending
             m == [e EXCEPT !.acked = seq, !.pending = p]
             n == AdvanceSkipped(m)
             K == {s \in DOMAIN n.metadata : s > n.acked}
             f == [n EXCEPT !.metadata = Restrict(n.metadata, K)]
  <2>1. AcknowledgeEntry(e, seq) = f
    BY <1>3 DEF AcknowledgeEntry
  <2>2. p \in {"nil", "since"}
    BY <1>1 DEF IsEntry
  <2> HIDE DEF p
  <2>3. IsEntry(m)
    BY <1>1, <2>2 DEF IsEntry
  <2>4. m.acked = seq /\ m.issued = e.issued /\ m.skipped = e.skipped /\ m.resolved = {}
    BY <1>1 DEF IsEntry, Owes
  <2> HIDE DEF m
  <2>5. IsEntry(n) /\ m.acked <= n.acked
    <3>1. \A s \in m.skipped \cup m.resolved : s <= m.issued
      BY <1>1, <2>4
    <3> QED  BY <2>3, <2>4, <3>1, AdvanceSkippedSpec
  <2> HIDE DEF n
  <2>6. f.acked = n.acked
    BY <2>5 DEF IsEntry
  <2> QED  BY <2>1, <2>4, <2>5, <2>6
<1> QED  BY <1>2, <1>3

\* An acknowledgement leaves the link, and the ledger is there.
LEMMA HandleAckQuiet ==
  ASSUME ProtocolInv, QuietInv, [Next]_vars, HandleAck
  PROVE  QuietInv'
<1> DEFINE seq == Head(up).seq
           m == StatusMessage(StatusOf(entry'))
<1>1. /\ w' = w /\ sends' = sends /\ server' = server /\ snap' = snap /\ server = "live"
      /\ up # <<>> /\ up' = Tail(up) /\ up \in Seq(UpMessage) /\ entry # Absent
  BY DEF HandleAck, ProtocolInv, DownInv, LinkInv
<1>2. Head(up) \in Range(up) /\ Head(up) \in UpMessage /\ Head(up).type = "ack"
  BY <1>1, RangeTail DEF HandleAck
<1>3. seq \in Nat /\ 1..seq \subseteq Settled
  <2>1. UpFits(Head(up), w, handled, Settled)
    BY <1>2, Present DEF Fit, Agrees
  <2> QED
    BY <1>2, <2>1 DEF UpFits, UpMessage, Seqs
<1>4. Good(entry) /\ Owes(entry) /\ Sent = entry.issued /\ Settled \subseteq 1..Sent /\ Sent \in Nat
  BY <1>1, Present
<1>5. seq <= entry.issued
  <2>1. seq = 0 \/ seq \in 1..seq
    BY <1>3
  <2> QED  BY <1>3, <1>4, <2>1
<1>6. entry' = AcknowledgeEntry(entry, seq)
  BY DEF HandleAck
<1> HIDE DEF seq
<1>7. entry' # Absent /\ entry'.issued = entry.issued /\ seq <= entry'.acked
  <2>1. Good(AcknowledgeEntry(entry, seq)) /\ AcknowledgeEntry(entry, seq).issued = entry.issued
    BY <1>3, <1>4, AcknowledgeOwes
  <2>2. AcknowledgeEntry(entry, seq) # Absent
    BY <2>1, GoodPresent DEF Good
  <2>3. seq <= AcknowledgeEntry(entry, seq).acked
    BY <1>3, <1>4, <1>5, AcknowledgeReaches
  <2> QED  BY <1>6, <2>1, <2>2, <2>3
<1>8. Sent' = Sent /\ seq <= Accounted'
  BY <1>4, <1>7 DEF Sent, Accounted
<1>9. /\ m \in DownMessage /\ Informing(m, Sent') /\ Past(m.status, Accounted') /\ m.type = "status"
      /\ <<m>> \in Seq(DownMessage) /\ Range(<<m>>) = {m}
  BY <1>7, StatusInforms
<1>10. Broadcast(<<m>>)
  BY DEF HandleAck
<1> HIDE DEF m
<1>11. Range(down) \subseteq Range(down') /\ Range(down') \subseteq Range(down) \cup {m}
  BY <1>9, <1>10, Broadcasts
<1>12. \A k \in Range(up) : k.type = "ack" => k \in Range(up') \/ k.seq <= Accounted'
  <2>1. \A k \in Range(up) : k = Head(up) \/ k \in Range(up')
    BY <1>1, HeadOrTail
  <2> QED  BY <1>8, <2>1 DEF seq
<1>13. NumberInv'
  BY <1>1, <1>8, NumberOn
<1>14. NewsInv'
  BY <1>1, <1>8, <1>11, NewsOn DEF Subscribed
<1> QED  BY <1>1, <1>9, <1>11, <1>12, <1>13, <1>14, ServerQuiet

\* A request leaves the link, and its answer enters.
LEMMA HandleResyncQuiet ==
  ASSUME ProtocolInv, QuietInv, [Next]_vars, HandleResync
  PROVE  QuietInv'
<1> DEFINE q == Head(up).request
           valid == q.cutoff <= entry.issued
           added == Unaccounted(entry, q.missing)
           a == StatusMessage(StatusOf(entry'))
           b == [type |-> "reply", ref |-> Head(up).ref, ok |-> valid,
                 status |-> StatusOf(entry'), skipped |-> q.missing]
           msgs == (IF valid THEN <<a>> ELSE <<>>) \o <<b>>
<1>1. /\ w' = w /\ sends' = sends /\ server' = server /\ snap' = snap /\ server = "live"
      /\ up # <<>> /\ up' = Tail(up) /\ up \in Seq(UpMessage) /\ entry # Absent
  BY DEF HandleResync, ProtocolInv, DownInv, LinkInv
<1>2. Head(up) \in Range(up) /\ Head(up) \in UpMessage /\ Head(up).type = "resync"
  BY <1>1, RangeTail DEF HandleResync
<1>3. Good(entry) /\ Owes(entry) /\ Sent = entry.issued /\ entry.issued \in Nat
  BY <1>1, Present, OwesFields
<1>4. Head(up).ref \in Nat /\ GivenUp(q, w.inbox, handled)
  <2>1. UpFits(Head(up), w, handled, Settled)
    BY <1>2, Present DEF Fit, Agrees
  <2> QED  BY <1>2, <2>1 DEF UpFits, UpMessage
<1>5. q.missing \in SUBSET Seqs /\ q.missing \subseteq 1..q.cutoff /\ q.cutoff \in Nat
  BY <1>4 DEF GivenUp, Request
<1>6. entry' # Absent /\ entry'.issued = entry.issued
  <2>1. CASE valid
    <3>1. entry' = RetireEntry(entry, added)
      BY <2>1 DEF HandleResync
    <3>2. q.missing \subseteq 1..entry.issued
      <4>1. 1..q.cutoff \subseteq 1..entry.issued
        BY <1>3, <1>5, <2>1
      <4> QED  BY <1>5, <4>1
    <3>3. Good(RetireEntry(entry, added)) /\ RetireEntry(entry, added).issued = entry.issued
      BY <1>3, <3>2, RetireOwes
    <3>4. RetireEntry(entry, added) # Absent
      BY <3>3, GoodPresent DEF Good
    <3> QED  BY <3>1, <3>3, <3>4
  <2>2. CASE ~valid
    BY <1>1, <2>2 DEF HandleResync
  <2> QED  BY <2>1, <2>2
<1>7. Sent' = Sent
  BY <1>3, <1>6 DEF Sent
<1>8. /\ a \in DownMessage /\ Past(a.status, Accounted') /\ a.status = StatusOf(entry')
  BY <1>6, StatusInforms DEF StatusMessage
<1>9. b \in DownMessage /\ b.status = StatusOf(entry')
  <2>1. StatusOf(entry') \in Status
    <3>1. entry'.acked \in Nat /\ entry'.issued \in Nat
      BY <1>6, EntryFields, LedgerMoves DEF ProtocolInv, TypeOK
    <3> QED  BY <3>1 DEF StatusOf, Status
  <2> QED  BY <1>4, <1>5, <2>1 DEF DownMessage
<1>10. Broadcast(msgs)
  BY DEF HandleResync
<1> HIDE DEF a, b, valid
<1>11. msgs \in Seq(DownMessage) /\ Range(msgs) \subseteq {a, b}
  <2>1. CASE valid
    <3>1. msgs = <<a>> \o <<b>>
      BY <2>1
    <3> HIDE DEF msgs
    <3> QED  BY <1>8, <1>9, <3>1, RangePair
  <2>2. CASE ~valid
    <3>1. msgs = <<b>>
      BY <2>2
    <3> HIDE DEF msgs
    <3> QED  BY <1>9, <3>1, RangeSingle
  <2> QED  BY <2>1, <2>2
<1> HIDE DEF msgs
<1>12. Range(down) \subseteq Range(down') /\ Range(down') \subseteq Range(down) \cup {a, b}
  BY <1>10, <1>11, Broadcasts
<1>13. \A k \in Range(up) : k.type = "ack" => k \in Range(up')
  <2>1. \A k \in Range(up) : k = Head(up) \/ k \in Range(up')
    BY <1>1, HeadOrTail
  <2> QED  BY <1>2, <2>1
<1>14. NumberInv'
  BY <1>1, <1>7, NumberOn
<1>15. NewsInv'
  BY <1>1, <1>7, <1>12, NewsOn DEF Subscribed
<1> QED  BY <1>1, <1>8, <1>9, <1>12, <1>13, <1>14, <1>15, ServerQuiet

\* The wrapper's timer fires, ...
LEMMA TimerQuiet ==
  ASSUME ProtocolInv, QuietInv, [Next]_vars, TimerFires
  PROVE  QuietInv'
<1> DEFINE q == TimerCallback(w)
<1>1. w \in Wrapper /\ Settles(w, Range(up), Accounted) /\ w.live = w.connected
  BY Present DEF QuietInv, NewsInv
<1>2. Asks(w, q) /\ Awake(q)
  BY <1>1, TimerAsks DEF TimerFires, Settles
<1>3. /\ Run(q) /\ entry' = entry /\ server' = server /\ snap' = snap /\ sends' = sends /\ down' = down
  BY DEF TimerFires
<1> HIDE DEF q
<1>4. Settles(q, Range(up), Accounted) /\ q \in Wrapper
  BY <1>1, <1>2, AsksSettles DEF Settles, Asks
<1>5. w.issued <= q.issued /\ q.live = q.connected /\ (w.connected => q.connected)
  BY <1>1, <1>2, WrapperFields DEF Asks, SameCounts
<1> QED  BY <1>3, <1>4, <1>5, WrapperQuiet

\* ... a request ends without its answer, ...
LEMMA RequestEndsQuiet ==
  ASSUME ProtocolInv, QuietInv, [Next]_vars, ReplyTimeout \/ SlowReply
  PROVE  QuietInv'
<1> DEFINE q == Finish[w]
<1>1. w \in Wrapper /\ Settles(w, Range(up), Accounted) /\ w.live = w.connected
  BY Present DEF QuietInv, NewsInv
<1>2. Asks(w, q) /\ Awake(q)
  BY <1>1, FinishAsks
<1>3. /\ Run(q) /\ entry' = entry /\ server' = server /\ snap' = snap /\ sends' = sends /\ down' = down
  BY DEF ReplyTimeout, SlowReply
<1> HIDE DEF q
<1>4. Settles(q, Range(up), Accounted) /\ q \in Wrapper
  BY <1>1, <1>2, AsksSettles DEF Settles, Asks
<1>5. w.issued <= q.issued /\ q.live = q.connected /\ (w.connected => q.connected)
  BY <1>1, <1>2, WrapperFields DEF Asks, SameCounts
<1> QED  BY <1>3, <1>4, <1>5, WrapperQuiet

\* ... the host gives up its queue, ...
LEMMA InterruptQuiet ==
  ASSUME ProtocolInv, QuietInv, [Next]_vars, Interrupt
  PROVE  QuietInv'
<1> DEFINE q == Retire([w EXCEPT !.inbox = {}], w.inbox)
<1>1. w \in Wrapper /\ Settles(w, Range(up), Accounted) /\ w.live = w.connected
  BY Present DEF QuietInv, NewsInv
<1>2. /\ q \in Wrapper /\ Settles(q, Range(up), Accounted)
      /\ q.live = w.live /\ q.connected = w.connected /\ q.issued = w.issued
  BY <1>1, RetireSettles
<1>3. /\ Run(q) /\ entry' = entry /\ server' = server /\ snap' = snap /\ sends' = sends /\ down' = down
  BY DEF Interrupt
<1> HIDE DEF q
<1>4. w.issued <= q.issued /\ q.live = q.connected /\ (w.connected => q.connected)
  BY <1>1, <1>2, WrapperFields
<1> QED  BY <1>2, <1>3, <1>4, WrapperQuiet

\* ... or starts a turn with a message.
LEMMA DispatchQuiet ==
  ASSUME ProtocolInv, QuietInv, [Next]_vars, MaxSeq <= CompletionLimit,
         NEW seq \in 1..MaxSeq, Dispatch(seq)
  PROVE  QuietInv'
<1> DEFINE q == AcknowledgeEnvelope([w EXCEPT !.inbox = @ \ {seq}], seq)
<1>1. w \in Wrapper /\ Settles(w, Range(up), Accounted) /\ w.live = w.connected
  BY Present DEF QuietInv, NewsInv
<1>2. seq <= w.issued
  <2>1. seq \in w.received
    BY Present DEF Fit, Agrees, Dispatch
  <2>2. w.received \subseteq 1..w.issued
    BY <1>1 DEF Settles, Counted
  <2> QED  BY <2>1, <2>2
<1>3. Range(up) \subseteq UpMessage /\ Within(w, MaxSeq) /\ Accounted \in Nat
  <2>1. Range(up) \subseteq UpMessage
    BY DEF ProtocolInv, DownInv, Range
  <2> QED  BY <2>1, SentBounded, LedgerMoves DEF QuietInv
<1>4. /\ q \in Wrapper /\ Settles(q, Range(up), Accounted)
      /\ q.live = w.live /\ q.connected = w.connected /\ q.issued = w.issued
  BY <1>1, <1>2, <1>3, DispatchSettles
<1>5. /\ Run(q) /\ entry' = entry /\ server' = server /\ snap' = snap /\ sends' = sends /\ down' = down
  BY DEF Dispatch
<1> HIDE DEF q
<1>6. w.issued <= q.issued /\ q.live = q.connected /\ (w.connected => q.connected)
  BY <1>1, <1>4, WrapperFields
<1> QED  BY <1>4, <1>5, <1>6, WrapperQuiet

\* The wrapper reads a message, and knows what it says.
LEMMA DeliverQuiet ==
  ASSUME ProtocolInv, QuietInv, [Next]_vars, MaxSeq <= CompletionLimit, Deliver
  PROVE  QuietInv'
<1> DEFINE m == Head(down)
           q == OnMessage(w, m)
<1>1. /\ w \in Wrapper /\ Settles(w, Range(up), Accounted) /\ w.live = w.connected
      /\ Range(up) \subseteq UpMessage /\ Within(w, MaxSeq) /\ Accounted \in 0..MaxSeq
  <2>1. Range(up) \subseteq UpMessage
    BY DEF ProtocolInv, DownInv, Range
  <2> QED  BY <2>1, SentBounded, Present DEF QuietInv, NewsInv
<1>2. /\ down \in Seq(DownMessage) /\ down # <<>>
      /\ Run(q) /\ entry' = entry /\ server' = server /\ snap' = snap /\ sends' = sends /\ down' = Tail(down)
  BY DEF Deliver, ProtocolInv, DownInv
<1>3. m \in Range(down) /\ m \in DownMessage /\ DownFits(m, Settled, Sent) /\ Range(Tail(down)) \subseteq Range(down)
  BY <1>2, RangeTail DEF ProtocolInv, DownInv
<1>4. m.type # "envelope" => m.status \in Status /\ Past(m.status, Accounted)
  BY <1>3 DEF QuietInv, StatusInv, DownFits, Known
<1> HIDE DEF m
<1>5. /\ q \in Wrapper /\ Settles(q, Range(up), Accounted) /\ w.issued <= q.issued /\ q.live = q.connected
      /\ w.connected => q.connected
      /\ m.type = "join" => q.connected
      /\ m.type \in {"join", "status"} => m.status.issued <= q.issued
  <2>1. CASE m.type = "join"
    <3>1. q = OnJoinReply(w, m.status)
      BY <2>1 DEF OnMessage
    <3> HIDE DEF q
    <3>2. /\ q \in Wrapper /\ Settles(q, Range(up), Accounted) /\ q.live = TRUE /\ q.connected = TRUE
          /\ w.issued <= q.issued /\ m.status.issued <= q.issued
      BY <1>1, <1>4, <2>1, <3>1, OnJoinSettles DEF Past
    <3> QED  BY <3>2
  <2>2. CASE m.type = "status"
    <3>1. q = OnStatus(w, m.status)
      BY <2>2 DEF OnMessage
    <3> HIDE DEF q
    <3>2. Settles(q, Range(up), Accounted) /\ Later(w, q) /\ m.status.issued <= q.issued
      BY <1>1, <1>4, <2>2, <3>1, OnStatusSettles DEF Past
    <3> QED  BY <1>1, <2>2, <3>2 DEF Later
  <2>3. CASE m.type = "envelope"
    <3>1. q = Receive(w, m.seq) /\ m.seq \in Seqs
      BY <1>3, <2>3 DEF OnMessage, DownMessage
    <3> HIDE DEF q
    <3>2. /\ q \in Wrapper /\ Settles(q, Range(up), Accounted)
          /\ q.live = w.live /\ q.connected = w.connected /\ w.issued <= q.issued
      BY <1>1, <3>1, ReceiveSettles
    <3> QED  BY <1>1, <2>3, <3>2
  <2>4. CASE m.type = "reply"
    <3>1. q = OnReply(w, m)
      BY <2>4 DEF OnMessage
    <3> HIDE DEF q
    <3>2. m.ok => m.skipped \subseteq 1..MaxSeq
      BY <1>3, <2>4, SentBounded DEF DownFits, QuietInv
    <3>3. w.inFlight /\ m.ref = w.ref => m.skipped \subseteq 1..w.issued
      <4>1. ReplyFits(m, w) /\ Open(w)
        BY <1>3, <2>4, Present DEF Fit, Agrees, RepliesIn
      <4>2. w.inFlight /\ m.ref = w.ref => w.pending # None /\ m.skipped = w.pending.missing
        BY <4>1 DEF ReplyFits, Open
      <4> QED  BY <1>1, <4>2 DEF Settles, Bounded
    <3>4. /\ q \in Wrapper /\ Settles(q, Range(up), Accounted)
          /\ q.live = w.live /\ q.connected = w.connected /\ w.issued <= q.issued
      BY <1>1, <1>4, <2>4, <3>1, <3>2, <3>3, OnReplySettles DEF Past
    <3> QED  BY <1>1, <2>4, <3>4
  <2> QED  BY <1>3, <2>1, <2>2, <2>3, <2>4 DEF DownMessage
<1> HIDE DEF q
<1>6. \A k \in Range(down) : k = m \/ k \in Range(down')
  BY <1>2, HeadOrTail DEF m
<1>7. Informing(m, Sent) => Sent <= q.issued
  <2>1. Sent \in Nat /\ q.issued \in Nat
    BY <1>5, Present, WrapperFields
  <2> QED  BY <1>4, <1>5, <2>1 DEF Informing, Status
<1>8. \A k \in Range(down) :
        \/ k \in Range(down')
        \/ (k.type = "join" => q.connected) /\ (Informing(k, Sent) => Sent <= q.issued)
  BY <1>5, <1>6, <1>7
<1> QED  BY <1>2, <1>3, <1>5, <1>8, WrapperQuiet

\* The link is gone, with the connection or with the process.
LEMMA LinkGone ==
  ASSUME ProtocolInv, QuietInv, [Next]_vars, Sent' = Sent, sends' = sends,
         server' = "off", down' = <<>>, Settles(w', Range(up'), Accounted'), w'.live = w'.connected
  PROVE  QuietInv'
<1>1. Range(down') = {}
  BY DEF Range
<1>2. StatusInv'
  <2>1. Accounted \in Nat /\ Accounted' \in Nat /\ Accounted <= Accounted'
    BY LedgerMoves
  <2>2. \A i \in DOMAIN sends : sends[i].at = "broadcast" => sends[i].status \in Status
    BY DEF ProtocolInv, SendsInv, TakenFits, Known
  <2>3. \A i \in DOMAIN sends : sends[i].at = "broadcast" => Past(sends[i].status, Accounted')
    BY <2>1, <2>2 DEF QuietInv, StatusInv, Past, Status
  <2> QED  BY <1>1, <2>3 DEF StatusInv
<1>3. NumberInv'
  BY NumberOn
<1>4. NewsInv'
  BY DEF NewsInv, Subscribed
<1> QED  BY <1>2, <1>3, <1>4 DEF QuietInv

\* The connection breaks, ...
LEMMA BreakQuiet ==
  ASSUME ProtocolInv, QuietInv, [Next]_vars, Break
  PROVE  QuietInv'
<1>1. /\ w' = Disconnected(w) /\ server' = "off" /\ down' = <<>> /\ sends' = sends /\ entry' = entry
  BY DEF Break
<1>2. Sent' = Sent /\ Accounted' = Accounted
  BY <1>1 DEF Sent, Accounted
<1>3. w \in Wrapper /\ Settles(w, Range(up), Accounted)
  BY Present DEF QuietInv
<1>4. Settles(w', Range(up'), Accounted')
  BY <1>1, <1>2, <1>3, DisconnectedSettles
<1>5. w'.live = w'.connected
  BY <1>1, <1>3 DEF Disconnected, Wrapper
<1> QED  BY <1>1, <1>2, <1>4, <1>5, LinkGone

\* ... or the process is replaced.
LEMMA DieQuiet ==
  ASSUME ProtocolInv, QuietInv, [Next]_vars, NEW orderly \in BOOLEAN, Die(orderly)
  PROVE  QuietInv'
<1>1. /\ w' = NewWrapper(w.gen + 1) /\ server' = "off" /\ down' = <<>> /\ sends' = sends
  BY DEF Die
<1>2. Sent' = Sent
  BY DieInv DEF Fate!Abandon, Fate!fateVars
<1>3. Settles(w', Range(up'), Accounted')
  BY <1>1, NewSettles
<1>4. w'.live = w'.connected
  BY <1>1 DEF NewWrapper
<1> QED  BY <1>1, <1>2, <1>3, <1>4, LinkGone

\* Nothing has been sent yet.
LEMMA InitiallyQuiet == Init => QuietInv
<1> SUFFICES ASSUME Init PROVE QuietInv
  OBVIOUS
<1>1. /\ w = NewWrapper(0) /\ server = "off" /\ down = <<>> /\ sends = <<>> /\ Sent = 0
  BY DEF Init, Sent
<1>2. Range(down) = {} /\ DOMAIN sends = {} /\ Len(sends) = 0
  BY <1>1 DEF Range
<1>3. Settles(w, Range(up), Accounted)
  BY <1>1, NewSettles
<1>4. NumberInv
  <2>1. Numbered = {}
    BY <1>2 DEF Numbered
  <2> QED  BY <1>1, <1>2, <2>1, FS_EmptySet, ProtocolAssumption DEF NumberInv
<1>5. StatusInv /\ NewsInv
  BY <1>1, <1>2 DEF StatusInv, NewsInv, Subscribed, NewWrapper
<1> QED  BY <1>3, <1>4, <1>5 DEF QuietInv

\* Every step keeps the invariant.
LEMMA StepQuiet ==
  ASSUME ProtocolInv, QuietInv, MaxSeq <= CompletionLimit, [Next]_vars
  PROVE  QuietInv'
<1>1. CASE JoinBind \/ Subscribe \/ AfterJoin
  BY <1>1, JoinBindQuiet, SubscribeQuiet, AfterJoinQuiet
<1>2. CASE Preflight
  BY <1>2, PreflightQuiet
<1>3. ASSUME NEW i \in 1..MaxSeq, Issue(i) \/ Push(i) \/ ReadStatus(i) \/ SendStatus(i)
      PROVE  QuietInv'
  BY <1>3, IssueQuiet, PushQuiet, ReadStatusQuiet, SendStatusQuiet
<1>4. CASE HandleAck \/ HandleResync
  BY <1>4, HandleAckQuiet, HandleResyncQuiet
<1>5. CASE Deliver
  BY <1>5, DeliverQuiet
<1>6. CASE TimerFires
  BY <1>6, TimerQuiet
<1>7. CASE ReplyTimeout \/ SlowReply
  BY <1>7, RequestEndsQuiet
<1>8. ASSUME NEW seq \in 1..MaxSeq, Dispatch(seq)
      PROVE  QuietInv'
  BY <1>8, DispatchQuiet
<1>9. CASE Interrupt
  BY <1>9, InterruptQuiet
<1>10. CASE Break
  BY <1>10, BreakQuiet
<1>11. ASSUME NEW orderly \in BOOLEAN, Die(orderly)
       PROVE  QuietInv'
  BY <1>11, DieQuiet
<1>12. CASE UNCHANGED vars
  BY <1>12 DEF vars, QuietInv, StatusInv, NumberInv, NewsInv, Numbered, Sent, Accounted, Subscribed
<1> QED
  BY <1>1, <1>2, <1>3, <1>4, <1>5, <1>6, <1>7, <1>8, <1>9, <1>10, <1>11, <1>12 DEF Next

\* A connected wrapper that waits for nothing and knows of every number has completed
\* each of them, and what it has acknowledged has reached the ledger.
LEMMA QuietAccounts ==
  ASSUME ProtocolInv, QuietInv, Quiet
  PROVE  Accounted = Sent
<1>1. /\ w \in Wrapper /\ Settles(w, Range(up), Accounted) /\ w.out = <<>>
      /\ Sent \in Nat /\ Accounted \in Nat /\ Accounted <= Sent
  <2>1. w \in Wrapper /\ w.out = <<>>
    BY Present
  <2>2. Sent \in Nat /\ Accounted \in Nat /\ Accounted <= Sent
    <3>1. entry = Absent => Sent = 0 /\ Accounted = 0
      BY Present
    <3>2. entry # Absent => /\ Sent = entry.issued /\ Accounted = entry.acked
                            /\ entry.acked \in Nat /\ entry.issued \in Nat /\ entry.acked <= entry.issued
      BY Present, OwesFields
    <3> QED  BY <3>1, <3>2
  <2> QED  BY <2>1, <2>2 DEF QuietInv
<1>2. Range(down) = {} /\ Range(up) = {} /\ Range(w.out) = {}
  BY <1>1 DEF Quiet, Range
<1>3. w.connected /\ w.live /\ w.supported /\ Sent <= w.issued
  BY <1>2, Present DEF QuietInv, NewsInv, Quiet, Subscribed, Tells
<1>4. Idle(w)
  BY <1>1, <1>3 DEF Settles, Awake, Quiet
<1>5. w.retiring = {} /\ (w.resolved + 1)..w.issued \subseteq w.received
  BY <1>1, <1>4, IdleReceived
<1>6. w.acked \in Nat /\ w.issued \in Nat /\ w.resolved \in Nat
  BY <1>1, WrapperFields
<1>7. w.acked = w.issued
  <2> SUFFICES ASSUME w.acked # w.issued PROVE FALSE
    OBVIOUS
  <2>1. w.acked <= w.issued /\ w.resolved <= w.acked /\ w.acked + 1 \notin w.completed
    BY <1>1 DEF Settles, Counted
  <2>2. w.acked + 1 \in (w.resolved + 1)..w.issued /\ w.acked + 1 > w.resolved /\ w.acked + 1 \notin 1..w.acked
    BY <1>6, <2>1
  <2>3. w.acked + 1 \in Completed(w)
    BY <1>1, <1>5, <2>2 DEF Settles, Placed, Quiet
  <2> QED  BY <2>1, <2>2, <2>3 DEF Completed
<1>8. w.acked <= Accounted
  BY <1>1, <1>2, <1>3 DEF Settles, Delivers, Carries
<1> QED  BY <1>1, <1>3, <1>6, <1>7, <1>8

-----------------------------------------------------------------------------
(* Theorems.                                                               *)

\* The shape of the variables, and that each handler of the wrapper leaves
\* nothing unsent.
THEOREM Typed == Spec => []TypeOK
<1>1. Init => ProtocolInv
  BY Initially
<1>2. ProtocolInv /\ [Next]_vars => ProtocolInv'
  BY StepInv
<1>3. ProtocolInv => TypeOK
  BY DEF ProtocolInv
<1> QED
  BY <1>1, <1>2, <1>3, PTL DEF Spec

\* The protocol implements MessageFate, for any number of messages, failures
\* and restarts and any limits of the wrapper: no message is dispatched
\* twice, none after it was reported lost, and the ledger's prefix covers
\* only messages that were dispatched or reported.
THEOREM Implements == Spec => ImplementsFate
<1>1. Init => ProtocolInv /\ Fate!Init
  BY Initially
<1>2. ProtocolInv /\ [Next]_vars => ProtocolInv' /\ [Fate!Next]_(Fate!fateVars)
  BY StepInv
<1> QED
  BY <1>1, <1>2, PTL DEF Spec, ImplementsFate, Fate!Safe

\* No message is stuck: whatever is lost, overtaken, given up or interrupted, a
\* protocol in which nothing is on the way or due has accounted for every message.
THEOREM Unstuck == Spec => []NothingStuck
<1> DEFINE Inv == ProtocolInv /\ (MaxSeq <= CompletionLimit => QuietInv)
<1>1. Init => Inv
  BY Initially, InitiallyQuiet
<1>2. Inv /\ [Next]_vars => Inv'
  BY StepInv, StepQuiet
<1>3. Inv => NothingStuck
  BY QuietAccounts DEF NothingStuck
<1> QED  BY <1>1, <1>2, <1>3, PTL DEF Spec
=============================================================================
