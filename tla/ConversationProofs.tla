--------------------------- MODULE ConversationProofs ---------------------------
(* What is proved of one conversation: its types, that an end a wrapper       *)
(* believes is real (EndIsReal), that a learned end is not undone (EndIsKept),   *)
(* that a dropped message is reported (DropReported) and that an open            *)
(* conversation does not wedge (SomeoneCanSpeak), each but for the events its    *)
(* comment excepts, after which the code breaks it. For the end, the invariant is *)
(* ConvInv: the envelopes a send waits for agree with it (WireInv, AskedInv),    *)
(* all is untouched until the opening send is answered (OpeningInv), a blank     *)
(* track stays blank or the send is told (BlankInv), and while the conversation  *)
(* is open every done that anyone holds for confirmed is in the server's entry   *)
(* (OpenInv). For the counters it is TurnInv: the tracks and the server's entry  *)
(* differ only by what is on its way.                                            *)
EXTENDS Conversation, FiniteSetTheorems, SequenceTheorems, TLAPS

-----------------------------------------------------------------------------
(* The inductive invariant.                                                *)

\* What a wrapper's send and the envelopes it waits for have in common.
WireInv ==
    \A a \in Agents :
      /\ sending[a] # None => sending[a].turn > 0 /\ a \in knows
                              /\ (sending[a].flipped => sending[a].done)
                              /\ (sending[a].new => a = Starter)
      /\ \A i \in DOMAIN up[a] :
           /\ up[a][i].kind \in NoticeKinds => ~up[a][i].done /\ ~up[a][i].new /\ ~up[a][i].asked
           /\ up[a][i].asked =>
                /\ sending[a] # None /\ sending[a].outcome = "none"
                /\ up[a][i].turn = sending[a].turn /\ up[a][i].done = sending[a].done
                /\ up[a][i].new = sending[a].new
                /\ \A j \in DOMAIN up[a] : up[a][j].asked => j = i

\* A track on which nothing but the send under way has happened.
BlankInv ==
    \A a \in Agents : sending[a] # None /\ sending[a].blank /\ ~sending[a].raced =>
        ~track[a].closed /\ ~track[a].remoteDone

Sure == "unknown" \notin doubt

\* Only an envelope whose answer was given up is not asked for.
AskedInv ==
    Sure => \A a \in Agents : \A i \in DOMAIN up[a] : up[a][i].kind = "ordinary" => up[a][i].asked

\* The send that opens the conversation is still to come or to be recorded.
Opening ==
    \/ Starter \notin knows
    \/ sending[Starter] # None /\ sending[Starter].new /\ sending[Starter].outcome = "none"

\* Nobody but the opener has done anything, and nothing has been heard.
Untouched ==
    /\ conv.status = "none" /\ silenced = {}
    /\ \A a \in Agents :
         /\ ~track[a].closed /\ ~track[a].remoteDone /\ (track[a].localDone => Gated(a))
         /\ down[a] = <<>> /\ ~closing[a] /\ ~handed[a].wake
         /\ a # Starter => a \notin knows

OpeningInv == Sure /\ Opening => Untouched

\* While the conversation is open, whatever a wrapper holds for true of the end is true.
Agrees(a) ==
    /\ track[a].closed => Gated(a) /\ track[a].remoteDone
    /\ track[a].localDone /\ ~Gated(a) => a \in conv.doneBy
    /\ track[a].remoteDone => Peer(a) \in conv.doneBy
    /\ \A i \in DOMAIN down[a] : /\ down[a][i].kind # "end"
                                 /\ down[a][i].done => Peer(a) \in conv.doneBy
    /\ ~closing[a]
    /\ sending[a] # None =>
         /\ sending[a].outcome # "conversation_closed"
         /\ sending[a].outcome = "accepted" /\ sending[a].done => a \in conv.doneBy

EndsAgree == conv.doneBy # Agents /\ silenced = {} /\ \A a \in Agents : Agrees(a)

OpenInv == Sure /\ conv.status = "open" => EndsAgree

ConvInv == WireInv /\ BlankInv /\ AskedInv /\ OpeningInv /\ OpenInv

-----------------------------------------------------------------------------
(* Agents and queues.                                                      *)

\* There are two participants, each the other's peer.
LEMMA Peers ==
  ASSUME NEW a \in Agents
  PROVE  /\ Peer(a) \in Agents /\ Peer(a) # a /\ Peer(Peer(a)) = a
         /\ \A b \in Agents : b = a \/ b = Peer(a)
<1>1. ASSUME NEW x \in Agents PROVE Agents \ {x} # {} /\ Cardinality(Agents \ {x}) = 1
  <2>1. Cardinality(Agents \ {x}) = 1
    BY AgentsAssumption, FS_RemoveElement
  <2> QED  BY <2>1, FS_EmptySet
<1>2. ASSUME NEW x \in Agents PROVE Peer(x) \in Agents /\ Peer(x) # x
  BY <1>1 DEF Peer
<1>3. ASSUME NEW b \in Agents, b # a PROVE b = Peer(a)
  <2>1. IsFiniteSet(Agents \ {a})
    BY AgentsAssumption, FS_RemoveElement
  <2>2. \E x : Agents \ {a} = {x}
    BY <1>1, <2>1, FS_Singleton
  <2> QED  BY <1>2, <1>3, <2>2
<1> QED  BY <1>2, <1>3

\* The members of a longer queue.
LEMMA AppendElems ==
  ASSUME NEW S, NEW s \in Seq(S), NEW x \in S
  PROVE  /\ Append(s, x) \in Seq(S)
         /\ \A i \in DOMAIN Append(s, x) : \/ i \in DOMAIN s /\ Append(s, x)[i] = s[i]
                                           \/ i = Len(s) + 1 /\ Append(s, x)[i] = x
         /\ \A i \in DOMAIN s : i # Len(s) + 1
  BY AppendProperties

\* The members of a queue whose head is taken.
LEMMA TailElems ==
  ASSUME NEW S, NEW s \in Seq(S), s # <<>>
  PROVE  /\ Tail(s) \in Seq(S) /\ Head(s) \in S /\ 1 \in DOMAIN s /\ s[1] = Head(s)
         /\ \A i \in DOMAIN Tail(s) : i + 1 \in DOMAIN s /\ i + 1 # 1 /\ Tail(s)[i] = s[i + 1]
<1>1. Len(s) \in Nat /\ Len(s) >= 1 /\ DOMAIN s = 1..Len(s)
  BY EmptySeq, LenProperties
<1>2. /\ Tail(s) \in Seq(S) /\ Head(s) \in S /\ Head(s) = s[1]
      /\ Len(Tail(s)) = Len(s) - 1 /\ \A i \in 1..Len(Tail(s)) : Tail(s)[i] = s[i + 1]
  BY HeadTailProperties, ElementOfSeq, <1>1
<1>3. DOMAIN Tail(s) = 1..Len(Tail(s))
  BY <1>2, LenProperties
<1> QED  BY <1>1, <1>2, <1>3

\* The members of two queues put together.
LEMMA ConcatElems ==
  ASSUME NEW S, NEW s \in Seq(S), NEW t \in Seq(S)
  PROVE  /\ s \o t \in Seq(S)
         /\ \A i \in DOMAIN (s \o t) : \/ i \in DOMAIN s /\ (s \o t)[i] = s[i]
                                       \/ \E j \in DOMAIN t : (s \o t)[i] = t[j]
<1>1. /\ Len(s) \in Nat /\ DOMAIN s = 1..Len(s) /\ Len(t) \in Nat /\ DOMAIN t = 1..Len(t)
  BY LenProperties
<1>2. /\ s \o t \in Seq(S) /\ Len(s \o t) = Len(s) + Len(t)
      /\ \A i \in 1..Len(s) + Len(t) : (s \o t)[i] = IF i <= Len(s) THEN s[i] ELSE t[i - Len(s)]
  BY ConcatProperties
<1>3. DOMAIN (s \o t) = 1..Len(s) + Len(t)
  BY <1>2, LenProperties
<1> QED  BY <1>1, <1>2, <1>3

\* The members of a queue whose head is taken are the others, in their places.
LEMMA TailKeeps ==
  ASSUME NEW S, NEW s \in Seq(S), s # <<>>
  PROVE  /\ \A j \in DOMAIN Tail(s) : \E i \in DOMAIN s : Tail(s)[j] = s[i]
         /\ \A i \in DOMAIN s : i = 1 \/ \E j \in DOMAIN Tail(s) : Tail(s)[j] = s[i]
<1>1. Len(s) \in Nat /\ Len(s) >= 1 /\ DOMAIN s = 1..Len(s)
  BY EmptySeq, LenProperties
<1>2. /\ Tail(s) \in Seq(S) /\ Len(Tail(s)) = Len(s) - 1
      /\ \A i \in 1..Len(Tail(s)) : Tail(s)[i] = s[i + 1]
  BY HeadTailProperties
<1>3. DOMAIN Tail(s) = 1..(Len(s) - 1)
  BY <1>2, LenProperties
<1>4. ASSUME NEW i \in DOMAIN s, i # 1 PROVE \E j \in DOMAIN Tail(s) : Tail(s)[j] = s[i]
  <2>1. i - 1 \in DOMAIN Tail(s) /\ (i - 1) + 1 = i
    BY <1>1, <1>3, <1>4
  <2> QED  BY <1>2, <1>3, <2>1
<1>5. ASSUME NEW j \in DOMAIN Tail(s) PROVE \E i \in DOMAIN s : Tail(s)[j] = s[i]
  <2>1. j + 1 \in DOMAIN s
    BY <1>1, <1>3
  <2> QED  BY <1>2, <1>3, <2>1
<1> QED  BY <1>4, <1>5

\* Sequence q has the elements of s, and x.
OneMore(s, x, q) ==
    /\ \A i \in DOMAIN s : \E j \in DOMAIN q : q[j] = s[i]
    /\ \A j \in DOMAIN q : (\E i \in DOMAIN s : q[j] = s[i]) \/ q[j] = x
    /\ \E j \in DOMAIN q : q[j] = x

\* A longer queue keeps its members.
LEMMA AppendKeeps ==
  ASSUME NEW S, NEW s \in Seq(S), NEW x \in S, NEW q, q = Append(s, x)
  PROVE  OneMore(s, x, q)
<1> USE DEF OneMore
<1>1. Len(s) \in Nat /\ DOMAIN s = 1..Len(s)
  BY LenProperties
<1>2. /\ q \in Seq(S) /\ Len(q) = Len(s) + 1 /\ q[Len(s) + 1] = x
      /\ \A i \in 1..Len(s) : q[i] = s[i]
  BY AppendProperties
<1>3. DOMAIN q = 1..(Len(s) + 1)
  BY <1>2, LenProperties
<1>4. ASSUME NEW j \in DOMAIN q PROVE (\E i \in DOMAIN s : q[j] = s[i]) \/ q[j] = x
  <2>1. j \in 1..Len(s) \/ j = Len(s) + 1
    BY <1>1, <1>3
  <2> QED  BY <1>1, <1>2, <2>1
<1>5. Len(s) + 1 \in DOMAIN q /\ \A i \in DOMAIN s : i \in DOMAIN q
  BY <1>1, <1>3
<1> QED  BY <1>1, <1>2, <1>4, <1>5

-----------------------------------------------------------------------------
(* Types.                                                                  *)

Track == [turn : Nat, localDone : BOOLEAN, remoteDone : BOOLEAN, closed : BOOLEAN]
Entry == [status : {"none", "open", "closed"}, turns : Nat, max : Nat,
          ordinary : [Agents -> Nat], doneBy : SUBSET Agents]

\* The initial state.
LEMMA InitTyped == Init => TypeOK /\ ConvInv
<1> SUFFICES ASSUME Init PROVE TypeOK /\ ConvInv
  OBVIOUS
<1>1. FreshTrack \in Track /\ NoConversation \in Entry
  BY DEF FreshTrack, NoConversation, Track, Entry
<1>2. <<>> \in Seq(Envelope) /\ <<>> \in Seq(Inbound) /\ DOMAIN <<>> = {}
  BY EmptySeq
<1>3. TypeOK
  BY <1>1, <1>2 DEF Init, TypeOK, Track, Entry
<1>4. \A a \in Agents : sending[a] = None /\ up[a] = <<>> /\ down[a] = <<>> /\ track[a] = FreshTrack
  BY DEF Init
<1>5. WireInv /\ BlankInv /\ AskedInv
  BY <1>2, <1>4 DEF WireInv, BlankInv, AskedInv
<1>6. conv.status = "none" /\ silenced = {}
  BY DEF Init, NoConversation
<1>7. OpenInv
  BY <1>6 DEF OpenInv
<1>8. OpeningInv
  BY <1>4, <1>6 DEF Init, OpeningInv, Untouched, FreshTrack
<1> QED  BY <1>3, <1>5, <1>7, <1>8 DEF ConvInv

\* The answer to an envelope that is asked for.
LEMMA AnsweredTyped ==
  ASSUME TypeOK, WireInv, NEW a \in Agents, up[a] # <<>>, NEW o \in Outcomes,
         sending' = Answered(a, Head(up[a]), o)
  PROVE  /\ sending' \in [Agents -> Sending \cup {None}]
         /\ \A b \in Agents : b # a => sending'[b] = sending[b]
         /\ ~Head(up[a]).asked => sending'[a] = sending[a]
         /\ Head(up[a]).asked =>
              /\ sending[a] \in Sending /\ sending'[a] \in Sending
              /\ sending'[a] = [sending[a] EXCEPT !.outcome = o]
<1>1. /\ sending \in [Agents -> Sending \cup {None}]
      /\ up[a] \in Seq(Envelope)
  BY DEF TypeOK
<1>2. Head(up[a]) = up[a][1] /\ 1 \in DOMAIN up[a] /\ Head(up[a]) \in Envelope
  BY <1>1, TailElems
<1>3. Head(up[a]).asked => sending[a] \in Sending
  BY <1>1, <1>2 DEF WireInv
<1>4. ASSUME sending[a] \in Sending PROVE [sending[a] EXCEPT !.outcome = o] \in Sending
  BY <1>4 DEF Sending
<1> HIDE DEF Sending
<1> QED  BY <1>1, <1>3, <1>4 DEF Answered

\* Every step keeps the types.
LEMMA NextTyped == TypeOK /\ WireInv /\ [Next]_vars => TypeOK'
<1> SUFFICES ASSUME TypeOK, WireInv, [Next]_vars PROVE TypeOK'
  OBVIOUS
<1>1. /\ track \in [Agents -> Track] /\ sending \in [Agents -> Sending \cup {None}] /\ conv \in Entry
      /\ up \in [Agents -> Seq(Envelope)] /\ down \in [Agents -> Seq(Inbound)]
      /\ basis \in [Agents -> Nat] /\ handed \in [Agents -> [wake : BOOLEAN, turn : Nat]]
      /\ owed \in [Agents -> BOOLEAN] /\ closing \in [Agents -> BOOLEAN]
  BY DEF TypeOK, Track, Entry
<1>2. FreshTrack \in Track /\ NoConversation \in Entry
  BY DEF FreshTrack, NoConversation, Track, Entry
<1>3. <<>> \in Seq(Envelope) /\ DOMAIN <<>> = {}
  BY EmptySeq
<1>4. \A a \in Agents : Peer(a) \in Agents
  BY Peers
<1>5. ASSUME UNCHANGED <<conv, basis, handed, owed, knows, up, down, closing, silenced, unheard, doubt>>,
             track' \in [Agents -> Track], sending' \in [Agents -> Sending \cup {None}]
      PROVE  TypeOK'
  BY <1>5 DEF TypeOK, Track
<1>6. ASSUME NEW a \in Agents, NEW t \in Track PROVE [track EXCEPT ![a] = t] \in [Agents -> Track]
  BY <1>1
<1>7. ASSUME NEW a \in Agents, NEW s \in Sending \cup {None}
      PROVE  [sending EXCEPT ![a] = s] \in [Agents -> Sending \cup {None}]
  BY <1>1
<1>8. ASSUME NEW a \in Agents, NEW x \in Envelope
      PROVE  [up EXCEPT ![a] = Append(@, x)] \in [Agents -> Seq(Envelope)]
  BY <1>1, AppendElems
<1>9. ASSUME NEW a \in Agents, up[a] # <<>>
      PROVE  /\ [up EXCEPT ![a] = Tail(@)] \in [Agents -> Seq(Envelope)]
             /\ Head(up[a]) \in Envelope
  BY <1>1, <1>9, TailElems
<1>10. ASSUME NEW a \in Agents, NEW k \in NoticeKinds
       PROVE  Notice(k, NextTurn(track[a])) \in Envelope /\ NextTurn(track[a]) \in Nat
  BY <1>1 DEF Notice, NextTurn, Envelope, Track
<1>11. {"none", "accepted", "refused", "conversation_closed", "unknown_conversation_id",
        "stale_reply_basis", "stale_turn"} \subseteq Outcomes
  BY DEF Outcomes
<1>12. ASSUME NEW a \in Agents, Record(a) PROVE TypeOK'
  <2> DEFINE m == Head(up[a])
             sent == [kind |-> m.kind, turn |-> m.turn, done |-> m.done]
             entry == Recorded(a, m)
  <2>1. up[a] # <<>> /\ up' = [up EXCEPT ![a] = Tail(@)] /\ m \in Envelope
    BY <1>9, <1>12 DEF Record
  <2>2. UNCHANGED <<track, basis, handed, owed, knows, silenced, unheard>>
    BY <1>12 DEF Record
  <2>3. up' \in [Agents -> Seq(Envelope)]
    BY <1>9, <2>1
  <2>4. CASE Rejection(a, m) # "none"
    <3>1. /\ sending' = Answered(a, m, Rejection(a, m)) /\ UNCHANGED <<conv, down, closing>>
          /\ doubt' = IF m.kind = "ordinary" THEN doubt ELSE doubt \cup {"notice"}
      BY <1>12, <2>4 DEF Record
    <3>2. Rejection(a, m) \in Outcomes
      BY <1>11 DEF Rejection
    <3>3. sending' \in [Agents -> Sending \cup {None}]
      BY <2>1, <3>1, <3>2, AnsweredTyped
    <3>4. doubt' \in SUBSET Doubts
      BY <3>1 DEF TypeOK, Doubts
    <3> HIDE DEF m
    <3> QED  BY <2>2, <2>3, <3>1, <3>3, <3>4 DEF TypeOK
  <2>5. CASE Rejection(a, m) = "none"
    <3>1. /\ sending' = Answered(a, m, "accepted") /\ conv' = Evaluated(entry)
          /\ down' = [down EXCEPT ![Peer(a)] =
                        @ \o <<sent>> \o (IF Exceeded(entry) THEN <<EndNotice>> ELSE <<>>)]
          /\ closing' = [closing EXCEPT ![a] = @ \/ Exceeded(entry)]
          /\ UNCHANGED doubt
      BY <1>12, <2>5 DEF Record
    <3>2. sending' \in [Agents -> Sending \cup {None}]
      BY <1>11, <2>1, <3>1, AnsweredTyped
    <3>3. sent \in Inbound /\ EndNotice \in Inbound
      BY <2>1 DEF Inbound, Envelope, EndNotice
    <3>4. entry \in Entry
      <4>1. m.turn \in Nat /\ m.kind \in NoticeKinds \cup {"ordinary"} /\ m.done \in BOOLEAN
        BY <2>1 DEF Envelope
      <4>2. [conv.ordinary EXCEPT ![a] = m.turn] \in [Agents -> Nat]
        BY <1>1, <4>1 DEF Entry
      <4>3. conv.turns + 1 \in Nat /\ conv.ordinary \in [Agents -> Nat] /\ conv.doneBy \subseteq Agents
        BY <1>1 DEF Entry
      <4> HIDE DEF m
      <4> QED  BY <4>1, <4>2, <4>3 DEF Recorded, Entry
    <3>5. conv' \in Entry
      BY <3>1, <3>4 DEF Evaluated, Entry
    <3>6. down' \in [Agents -> Seq(Inbound)]
      <4>1. ASSUME NEW s \in Seq(Inbound), NEW x \in Inbound PROVE s \o <<x>> \in Seq(Inbound)
        BY ConcatElems
      <4>2. ASSUME NEW s \in Seq(Inbound) PROVE s \o <<>> \in Seq(Inbound)
        BY ConcatElems, EmptySeq
      <4>3. down[Peer(a)] \in Seq(Inbound)
        BY <1>1, <1>4
      <4>4. down[Peer(a)] \o <<sent>> \in Seq(Inbound)
        BY <3>3, <4>1, <4>3
      <4>5. /\ (down[Peer(a)] \o <<sent>>) \o <<EndNotice>> \in Seq(Inbound)
            /\ (down[Peer(a)] \o <<sent>>) \o <<>> \in Seq(Inbound)
        BY <3>3, <4>1, <4>2, <4>4
      <4>6. down'[Peer(a)] \in Seq(Inbound)
        BY <1>1, <1>4, <3>1, <4>5
      <4> HIDE DEF m, sent, entry
      <4> QED  BY <1>1, <1>4, <3>1, <4>6
    <3>7. closing' \in [Agents -> BOOLEAN]
      BY <1>1, <3>1 DEF Exceeded
    <3> HIDE DEF m, sent, entry
    <3> QED  BY <2>2, <2>3, <3>1, <3>2, <3>5, <3>6, <3>7 DEF TypeOK, Entry
  <2> QED  BY <2>4, <2>5
<1>13. ASSUME NEW a \in Agents, Refuse(a) PROVE TypeOK'
  <2>1. sending' \in [Agents -> Sending \cup {None}]
    BY <1>11, <1>13, AnsweredTyped DEF Refuse
  <2>2. up' \in [Agents -> Seq(Envelope)]
    BY <1>9, <1>13 DEF Refuse
  <2>3. doubt' \in SUBSET Doubts
    BY <1>13 DEF Refuse, TypeOK, Doubts
  <2> QED  BY <1>13, <2>1, <2>2, <2>3 DEF Refuse, TypeOK
<1>14. CASE CloseByServer
  BY <1>14 DEF CloseByServer, TypeOK, wrapperVars, history, Entry
<1>15. CASE TrackerRestart
  <2>1. doubt' \in SUBSET Doubts
    BY <1>15 DEF TrackerRestart, TypeOK, Doubts
  <2> QED  BY <1>2, <1>15, <2>1 DEF TrackerRestart, TypeOK, wrapperVars, wireVars, Entry
<1>16. ASSUME NEW a \in Agents, Invoke(a) PROVE TypeOK'
  <2>1. PICK done \in BOOLEAN :
          LET t == track[a]
              flips == done /\ ~t.localDone
          IN /\ track' = [track EXCEPT ![a] =
                           [t EXCEPT !.turn = NextTurn(t),
                                     !.localDone = @ \/ done,
                                     !.closed = flips /\ t.remoteDone]]
             /\ sending' = [sending EXCEPT ![a] =
                             [turn |-> NextTurn(t), done |-> done, basis |-> basis[a],
                              new |-> a \notin knows,
                              flipped |-> flips, blank |-> t = FreshTrack,
                              raced |-> FALSE, ended |-> FALSE, outcome |-> "none"]]
    BY <1>16 DEF Invoke
  <2>2. track' \in [Agents -> Track]
    <3>1. track[a] \in Track /\ track[a].turn + 1 \in Nat /\ track[a].localDone \in BOOLEAN
          /\ track[a].remoteDone \in BOOLEAN
      BY <1>1 DEF Track
    <3>2. [track[a] EXCEPT !.turn = NextTurn(track[a]), !.localDone = @ \/ done,
                           !.closed = (done /\ ~track[a].localDone) /\ track[a].remoteDone] \in Track
      BY <3>1 DEF Track, NextTurn
    <3> QED  BY <1>6, <2>1, <3>2
  <2>3. sending' \in [Agents -> Sending \cup {None}]
    <3>1. [turn |-> NextTurn(track[a]), done |-> done, basis |-> basis[a], new |-> a \notin knows,
           flipped |-> done /\ ~track[a].localDone, blank |-> track[a] = FreshTrack,
           raced |-> FALSE, ended |-> FALSE, outcome |-> "none"] \in Sending
      BY <1>1, <1>11 DEF Sending, Track, NextTurn
    <3> QED  BY <1>7, <2>1, <3>1
  <2>4. knows' \in SUBSET Agents
    BY <1>16 DEF Invoke, TypeOK
  <2> QED  BY <1>16, <2>2, <2>3, <2>4 DEF Invoke, TypeOK, Track, serverVars, wireVars, history
<1>17. ASSUME NEW a \in Agents, Dispatch(a) PROVE TypeOK'
  <2>1. sending[a] \in Sending /\ sending[a].turn > 0
    BY <1>1, <1>17 DEF Dispatch, Prepared, WireInv
  <2>2. [kind |-> "ordinary", turn |-> sending[a].turn, done |-> sending[a].done,
         basis |-> sending[a].basis, new |-> sending[a].new, asked |-> TRUE] \in Envelope
    BY <2>1 DEF Sending, Envelope
  <2>3. up' \in [Agents -> Seq(Envelope)]
    BY <1>8, <1>17, <2>2 DEF Dispatch
  <2> QED  BY <1>17, <2>3 DEF Dispatch, TypeOK, serverVars, wrapperVars, history
<1>18. ASSUME NEW a \in Agents, RejectHere(a) PROVE TypeOK'
  <2>1. sending[a] \in Sending
    BY <1>1, <1>18 DEF RejectHere, Prepared
  <2>2. [sending[a] EXCEPT !.outcome = "refused"] \in Sending
    BY <1>11, <2>1 DEF Sending
  <2>3. sending' \in [Agents -> Sending \cup {None}]
    BY <1>1, <1>18, <2>2 DEF RejectHere
  <2> QED  BY <1>18, <2>3 DEF RejectHere, TypeOK, serverVars, wireVars, history
<1>19. ASSUME NEW a \in Agents, Resolve(a) PROVE TypeOK'
  <2>1. sending[a] \in Sending /\ sending[a].turn > 0
    BY <1>1, <1>19 DEF Resolve, WireInv
  <2>2. sending' \in [Agents -> Sending \cup {None}]
    BY <1>1, <1>19 DEF Resolve
  <2>3. RolledBack(track[a], sending[a]) \in Track
    <3>1. track[a] \in Track /\ track[a].turn \in Nat /\ sending[a].turn \in Nat
      BY <1>1, <2>1 DEF Track, Sending
    <3>2. CASE track[a].turn = sending[a].turn
      <4>1. track[a].turn - 1 \in Nat
        BY <2>1, <3>1, <3>2
      <4> QED  BY <3>1, <4>1 DEF RolledBack, Track
    <3> QED  BY <3>1, <3>2 DEF RolledBack
  <2>4. AfterRejection(track[a], sending[a]) \in Track
    BY <1>2, <2>3 DEF AfterRejection, Track
  <2>5. track' \in [Agents -> Track]
    BY <1>1, <1>19, <2>4 DEF Resolve
  <2>6. owed' \in [Agents -> BOOLEAN]
    BY <1>1, <1>19, <2>1 DEF Resolve, Settled, Sending
  <2> QED  BY <1>19, <2>2, <2>5, <2>6 DEF Resolve, TypeOK, Track, serverVars, wireVars, history
<1>20. ASSUME NEW a \in Agents, GiveUp(a) PROVE TypeOK'
  <2>1. sending' \in [Agents -> Sending \cup {None}]
    BY <1>1, <1>20 DEF GiveUp
  <2>2. owed' \in [Agents -> BOOLEAN]
    <3>1. sending[a] \in Sending
      BY <1>1, <1>20 DEF GiveUp, Dispatched, WireInv
    <3> QED  BY <1>1, <1>20, <3>1 DEF GiveUp, Settled, Sending
  <2>3. [i \in DOMAIN up[a] |-> [up[a][i] EXCEPT !.asked = FALSE]] \in Seq(Envelope)
    <3>1. Len(up[a]) \in Nat /\ DOMAIN up[a] = 1..Len(up[a])
      BY <1>1, LenProperties
    <3>2. \A i \in 1..Len(up[a]) : [up[a][i] EXCEPT !.asked = FALSE] \in Envelope
      <4>1. \A i \in 1..Len(up[a]) : up[a][i] \in Envelope
        BY <1>1, <3>1, ElementOfSeq
      <4> QED  BY <4>1 DEF Envelope
    <3> QED  BY <3>1, <3>2, IsASeq
  <2>4. up' \in [Agents -> Seq(Envelope)]
    BY <1>1, <1>3, <1>20, <2>3 DEF GiveUp
  <2>5. doubt' \in SUBSET Doubts
    BY <1>20 DEF GiveUp, TypeOK, Doubts
  <2> QED  BY <1>20, <2>1, <2>2, <2>4, <2>5 DEF GiveUp, TypeOK, serverVars
<1>21. ASSUME NEW a \in Agents PROVE Raced(a) \in [Agents -> Sending \cup {None}]
  <2>1. ASSUME sending[a] \in Sending PROVE [sending[a] EXCEPT !.raced = TRUE] \in Sending
    BY <2>1 DEF Sending
  <2> QED  BY <1>1, <2>1 DEF Raced
<1>22. ASSUME NEW a \in Agents PROVE Ended(a) \in [Agents -> Sending \cup {None}]
  <2>1. ASSUME sending[a] \in Sending PROVE [sending[a] EXCEPT !.ended = TRUE] \in Sending
    BY <2>1 DEF Sending
  <2> QED  BY <1>1, <2>1 DEF Ended
<1>23. ASSUME NEW a \in Agents, NEW m \in Inbound, Take(a, m)
       PROVE  /\ track' \in [Agents -> Track] /\ sending' \in [Agents -> Sending \cup {None}]
              /\ handed' \in [Agents -> [wake : BOOLEAN, turn : Nat]]
              /\ silenced' \in SUBSET Agents /\ unheard' \in SUBSET Agents /\ UNCHANGED <<up, doubt>>
  <2>1. Heard(track[a], m) \in Track
    <3>1. /\ track[a] \in Track /\ track[a].turn \in Nat /\ track[a].localDone \in BOOLEAN
          /\ track[a].remoteDone \in BOOLEAN /\ track[a].closed \in BOOLEAN
          /\ m.turn \in Nat /\ m.done \in BOOLEAN
      BY <1>1 DEF Track, Inbound
    <3>2. MaxOf(track[a].turn, m.turn) \in Nat
      BY <3>1 DEF MaxOf
    <3> QED  BY <3>1, <3>2 DEF Heard, Track
  <2>2. track' \in [Agents -> Track]
    BY <1>1, <1>23, <2>1 DEF Take
  <2>3. sending' \in [Agents -> Sending \cup {None}]
    BY <1>1, <1>21, <1>23 DEF Take
  <2>4. handed' \in [Agents -> [wake : BOOLEAN, turn : Nat]]
    <3>1. CASE UNCHANGED handed
      BY <1>1, <3>1
    <3>2. CASE handed' = [handed EXCEPT ![a] =
                 [wake |-> TRUE,
                  turn |-> IF m.kind = "ordinary" THEN MaxOf(@.turn, m.turn) ELSE @.turn]]
      BY <1>1, <3>2 DEF Inbound, MaxOf
    <3> QED  BY <1>23, <3>1, <3>2 DEF Take
  <2>5. silenced' \in SUBSET Agents /\ unheard' \in SUBSET Agents
    BY <1>23 DEF Take, TypeOK
  <2> QED  BY <1>23, <2>2, <2>3, <2>4, <2>5 DEF Take
<1>24. ASSUME NEW a \in Agents, NEW m \in Inbound, Drop(a, m)
       PROVE  /\ track' \in [Agents -> Track] /\ sending' \in [Agents -> Sending \cup {None}]
              /\ up' \in [Agents -> Seq(Envelope)]
              /\ unheard' \in SUBSET Agents /\ doubt' \in SUBSET Doubts
              /\ UNCHANGED <<handed, silenced>>
  <2>1. track' \in [Agents -> Track]
    <3>1. "stale_delivery" \in NoticeKinds
      BY DEF NoticeKinds
    <3>2. [track[a] EXCEPT !.turn = NextTurn(track[a])] \in Track
      BY <1>1, <1>10, <3>1 DEF Track
    <3>3. CASE IsSilent(a, m)
      BY <1>1, <1>24, <3>3 DEF Drop
    <3>4. CASE ~IsSilent(a, m)
      BY <1>1, <1>6, <1>24, <3>2, <3>4 DEF Drop
    <3> QED  BY <3>3, <3>4
  <2>2. sending' \in [Agents -> Sending \cup {None}]
    BY <1>1, <1>21, <1>24 DEF Drop
  <2>3. up' \in [Agents -> Seq(Envelope)]
    <3>1. "stale_delivery" \in NoticeKinds
      BY DEF NoticeKinds
    <3>2. CASE IsSilent(a, m)
      BY <1>1, <1>24, <3>2 DEF Drop
    <3>3. CASE ~IsSilent(a, m)
      <4>1. Notice("stale_delivery", NextTurn(track[a])) \in Envelope
        BY <1>10, <3>1
      <4>2. up' = [up EXCEPT ![a] = Append(@, Notice("stale_delivery", NextTurn(track[a])))]
        BY <1>24, <3>3 DEF Drop
      <4> QED  BY <1>8, <4>1, <4>2
    <3> QED  BY <3>2, <3>3
  <2>4. doubt' \in SUBSET Doubts
    BY <1>24 DEF Drop, Missed, TypeOK
  <2>5. unheard' \in SUBSET Agents
    BY <1>4, <1>24 DEF Drop, TypeOK
  <2> QED  BY <1>24, <2>1, <2>2, <2>3, <2>4, <2>5 DEF Drop
<1>25. ASSUME NEW a \in Agents, Receive(a) PROVE TypeOK'
  <2>1. CASE down[a] # <<>> /\ (Drop(a, Head(down[a])) \/ Take(a, Head(down[a])))
             /\ down' = [down EXCEPT ![a] = Tail(@)] /\ UNCHANGED closing
    <3>1. Head(down[a]) \in Inbound /\ Tail(down[a]) \in Seq(Inbound)
      BY <1>1, <2>1, TailElems
    <3>2. down' \in [Agents -> Seq(Inbound)]
      BY <1>1, <2>1, <3>1
    <3>3. CASE Drop(a, Head(down[a]))
      BY <1>24, <1>25, <2>1, <3>1, <3>2, <3>3 DEF Receive, TypeOK, Track, serverVars
    <3>4. CASE Take(a, Head(down[a]))
      BY <1>23, <1>25, <2>1, <3>1, <3>2, <3>4 DEF Receive, TypeOK, Track, serverVars
    <3> QED  BY <2>1, <3>3, <3>4
  <2>2. CASE closing[a] /\ Take(a, EndNotice) /\ closing' = [closing EXCEPT ![a] = FALSE]
             /\ UNCHANGED down
    <3>1. EndNotice \in Inbound
      BY DEF EndNotice, Inbound
    <3>2. closing' \in [Agents -> BOOLEAN]
      BY <1>1, <2>2
    <3> QED  BY <1>23, <1>25, <2>2, <3>1, <3>2 DEF Receive, TypeOK, Track, serverVars
  <2> QED  BY <1>25, <2>1, <2>2 DEF Receive
<1>26. ASSUME NEW a \in Agents, BeginTurn(a) PROVE TypeOK'
  <2>1. handed' \in [Agents -> [wake : BOOLEAN, turn : Nat]]
    BY <1>1, <1>26 DEF BeginTurn
  <2>2. basis' \in [Agents -> Nat]
    BY <1>1, <1>26 DEF BeginTurn, MaxOf
  <2>3. owed' \in [Agents -> BOOLEAN] /\ knows' \in SUBSET Agents
    BY <1>26 DEF BeginTurn, TypeOK
  <2>4. sending' \in [Agents -> Sending \cup {None}]
    BY <1>22, <1>26 DEF BeginTurn
  <2> QED
    BY <1>26, <2>1, <2>2, <2>3, <2>4 DEF BeginTurn, TypeOK, serverVars, wireVars, history
<1>27. ASSUME NEW a \in Agents, TurnFails(a) PROVE TypeOK'
  <2>1. track' \in [Agents -> Track]
    <3>1. NextTurn(track[a]) \in Nat
      BY <1>10 DEF NoticeKinds
    <3>2. track' = [track EXCEPT ![a] = [track[a] EXCEPT !.turn = NextTurn(track[a])]]
      BY <1>27 DEF TurnFails
    <3>3. [track[a] EXCEPT !.turn = NextTurn(track[a])] \in Track
      BY <1>1, <3>1 DEF Track
    <3> QED  BY <1>6, <3>2, <3>3
  <2>2. up' \in [Agents -> Seq(Envelope)]
    BY <1>8, <1>10, <1>27 DEF TurnFails, NoticeKinds
  <2>3. sending' \in [Agents -> Sending \cup {None}]
    BY <1>22, <1>27 DEF TurnFails
  <2> QED  BY <1>27, <2>1, <2>2, <2>3 DEF TurnFails, TypeOK, Track, serverVars, history
<1>28. ASSUME NEW a \in Agents, WrapperRestart(a) PROVE TypeOK'
  <2>1. track' \in [Agents -> Track] /\ sending' \in [Agents -> Sending \cup {None}]
    BY <1>1, <1>2, <1>28 DEF WrapperRestart
  <2>2. up' \in [Agents -> Seq(Envelope)]
    BY <1>1, <1>3, <1>28 DEF WrapperRestart
  <2>3. handed' \in [Agents -> [wake : BOOLEAN, turn : Nat]] /\ basis' \in [Agents -> Nat]
    BY <1>1, <1>28 DEF WrapperRestart
  <2>4. doubt' \in SUBSET Doubts /\ silenced' \in SUBSET Agents
    BY <1>28 DEF WrapperRestart, TypeOK, Doubts
  <2>5. owed' \in [Agents -> BOOLEAN]
    BY <1>1, <1>28 DEF WrapperRestart
  <2> QED  BY <1>28, <2>1, <2>2, <2>3, <2>4, <2>5 DEF WrapperRestart, TypeOK, Track, serverVars
<1>29. CASE UNCHANGED vars
  BY <1>29 DEF vars, serverVars, wrapperVars, wireVars, history, TypeOK
<1> QED
  BY <1>12, <1>13, <1>14, <1>15, <1>16, <1>17, <1>18, <1>19, <1>20, <1>25, <1>26, <1>27, <1>28,
     <1>29 DEF Next

-----------------------------------------------------------------------------
(* What the steps leave alone.                                             *)

\* A send keeps what it was made with, except for its answer.
KeptMade ==
    \A b \in Agents :
      /\ sending'[b] = None <=> sending[b] = None
      /\ sending[b] # None =>
           /\ sending[b] \in Sending /\ sending'[b] \in Sending
           /\ sending'[b].turn = sending[b].turn /\ sending'[b].done = sending[b].done
           /\ sending'[b].new = sending[b].new /\ sending'[b].flipped = sending[b].flipped
           /\ sending'[b].blank = sending[b].blank
           /\ sending[b].raced => sending'[b].raced

\* A send keeps its answer too.
KeptAnswer == \A b \in Agents : sending[b] # None => sending'[b].outcome = sending[b].outcome

\* Nothing is learned of the end.
KeptEnd ==
    \A b \in Agents : /\ track'[b].closed = track[b].closed
                      /\ track'[b].localDone = track[b].localDone
                      /\ track'[b].remoteDone = track[b].remoteDone

\* An unchanged send is kept.
LEMMA SameKept == TypeOK /\ UNCHANGED sending => KeptMade /\ KeptAnswer
<1> SUFFICES ASSUME TypeOK, UNCHANGED sending PROVE KeptMade /\ KeptAnswer
  OBVIOUS
<1>1. \A b \in Agents : sending[b] # None => sending[b] \in Sending
  BY DEF TypeOK
<1> QED  BY <1>1 DEF KeptMade, KeptAnswer

\* A send that is told of a message keeps the rest, and is raced.
LEMMA RacedKept ==
  ASSUME TypeOK, NEW a \in Agents, sending' = Raced(a)
  PROVE  KeptMade /\ KeptAnswer /\ (sending[a] # None => sending'[a].raced)
<1>1. sending \in [Agents -> Sending \cup {None}]
  BY DEF TypeOK
<1>2. CASE sending[a] = None
  BY <1>2, SameKept DEF Raced
<1>3. CASE sending[a] # None
  <2>1. sending[a] \in Sending /\ sending'[a] = [sending[a] EXCEPT !.raced = TRUE]
    BY <1>1, <1>3 DEF Raced
  <2>2. /\ sending'[a] \in Sending /\ sending'[a].raced /\ sending'[a].turn = sending[a].turn
        /\ sending'[a].done = sending[a].done /\ sending'[a].new = sending[a].new
        /\ sending'[a].flipped = sending[a].flipped /\ sending'[a].blank = sending[a].blank
        /\ sending'[a].outcome = sending[a].outcome
    BY <2>1 DEF Sending
  <2>3. \A b \in Agents : b # a => sending'[b] = sending[b]
    BY <1>1, <1>3 DEF Raced
  <2>4. \A b \in Agents : sending[b] # None => sending[b] \in Sending
    BY <1>1
  <2> HIDE DEF Sending
  <2> QED  BY <1>3, <2>2, <2>3, <2>4, NoneAssumption DEF KeptMade, KeptAnswer
<1> QED  BY <1>2, <1>3

\* A send whose turn is over keeps the rest.
LEMMA EndedKept ==
  ASSUME TypeOK, NEW a \in Agents, sending' = Ended(a)
  PROVE  KeptMade /\ KeptAnswer
<1>1. sending \in [Agents -> Sending \cup {None}]
  BY DEF TypeOK
<1>2. CASE sending[a] = None
  BY <1>2, SameKept DEF Ended
<1>3. CASE sending[a] # None
  <2>1. sending[a] \in Sending /\ sending'[a] = [sending[a] EXCEPT !.ended = TRUE]
    BY <1>1, <1>3 DEF Ended
  <2>2. /\ sending'[a] \in Sending /\ sending'[a].turn = sending[a].turn
        /\ sending'[a].done = sending[a].done /\ sending'[a].new = sending[a].new
        /\ sending'[a].flipped = sending[a].flipped /\ sending'[a].blank = sending[a].blank
        /\ sending'[a].outcome = sending[a].outcome /\ sending'[a].raced = sending[a].raced
    BY <2>1 DEF Sending
  <2>3. \A b \in Agents : b # a => sending'[b] = sending[b]
    BY <1>1, <1>3 DEF Ended
  <2>4. \A b \in Agents : sending[b] # None => sending[b] \in Sending
    BY <1>1
  <2> HIDE DEF Sending
  <2> QED  BY <1>3, <2>2, <2>3, <2>4, NoneAssumption DEF KeptMade, KeptAnswer
<1> QED  BY <1>2, <1>3

\* An answer changes nothing else, and nothing at all when none is waited for.
LEMMA AnsweredKept ==
  ASSUME TypeOK, WireInv, NEW a \in Agents, up[a] # <<>>, NEW o \in Outcomes,
         sending' = Answered(a, Head(up[a]), o)
  PROVE  /\ KeptMade
         /\ \A b \in Agents : sending[b] # None =>
              sending'[b].outcome = IF b = a /\ Head(up[a]).asked THEN o ELSE sending[b].outcome
<1>1. \A b \in Agents : sending[b] # None => sending[b] \in Sending
  BY DEF TypeOK
<1>2. \A b \in Agents : b # a => sending'[b] = sending[b]
  BY AnsweredTyped
<1>3. CASE ~Head(up[a]).asked
  <2>1. sending' = sending
    BY <1>3 DEF Answered
  <2> QED  BY <1>3, <2>1, SameKept DEF KeptAnswer
<1>4. CASE Head(up[a]).asked
  <2>1. /\ sending[a] \in Sending /\ sending'[a] \in Sending
        /\ sending'[a] = [sending[a] EXCEPT !.outcome = o]
    BY <1>4, AnsweredTyped
  <2>2. /\ sending'[a].turn = sending[a].turn /\ sending'[a].outcome = o
        /\ sending'[a].done = sending[a].done /\ sending'[a].new = sending[a].new
        /\ sending'[a].flipped = sending[a].flipped /\ sending'[a].blank = sending[a].blank
        /\ sending'[a].raced = sending[a].raced
    BY <2>1 DEF Sending
  <2> HIDE DEF Sending
  <2>3. sending[a] # None /\ sending'[a] # None
    BY <2>1, NoneAssumption
  <2>4. KeptMade
    BY <1>1, <1>2, <2>1, <2>2, <2>3 DEF KeptMade
  <2> QED  BY <1>2, <1>4, <2>2, <2>4
<1> QED  BY <1>3, <1>4

\* A number that is taken says nothing of the end.
LEMMA TurnTaken ==
  ASSUME TypeOK, NEW a \in Agents, NEW n, track' = [track EXCEPT ![a].turn = n]
  PROVE  KeptEnd
  BY DEF TypeOK, KeptEnd

-----------------------------------------------------------------------------
(* Sends and their envelopes.                                              *)

\* No envelope is added, and every send keeps what it was made with.
LEMMA WireSame ==
  ASSUME WireInv, KeptMade, KeptAnswer, UNCHANGED up, knows \subseteq knows'
  PROVE  WireInv'
  BY DEF WireInv, KeptMade, KeptAnswer

\* A notice is added.
LEMMA WireNotice ==
  ASSUME TypeOK, WireInv, KeptMade, KeptAnswer, knows \subseteq knows', NEW a \in Agents,
         NEW k \in NoticeKinds, NEW n, Notice(k, n) \in Envelope,
         up' = [up EXCEPT ![a] = Append(@, Notice(k, n))]
  PROVE  WireInv'
<1> DEFINE x == Notice(k, n)
<1>1. up \in [Agents -> Seq(Envelope)]
  BY DEF TypeOK
<1>2. up'[a] = Append(up[a], x) /\ \A b \in Agents : b # a => up'[b] = up[b]
  BY <1>1
<1>3. \A i \in DOMAIN up'[a] : \/ i \in DOMAIN up[a] /\ up'[a][i] = up[a][i]
                               \/ up'[a][i] = x
  BY <1>1, <1>2, AppendElems
<1>4. ~x.done /\ ~x.new /\ ~x.asked
  BY DEF Notice
<1> HIDE DEF x
<1> QED  BY <1>2, <1>3, <1>4 DEF WireInv, KeptMade, KeptAnswer

\* The head of the queue is taken and, if its answer is waited for, answered.
LEMMA WireTaken ==
  ASSUME TypeOK, WireInv, NEW a \in Agents, up[a] # <<>>, NEW o \in Outcomes,
         sending' = Answered(a, Head(up[a]), o), up' = [up EXCEPT ![a] = Tail(@)], UNCHANGED knows
  PROVE  WireInv'
<1>1. up \in [Agents -> Seq(Envelope)]
  BY DEF TypeOK
<1>2. up'[a] = Tail(up[a]) /\ \A b \in Agents : b # a => up'[b] = up[b]
  BY <1>1
<1>3. /\ 1 \in DOMAIN up[a] /\ up[a][1] = Head(up[a])
      /\ \A i \in DOMAIN up'[a] : /\ i + 1 \in DOMAIN up[a] /\ i + 1 # 1
                                  /\ up'[a][i] = up[a][i + 1]
  BY <1>1, <1>2, TailElems
<1>4. KeptMade /\ \A b \in Agents : sending[b] # None =>
              sending'[b].outcome = IF b = a /\ Head(up[a]).asked THEN o ELSE sending[b].outcome
  BY AnsweredKept
<1>5. ASSUME NEW b \in Agents, b # a, NEW i \in DOMAIN up'[b] PROVE
           /\ up'[b][i].kind \in NoticeKinds => ~up'[b][i].done /\ ~up'[b][i].new /\ ~up'[b][i].asked
           /\ up'[b][i].asked =>
                /\ sending'[b] # None /\ sending'[b].outcome = "none"
                /\ up'[b][i].turn = sending'[b].turn /\ up'[b][i].done = sending'[b].done
                /\ up'[b][i].new = sending'[b].new
                /\ \A j \in DOMAIN up'[b] : up'[b][j].asked => j = i
  BY <1>2, <1>4, <1>5 DEF WireInv, KeptMade
<1>6. DOMAIN up'[a] \subseteq Int
  <2>1. Tail(up[a]) \in Seq(Envelope)
    BY <1>1, TailElems
  <2> QED  BY <1>2, <2>1, LenProperties
<1>7. ASSUME NEW i \in DOMAIN up'[a] PROVE
           /\ up'[a][i].kind \in NoticeKinds => ~up'[a][i].done /\ ~up'[a][i].new /\ ~up'[a][i].asked
           /\ up'[a][i].asked =>
                /\ sending'[a] # None /\ sending'[a].outcome = "none"
                /\ up'[a][i].turn = sending'[a].turn /\ up'[a][i].done = sending'[a].done
                /\ up'[a][i].new = sending'[a].new
                /\ \A j \in DOMAIN up'[a] : up'[a][j].asked => j = i
  <2>1. i + 1 \in DOMAIN up[a] /\ i + 1 # 1 /\ up'[a][i] = up[a][i + 1]
    BY <1>3
  <2>2. up'[a][i].kind \in NoticeKinds => ~up'[a][i].done /\ ~up'[a][i].new /\ ~up'[a][i].asked
    BY <2>1 DEF WireInv
  <2>3. ASSUME up'[a][i].asked
        PROVE  /\ sending[a] # None /\ sending[a].outcome = "none"
               /\ up[a][i + 1].turn = sending[a].turn /\ up[a][i + 1].done = sending[a].done
               /\ up[a][i + 1].new = sending[a].new
               /\ \A j \in DOMAIN up[a] : up[a][j].asked => j = i + 1
    BY <2>1, <2>3 DEF WireInv
  <2>4. ASSUME up'[a][i].asked PROVE ~Head(up[a]).asked
    BY <1>3, <2>1, <2>3, <2>4
  <2>5. ASSUME up'[a][i].asked, NEW j \in DOMAIN up'[a], up'[a][j].asked PROVE j = i
    <3>1. j + 1 \in DOMAIN up[a] /\ up'[a][j] = up[a][j + 1]
      BY <1>3
    <3>2. j + 1 = i + 1
      BY <2>3, <2>5, <3>1
    <3> QED  BY <1>6, <3>2
  <2> QED  BY <1>4, <2>1, <2>2, <2>3, <2>4, <2>5 DEF KeptMade
<1>8. ASSUME NEW b \in Agents
      PROVE  sending'[b] # None => sending'[b].turn > 0 /\ b \in knows'
                              /\ (sending'[b].flipped => sending'[b].done)
                              /\ (sending'[b].new => b = Starter)
  BY <1>4 DEF WireInv, KeptMade
<1> QED  BY <1>5, <1>7, <1>8 DEF WireInv

\* The notice of a dropped message or of a failed turn.
LEMMA NoticeTyped ==
  ASSUME TypeOK, NEW a \in Agents, NEW k \in NoticeKinds
  PROVE  Notice(k, NextTurn(track[a])) \in Envelope
<1>1. track[a].turn + 1 \in Nat \ {0}
  BY DEF TypeOK
<1> QED  BY <1>1 DEF Notice, NextTurn, Envelope

\* No envelope of a waits for an answer.
NothingAsked(a) == \A i \in DOMAIN up[a] : ~up[a][i].asked

\* The queue stays, none of its envelopes waits, and only the send of a is another.
LEMMA WireUnasked ==
  ASSUME WireInv, NEW a \in Agents, NothingAsked(a), UNCHANGED up, knows \subseteq knows',
         \A b \in Agents : b # a => sending'[b] = sending[b],
         sending'[a] # None => sending'[a].turn > 0 /\ a \in knows'
                              /\ (sending'[a].flipped => sending'[a].done)
                              /\ (sending'[a].new => a = Starter)
  PROVE  WireInv'
  BY DEF WireInv, NothingAsked

\* Every step keeps the sends and the envelopes that wait for them in agreement.
LEMMA NextWire == TypeOK /\ WireInv /\ [Next]_vars => WireInv'
<1> SUFFICES ASSUME TypeOK, WireInv, [Next]_vars PROVE WireInv'
  OBVIOUS
<1>1. /\ track \in [Agents -> Track] /\ sending \in [Agents -> Sending \cup {None}]
      /\ up \in [Agents -> Seq(Envelope)]
  BY DEF TypeOK, Track
<1>2. \A a \in Agents, o \in {"none", "accepted", "refused"} : o \in Outcomes /\ Rejection(a, Head(up[a])) \in Outcomes
  BY DEF Outcomes, Rejection
<1>3. ASSUME UNCHANGED <<sending, up>>, knows \subseteq knows' PROVE WireInv'
  BY <1>3, SameKept, WireSame
<1>4. ASSUME NEW a \in Agents, Record(a) PROVE WireInv'
  <2>1. up[a] # <<>> /\ up' = [up EXCEPT ![a] = Tail(@)] /\ UNCHANGED knows
    BY <1>4 DEF Record
  <2>2. \E o \in Outcomes : sending' = Answered(a, Head(up[a]), o)
    BY <1>2, <1>4 DEF Record
  <2> QED  BY <2>1, <2>2, WireTaken
<1>5. ASSUME NEW a \in Agents, Refuse(a) PROVE WireInv'
  BY <1>2, <1>5, WireTaken DEF Refuse
<1>6. CASE CloseByServer
  BY <1>3, <1>6 DEF CloseByServer, wrapperVars
<1>7. CASE TrackerRestart
  BY <1>3, <1>7 DEF TrackerRestart, wrapperVars, wireVars
<1>8. ASSUME NEW a \in Agents, Invoke(a) PROVE WireInv'
  <2>1. NothingAsked(a) /\ UNCHANGED up /\ knows \subseteq knows' /\ a \in knows'
    BY <1>8 DEF Invoke, WireInv, NothingAsked, wireVars
  <2>2. /\ \A b \in Agents : b # a => sending'[b] = sending[b]
        /\ \E done \in BOOLEAN : sending'[a] =
             [turn |-> NextTurn(track[a]), done |-> done, basis |-> basis[a], new |-> a \notin knows,
              flipped |-> done /\ ~track[a].localDone, blank |-> track[a] = FreshTrack,
              raced |-> FALSE, ended |-> FALSE, outcome |-> "none"]
    BY <1>1, <1>8 DEF Invoke
  <2>3. a \notin knows => a = Starter
    BY <1>8 DEF Invoke
  <2>4. NextTurn(track[a]) > 0
    BY <1>1 DEF NextTurn, Track
  <2>5. /\ sending'[a].turn > 0 /\ (sending'[a].flipped => sending'[a].done)
        /\ (sending'[a].new => a = Starter)
    <3>1. PICK done \in BOOLEAN : sending'[a] =
             [turn |-> NextTurn(track[a]), done |-> done, basis |-> basis[a], new |-> a \notin knows,
              flipped |-> done /\ ~track[a].localDone, blank |-> track[a] = FreshTrack,
              raced |-> FALSE, ended |-> FALSE, outcome |-> "none"]
      BY <2>2
    <3>2. /\ sending'[a].turn = NextTurn(track[a]) /\ sending'[a].done = done
          /\ sending'[a].flipped = (done /\ ~track[a].localDone)
          /\ sending'[a].new = (a \notin knows)
      BY <3>1
    <3> QED  BY <2>3, <2>4, <3>2
  <2> QED  BY <2>1, <2>2, <2>5, WireUnasked
<1>9. ASSUME NEW a \in Agents, Dispatch(a) PROVE WireInv'
  <2> DEFINE x == [kind |-> "ordinary", turn |-> sending[a].turn, done |-> sending[a].done,
                   basis |-> sending[a].basis, new |-> sending[a].new, asked |-> TRUE]
  <2>1. /\ sending[a] # None /\ sending[a].outcome = "none" /\ NothingAsked(a)
        /\ up' = [up EXCEPT ![a] = Append(@, x)] /\ UNCHANGED <<sending, knows>>
    BY <1>9 DEF Dispatch, Prepared, Dispatched, NothingAsked, wrapperVars
  <2>2. up'[a] = Append(up[a], x) /\ \A b \in Agents : b # a => up'[b] = up[b]
    BY <1>1, <2>1
  <2>3. x \in Envelope
    <3>1. sending[a] \in Sending /\ sending[a].turn > 0
      BY <1>1, <2>1 DEF WireInv
    <3> QED  BY <3>1 DEF Sending, Envelope
  <2>4. \A i \in DOMAIN up'[a] : \/ i \in DOMAIN up[a] /\ up'[a][i] = up[a][i]
                                 \/ i = Len(up[a]) + 1 /\ up'[a][i] = x
    BY <1>1, <2>2, <2>3, AppendElems
  <2>5. /\ x.turn = sending[a].turn /\ x.done = sending[a].done /\ x.new = sending[a].new
        /\ x.kind \notin NoticeKinds
    BY DEF NoticeKinds
  <2>6. \A i \in DOMAIN up'[a] : up'[a][i].asked => i = Len(up[a]) + 1 /\ up'[a][i] = x
    BY <2>1, <2>4 DEF NothingAsked
  <2> HIDE DEF x
  <2> QED  BY <2>1, <2>2, <2>4, <2>5, <2>6 DEF WireInv
<1>10. ASSUME NEW a \in Agents, RejectHere(a) PROVE WireInv'
  <2>1. /\ sending[a] \in Sending /\ NothingAsked(a) /\ UNCHANGED <<up, knows>>
        /\ sending' = [sending EXCEPT ![a].outcome = "refused"]
    BY <1>1, <1>10 DEF RejectHere, Prepared, Dispatched, NothingAsked, wireVars
  <2>2. /\ \A b \in Agents : b # a => sending'[b] = sending[b]
        /\ sending'[a].turn = sending[a].turn /\ sending'[a].flipped = sending[a].flipped
        /\ sending'[a].done = sending[a].done /\ sending'[a].new = sending[a].new
    BY <1>1, <2>1
  <2>3. sending[a] # None
    BY <1>10 DEF RejectHere, Prepared
  <2>4. /\ sending[a].turn > 0 /\ a \in knows /\ (sending[a].flipped => sending[a].done)
        /\ (sending[a].new => a = Starter)
    BY <2>3 DEF WireInv
  <2> QED  BY <2>1, <2>2, <2>4, WireUnasked
<1>11. ASSUME NEW a \in Agents, Resolve(a) PROVE WireInv'
  <2>1. NothingAsked(a) /\ UNCHANGED <<up, knows>>
    BY <1>11 DEF Resolve, WireInv, NothingAsked, wireVars
  <2>2. sending'[a] = None /\ \A b \in Agents : b # a => sending'[b] = sending[b]
    BY <1>1, <1>11 DEF Resolve
  <2> QED  BY <2>1, <2>2, WireUnasked
<1>12. ASSUME NEW a \in Agents, GiveUp(a) PROVE WireInv'
  <2>1. sending'[a] = None /\ UNCHANGED knows
        /\ \A b \in Agents : b # a => sending'[b] = sending[b] /\ up'[b] = up[b]
    BY <1>1, <1>12 DEF GiveUp
  <2>2. \/ up'[a] = [i \in DOMAIN up[a] |-> [up[a][i] EXCEPT !.asked = FALSE]]
        \/ up'[a] = <<>>
    BY <1>1, <1>12 DEF GiveUp
  <2>3. \A i \in DOMAIN up[a] : up[a][i] \in Envelope
    <3>1. up[a] \in Seq(Envelope)
      BY <1>1
    <3> QED  BY <3>1, ElementOfSeq, LenProperties
  <2>4. \A i \in DOMAIN up'[a] : i \in DOMAIN up[a] /\ ~up'[a][i].asked
                                 /\ up'[a][i].kind = up[a][i].kind
                                 /\ up'[a][i].done = up[a][i].done /\ up'[a][i].new = up[a][i].new
    BY <2>2, <2>3, EmptySeq DEF Envelope
  <2> QED  BY <2>1, <2>4 DEF WireInv
<1>13. ASSUME NEW a \in Agents, NEW m, Take(a, m), UNCHANGED knows PROVE WireInv'
  <2>1. UNCHANGED up /\ (UNCHANGED sending \/ sending' = Raced(a))
    BY <1>13 DEF Take
  <2> QED  BY <1>13, <2>1, SameKept, RacedKept, WireSame
<1>14. ASSUME NEW a \in Agents, NEW m, Drop(a, m), UNCHANGED knows PROVE WireInv'
  <2>1. CASE IsSilent(a, m)
    BY <1>3, <1>14, <2>1 DEF Drop
  <2>2. CASE ~IsSilent(a, m)
    <3>1. /\ sending' = Raced(a)
          /\ up' = [up EXCEPT ![a] = Append(@, Notice("stale_delivery", NextTurn(track[a])))]
      BY <1>14, <2>2 DEF Drop
    <3>2. "stale_delivery" \in NoticeKinds
      BY DEF NoticeKinds
    <3>3. KeptMade /\ KeptAnswer
      BY <3>1, RacedKept
    <3> QED  BY <1>14, <3>1, <3>2, <3>3, NoticeTyped, WireNotice
  <2> QED  BY <2>1, <2>2
<1>15. ASSUME NEW a \in Agents, Receive(a) PROVE WireInv'
  BY <1>13, <1>14, <1>15 DEF Receive
<1>16. ASSUME NEW a \in Agents, BeginTurn(a) PROVE WireInv'
  BY <1>16, EndedKept, WireSame DEF BeginTurn, wireVars
<1>17. ASSUME NEW a \in Agents, TurnFails(a) PROVE WireInv'
  <2>1. "turn_failure" \in NoticeKinds
    BY DEF NoticeKinds
  <2>2. /\ KeptMade /\ KeptAnswer /\ UNCHANGED knows
        /\ up' = [up EXCEPT ![a] = Append(@, Notice("turn_failure", NextTurn(track[a])))]
    BY <1>17, EndedKept DEF TurnFails
  <2> QED  BY <2>1, <2>2, NoticeTyped, WireNotice
<1>18. ASSUME NEW a \in Agents, WrapperRestart(a) PROVE WireInv'
  <2>1. /\ sending'[a] = None /\ up'[a] = <<>> /\ UNCHANGED knows
        /\ \A b \in Agents : b # a => sending'[b] = sending[b] /\ up'[b] = up[b]
    BY <1>1, <1>18 DEF WrapperRestart
  <2> QED  BY <2>1, EmptySeq DEF WireInv
<1>19. CASE UNCHANGED vars
  BY <1>3, <1>19 DEF vars, wrapperVars, wireVars
<1> QED
  BY <1>4, <1>5, <1>6, <1>7, <1>8, <1>9, <1>10, <1>11, <1>12, <1>15, <1>16, <1>17, <1>18, <1>19
     DEF Next

-----------------------------------------------------------------------------
(* Blank tracks, and envelopes that are waited for.                        *)

\* The send of one agent is answered and nothing is learned of the end.
LEMMA BlankSame ==
  ASSUME BlankInv, KeptMade, KeptEnd
  PROVE  BlankInv'
  BY DEF BlankInv, KeptMade, KeptEnd

\* Every step leaves a blank track blank, or tells the send that it is not.
LEMMA NextBlank == TypeOK /\ WireInv /\ BlankInv /\ [Next]_vars => BlankInv'
<1> SUFFICES ASSUME TypeOK, WireInv, BlankInv, [Next]_vars PROVE BlankInv'
  OBVIOUS
<1>1. /\ track \in [Agents -> Track] /\ sending \in [Agents -> Sending \cup {None}]
  BY DEF TypeOK, Track
<1>2. ASSUME UNCHANGED track PROVE KeptEnd
  BY <1>2 DEF KeptEnd
<1>3. ASSUME UNCHANGED <<track, sending>> PROVE BlankInv'
  BY <1>2, <1>3, SameKept, BlankSame
<1>4. \A a \in Agents, o \in {"none", "accepted", "refused"} : o \in Outcomes /\ Rejection(a, Head(up[a])) \in Outcomes
  BY DEF Outcomes, Rejection
<1>5. ASSUME NEW a \in Agents, Record(a) PROVE BlankInv'
  <2>1. \E o \in Outcomes : sending' = Answered(a, Head(up[a]), o)
    BY <1>4, <1>5 DEF Record
  <2> QED  BY <1>2, <1>5, <2>1, AnsweredKept, BlankSame DEF Record
<1>6. ASSUME NEW a \in Agents, Refuse(a) PROVE BlankInv'
  BY <1>2, <1>4, <1>6, AnsweredKept, BlankSame DEF Refuse
<1>7. CASE CloseByServer
  BY <1>3, <1>7 DEF CloseByServer, wrapperVars
<1>8. CASE TrackerRestart
  BY <1>3, <1>8 DEF TrackerRestart, wrapperVars
<1>9. ASSUME NEW a \in Agents, \A b \in Agents : b # a => track'[b] = track[b] /\ sending'[b] = sending[b],
             sending'[a] # None /\ sending'[a].blank /\ ~sending'[a].raced =>
                ~track'[a].closed /\ ~track'[a].remoteDone
      PROVE  BlankInv'
  BY <1>9 DEF BlankInv
<1>10. ASSUME NEW a \in Agents, Invoke(a) PROVE BlankInv'
  <2>1. PICK done \in BOOLEAN :
          LET t == track[a]
              flips == done /\ ~t.localDone
          IN /\ track' = [track EXCEPT ![a] =
                           [t EXCEPT !.turn = NextTurn(t),
                                     !.localDone = @ \/ done,
                                     !.closed = flips /\ t.remoteDone]]
             /\ sending' = [sending EXCEPT ![a] =
                             [turn |-> NextTurn(t), done |-> done, basis |-> basis[a],
                              new |-> a \notin knows,
                              flipped |-> flips, blank |-> t = FreshTrack,
                              raced |-> FALSE, ended |-> FALSE, outcome |-> "none"]]
    BY <1>10 DEF Invoke
  <2>2. /\ sending'[a].blank = (track[a] = FreshTrack)
        /\ \A b \in Agents : b # a => track'[b] = track[b] /\ sending'[b] = sending[b]
    BY <1>1, <2>1
  <2>3. /\ track'[a].closed = ((done /\ ~track[a].localDone) /\ track[a].remoteDone)
        /\ track'[a].remoteDone = track[a].remoteDone
    BY <1>1, <2>1 DEF Track
  <2>4. track[a] = FreshTrack => ~track[a].remoteDone
    BY DEF FreshTrack
  <2> QED  BY <1>9, <2>2, <2>3, <2>4
<1>11. ASSUME NEW a \in Agents, Dispatch(a) PROVE BlankInv'
  BY <1>3, <1>11 DEF Dispatch, wrapperVars
<1>12. ASSUME NEW a \in Agents, RejectHere(a) PROVE BlankInv'
  <2>1. /\ sending[a] \in Sending /\ sending[a] # None
        /\ sending' = [sending EXCEPT ![a].outcome = "refused"] /\ UNCHANGED track
    BY <1>1, <1>12 DEF RejectHere, Prepared
  <2>2. /\ sending'[a].blank = sending[a].blank /\ sending'[a].raced = sending[a].raced
        /\ \A b \in Agents : b # a => sending'[b] = sending[b]
    BY <1>1, <2>1
  <2>3. sending[a].blank /\ ~sending[a].raced => ~track[a].closed /\ ~track[a].remoteDone
    BY <2>1 DEF BlankInv
  <2> QED  BY <1>9, <2>1, <2>2, <2>3
<1>13. ASSUME NEW a \in Agents, Resolve(a) PROVE BlankInv'
  <2>1. /\ sending'[a] = None
        /\ \A b \in Agents : b # a => sending'[b] = sending[b] /\ track'[b] = track[b]
    BY <1>1, <1>13 DEF Resolve
  <2> QED  BY <1>9, <2>1
<1>14. ASSUME NEW a \in Agents, GiveUp(a) PROVE BlankInv'
  <2>1. /\ sending'[a] = None
        /\ \A b \in Agents : b # a => sending'[b] = sending[b] /\ track'[b] = track[b]
    BY <1>1, <1>14 DEF GiveUp
  <2> QED  BY <1>9, <2>1
<1>15. ASSUME NEW a \in Agents, NEW m, Take(a, m) PROVE BlankInv'
  <2>1. \/ UNCHANGED <<track, sending>>
        \/ sending' = Raced(a) /\ \A b \in Agents : b # a => track'[b] = track[b]
    BY <1>1, <1>15 DEF Take
  <2>2. CASE sending' = Raced(a) /\ \A b \in Agents : b # a => track'[b] = track[b]
    <3>1. KeptMade /\ (sending[a] # None => sending'[a].raced)
      BY <2>2, RacedKept
    <3> QED  BY <2>2, <3>1 DEF BlankInv, KeptMade
  <2> QED  BY <1>3, <2>1, <2>2
<1>16. ASSUME NEW a \in Agents, NEW m, Drop(a, m) PROVE BlankInv'
  <2>1. \/ UNCHANGED <<track, sending>>
        \/ sending' = Raced(a) /\ \A b \in Agents : b # a => track'[b] = track[b]
    BY <1>1, <1>16 DEF Drop
  <2>2. CASE sending' = Raced(a) /\ \A b \in Agents : b # a => track'[b] = track[b]
    <3>1. KeptMade /\ (sending[a] # None => sending'[a].raced)
      BY <2>2, RacedKept
    <3> QED  BY <2>2, <3>1 DEF BlankInv, KeptMade
  <2> QED  BY <1>3, <2>1, <2>2
<1>17. ASSUME NEW a \in Agents, Receive(a) PROVE BlankInv'
  BY <1>15, <1>16, <1>17 DEF Receive
<1>18. ASSUME NEW a \in Agents, BeginTurn(a) PROVE BlankInv'
  BY <1>2, <1>18, EndedKept, BlankSame DEF BeginTurn
<1>19. ASSUME NEW a \in Agents, TurnFails(a) PROVE BlankInv'
  BY <1>19, EndedKept, TurnTaken, BlankSame DEF TurnFails
<1>20. ASSUME NEW a \in Agents, WrapperRestart(a) PROVE BlankInv'
  <2>1. /\ sending'[a] = None
        /\ \A b \in Agents : b # a => sending'[b] = sending[b] /\ track'[b] = track[b]
    BY <1>1, <1>20 DEF WrapperRestart
  <2> QED  BY <1>9, <2>1
<1>21. CASE UNCHANGED vars
  BY <1>3, <1>21 DEF vars, wrapperVars
<1> QED
  BY <1>5, <1>6, <1>7, <1>8, <1>10, <1>11, <1>12, <1>13, <1>14, <1>17, <1>18, <1>19, <1>20, <1>21
     DEF Next

\* What the two ends may disagree for is never forgotten.
LEMMA DoubtStays ==
  ASSUME [Next]_vars
  PROVE  doubt \subseteq doubt'
<1>1. CASE CloseByServer \/ TrackerRestart
  BY <1>1 DEF CloseByServer, TrackerRestart, history
<1>2. ASSUME NEW a \in Agents, Record(a) \/ Refuse(a) PROVE doubt \subseteq doubt'
  BY <1>2 DEF Record, Refuse
<1>3. ASSUME NEW a \in Agents, Invoke(a) \/ Dispatch(a) \/ RejectHere(a) \/ Resolve(a) \/ GiveUp(a)
      PROVE  doubt \subseteq doubt'
  BY <1>3 DEF Invoke, Dispatch, RejectHere, Resolve, GiveUp, history
<1>4. ASSUME NEW a \in Agents, Receive(a) PROVE doubt \subseteq doubt'
  BY <1>4 DEF Receive, Take, Drop
<1>5. ASSUME NEW a \in Agents, BeginTurn(a) \/ TurnFails(a) \/ WrapperRestart(a)
      PROVE  doubt \subseteq doubt'
  BY <1>5 DEF BeginTurn, TurnFails, WrapperRestart, history
<1>6. CASE UNCHANGED vars
  BY <1>6 DEF vars, history
<1> QED
  BY <1>1, <1>2, <1>3, <1>4, <1>5, <1>6 DEF Next

\* Nothing has been given up before a state in which nothing has been given up.
LEMMA SureBefore ==
  ASSUME [Next]_vars, Sure'
  PROVE  Sure /\ \A a \in Agents : ~GiveUp(a)
<1>1. \A a \in Agents : ~GiveUp(a)
  BY DEF GiveUp, Sure
<1>2. doubt \subseteq doubt'
  BY DoubtStays
<1> QED  BY <1>1, <1>2 DEF Sure

\* Every step but the one that gives up a send leaves only envelopes that are waited for.
LEMMA NextAsked == TypeOK /\ AskedInv /\ [Next]_vars => AskedInv'
<1> SUFFICES ASSUME TypeOK, AskedInv, [Next]_vars, Sure'
             PROVE  \A a \in Agents : \A i \in DOMAIN up'[a] :
                       up'[a][i].kind = "ordinary" => up'[a][i].asked
  BY DEF AskedInv
<1>1. up \in [Agents -> Seq(Envelope)]
  BY DEF TypeOK
<1>2. Sure /\ \A a \in Agents : ~GiveUp(a)
  BY SureBefore
<1>3. \A a \in Agents : \A i \in DOMAIN up[a] : up[a][i].kind = "ordinary" => up[a][i].asked
  BY <1>2 DEF AskedInv
<1> DEFINE Right(s) == \A i \in DOMAIN s : s[i].kind = "ordinary" => s[i].asked
<1>4. ASSUME NEW a \in Agents, up[a] # <<>>, up' = [up EXCEPT ![a] = Tail(@)]
      PROVE  \A b \in Agents : Right(up'[b])
  <2>1. up'[a] = Tail(up[a]) /\ \A b \in Agents : b # a => up'[b] = up[b]
    BY <1>1, <1>4
  <2>2. \A i \in DOMAIN up'[a] : i + 1 \in DOMAIN up[a] /\ up'[a][i] = up[a][i + 1]
    BY <1>1, <1>4, <2>1, TailElems
  <2> QED  BY <1>3, <2>1, <2>2
<1>5. ASSUME NEW a \in Agents, NEW x \in Envelope, x.kind = "ordinary" => x.asked,
             up' = [up EXCEPT ![a] = Append(@, x)]
      PROVE  \A b \in Agents : Right(up'[b])
  <2>1. up'[a] = Append(up[a], x) /\ \A b \in Agents : b # a => up'[b] = up[b]
    BY <1>1, <1>5
  <2>2. \A i \in DOMAIN up'[a] : (i \in DOMAIN up[a] /\ up'[a][i] = up[a][i]) \/ up'[a][i] = x
    BY <1>1, <2>1, AppendElems
  <2> QED  BY <1>3, <1>5, <2>1, <2>2
<1>6. ASSUME NEW a \in Agents, NEW k \in NoticeKinds,
             up' = [up EXCEPT ![a] = Append(@, Notice(k, NextTurn(track[a])))]
      PROVE  \A b \in Agents : Right(up'[b])
  <2>1. Notice(k, NextTurn(track[a])) \in Envelope
    BY NoticeTyped
  <2>2. Notice(k, NextTurn(track[a])).kind # "ordinary"
    BY DEF Notice, NoticeKinds
  <2> QED  BY <1>5, <1>6, <2>1, <2>2
<1>7. ASSUME UNCHANGED up PROVE \A b \in Agents : Right(up'[b])
  BY <1>3, <1>7
<1>8. ASSUME NEW a \in Agents, Dispatch(a) PROVE \A b \in Agents : Right(up'[b])
  <2> DEFINE x == [kind |-> "ordinary", turn |-> sending[a].turn, done |-> sending[a].done,
                   basis |-> sending[a].basis, new |-> sending[a].new, asked |-> TRUE]
  <2>1. up' = [up EXCEPT ![a] = Append(@, x)]
    BY <1>8 DEF Dispatch
  <2>2. up'[a] = Append(up[a], x) /\ \A b \in Agents : b # a => up'[b] = up[b]
    BY <1>1, <2>1
  <2>3. x.asked
    OBVIOUS
  <2>4. \A i \in DOMAIN up'[a] : (i \in DOMAIN up[a] /\ up'[a][i] = up[a][i]) \/ up'[a][i] = x
    <3>1. up[a] \in Seq(Envelope)
      BY <1>1
    <3>2. Append(up[a], x) = [i \in 1..Len(up[a]) + 1 |-> IF i = Len(up[a]) + 1 THEN x ELSE up[a][i]]
      OBVIOUS
    <3>3. Len(up[a]) \in Nat /\ DOMAIN up[a] = 1..Len(up[a])
      BY <3>1, LenProperties
    <3> HIDE DEF x
    <3> QED  BY <2>2, <3>2, <3>3
  <2> HIDE DEF x
  <2> QED  BY <1>3, <2>2, <2>3, <2>4
<1>9. ASSUME NEW a \in Agents, WrapperRestart(a) PROVE \A b \in Agents : Right(up'[b])
  <2>1. up'[a] = <<>> /\ \A b \in Agents : b # a => up'[b] = up[b]
    BY <1>1, <1>9 DEF WrapperRestart
  <2> QED  BY <1>3, <2>1, EmptySeq
<1>10. ASSUME NEW a \in Agents, Receive(a) PROVE \A b \in Agents : Right(up'[b])
  <2>1. "stale_delivery" \in NoticeKinds
    BY DEF NoticeKinds
  <2>2. UNCHANGED up \/ up' = [up EXCEPT ![a] = Append(@, Notice("stale_delivery", NextTurn(track[a])))]
    BY <1>10 DEF Receive, Take, Drop
  <2> QED  BY <1>6, <1>7, <2>1, <2>2
<1>11. ASSUME NEW a \in Agents, TurnFails(a) PROVE \A b \in Agents : Right(up'[b])
  <2>1. "turn_failure" \in NoticeKinds
    BY DEF NoticeKinds
  <2> QED  BY <1>6, <1>11, <2>1 DEF TurnFails
<1>12. ASSUME NEW a \in Agents, Record(a) \/ Refuse(a) PROVE \A b \in Agents : Right(up'[b])
  BY <1>4, <1>12 DEF Record, Refuse
<1>13. ASSUME NEW a \in Agents, Invoke(a) \/ RejectHere(a) \/ Resolve(a) \/ BeginTurn(a)
       PROVE  \A b \in Agents : Right(up'[b])
  BY <1>7, <1>13 DEF Invoke, RejectHere, Resolve, BeginTurn, wireVars
<1>14. CASE CloseByServer \/ TrackerRestart \/ UNCHANGED vars
  BY <1>7, <1>14 DEF CloseByServer, TrackerRestart, vars, wireVars
<1>15. \A b \in Agents : Right(up'[b])
  BY <1>2, <1>8, <1>9, <1>10, <1>11, <1>12, <1>13, <1>14 DEF Next
<1> QED  BY <1>15

-----------------------------------------------------------------------------
(* The opening.                                                            *)

\* Before the opening is answered, what leaves the sends and the ends alone leaves all untouched.
LEMMA UntouchedKept ==
  ASSUME Untouched, KeptMade, KeptEnd, UNCHANGED <<conv, silenced, down, closing, handed, knows>>
  PROVE  Untouched'
  BY DEF Untouched, KeptMade, KeptEnd, Gated

\* A send that keeps its answer opens the conversation as it did before.
LEMMA OpeningBefore ==
  ASSUME KeptMade, KeptAnswer, UNCHANGED knows, Opening'
  PROVE  Opening
  BY AgentsAssumption DEF Opening, KeptMade, KeptAnswer

\* An invoked send is under way.
LEMMA InvokeSends ==
  ASSUME TypeOK, NEW a \in Agents, Invoke(a)
  PROVE  sending'[a] # None
<1>1. /\ track[a] \in Track /\ basis[a] \in Nat /\ sending \in [Agents -> Sending \cup {None}]
  BY DEF TypeOK, Track
<1>2. PICK done \in BOOLEAN : sending'[a] =
             [turn |-> NextTurn(track[a]), done |-> done, basis |-> basis[a], new |-> a \notin knows,
              flipped |-> done /\ ~track[a].localDone, blank |-> track[a] = FreshTrack,
              raced |-> FALSE, ended |-> FALSE, outcome |-> "none"]
  BY <1>1 DEF Invoke
<1>3. NextTurn(track[a]) \in Nat /\ "none" \in Outcomes
  BY <1>1 DEF NextTurn, Track, Outcomes
<1>4. (done /\ ~track[a].localDone) \in BOOLEAN /\ (a \notin knows) \in BOOLEAN
      /\ (track[a] = FreshTrack) \in BOOLEAN
  OBVIOUS
<1>5. sending'[a] \in Sending
  BY <1>1, <1>2, <1>3, <1>4 DEF Sending
<1> QED  BY <1>5, NoneAssumption

\* Only the opener sends before the opening is answered.
LEMMA OnlyStarterSends ==
  ASSUME WireInv, Untouched, NEW a \in Agents, sending[a] # None
  PROVE  a = Starter
  BY DEF WireInv, Untouched

\* Every step leaves all untouched until the send that opens the conversation is answered.
LEMMA NextOpening == TypeOK /\ WireInv /\ AskedInv /\ OpeningInv /\ [Next]_vars => OpeningInv'
<1> SUFFICES ASSUME TypeOK, WireInv, AskedInv, OpeningInv, [Next]_vars, Sure', Opening' PROVE Untouched'
  BY DEF OpeningInv
<1>1. /\ track \in [Agents -> Track] /\ sending \in [Agents -> Sending \cup {None}]
      /\ up \in [Agents -> Seq(Envelope)]
  BY DEF TypeOK, Track
<1>2. Sure /\ \A a \in Agents : ~GiveUp(a)
  BY SureBefore
<1>3. ASSUME UNCHANGED track PROVE KeptEnd
  BY <1>3 DEF KeptEnd
<1>4. Opening => Untouched
  BY <1>2 DEF OpeningInv
<1>5. \A a \in Agents, o \in {"none", "accepted", "refused"} : o \in Outcomes /\ Rejection(a, Head(up[a])) \in Outcomes
  BY DEF Outcomes, Rejection
<1>6. ASSUME KeptMade, KeptAnswer, KeptEnd, UNCHANGED <<conv, silenced, down, closing, handed, knows>>
      PROVE  Untouched'
  BY <1>4, <1>6, OpeningBefore, UntouchedKept
<1>7. ASSUME NEW a \in Agents, up[a] # <<>>, NEW o \in Outcomes, o # "none",
             sending' = Answered(a, Head(up[a]), o), UNCHANGED knows
      PROVE  /\ Opening /\ KeptMade
             /\ ~(Head(up[a]).asked /\ Head(up[a]).new)
  <2>1. KeptMade /\ \A b \in Agents : sending[b] # None =>
              sending'[b].outcome = IF b = a /\ Head(up[a]).asked THEN o ELSE sending[b].outcome
    BY <1>7, AnsweredKept
  <2>2. CASE Starter \notin knows
    <3>1. 1 \in DOMAIN up[a] /\ Head(up[a]) = up[a][1]
      BY <1>1, <1>7, TailElems
    <3>2. ~(Head(up[a]).asked /\ Head(up[a]).new)
      BY <2>2, <3>1 DEF WireInv
    <3> QED  BY <2>1, <2>2, <3>2 DEF Opening
  <2>3. CASE Starter \in knows
    <3>1. sending'[Starter] # None /\ sending'[Starter].new /\ sending'[Starter].outcome = "none"
      BY <1>7, <2>3 DEF Opening
    <3>2. sending[Starter] # None /\ sending[Starter].new
      BY <2>1, <3>1, AgentsAssumption DEF KeptMade
    <3>3. sending[Starter].outcome = "none" /\ ~(a = Starter /\ Head(up[a]).asked)
      BY <1>7, <2>1, <3>1, <3>2, AgentsAssumption
    <3>4. 1 \in DOMAIN up[a] /\ Head(up[a]) = up[a][1]
      BY <1>1, <1>7, TailElems
    <3>5. ~(Head(up[a]).asked /\ Head(up[a]).new)
      BY <3>3, <3>4 DEF WireInv
    <3> QED  BY <2>1, <3>2, <3>3, <3>5 DEF Opening
  <2> QED  BY <2>2, <2>3
<1>8. ASSUME NEW a \in Agents, Record(a) PROVE Untouched'
  <2> DEFINE m == Head(up[a])
  <2>1. up[a] # <<>> /\ UNCHANGED <<track, handed, knows, silenced>>
    BY <1>8 DEF Record
  <2>2. m.new => m.kind = "ordinary" /\ m.asked
    <3>1. 1 \in DOMAIN up[a] /\ m = up[a][1] /\ m \in Envelope
      BY <1>1, <2>1, TailElems
    <3>2. m.kind \in NoticeKinds \/ m.kind = "ordinary"
      BY <3>1 DEF Envelope
    <3> HIDE DEF m
    <3> QED  BY <1>2, <3>1, <3>2 DEF WireInv, AskedInv
  <2>3. CASE Rejection(a, m) = "none"
    <3>1. sending' = Answered(a, m, "accepted")
      BY <1>8, <2>3 DEF Record
    <3>2. Opening /\ ~(m.asked /\ m.new)
      BY <1>5, <1>7, <2>1, <3>1
    <3>3. m.new
      BY <1>4, <2>3, <3>2 DEF Untouched, Rejection
    <3> QED  BY <2>2, <3>2, <3>3
  <2>4. CASE Rejection(a, m) # "none"
    <3>1. sending' = Answered(a, m, Rejection(a, m)) /\ UNCHANGED <<conv, down, closing>>
      BY <1>8, <2>4 DEF Record
    <3>2. Opening /\ KeptMade
      BY <1>5, <1>7, <2>1, <2>4, <3>1
    <3> QED  BY <1>3, <1>4, <2>1, <3>1, <3>2, UntouchedKept
  <2> QED  BY <2>3, <2>4
<1>9. ASSUME NEW a \in Agents, Refuse(a) PROVE Untouched'
  <2>1. /\ up[a] # <<>> /\ UNCHANGED <<conv, track, handed, knows, down, closing, silenced>>
        /\ sending' = Answered(a, Head(up[a]), "refused")
    BY <1>9 DEF Refuse
  <2>2. Opening /\ KeptMade
    BY <1>5, <1>7, <2>1
  <2> QED  BY <1>3, <1>4, <2>1, <2>2, UntouchedKept
<1>10. CASE CloseByServer
  <2>1. KeptMade /\ KeptAnswer /\ UNCHANGED knows
    BY <1>10, SameKept DEF CloseByServer, wrapperVars
  <2>2. conv.status = "none"
    BY <1>4, <2>1, OpeningBefore DEF Untouched
  <2> QED  BY <1>10, <2>2 DEF CloseByServer
<1>11. CASE TrackerRestart
  <2>1. KeptMade /\ KeptAnswer /\ UNCHANGED knows
    BY <1>11, SameKept DEF TrackerRestart, wrapperVars
  <2>2. conv.status = "none"
    BY <1>4, <2>1, OpeningBefore DEF Untouched
  <2> QED  BY <1>11, <2>2 DEF TrackerRestart
<1>12. ASSUME NEW a \in Agents, Invoke(a) PROVE Untouched'
  <2>1. /\ UNCHANGED <<conv, silenced, down, closing, handed>> /\ knows' = knows \cup {a}
        /\ sending[a] = None /\ (a = Starter \/ a \in knows)
    BY <1>12 DEF Invoke, serverVars, wireVars, history
  <2>2. PICK done \in BOOLEAN :
          /\ track' = [track EXCEPT ![a] =
                           [track[a] EXCEPT !.turn = NextTurn(track[a]),
                                     !.localDone = @ \/ done,
                                     !.closed = (done /\ ~track[a].localDone) /\ track[a].remoteDone]]
          /\ sending' = [sending EXCEPT ![a] =
                             [turn |-> NextTurn(track[a]), done |-> done, basis |-> basis[a],
                              new |-> a \notin knows,
                              flipped |-> done /\ ~track[a].localDone, blank |-> track[a] = FreshTrack,
                              raced |-> FALSE, ended |-> FALSE, outcome |-> "none"]]
    BY <1>12 DEF Invoke
  <2>3. /\ sending'[a].flipped = (done /\ ~track[a].localDone) /\ sending'[a].new = (a \notin knows)
        /\ \A b \in Agents : b # a => track'[b] = track[b] /\ sending'[b] = sending[b]
    BY <1>1, <2>2
  <2>4. /\ track'[a].closed = ((done /\ ~track[a].localDone) /\ track[a].remoteDone)
        /\ track'[a].remoteDone = track[a].remoteDone
        /\ track'[a].localDone = (track[a].localDone \/ done)
    BY <1>1, <2>2 DEF Track
  <2>5. sending'[a] # None
    BY <1>12, InvokeSends
  <2>6. Opening /\ a = Starter
    <3>1. CASE a = Starter
      <4>1. Starter \notin knows
        BY <2>1, <2>3, <3>1 DEF Opening
      <4> QED  BY <3>1, <4>1 DEF Opening
    <3>2. CASE a # Starter
      <4>1. Opening
        BY <2>1, <2>3, <3>2, AgentsAssumption DEF Opening
      <4> QED  BY <1>4, <2>1, <3>2, <4>1 DEF Untouched
    <3> QED  BY <3>1, <3>2
  <2>7. track'[a].localDone => sending'[a].flipped
    <3>1. ~track[a].localDone
      BY <1>4, <2>1, <2>6 DEF Untouched, Gated
    <3> QED  BY <2>3, <2>4, <3>1
  <2> QED  BY <1>4, <2>1, <2>3, <2>4, <2>5, <2>6, <2>7 DEF Untouched, Gated
<1>13. ASSUME NEW a \in Agents, Dispatch(a) PROVE Untouched'
  BY <1>3, <1>6, <1>13, SameKept DEF Dispatch, serverVars, wrapperVars, history
<1>14. ASSUME NEW a \in Agents, NEW o, o # "none", sending[a] # None, UNCHANGED knows,
              \A b \in Agents : b # a => sending'[b] = sending[b],
              sending'[a] = None \/ sending'[a].outcome = o
       PROVE  FALSE
  <2>1. a \in knows
    BY <1>14 DEF WireInv
  <2>2. a # Starter
    BY <1>14, <2>1 DEF Opening
  <2>3. Opening
    BY <1>14, <2>2, AgentsAssumption DEF Opening
  <2> QED  BY <1>4, <1>14, <2>2, <2>3, OnlyStarterSends
<1>15. ASSUME NEW a \in Agents, RejectHere(a) PROVE Untouched'
  <2>1. sending[a] # None /\ UNCHANGED knows /\ sending[a] \in Sending
        /\ sending' = [sending EXCEPT ![a].outcome = "refused"]
    BY <1>1, <1>15 DEF RejectHere, Prepared
  <2>2. sending'[a].outcome = "refused" /\ \A b \in Agents : b # a => sending'[b] = sending[b]
    BY <1>1, <2>1 DEF Sending
  <2> QED  BY <1>14, <2>1, <2>2
<1>16. ASSUME NEW a \in Agents, Resolve(a) PROVE Untouched'
  <2>1. /\ sending[a] # None /\ UNCHANGED knows /\ sending'[a] = None
        /\ \A b \in Agents : b # a => sending'[b] = sending[b]
    BY <1>1, <1>16 DEF Resolve
  <2> QED  BY <1>14, <2>1
<1>17. ASSUME NEW a \in Agents, Receive(a) PROVE Untouched'
  <2>1. UNCHANGED knows /\ (UNCHANGED sending \/ sending' = Raced(a))
    BY <1>17 DEF Receive, Take, Drop
  <2>2. Untouched
    BY <1>4, <2>1, SameKept, RacedKept, OpeningBefore
  <2> QED  BY <1>17, <2>2 DEF Receive, Untouched
<1>18. ASSUME NEW a \in Agents, BeginTurn(a) PROVE Untouched'
  <2>1. KeptMade /\ KeptAnswer /\ knows \subseteq knows'
    BY <1>18, EndedKept DEF BeginTurn
  <2>2. Opening
    BY <2>1, AgentsAssumption DEF Opening, KeptMade, KeptAnswer
  <2> QED  BY <1>4, <1>18, <2>2 DEF BeginTurn, Untouched
<1>19. ASSUME NEW a \in Agents, TurnFails(a) PROVE Untouched'
  BY <1>6, <1>19, EndedKept, TurnTaken DEF TurnFails, serverVars, history
<1>20. ASSUME NEW a \in Agents, WrapperRestart(a) PROVE Untouched'
  <2>1. /\ UNCHANGED <<conv, knows, down, closing>> /\ silenced' = silenced \ {a}
        /\ sending'[a] = None /\ track'[a] = FreshTrack /\ handed'[a] = [wake |-> FALSE, turn |-> 0]
        /\ \A b \in Agents : b # a => /\ sending'[b] = sending[b] /\ track'[b] = track[b]
                                      /\ handed'[b] = handed[b]
    BY <1>1, <1>20 DEF WrapperRestart, serverVars, TypeOK
  <2>2. Opening
    BY <2>1, AgentsAssumption DEF Opening
  <2>3. ~FreshTrack.closed /\ ~FreshTrack.remoteDone /\ ~FreshTrack.localDone
    BY DEF FreshTrack
  <2>4. ~handed'[a].wake
    BY <2>1
  <2> QED  BY <1>4, <2>1, <2>2, <2>3, <2>4 DEF Untouched, Gated
<1>21. CASE UNCHANGED vars
  BY <1>3, <1>6, <1>21, SameKept DEF vars, serverVars, wrapperVars, wireVars, history
<1> QED
  BY <1>2, <1>8, <1>9, <1>10, <1>11, <1>12, <1>13, <1>15, <1>16, <1>17, <1>18, <1>19, <1>20, <1>21
     DEF Next

-----------------------------------------------------------------------------
(* The open conversation.                                                  *)

\* Two dones are those of both agents.
LEMMA BothDone ==
  ASSUME NEW D \in SUBSET Agents, NEW a \in Agents, a \in D, Peer(a) \in D
  PROVE  D = Agents
  BY Peers

\* A send that is kept, or answered with neither an acceptance nor an end.
AnswerHarmless ==
    \A b \in Agents : sending[b] # None =>
        \/ sending'[b].outcome = sending[b].outcome
        \/ sending'[b].outcome \notin {"accepted", "conversation_closed"}

\* Nothing comes to a wrapper that was not on its way.
DownShrinks == \A b \in Agents : \A i \in DOMAIN down'[b] : \E j \in DOMAIN down[b] : down'[b][i] = down[b][j]

\* A step that neither ends anything nor learns of an end keeps the ends in agreement.
LEMMA AgreeKept ==
  ASSUME EndsAgree, KeptMade, KeptEnd, AnswerHarmless, DownShrinks, UNCHANGED <<conv, silenced, closing>>
  PROVE  EndsAgree'
<1>1. ASSUME NEW a \in Agents
      PROVE  (Gated(a))' <=> Gated(a)
  BY DEF KeptMade, Gated
<1>2. ASSUME NEW a \in Agents PROVE
         /\ track'[a].closed => (Gated(a))' /\ track'[a].remoteDone
         /\ track'[a].localDone /\ ~(Gated(a))' => a \in conv'.doneBy
         /\ track'[a].remoteDone => Peer(a) \in conv'.doneBy
  BY <1>1 DEF EndsAgree, Agrees, KeptEnd
<1>3. ASSUME NEW a \in Agents, NEW i \in DOMAIN down'[a]
      PROVE  down'[a][i].kind # "end" /\ (down'[a][i].done => Peer(a) \in conv'.doneBy)
  BY DEF EndsAgree, Agrees, DownShrinks
<1>4. ASSUME NEW a \in Agents, sending'[a] # None PROVE
           /\ sending'[a].outcome # "conversation_closed"
           /\ sending'[a].outcome = "accepted" /\ sending'[a].done => a \in conv'.doneBy
  <2>1. sending[a] # None /\ sending'[a].done = sending[a].done
    BY <1>4 DEF KeptMade
  <2> QED  BY <2>1 DEF EndsAgree, Agrees, AnswerHarmless
<1> QED  BY <1>2, <1>3, <1>4 DEF EndsAgree, Agrees

\* A kept answer is harmless, and an unchanged queue does not grow.
LEMMA AgreeSame ==
  /\ KeptAnswer => AnswerHarmless
  /\ UNCHANGED down => DownShrinks
  BY DEF KeptAnswer, AnswerHarmless, DownShrinks

\* While the conversation is open, a step keeps all the ends in agreement.
LEMMA NextOpen ==
  TypeOK /\ WireInv /\ BlankInv /\ AskedInv /\ OpeningInv /\ OpenInv /\ [Next]_vars => OpenInv'
<1> SUFFICES ASSUME TypeOK, WireInv, BlankInv, AskedInv, OpeningInv, OpenInv, [Next]_vars,
                    Sure', conv'.status = "open"
             PROVE  EndsAgree'
  BY DEF OpenInv
<1>1. /\ track \in [Agents -> Track] /\ sending \in [Agents -> Sending \cup {None}]
      /\ up \in [Agents -> Seq(Envelope)] /\ down \in [Agents -> Seq(Inbound)]
      /\ closing \in [Agents -> BOOLEAN] /\ conv \in Entry
  BY DEF TypeOK, Track, Entry
<1>2. Sure /\ \A a \in Agents : ~GiveUp(a)
  BY SureBefore
<1>3. ASSUME UNCHANGED track PROVE KeptEnd
  BY <1>3 DEF KeptEnd
<1>4. UNCHANGED conv => EndsAgree
  BY <1>2 DEF OpenInv
<1>5. \A a \in Agents, o \in {"none", "accepted", "refused"} : o \in Outcomes /\ Rejection(a, Head(up[a])) \in Outcomes
  BY DEF Outcomes, Rejection
<1>6. ASSUME KeptMade, KeptAnswer, KeptEnd, UNCHANGED <<conv, silenced, down, closing>> PROVE EndsAgree'
  BY <1>4, <1>6, AgreeKept, AgreeSame
<1>7. conv.doneBy \in SUBSET Agents
  BY <1>1 DEF Entry
<1>8. ASSUME NEW a \in Agents, Record(a), Rejection(a, Head(up[a])) # "none" PROVE EndsAgree'
  <2> DEFINE m == Head(up[a])
  <2>1. /\ up[a] # <<>> /\ UNCHANGED <<track, silenced, conv, down, closing>>
        /\ sending' = Answered(a, m, Rejection(a, m))
    BY <1>8 DEF Record
  <2>2. Rejection(a, m) \notin {"accepted", "conversation_closed"}
    BY <2>1 DEF Rejection
  <2>3. KeptMade /\ AnswerHarmless
    BY <1>5, <2>1, <2>2, AnsweredKept DEF AnswerHarmless
  <2> QED  BY <1>3, <1>4, <2>1, <2>3, AgreeKept, AgreeSame
<1>9. ASSUME NEW a \in Agents, Refuse(a) PROVE EndsAgree'
  <2>1. /\ up[a] # <<>> /\ UNCHANGED <<track, silenced, conv, down, closing>>
        /\ sending' = Answered(a, Head(up[a]), "refused")
    BY <1>9 DEF Refuse
  <2>2. KeptMade /\ AnswerHarmless
    BY <1>5, <2>1, AnsweredKept DEF AnswerHarmless
  <2> QED  BY <1>3, <1>4, <2>1, <2>2, AgreeKept, AgreeSame
<1>10. ASSUME NEW a \in Agents, Dispatch(a) PROVE EndsAgree'
  BY <1>3, <1>6, <1>10, SameKept DEF Dispatch, serverVars, wrapperVars, history
<1>11. ASSUME NEW a \in Agents, BeginTurn(a) PROVE EndsAgree'
  BY <1>3, <1>6, <1>11, EndedKept DEF BeginTurn, serverVars, wireVars, history
<1>12. ASSUME NEW a \in Agents, TurnFails(a) PROVE EndsAgree'
  BY <1>6, <1>12, EndedKept, TurnTaken DEF TurnFails, serverVars, history
<1>13. CASE UNCHANGED vars
  BY <1>3, <1>6, <1>13, SameKept DEF vars, serverVars, wrapperVars, wireVars, history
<1>14. CASE CloseByServer
  BY <1>1, <1>14 DEF CloseByServer, Entry
<1>15. CASE TrackerRestart
  BY <1>15 DEF TrackerRestart, NoConversation
<1>16. ASSUME NEW a \in Agents, UNCHANGED <<conv, closing>>, silenced' \subseteq silenced,
              \A b \in Agents : b # a => /\ sending'[b] = sending[b] /\ track'[b] = track[b]
                                        /\ down'[b] = down[b],
              EndsAgree => Agrees(a)'
       PROVE  EndsAgree'
  BY <1>4, <1>16 DEF EndsAgree, Agrees, Gated
<1>17. ASSUME NEW a \in Agents, Invoke(a) PROVE EndsAgree'
  <2>1. UNCHANGED <<conv, silenced, down, closing>> /\ sending[a] = None
    BY <1>17 DEF Invoke, serverVars, wireVars, history
  <2>2. PICK done \in BOOLEAN :
          /\ track' = [track EXCEPT ![a] =
                           [track[a] EXCEPT !.turn = NextTurn(track[a]),
                                     !.localDone = @ \/ done,
                                     !.closed = (done /\ ~track[a].localDone) /\ track[a].remoteDone]]
          /\ sending' = [sending EXCEPT ![a] =
                             [turn |-> NextTurn(track[a]), done |-> done, basis |-> basis[a],
                              new |-> a \notin knows,
                              flipped |-> done /\ ~track[a].localDone, blank |-> track[a] = FreshTrack,
                              raced |-> FALSE, ended |-> FALSE, outcome |-> "none"]]
    BY <1>17 DEF Invoke
  <2>3. /\ sending'[a].flipped = (done /\ ~track[a].localDone) /\ sending'[a].outcome = "none"
        /\ \A b \in Agents : b # a => track'[b] = track[b] /\ sending'[b] = sending[b]
    BY <1>1, <2>2
  <2>4. /\ track'[a].closed = ((done /\ ~track[a].localDone) /\ track[a].remoteDone)
        /\ track'[a].remoteDone = track[a].remoteDone
        /\ track'[a].localDone = (track[a].localDone \/ done)
    BY <1>1, <2>2 DEF Track
  <2>5. sending'[a] # None
    BY <1>17, InvokeSends
  <2>6. ASSUME EndsAgree PROVE Agrees(a)'
    <3>1. track[a].localDone => a \in conv.doneBy
      BY <2>1, <2>6 DEF EndsAgree, Agrees, Gated
    <3> QED  BY <2>1, <2>3, <2>4, <2>5, <2>6, <3>1 DEF EndsAgree, Agrees, Gated
  <2> QED  BY <1>16, <2>1, <2>3, <2>6
<1>18. ASSUME NEW a \in Agents, RejectHere(a) PROVE EndsAgree'
  <2>1. /\ sending[a] # None /\ sending[a] \in Sending
        /\ UNCHANGED <<conv, track, silenced, down, closing>>
        /\ sending' = [sending EXCEPT ![a].outcome = "refused"]
    BY <1>1, <1>18 DEF RejectHere, Prepared, serverVars, wireVars, history
  <2>2. /\ sending'[a].outcome = "refused" /\ sending'[a].flipped = sending[a].flipped
        /\ sending'[a] \in Sending
        /\ \A b \in Agents : b # a => sending'[b] = sending[b]
    BY <1>1, <1>5, <2>1 DEF Sending
  <2>3. EndsAgree => Agrees(a)'
    BY <2>1, <2>2, NoneAssumption DEF EndsAgree, Agrees, Gated
  <2> QED  BY <1>16, <2>1, <2>2, <2>3
<1>19. ASSUME NEW a \in Agents, WrapperRestart(a) PROVE EndsAgree'
  <2>1. /\ UNCHANGED <<conv, down, closing>> /\ silenced' \subseteq silenced
        /\ sending'[a] = None /\ track'[a] = FreshTrack
        /\ \A b \in Agents : b # a => sending'[b] = sending[b] /\ track'[b] = track[b]
    BY <1>1, <1>19 DEF WrapperRestart, serverVars
  <2>2. ~FreshTrack.closed /\ ~FreshTrack.remoteDone /\ ~FreshTrack.localDone
    BY DEF FreshTrack
  <2>3. EndsAgree => Agrees(a)'
    BY <2>1, <2>2 DEF EndsAgree, Agrees, Gated
  <2> QED  BY <1>16, <2>1, <2>3
<1>20. ASSUME NEW a \in Agents, Resolve(a) PROVE EndsAgree'
  <2>1. /\ UNCHANGED <<conv, silenced, down, closing>> /\ sending[a] # None /\ sending'[a] = None
        /\ \A b \in Agents : b # a => sending'[b] = sending[b] /\ track'[b] = track[b]
    BY <1>1, <1>20 DEF Resolve, serverVars, wireVars, history
  <2>2. ASSUME EndsAgree PROVE Agrees(a)'
    <3>1. CASE sending[a].outcome = "accepted"
      <4>1. track'[a] = track[a]
        BY <1>20, <3>1 DEF Resolve
      <4>2. Gated(a) => a \in conv.doneBy
        BY <2>1, <2>2, <3>1 DEF EndsAgree, Agrees, Gated, WireInv
      <4>3. ~track[a].closed
        BY <1>7, <2>2, <4>2, BothDone DEF EndsAgree, Agrees
      <4> QED  BY <2>1, <2>2, <4>1, <4>2, <4>3 DEF EndsAgree, Agrees, Gated
    <3>2. CASE sending[a].outcome # "accepted"
      <4>1. track'[a] = AfterRejection(track[a], sending[a])
        BY <1>1, <1>20, <3>2 DEF Resolve
      <4>2. sending[a].outcome # "conversation_closed"
        BY <2>1, <2>2 DEF EndsAgree, Agrees
      <4>3. /\ track'[a].closed => track[a].closed /\ ~sending[a].flipped
            /\ track'[a].localDone => track[a].localDone /\ ~sending[a].flipped
            /\ track'[a].remoteDone => track[a].remoteDone
        <5>1. track[a] \in Track
          BY <1>1
        <5> QED  BY <4>1, <4>2, <5>1 DEF AfterRejection, RolledBack, FreshTrack, Track
      <4> QED  BY <2>1, <2>2, <4>3 DEF EndsAgree, Agrees, Gated
    <3> QED  BY <3>1, <3>2
  <2> QED  BY <1>16, <2>1, <2>2
<1>21. ASSUME NEW a \in Agents, Receive(a) PROVE EndsAgree'
  <2>1. UNCHANGED conv /\ EndsAgree /\ ~Gated(a)
    BY <1>4, <1>21 DEF Receive, serverVars, MayReceive
  <2>2. ~track[a].closed /\ ~closing[a]
    BY <2>1 DEF EndsAgree, Agrees
  <2> DEFINE m == Head(down[a])
  <2>3. /\ down[a] # <<>> /\ (Drop(a, m) \/ Take(a, m))
        /\ down' = [down EXCEPT ![a] = Tail(@)] /\ UNCHANGED closing
    BY <1>21, <2>2 DEF Receive
  <2>4. /\ 1 \in DOMAIN down[a] /\ m = down[a][1] /\ m \in Inbound
        /\ \A i \in DOMAIN Tail(down[a]) : /\ i + 1 \in DOMAIN down[a]
                                           /\ Tail(down[a])[i] = down[a][i + 1]
    BY <1>1, <2>3, TailElems
  <2>5. /\ down'[a] = Tail(down[a]) /\ \A b \in Agents : b # a => down'[b] = down[b]
    BY <1>1, <2>3
  <2>6. DownShrinks
    <3>1. ASSUME NEW b \in Agents, NEW i \in DOMAIN down'[b]
          PROVE  \E j \in DOMAIN down[b] : down'[b][i] = down[b][j]
      <4>1. CASE b = a
        <5>1. i + 1 \in DOMAIN down[b] /\ down'[b][i] = down[b][i + 1]
          BY <2>4, <2>5, <4>1
        <5> QED  BY <5>1
      <4>2. CASE b # a
        <5>1. down'[b] = down[b]
          BY <2>5, <4>2
        <5> QED  BY <5>1
      <4> QED  BY <4>1, <4>2
    <3> QED  BY <3>1 DEF DownShrinks
  <2>7. m.kind # "end" /\ (m.done => Peer(a) \in conv.doneBy)
    BY <2>1, <2>4 DEF EndsAgree, Agrees
  <2> HIDE DEF m
  <2>8. CASE Drop(a, m)
    <3>1. UNCHANGED silenced
      BY <2>8 DEF Drop
    <3>2. CASE IsSilent(a, m)
      BY <1>3, <2>1, <2>3, <2>6, <2>8, <3>1, <3>2, SameKept, AgreeKept, AgreeSame DEF Drop
    <3>3. CASE ~IsSilent(a, m)
      <4>1. sending' = Raced(a) /\ track' = [track EXCEPT ![a].turn = NextTurn(track[a])]
        BY <2>8, <3>3 DEF Drop
      <4>2. KeptMade /\ KeptAnswer /\ KeptEnd
        BY <4>1, RacedKept, TurnTaken
      <4> QED  BY <2>1, <2>3, <2>6, <3>1, <4>2, AgreeKept, AgreeSame
    <3> QED  BY <3>2, <3>3
  <2>9. CASE Take(a, m)
    <3>1. /\ track'[a] = Heard(track[a], m)
          /\ \A b \in Agents : b # a => track'[b] = track[b]
      BY <1>1, <2>9 DEF Take
    <3>2. /\ track'[a].closed = (track[a].closed \/ (track[a].localDone /\ (track[a].remoteDone \/ m.done))
                                 \/ m.kind = "end")
          /\ track'[a].remoteDone = (track[a].remoteDone \/ m.done)
          /\ track'[a].localDone = track[a].localDone
      <4>1. track[a] \in Track
        BY <1>1
      <4> QED  BY <3>1, <4>1 DEF Heard, Track
    <3>3. track'[a].remoteDone => Peer(a) \in conv.doneBy
      BY <2>1, <2>7, <3>2 DEF EndsAgree, Agrees
    <3>4. track[a].localDone => a \in conv.doneBy
      BY <2>1 DEF EndsAgree, Agrees
    <3>5. ~track'[a].closed
      <4>1. ~(a \in conv.doneBy /\ Peer(a) \in conv.doneBy)
        BY <1>7, <2>1, BothDone DEF EndsAgree
      <4> QED  BY <2>2, <2>7, <3>2, <3>3, <3>4, <4>1
    <3>6. silenced' = silenced
      BY <1>1, <2>9, <3>1, <3>5 DEF Take
    <3>7. KeptMade /\ KeptAnswer
      <4>1. UNCHANGED sending \/ sending' = Raced(a)
        BY <2>9 DEF Take
      <4> QED  BY <4>1, SameKept, RacedKept
    <3>8. Agrees(a)'
      <4>1. \A i \in DOMAIN down'[a] : /\ down'[a][i].kind # "end"
                                       /\ down'[a][i].done => Peer(a) \in conv'.doneBy
        BY <2>1, <2>4, <2>5 DEF EndsAgree, Agrees
      <4>2. sending'[a] # None =>
              /\ sending'[a].outcome # "conversation_closed"
              /\ sending'[a].outcome = "accepted" /\ sending'[a].done => a \in conv'.doneBy
        BY <2>1, <3>7 DEF EndsAgree, Agrees, KeptMade, KeptAnswer
      <4>3. ~closing'[a] /\ conv' = conv
        BY <2>1, <2>2, <2>3
      <4> QED  BY <3>2, <3>3, <3>4, <3>5, <4>1, <4>2, <4>3 DEF Agrees
    <3>9. ASSUME NEW b \in Agents, b # a PROVE Agrees(b)'
      <4>1. \A i \in DOMAIN down'[b] : /\ down'[b][i].kind # "end"
                                       /\ down'[b][i].done => Peer(b) \in conv'.doneBy
        BY <2>1, <2>5, <3>9 DEF EndsAgree, Agrees
      <4>2. sending'[b] # None =>
              /\ sending'[b].outcome # "conversation_closed"
              /\ sending'[b].outcome = "accepted" /\ sending'[b].done => b \in conv'.doneBy
        BY <2>1, <3>7 DEF EndsAgree, Agrees, KeptMade, KeptAnswer
      <4>3. (Gated(b))' <=> Gated(b)
        BY <3>7 DEF KeptMade, Gated
      <4>4. ~closing'[b] /\ conv' = conv /\ track'[b] = track[b]
        BY <2>1, <2>3, <3>1, <3>9 DEF EndsAgree, Agrees
      <4> QED  BY <2>1, <4>1, <4>2, <4>3, <4>4 DEF EndsAgree, Agrees
    <3> QED  BY <2>1, <3>6, <3>8, <3>9 DEF EndsAgree
  <2> QED  BY <2>3, <2>8, <2>9
<1>22. ASSUME NEW a \in Agents, Record(a), Rejection(a, Head(up[a])) = "none" PROVE EndsAgree'
  <2> DEFINE m == Head(up[a])
             sent == [kind |-> m.kind, turn |-> m.turn, done |-> m.done]
             entry == Recorded(a, m)
  <2>1. /\ up[a] # <<>> /\ UNCHANGED <<track, silenced>>
        /\ sending' = Answered(a, m, "accepted") /\ conv' = Evaluated(entry)
        /\ down' = [down EXCEPT ![Peer(a)] =
                      @ \o <<sent>> \o (IF Exceeded(entry) THEN <<EndNotice>> ELSE <<>>)]
        /\ closing' = [closing EXCEPT ![a] = @ \/ Exceeded(entry)]
    BY <1>22 DEF Record
  <2>2. 1 \in DOMAIN up[a] /\ m = up[a][1] /\ m \in Envelope
    BY <1>1, <2>1, TailElems
  <2>3. ~Exceeded(entry) /\ conv' = entry /\ entry.doneBy # Agents
    BY <2>1 DEF Evaluated, Recorded
  <2>4. conv'.doneBy = IF m.done THEN conv.doneBy \cup {a} ELSE conv.doneBy
    BY <2>3 DEF Recorded
  <2>5. UNCHANGED closing
    BY <1>1, <2>1, <2>3
  <2>6. down'[Peer(a)] = (down[Peer(a)] \o <<sent>>) \o <<>> /\ \A b \in Agents : b # Peer(a) => down'[b] = down[b]
    BY <1>1, <2>1, <2>3, Peers
  <2>7. sent \in Inbound /\ sent.kind # "end" /\ sent.done = m.done
    BY <2>2 DEF Inbound, Envelope, NoticeKinds
  <2>8. \A i \in DOMAIN down'[Peer(a)] :
           (i \in DOMAIN down[Peer(a)] /\ down'[Peer(a)][i] = down[Peer(a)][i]) \/ down'[Peer(a)][i] = sent
    <3>1. down[Peer(a)] \in Seq(Inbound)
      BY <1>1, Peers
    <3> HIDE DEF sent
    <3>2. down'[Peer(a)] = Append(down[Peer(a)], sent)
      BY <2>6, <2>7, <3>1
    <3> QED  BY <2>7, <3>1, <3>2, AppendElems
  <2>9. KeptMade /\ \A b \in Agents : sending[b] # None =>
              sending'[b].outcome = IF b = a /\ m.asked THEN "accepted" ELSE sending[b].outcome
    BY <1>5, <2>1, AnsweredKept
  <2>10. m.asked => m.done = sending[a].done /\ m.new = sending[a].new /\ sending[a] # None
                    /\ sending[a].outcome = "none"
    BY <2>2 DEF WireInv
  <2>11. conv.status \in {"none", "open"} /\ (conv.status = "none" => m.new)
    BY <1>1, <1>22 DEF Rejection, Entry
  <2>12. m.new => m.asked
    <3>1. m.kind \in NoticeKinds \/ m.kind = "ordinary"
      BY <2>2 DEF Envelope
    <3> HIDE DEF m
    <3> QED  BY <1>2, <2>2, <3>1 DEF WireInv, AskedInv
  <2> HIDE DEF m, sent, entry
  <2>13. \A b \in Agents : (Gated(b))' <=> Gated(b)
    BY <2>9 DEF KeptMade, Gated
  <2>14. \A b \in Agents : b \in conv.doneBy => b \in conv'.doneBy
    BY <2>4
  <2>15. CASE conv.status = "open"
    <3>1. EndsAgree
      BY <1>2, <2>15 DEF OpenInv
    <3>2. ASSUME NEW b \in Agents PROVE Agrees(b)'
      <4>1. sending'[b] # None =>
              /\ sending'[b].outcome # "conversation_closed"
              /\ sending'[b].outcome = "accepted" /\ sending'[b].done => b \in conv'.doneBy
        BY <2>4, <2>9, <2>10, <2>14, <3>1 DEF EndsAgree, Agrees, KeptMade
      <4>2. Peer(b) \in Agents
        BY Peers
      <4>3. \A i \in DOMAIN down'[b] : /\ down'[b][i].kind # "end"
                                       /\ down'[b][i].done => Peer(b) \in conv'.doneBy
        <5>1. CASE b = Peer(a)
          <6>1. Peer(b) = a
            BY <5>1, Peers
          <6> QED  BY <2>4, <2>7, <2>8, <2>14, <3>1, <4>2, <5>1, <6>1 DEF EndsAgree, Agrees
        <5>2. CASE b # Peer(a)
          BY <2>6, <2>14, <3>1, <4>2, <5>2 DEF EndsAgree, Agrees
        <5> QED  BY <5>1, <5>2
      <4> QED  BY <2>1, <2>5, <2>13, <2>14, <3>1, <4>1, <4>2, <4>3 DEF EndsAgree, Agrees
    <3> QED  BY <2>1, <2>3, <3>1, <3>2 DEF EndsAgree
  <2>16. CASE conv.status = "none"
    <3>1. m.new /\ m.asked /\ sending[a] # None /\ sending[a].new /\ sending[a].outcome = "none"
      BY <2>10, <2>11, <2>12, <2>16
    <3>2. a = Starter
      BY <3>1 DEF WireInv
    <3>3. Untouched
      BY <1>2, <3>1, <3>2 DEF OpeningInv, Opening
    <3>4. ASSUME NEW b \in Agents PROVE Agrees(b)'
      <4>1. sending'[b] # None =>
              /\ sending'[b].outcome # "conversation_closed"
              /\ sending'[b].outcome = "accepted" /\ sending'[b].done => b \in conv'.doneBy
        <5>1. b # a => sending[b] = None
          BY <3>2, <3>3, OnlyStarterSends
        <5> QED  BY <2>4, <2>9, <2>10, <3>1, <5>1 DEF KeptMade
      <4>2. \A i \in DOMAIN down'[b] : /\ down'[b][i].kind # "end"
                                       /\ down'[b][i].done => Peer(b) \in conv'.doneBy
        <5>1. DOMAIN down[b] = {}
          BY <3>3, EmptySeq DEF Untouched
        <5>2. CASE b = Peer(a)
          <6>1. Peer(b) = a
            BY <5>2, Peers
          <6> QED  BY <2>4, <2>7, <2>8, <5>1, <5>2, <6>1
        <5>3. CASE b # Peer(a)
          BY <2>6, <5>1, <5>3
        <5> QED  BY <5>2, <5>3
      <4> QED  BY <2>1, <2>5, <2>13, <3>3, <4>1, <4>2 DEF Untouched, Agrees
    <3> QED  BY <2>1, <2>3, <3>3, <3>4 DEF EndsAgree, Untouched
  <2> QED  BY <2>11, <2>15, <2>16
<1> QED
  BY <1>2, <1>8, <1>9, <1>10, <1>11, <1>12, <1>13, <1>14, <1>15, <1>17, <1>18, <1>19, <1>20, <1>21,
     <1>22 DEF Next

-----------------------------------------------------------------------------
(* The counters. While the conversation goes on and nothing but the report of a   *)
(* drop is in doubt, the two tracks and the server's count differ only by what is  *)
(* on its way.                                                                    *)

Sound == doubt \subseteq {"untold"} /\ conv.status # "closed"

\* The number a track keeps whatever the answer to the send under way.
Held(a) ==
    IF sending[a] # None /\ sending[a].outcome # "accepted" /\ track[a].turn = sending[a].turn
    THEN track[a].turn - 1 ELSE track[a].turn

\* Before the first message is accepted nothing has come down.
NoneYet ==
    conv.status = "none" => /\ conv = NoConversation /\ unheard = {}
                            /\ \A a \in Agents : down[a] = <<>> /\ ~closing[a]

\* The send under way holds a number of its track's, the newest unless something came since.
Sent(a) ==
    sending[a] # None =>
      /\ sending[a].turn <= track[a].turn
      /\ sending[a].raced => sending[a].turn < track[a].turn
      /\ sending[a].blank /\ ~sending[a].raced =>
           track[a].turn = 1 /\ ~handed[a].wake /\ ~owed[a]
      /\ sending[a].basis <= basis[a]

\* No number on the wire is one that its wrapper may still take back.
Numbered(a) ==
    /\ handed[a].wake \/ owed[a] => Held(a) > 0
    /\ \A i \in DOMAIN up[a] :
         /\ up[a][i].kind \in NoticeKinds => up[a][i].turn <= Held(a)
         /\ up[a][i].kind = "ordinary" => up[a][i].basis <= basis[a]
    /\ \A i \in DOMAIN down[a] : down[a][i].turn <= Held(Peer(a))

\* A track that is behind the server or behind its peer will hear of it.
Level(a) ==
    /\ \/ conv.max <= Held(a)
       \/ \E i \in DOMAIN down[a] : conv.max <= down[a][i].turn
    /\ \/ Held(a) <= Held(Peer(a))
       \/ \E i \in DOMAIN down[Peer(a)] : Held(a) <= down[Peer(a)][i].turn
       \/ \E i \in DOMAIN up[a] : up[a][i].kind \in NoticeKinds /\ Held(a) <= up[a][i].turn

\* Nobody has read more than the server recorded, and the agent that spoke last has read all.
Based(a) ==
    /\ conv.ordinary[a] <= conv.max
    /\ basis[a] <= conv.ordinary[Peer(a)]
    /\ handed[a].turn <= conv.ordinary[Peer(a)]
    /\ \A i \in DOMAIN down[a] :
         down[a][i].kind = "ordinary" => down[a][i].turn <= conv.ordinary[Peer(a)]
    /\ basis[a] = conv.ordinary[Peer(a)] \/ conv.ordinary[Peer(a)] > conv.ordinary[a]

\* The notice of a dropped message is on its way to the one that sent it.
Told(a) ==
    a \in unheard /\ "untold" \notin doubt =>
        \/ \E i \in DOMAIN up[Peer(a)] : up[Peer(a)][i].kind = "stale_delivery"
        \/ \E i \in DOMAIN down[a] : down[a][i].kind = "stale_delivery"

TurnInv ==
    Sound => /\ NoneYet
             /\ \A a \in Agents : Sent(a) /\ Numbered(a) /\ Level(a) /\ Based(a) /\ Told(a)

\* A track's number is never negative.
LEMMA HeldTyped == ASSUME TypeOK, WireInv, NEW a \in Agents PROVE Held(a) \in Nat
<1>1. track[a].turn \in Nat /\ sending[a] \in Sending \cup {None}
  BY DEF TypeOK
<1>2. sending[a] # None => sending[a].turn \in Nat /\ sending[a].turn > 0
  BY <1>1 DEF WireInv, Sending
<1> QED  BY <1>1, <1>2 DEF Held

\* What a step of a's wrapper leaves as it was.
Same(b) ==
    /\ track'[b] = track[b] /\ sending'[b] = sending[b] /\ basis'[b] = basis[b]
    /\ handed'[b] = handed[b] /\ owed'[b] = owed[b] /\ up'[b] = up[b] /\ down'[b] = down[b]

\* What every step of a's wrapper has in common, and every answer but an acceptance: what
\* leaves the queue of a is in its number, and a number that rises was heard or is told.
Rise(a) ==
    /\ conv' = conv /\ Same(Peer(a))
    /\ Held(a) <= Held(a)'
    /\ \/ Held(a)' = Held(a)
       \/ Held(a)' <= Held(Peer(a))
       \/ \E j \in DOMAIN up'[a] : up'[a][j].kind \in NoticeKinds /\ Held(a)' <= up'[a][j].turn
    /\ \A i \in DOMAIN down[a] :
         \/ \E j \in DOMAIN down'[a] : down'[a][j] = down[a][i]
         \/ down[a][i].turn <= Held(a)'
    /\ \A j \in DOMAIN down'[a] : \E i \in DOMAIN down[a] : down'[a][j] = down[a][i]
    /\ \A i \in DOMAIN up[a] :
         up[a][i].kind \in NoticeKinds => \E j \in DOMAIN up'[a] : up'[a][j] = up[a][i]
    /\ \A j \in DOMAIN up'[a] :
         \/ \E i \in DOMAIN up[a] : up'[a][j] = up[a][i]
         \/ up'[a][j].kind \in NoticeKinds /\ up'[a][j].turn <= Held(a)'
         \/ up'[a][j].kind = "ordinary" /\ up'[a][j].basis <= basis'[a]
    /\ handed'[a].wake \/ owed'[a] => Held(a)' > 0
    /\ basis[a] <= basis'[a]
    /\ basis'[a] <= conv.ordinary[Peer(a)]
    /\ handed'[a].turn <= conv.ordinary[Peer(a)]
    /\ a \in unheard' /\ "untold" \notin doubt' =>
         /\ a \in unheard
         /\ \A i \in DOMAIN down[a] : down[a][i].kind = "stale_delivery" =>
              \E j \in DOMAIN down'[a] : down'[a][j] = down[a][i]
    /\ Peer(a) \in unheard' =>
         Peer(a) \in unheard \/ \E j \in DOMAIN up'[a] : up'[a][j].kind = "stale_delivery"

\* Such a step keeps the counters together.
LEMMA RiseKeeps ==
  ASSUME TypeOK, TypeOK', WireInv, WireInv', Sound, TurnInv, NEW a \in Agents, Rise(a),
         doubt \subseteq doubt'
  PROVE  \A b \in Agents : Numbered(b)' /\ Level(b)' /\ Based(b)' /\ Told(b)'
<1> DEFINE p == Peer(a)
<1>1. p \in Agents /\ p # a /\ Peer(p) = a /\ \A b \in Agents : b = a \/ b = p
  BY Peers
<1>2. \A b \in Agents : Sent(b) /\ Numbered(b) /\ Level(b) /\ Based(b) /\ Told(b)
  BY DEF TurnInv
<1>3. Held(a) \in Nat /\ Held(p) \in Nat /\ Held(a)' \in Nat
  <2>1. track'[a].turn \in Nat /\ sending'[a] \in Sending \cup {None}
    BY DEF TypeOK
  <2>2. sending'[a] # None => sending'[a].turn \in Nat /\ sending'[a].turn > 0
    BY <2>1 DEF WireInv, Sending
  <2>3. Held(a)' \in Nat
    BY <2>1, <2>2 DEF Held
  <2> QED  BY <1>1, <2>3, HeldTyped
<1>4. Held(p)' = Held(p)
  BY DEF Rise, Same, Held
<1>5. /\ conv.max \in Nat /\ conv.ordinary[a] \in Nat /\ conv.ordinary[p] \in Nat
      /\ basis[a] \in Nat /\ basis'[a] \in Nat /\ basis[p] \in Nat
      /\ handed[a].turn \in Nat /\ handed'[a].turn \in Nat
  BY <1>1 DEF TypeOK
<1>6. /\ \A i \in DOMAIN up[a] : up[a][i].turn \in Nat /\ up[a][i].basis \in Nat
      /\ \A i \in DOMAIN up'[a] : up'[a][i].turn \in Nat /\ up'[a][i].basis \in Nat
      /\ \A i \in DOMAIN up[p] : up[p][i].turn \in Nat /\ up[p][i].basis \in Nat
      /\ \A i \in DOMAIN down[a] : down[a][i].turn \in Nat
      /\ \A i \in DOMAIN down'[a] : down'[a][i].turn \in Nat
      /\ \A i \in DOMAIN down[p] : down[p][i].turn \in Nat
  <2>1. ASSUME NEW s \in Seq(Envelope), NEW i \in DOMAIN s PROVE s[i].turn \in Nat /\ s[i].basis \in Nat
    <3>1. s[i] \in Envelope
      BY LenProperties, ElementOfSeq
    <3> QED  BY <3>1 DEF Envelope
  <2>2. ASSUME NEW s \in Seq(Inbound), NEW i \in DOMAIN s PROVE s[i].turn \in Nat
    <3>1. s[i] \in Inbound
      BY LenProperties, ElementOfSeq
    <3> QED  BY <3>1 DEF Inbound
  <2>3. /\ up[a] \in Seq(Envelope) /\ up'[a] \in Seq(Envelope) /\ up[p] \in Seq(Envelope)
        /\ down[a] \in Seq(Inbound) /\ down'[a] \in Seq(Inbound) /\ down[p] \in Seq(Inbound)
    BY <1>1 DEF TypeOK
  <2> QED  BY <2>1, <2>2, <2>3
<1>7. /\ conv' = conv /\ up'[p] = up[p] /\ down'[p] = down[p] /\ basis'[p] = basis[p]
      /\ handed'[p] = handed[p] /\ owed'[p] = owed[p]
  BY DEF Rise, Same
<1>8. NoticeKinds \in SUBSET {"stale_delivery", "turn_failure"} /\ "ordinary" \notin NoticeKinds
      /\ "stale_delivery" \in NoticeKinds
  BY DEF NoticeKinds
<1> HIDE DEF p
<1>9. Numbered(a)'
  <2>1. handed'[a].wake \/ owed'[a] => Held(a)' > 0
    BY DEF Rise
  <2>2. ASSUME NEW j \in DOMAIN up'[a]
        PROVE  /\ up'[a][j].kind \in NoticeKinds => up'[a][j].turn <= Held(a)'
               /\ up'[a][j].kind = "ordinary" => up'[a][j].basis <= basis'[a]
    <3>1. CASE \E i \in DOMAIN up[a] : up'[a][j] = up[a][i]
      <4>1. PICK i \in DOMAIN up[a] : up'[a][j] = up[a][i]
        BY <3>1
      <4>2. Held(a) <= Held(a)' /\ basis[a] <= basis'[a]
        BY DEF Rise
      <4>3. /\ up[a][i].kind \in NoticeKinds => up[a][i].turn <= Held(a)
            /\ up[a][i].kind = "ordinary" => up[a][i].basis <= basis[a]
        BY <1>2 DEF Numbered
      <4> QED  BY <1>3, <1>5, <1>6, <4>1, <4>2, <4>3
    <3>2. CASE up'[a][j].kind \in NoticeKinds /\ up'[a][j].turn <= Held(a)'
      BY <1>8, <3>2
    <3>3. CASE up'[a][j].kind = "ordinary" /\ up'[a][j].basis <= basis'[a]
      BY <1>8, <3>3
    <3> QED  BY <3>1, <3>2, <3>3 DEF Rise
  <2>3. ASSUME NEW j \in DOMAIN down'[a] PROVE down'[a][j].turn <= Held(p)'
    <3>1. PICK i \in DOMAIN down[a] : down'[a][j] = down[a][i]
      BY DEF Rise
    <3>2. down[a][i].turn <= Held(p)
      BY <1>2 DEF Numbered, p
    <3> QED  BY <1>4, <3>1, <3>2
  <2> QED  BY <2>1, <2>2, <2>3 DEF Numbered, p
<1>10. Numbered(p)'
  <2>1. ASSUME NEW i \in DOMAIN down[p] PROVE down[p][i].turn <= Held(a)'
    <3>1. down[p][i].turn <= Held(a) /\ Held(a) <= Held(a)'
      BY <1>1, <1>2 DEF Numbered, Rise
    <3> QED  BY <1>3, <1>6, <3>1
  <2>2. Numbered(p)
    BY <1>1, <1>2
  <2> QED  BY <1>1, <1>4, <1>7, <2>1, <2>2 DEF Numbered
<1>11. Level(a)'
  <2>1. \/ conv'.max <= Held(a)'
        \/ \E i \in DOMAIN down'[a] : conv'.max <= down'[a][i].turn
    <3>1. CASE conv.max <= Held(a)
      <4>1. Held(a) <= Held(a)'
        BY DEF Rise
      <4> QED  BY <1>3, <1>5, <1>7, <3>1, <4>1
    <3>2. CASE \E i \in DOMAIN down[a] : conv.max <= down[a][i].turn
      <4>1. PICK i \in DOMAIN down[a] : conv.max <= down[a][i].turn
        BY <3>2
      <4>2. \/ \E j \in DOMAIN down'[a] : down'[a][j] = down[a][i]
            \/ down[a][i].turn <= Held(a)'
        BY DEF Rise
      <4> QED  BY <1>3, <1>5, <1>6, <1>7, <4>1, <4>2
    <3> QED  BY <1>2, <3>1, <3>2 DEF Level
  <2>2. \/ Held(a)' <= Held(p)'
        \/ \E i \in DOMAIN down'[p] : Held(a)' <= down'[p][i].turn
        \/ \E i \in DOMAIN up'[a] : up'[a][i].kind \in NoticeKinds /\ Held(a)' <= up'[a][i].turn
    <3>1. CASE Held(a)' = Held(a)
      <4>1. \/ Held(a) <= Held(p)
            \/ \E i \in DOMAIN down[p] : Held(a) <= down[p][i].turn
            \/ \E i \in DOMAIN up[a] : up[a][i].kind \in NoticeKinds /\ Held(a) <= up[a][i].turn
        BY <1>2 DEF Level, p
      <4>2. CASE \E i \in DOMAIN up[a] : up[a][i].kind \in NoticeKinds /\ Held(a) <= up[a][i].turn
        <5>1. PICK i \in DOMAIN up[a] : up[a][i].kind \in NoticeKinds /\ Held(a) <= up[a][i].turn
          BY <4>2
        <5>2. PICK j \in DOMAIN up'[a] : up'[a][j] = up[a][i]
          BY <5>1 DEF Rise
        <5> QED  BY <3>1, <5>1, <5>2
      <4> QED  BY <1>4, <1>7, <3>1, <4>1, <4>2
    <3>2. CASE Held(a)' <= Held(p)
      BY <1>4, <3>2
    <3> QED  BY <3>1, <3>2 DEF Rise, p
  <2> QED  BY <2>1, <2>2 DEF Level, p
<1>12. Level(p)'
  <2>1. Level(p)
    BY <1>1, <1>2
  <2>2. \/ conv'.max <= Held(p)'
        \/ \E i \in DOMAIN down'[p] : conv'.max <= down'[p][i].turn
    BY <1>4, <1>7, <2>1 DEF Level
  <2>3. \/ Held(p)' <= Held(a)'
        \/ \E i \in DOMAIN down'[a] : Held(p)' <= down'[a][i].turn
        \/ \E i \in DOMAIN up'[p] : up'[p][i].kind \in NoticeKinds /\ Held(p)' <= up'[p][i].turn
    <3>1. \/ Held(p) <= Held(a)
          \/ \E i \in DOMAIN down[a] : Held(p) <= down[a][i].turn
          \/ \E i \in DOMAIN up[p] : up[p][i].kind \in NoticeKinds /\ Held(p) <= up[p][i].turn
      BY <1>1, <2>1 DEF Level
    <3>2. CASE Held(p) <= Held(a)
      <4>1. Held(a) <= Held(a)'
        BY DEF Rise
      <4> QED  BY <1>3, <1>4, <3>2, <4>1
    <3>3. CASE \E i \in DOMAIN down[a] : Held(p) <= down[a][i].turn
      <4>1. PICK i \in DOMAIN down[a] : Held(p) <= down[a][i].turn
        BY <3>3
      <4>2. \/ \E j \in DOMAIN down'[a] : down'[a][j] = down[a][i]
            \/ down[a][i].turn <= Held(a)'
        BY DEF Rise
      <4> QED  BY <1>3, <1>4, <1>6, <4>1, <4>2
    <3> QED  BY <1>4, <1>7, <3>1, <3>2, <3>3
  <2> QED  BY <1>1, <2>2, <2>3 DEF Level
<1>13. Based(a)'
  <2>1. Based(a) /\ basis[a] <= basis'[a] /\ basis'[a] <= conv.ordinary[p]
        /\ handed'[a].turn <= conv.ordinary[p]
    BY <1>2 DEF Rise, p
  <2>2. ASSUME NEW j \in DOMAIN down'[a], down'[a][j].kind = "ordinary"
        PROVE  down'[a][j].turn <= conv.ordinary[p]
    <3>1. PICK i \in DOMAIN down[a] : down'[a][j] = down[a][i]
      BY DEF Rise
    <3> QED  BY <2>1, <2>2, <3>1 DEF Based, p
  <2>3. basis[a] = conv.ordinary[p] => basis'[a] = conv.ordinary[p]
    BY <1>5, <2>1
  <2> QED  BY <1>7, <2>1, <2>2, <2>3 DEF Based, p
<1>14. Based(p)'
  BY <1>1, <1>2, <1>7 DEF Based
<1>15. Told(a)'
  <2> SUFFICES ASSUME a \in unheard', "untold" \notin doubt'
               PROVE  \/ \E i \in DOMAIN up'[p] : up'[p][i].kind = "stale_delivery"
                      \/ \E i \in DOMAIN down'[a] : down'[a][i].kind = "stale_delivery"
    BY DEF Told, p
  <2>1. \/ \E i \in DOMAIN up[p] : up[p][i].kind = "stale_delivery"
        \/ \E i \in DOMAIN down[a] : down[a][i].kind = "stale_delivery"
    BY <1>2 DEF Told, Rise, p
  <2>2. CASE \E i \in DOMAIN down[a] : down[a][i].kind = "stale_delivery"
    <3>1. PICK i \in DOMAIN down[a] : down[a][i].kind = "stale_delivery"
      BY <2>2
    <3>2. PICK j \in DOMAIN down'[a] : down'[a][j] = down[a][i]
      BY <3>1 DEF Rise
    <3> QED  BY <3>1, <3>2
  <2> QED  BY <1>7, <2>1, <2>2
<1>16. Told(p)'
  <2> SUFFICES ASSUME p \in unheard', "untold" \notin doubt', ~ \E j \in DOMAIN up'[a] : up'[a][j].kind = "stale_delivery"
               PROVE  \E i \in DOMAIN down'[p] : down'[p][i].kind = "stale_delivery"
    BY <1>1 DEF Told
  <2>1. p \in unheard
    BY DEF Rise, p
  <2>2. \/ \E i \in DOMAIN up[a] : up[a][i].kind = "stale_delivery"
        \/ \E i \in DOMAIN down[p] : down[p][i].kind = "stale_delivery"
    BY <1>1, <1>2, <2>1 DEF Told
  <2>3. CASE \E i \in DOMAIN up[a] : up[a][i].kind = "stale_delivery"
    <3>1. PICK i \in DOMAIN up[a] : up[a][i].kind = "stale_delivery"
      BY <2>3
    <3>2. PICK j \in DOMAIN up'[a] : up'[a][j] = up[a][i]
      BY <1>8, <3>1 DEF Rise
    <3> QED  BY <3>1, <3>2
  <2> QED  BY <1>7, <2>2, <2>3
<1> QED  BY <1>1, <1>9, <1>10, <1>11, <1>12, <1>13, <1>14, <1>15, <1>16

\* A step that leaves what has come down, and the number, alone.
LEMMA RiseQuiet ==
  ASSUME TypeOK, WireInv, Sound, TurnInv, NEW a \in Agents, Same(Peer(a)),
         UNCHANGED <<conv, down, unheard>>, Held(a)' = Held(a),
         \A i \in DOMAIN up[a] :
           up[a][i].kind \in NoticeKinds => \E j \in DOMAIN up'[a] : up'[a][j] = up[a][i],
         \A j \in DOMAIN up'[a] :
           \/ \E i \in DOMAIN up[a] : up'[a][j] = up[a][i]
           \/ up'[a][j].kind = "ordinary" /\ up'[a][j].basis <= basis'[a],
         handed'[a].wake \/ owed'[a] => Held(a) > 0,
         basis[a] <= basis'[a], basis'[a] <= conv.ordinary[Peer(a)],
         handed'[a].turn <= conv.ordinary[Peer(a)]
  PROVE  Rise(a)
<1>1. Held(a) \in Nat
  BY HeldTyped
<1>2. Held(a) <= Held(a)
  BY <1>1
<1> QED  BY <1>2 DEF Rise

\* What the peer of a has is untouched by a step of a's wrapper.
LEMMA OthersSame ==
  ASSUME TypeOK, NEW a \in Agents,
         \A b \in Agents : b # a => /\ track'[b] = track[b] /\ sending'[b] = sending[b]
                                    /\ basis'[b] = basis[b] /\ handed'[b] = handed[b]
                                    /\ owed'[b] = owed[b] /\ up'[b] = up[b] /\ down'[b] = down[b]
  PROVE  Same(Peer(a))
  BY Peers DEF Same

\* An ordinary message that is turned down, by the tracker or before it.
LEMMA AnswerRises ==
  ASSUME TypeOK, WireInv, AskedInv, Sound, TurnInv, NEW a \in Agents, up[a] # <<>>,
         Head(up[a]).kind = "ordinary", NEW o \in Outcomes, o # "accepted",
         up' = [up EXCEPT ![a] = Tail(@)], sending' = Answered(a, Head(up[a]), o),
         UNCHANGED <<conv, track, basis, handed, owed, down, unheard>>
  PROVE  Rise(a) /\ Sent(a)'
<1>1. Sent(a) /\ Numbered(a) /\ Based(a)
  BY DEF TurnInv
<1>2. up[a] \in Seq(Envelope) /\ up \in [Agents -> Seq(Envelope)] /\ basis[a] \in Nat
  BY DEF TypeOK
<1>3. Head(up[a]) = up[a][1] /\ 1 \in DOMAIN up[a]
  BY <1>2, TailElems
<1>4. Head(up[a]).asked
  BY <1>3 DEF AskedInv, Sure, Sound
<1>5. sending[a] # None /\ sending[a].outcome = "none"
  BY <1>3, <1>4 DEF WireInv
<1>6. /\ sending[a] \in Sending /\ sending'[a] \in Sending
      /\ sending'[a] = [sending[a] EXCEPT !.outcome = o]
      /\ \A b \in Agents : b # a => sending'[b] = sending[b]
  BY <1>4, AnsweredTyped
<1>7. /\ sending'[a].turn = sending[a].turn /\ sending'[a].raced = sending[a].raced
      /\ sending'[a].blank = sending[a].blank /\ sending'[a].basis = sending[a].basis
      /\ sending'[a].outcome = o
  BY <1>6 DEF Sending
<1>8. sending'[a] # None
  BY <1>6, NoneAssumption
<1>9. Held(a)' = Held(a)
  BY <1>5, <1>7, <1>8 DEF Held
<1>10. Sent(a)'
  BY <1>1, <1>5, <1>7 DEF Sent
<1>11. Same(Peer(a))
  BY <1>2, <1>6, OthersSame
<1>12. up'[a] = Tail(up[a])
  BY <1>2
<1>13. ASSUME NEW i \in DOMAIN up[a], up[a][i].kind \in NoticeKinds
       PROVE  \E j \in DOMAIN up'[a] : up'[a][j] = up[a][i]
  <2>1. i # 1
    BY <1>3, <1>13 DEF NoticeKinds
  <2> QED  BY <1>2, <1>12, <2>1, TailKeeps
<1>14. \A j \in DOMAIN up'[a] : \E i \in DOMAIN up[a] : up'[a][j] = up[a][i]
  BY <1>2, <1>12, TailKeeps
<1>15. /\ handed'[a].wake \/ owed'[a] => Held(a) > 0
       /\ basis[a] <= basis'[a] /\ basis'[a] <= conv.ordinary[Peer(a)]
       /\ handed'[a].turn <= conv.ordinary[Peer(a)]
  BY <1>1, <1>2 DEF Numbered, Based
<1>16. Rise(a)
  BY <1>9, <1>11, <1>13, <1>14, <1>15, RiseQuiet
<1> QED  BY <1>10, <1>16

\* A new send takes a number it may have to give back.
LEMMA InvokeRises ==
  ASSUME TypeOK, WireInv, Sound, TurnInv, NEW a \in Agents, Invoke(a)
  PROVE  Rise(a) /\ Sent(a)'
<1>1. Numbered(a) /\ Based(a)
  BY DEF TurnInv
<1>2. /\ track \in [Agents -> Track] /\ sending \in [Agents -> Sending \cup {None}]
      /\ basis[a] \in Nat /\ track[a].turn \in Nat
  BY DEF TypeOK, Track
<1>3. PICK done \in BOOLEAN :
        LET t == track[a]
            flips == done /\ ~t.localDone
        IN /\ track' = [track EXCEPT ![a] =
                         [t EXCEPT !.turn = NextTurn(t),
                                   !.localDone = @ \/ done,
                                   !.closed = flips /\ t.remoteDone]]
           /\ sending' = [sending EXCEPT ![a] =
                           [turn |-> NextTurn(t), done |-> done, basis |-> basis[a],
                            new |-> a \notin knows,
                            flipped |-> flips, blank |-> t = FreshTrack,
                            raced |-> FALSE, ended |-> FALSE, outcome |-> "none"]]
  BY DEF Invoke
<1>4. UNCHANGED <<conv, down, up, unheard, basis, handed, owed>> /\ sending[a] = None
  BY DEF Invoke, serverVars, wireVars, history
<1>5. track'[a].turn = track[a].turn + 1
  <2>1. track[a] \in Track
    BY <1>2
  <2> QED  BY <1>2, <1>3, <2>1 DEF Track, NextTurn
<1>6. /\ sending'[a].turn = track[a].turn + 1 /\ ~sending'[a].raced
      /\ sending'[a].blank => track[a] = FreshTrack
      /\ sending'[a].basis = basis[a] /\ sending'[a].outcome = "none"
  BY <1>2, <1>3 DEF NextTurn
<1>7. sending'[a] # None
  <2>1. sending'[a] \in Sending
    <3>1. sending'[a] = [turn |-> NextTurn(track[a]), done |-> done, basis |-> basis[a],
                         new |-> a \notin knows, flipped |-> (done /\ ~track[a].localDone),
                         blank |-> track[a] = FreshTrack,
                         raced |-> FALSE, ended |-> FALSE, outcome |-> "none"]
      BY <1>2, <1>3
    <3> QED  BY <1>2, <3>1 DEF Sending, NextTurn, Track, Outcomes
  <2> QED  BY <2>1, NoneAssumption
<1>8. Held(a) = track[a].turn /\ Held(a)' = Held(a)
  BY <1>2, <1>4, <1>5, <1>6, <1>7 DEF Held
<1>9. Sent(a)'
  <2>1. ASSUME sending'[a].blank PROVE track'[a].turn = 1 /\ ~handed'[a].wake /\ ~owed'[a]
    <3>1. track[a].turn = 0
      BY <1>6, <2>1 DEF FreshTrack
    <3> QED  BY <1>1, <1>4, <1>5, <1>8, <3>1 DEF Numbered
  <2> QED  BY <1>2, <1>4, <1>5, <1>6, <2>1 DEF Sent
<1>10. Same(Peer(a))
  BY <1>2, <1>3, <1>4, OthersSame
<1>11. /\ handed'[a].wake \/ owed'[a] => Held(a) > 0
       /\ basis[a] <= basis'[a] /\ basis'[a] <= conv.ordinary[Peer(a)]
       /\ handed'[a].turn <= conv.ordinary[Peer(a)]
  BY <1>1, <1>2, <1>4 DEF Numbered, Based
<1>12. Rise(a)
  BY <1>4, <1>8, <1>10, <1>11, RiseQuiet
<1> QED  BY <1>9, <1>12

\* The envelope carries the basis the send was made with.
LEMMA DispatchRises ==
  ASSUME TypeOK, WireInv, Sound, TurnInv, NEW a \in Agents, Dispatch(a)
  PROVE  Rise(a) /\ Sent(a)'
<1>1. Sent(a) /\ Numbered(a) /\ Based(a)
  BY DEF TurnInv
<1> DEFINE e == [kind |-> "ordinary", turn |-> sending[a].turn, done |-> sending[a].done,
                 basis |-> sending[a].basis, new |-> sending[a].new, asked |-> TRUE]
<1>2. /\ up \in [Agents -> Seq(Envelope)] /\ basis[a] \in Nat /\ sending[a] \in Sending \cup {None}
  BY DEF TypeOK
<1>3. /\ sending[a] # None /\ up' = [up EXCEPT ![a] = Append(@, e)]
      /\ UNCHANGED <<conv, track, sending, basis, handed, owed, down, unheard>>
  BY DEF Dispatch, Prepared, serverVars, wrapperVars, history
<1>4. e \in Envelope
  BY <1>2, <1>3 DEF Sending, Envelope, WireInv
<1>5. up'[a] = Append(up[a], e) /\ \A b \in Agents : b # a => up'[b] = up[b]
  BY <1>2, <1>3
<1>6. e.kind = "ordinary" /\ e.basis <= basis'[a]
  BY <1>1, <1>3 DEF Sent
<1> HIDE DEF e
<1>7. /\ \A i \in DOMAIN up[a] : \E j \in DOMAIN up'[a] : up'[a][j] = up[a][i]
      /\ \A j \in DOMAIN up'[a] : (\E i \in DOMAIN up[a] : up'[a][j] = up[a][i]) \/ up'[a][j] = e
  <2> DEFINE s == up[a]
             q == up'[a]
  <2>1. s \in Seq(Envelope) /\ e \in Envelope /\ q = Append(s, e)
    BY <1>2, <1>4, <1>5
  <2> HIDE DEF s, q
  <2>2. OneMore(s, e, q)
    BY <2>1, AppendKeeps
  <2> QED  BY <2>2 DEF OneMore, s, q
<1>8. Held(a)' = Held(a) /\ Sent(a)'
  BY <1>1, <1>3 DEF Held, Sent
<1>9. Same(Peer(a))
  BY <1>3, <1>5, OthersSame
<1>10. /\ handed'[a].wake \/ owed'[a] => Held(a) > 0
       /\ basis[a] <= basis'[a] /\ basis'[a] <= conv.ordinary[Peer(a)]
       /\ handed'[a].turn <= conv.ordinary[Peer(a)]
  BY <1>1, <1>2, <1>3 DEF Numbered, Based
<1>11. Rise(a)
  BY <1>3, <1>6, <1>7, <1>8, <1>9, <1>10, RiseQuiet
<1> QED  BY <1>8, <1>11

\* A send that is rejected before it leaves keeps its number for now.
LEMMA RejectHereRises ==
  ASSUME TypeOK, WireInv, Sound, TurnInv, NEW a \in Agents, RejectHere(a)
  PROVE  Rise(a) /\ Sent(a)'
<1>1. Sent(a) /\ Numbered(a) /\ Based(a)
  BY DEF TurnInv
<1>2. /\ sending \in [Agents -> Sending \cup {None}] /\ basis[a] \in Nat
  BY DEF TypeOK
<1>3. /\ sending[a] \in Sending /\ sending[a] # None /\ sending[a].outcome = "none"
      /\ sending' = [sending EXCEPT ![a].outcome = "refused"]
      /\ UNCHANGED <<conv, track, basis, handed, owed, down, up, unheard>>
  BY <1>2 DEF RejectHere, Prepared, serverVars, wireVars, history
<1>4. sending'[a] = [sending[a] EXCEPT !.outcome = "refused"]
  BY <1>2, <1>3
<1>5. /\ sending'[a] \in Sending /\ sending'[a].turn = sending[a].turn
      /\ sending'[a].raced = sending[a].raced /\ sending'[a].blank = sending[a].blank
      /\ sending'[a].basis = sending[a].basis /\ sending'[a].outcome = "refused"
  BY <1>3, <1>4 DEF Sending, Outcomes
<1>6. sending'[a] # None
  BY <1>5, NoneAssumption
<1>7. Held(a)' = Held(a)
  BY <1>3, <1>5, <1>6 DEF Held
<1>8. Sent(a)'
  BY <1>1, <1>3, <1>5 DEF Sent
<1>9. Same(Peer(a))
  BY <1>2, <1>3, OthersSame
<1>10. /\ handed'[a].wake \/ owed'[a] => Held(a) > 0
       /\ basis[a] <= basis'[a] /\ basis'[a] <= conv.ordinary[Peer(a)]
       /\ handed'[a].turn <= conv.ordinary[Peer(a)]
  BY <1>1, <1>2, <1>3 DEF Numbered, Based
<1>11. Rise(a)
  BY <1>3, <1>7, <1>9, <1>10, RiseQuiet
<1> QED  BY <1>8, <1>11

\* A number that is taken back is one that was not held.
LEMMA ResolveRises ==
  ASSUME TypeOK, WireInv, Sound, TurnInv, NEW a \in Agents, Resolve(a)
  PROVE  Rise(a) /\ Sent(a)'
<1>1. Sent(a) /\ Numbered(a) /\ Based(a)
  BY DEF TurnInv
<1>2. /\ sending \in [Agents -> Sending \cup {None}] /\ track \in [Agents -> Track]
      /\ basis[a] \in Nat /\ owed \in [Agents -> BOOLEAN]
  BY DEF TypeOK, Track
<1>3. /\ sending[a] # None /\ sending' = [sending EXCEPT ![a] = None]
      /\ UNCHANGED <<conv, basis, handed, down, up, unheard>>
  BY DEF Resolve, serverVars, wireVars, history
<1>4. sending[a] \in Sending /\ sending[a].turn > 0 /\ sending'[a] = None
      /\ sending[a].turn \in Nat /\ track[a] \in Track /\ track[a].turn \in Nat
  BY <1>2, <1>3 DEF WireInv, Sending, Track
<1>5. Held(a)' = track'[a].turn /\ Sent(a)'
  BY <1>4 DEF Held, Sent
<1>6. track'[a].turn = Held(a)
  <2>1. CASE sending[a].outcome = "accepted"
    BY <2>1 DEF Resolve, Held
  <2>2. CASE sending[a].outcome # "accepted"
    <3>1. track'[a] = AfterRejection(track[a], sending[a])
      BY <1>2, <2>2 DEF Resolve
    <3>2. RolledBack(track[a], sending[a]).turn = Held(a) /\ RolledBack(track[a], sending[a]) \in Track
      <4>1. CASE track[a].turn = sending[a].turn
        <5>1. ~sending[a].raced
          BY <1>1, <1>3, <1>4, <4>1 DEF Sent
        <5>2. Held(a) = track[a].turn - 1 /\ Held(a) \in Nat
          BY <1>3, <2>2, <4>1, HeldTyped DEF Held
        <5> QED  BY <1>4, <4>1, <5>1, <5>2 DEF RolledBack, Track
      <4>2. CASE track[a].turn # sending[a].turn
        BY <1>4, <4>2 DEF RolledBack, Held
      <4> QED  BY <4>1, <4>2
    <3>3. ASSUME sending[a].blank, ~sending[a].raced PROVE Held(a) = 0
      <4>1. track[a].turn = 1 /\ sending[a].turn <= 1
        BY <1>1, <1>3, <3>3 DEF Sent
      <4>2. sending[a].turn = 1
        BY <1>4, <4>1
      <4> QED  BY <1>3, <2>2, <4>1, <4>2 DEF Held
    <3> HIDE DEF Track
    <3>4. ASSUME NEW t \in Track
          PROVE  /\ [t EXCEPT !.closed = TRUE].turn = t.turn
                 /\ [t EXCEPT !.localDone = FALSE, !.closed = FALSE].turn = t.turn
      BY DEF Track
    <3> QED  BY <3>1, <3>2, <3>3, <3>4 DEF AfterRejection, FreshTrack
  <2> QED  BY <2>1, <2>2
<1>7. \A b \in Agents : b # a => track'[b] = track[b] /\ owed'[b] = owed[b]
  BY <1>2 DEF Resolve, Settled
<1>8. owed'[a] => owed[a]
  BY <1>2 DEF Resolve, Settled
<1>9. Same(Peer(a))
  BY <1>2, <1>3, <1>7, OthersSame
<1>10. /\ handed'[a].wake \/ owed'[a] => Held(a) > 0
       /\ basis[a] <= basis'[a] /\ basis'[a] <= conv.ordinary[Peer(a)]
       /\ handed'[a].turn <= conv.ordinary[Peer(a)]
  BY <1>1, <1>2, <1>3, <1>8 DEF Numbered, Based
<1>11. Held(a)' = Held(a)
  BY <1>5, <1>6
<1>12. Rise(a)
  BY <1>3, <1>9, <1>10, <1>11, RiseQuiet
<1> QED  BY <1>5, <1>12

\* What is read was recorded, and something has been heard.
LEMMA BeginTurnRises ==
  ASSUME TypeOK, WireInv, Sound, TurnInv, NEW a \in Agents, BeginTurn(a)
  PROVE  Rise(a) /\ Sent(a)'
<1>1. Sent(a) /\ Numbered(a) /\ Based(a)
  BY DEF TurnInv
<1>2. /\ sending \in [Agents -> Sending \cup {None}] /\ basis \in [Agents -> Nat]
      /\ handed \in [Agents -> [wake : BOOLEAN, turn : Nat]] /\ owed \in [Agents -> BOOLEAN]
      /\ conv.ordinary \in [Agents -> Nat]
  BY DEF TypeOK
<1>3. /\ handed[a].wake /\ handed' = [handed EXCEPT ![a] = [wake |-> FALSE, turn |-> 0]]
      /\ basis' = [basis EXCEPT ![a] = MaxOf(@, handed[a].turn)]
      /\ owed' = [owed EXCEPT ![a] = TRUE] /\ sending' = Ended(a)
      /\ UNCHANGED <<conv, track, down, up, unheard>>
  BY DEF BeginTurn, serverVars, wireVars, history
<1>4. KeptMade /\ KeptAnswer /\ \A b \in Agents : b # a => sending'[b] = sending[b]
  BY <1>2, <1>3, EndedKept DEF Ended
<1>5. sending[a] # None => sending'[a].raced = sending[a].raced /\ sending'[a].basis = sending[a].basis
  BY <1>2, <1>3 DEF Ended, Sending
<1>6. basis'[a] = MaxOf(basis[a], handed[a].turn) /\ basis[a] \in Nat /\ basis'[a] \in Nat
      /\ handed[a].turn \in Nat /\ basis[a] <= basis'[a]
  BY <1>2, <1>3 DEF MaxOf
<1>7. ASSUME sending'[a] # None
      PROVE  /\ sending[a] # None /\ sending'[a].turn = sending[a].turn
             /\ sending'[a].blank = sending[a].blank /\ sending'[a].outcome = sending[a].outcome
  BY <1>4, <1>7 DEF KeptMade, KeptAnswer
<1>8. Held(a)' = Held(a)
  BY <1>3, <1>4 DEF Held, KeptMade, KeptAnswer
<1>9. Sent(a)'
  <2> SUFFICES ASSUME sending'[a] # None
               PROVE  /\ sending'[a].turn <= track'[a].turn
                      /\ sending'[a].raced => sending'[a].turn < track'[a].turn
                      /\ ~(sending'[a].blank /\ ~sending'[a].raced)
                      /\ sending'[a].basis <= basis'[a]
    BY DEF Sent
  <2>1. sending[a].basis \in Nat /\ sending[a].basis <= basis[a]
    BY <1>1, <1>2, <1>7 DEF Sent, Sending
  <2>2. sending'[a].basis <= basis'[a]
    BY <1>5, <1>6, <1>7, <2>1
  <2>3. /\ sending[a].turn <= track[a].turn /\ (sending[a].raced => sending[a].turn < track[a].turn)
        /\ ~(sending[a].blank /\ ~sending[a].raced)
    BY <1>1, <1>3, <1>7 DEF Sent
  <2> QED  BY <1>3, <1>5, <1>7, <2>2, <2>3
<1>10. Same(Peer(a))
  BY <1>2, <1>3, <1>4, OthersSame
<1>11. /\ handed'[a].wake \/ owed'[a] => Held(a) > 0
       /\ basis'[a] <= conv.ordinary[Peer(a)] /\ handed'[a].turn <= conv.ordinary[Peer(a)]
  <2>1. conv.ordinary[Peer(a)] \in Nat
    BY <1>2, Peers
  <2>2. handed'[a].turn = 0
    BY <1>2, <1>3
  <2> QED  BY <1>1, <1>3, <1>6, <2>1, <2>2 DEF Numbered, Based, MaxOf
<1>12. Rise(a)
  BY <1>3, <1>6, <1>8, <1>10, <1>11, RiseQuiet
<1> QED  BY <1>9, <1>12

\* A number is taken for a notice, which is put on its way.
NoticeMade(a, k) ==
    /\ track' = [track EXCEPT ![a].turn = NextTurn(track[a])]
    /\ up' = [up EXCEPT ![a] = Append(@, Notice(k, NextTurn(track[a])))]
    /\ KeptMade

\* What that does to the number and to the queue.
NoticeUp(a, k) ==
    /\ Held(a)' = track[a].turn + 1 /\ track'[a].turn = track[a].turn + 1
    /\ Held(a) <= track[a].turn
    /\ sending'[a] # None => sending[a].turn <= track[a].turn
    /\ \A b \in Agents : b # a => track'[b] = track[b] /\ up'[b] = up[b]
    /\ \A i \in DOMAIN up[a] : \E j \in DOMAIN up'[a] : up'[a][j] = up[a][i]
    /\ \A j \in DOMAIN up'[a] :
         \/ \E i \in DOMAIN up[a] : up'[a][j] = up[a][i]
         \/ up'[a][j].kind \in NoticeKinds /\ up'[a][j].turn <= Held(a)'
    /\ \E j \in DOMAIN up'[a] : up'[a][j].kind = k /\ Held(a)' <= up'[a][j].turn

\* A number that is taken for a notice is held, and told.
LEMMA NoticeRises ==
  ASSUME TypeOK, WireInv, Sound, TurnInv, NEW a \in Agents, NEW k \in NoticeKinds, NoticeMade(a, k)
  PROVE  NoticeUp(a, k)
<1>1. Sent(a)
  BY DEF TurnInv
<1>2. /\ track \in [Agents -> Track] /\ track[a] \in Track /\ track[a].turn \in Nat
      /\ up \in [Agents -> Seq(Envelope)] /\ up[a] \in Seq(Envelope)
  BY DEF TypeOK, Track
<1>3. track'[a].turn = track[a].turn + 1 /\ \A b \in Agents : b # a => track'[b] = track[b]
  BY <1>2 DEF NoticeMade, NextTurn, Track
<1>4. ASSUME sending'[a] # None
      PROVE  /\ sending'[a].turn = sending[a].turn /\ sending[a].turn <= track[a].turn
             /\ sending[a].turn \in Nat
  BY <1>1, <1>4 DEF NoticeMade, KeptMade, Sent, Sending
<1>5. Held(a)' = track[a].turn + 1 /\ Held(a) <= track[a].turn
  BY <1>2, <1>3, <1>4 DEF Held
<1> DEFINE n == Notice(k, NextTurn(track[a]))
<1>6. n \in Envelope /\ n.kind = k /\ n.turn = track[a].turn + 1
  BY NoticeTyped DEF Notice, NextTurn
<1>7. up'[a] = Append(up[a], n) /\ \A b \in Agents : b # a => up'[b] = up[b]
  BY <1>2 DEF NoticeMade
<1> HIDE DEF n
<1>8. /\ \A i \in DOMAIN up[a] : \E j \in DOMAIN up'[a] : up'[a][j] = up[a][i]
      /\ \A j \in DOMAIN up'[a] : (\E i \in DOMAIN up[a] : up'[a][j] = up[a][i]) \/ up'[a][j] = n
      /\ \E j \in DOMAIN up'[a] : up'[a][j] = n
  <2> DEFINE s == up[a]
             q == up'[a]
  <2>1. s \in Seq(Envelope) /\ n \in Envelope /\ q = Append(s, n)
    BY <1>2, <1>6, <1>7
  <2> HIDE DEF s, q
  <2>2. /\ \A i \in DOMAIN s : \E j \in DOMAIN q : q[j] = s[i]
        /\ \A j \in DOMAIN q : (\E i \in DOMAIN s : q[j] = s[i]) \/ q[j] = n
        /\ \E j \in DOMAIN q : q[j] = n
    <3>1. OneMore(s, n, q)
      BY <2>1, AppendKeeps
    <3> QED  BY <3>1 DEF OneMore
  <2> QED  BY <2>2 DEF s, q
<1>9. n.kind \in NoticeKinds /\ n.turn <= Held(a)' /\ Held(a)' <= n.turn
  BY <1>2, <1>5, <1>6
<1> QED  BY <1>3, <1>4, <1>5, <1>6, <1>7, <1>8, <1>9 DEF NoticeUp

\* A turn that fails is told to the peer.
LEMMA TurnFailsRises ==
  ASSUME TypeOK, WireInv, Sound, TurnInv, NEW a \in Agents, TurnFails(a)
  PROVE  Rise(a) /\ Sent(a)'
<1>1. Sent(a) /\ Numbered(a) /\ Based(a)
  BY DEF TurnInv
<1>2. /\ sending \in [Agents -> Sending \cup {None}] /\ track[a].turn \in Nat
      /\ basis[a] \in Nat /\ owed \in [Agents -> BOOLEAN] /\ Held(a) \in Nat
  BY HeldTyped DEF TypeOK
<1>3. /\ owed[a] /\ owed' = [owed EXCEPT ![a] = FALSE]
      /\ track' = [track EXCEPT ![a].turn = NextTurn(track[a])]
      /\ up' = [up EXCEPT ![a] = Append(@, Notice("turn_failure", NextTurn(track[a])))]
      /\ sending' = Ended(a)
      /\ UNCHANGED <<conv, basis, handed, down, unheard>>
  BY DEF TurnFails, serverVars, history
<1>4. KeptMade /\ \A b \in Agents : b # a => sending'[b] = sending[b]
  BY <1>2, <1>3, EndedKept DEF Ended
<1>5. sending[a] # None => sending'[a].raced = sending[a].raced /\ sending'[a].basis = sending[a].basis
  BY <1>2, <1>3 DEF Ended, Sending
<1>6. "turn_failure" \in NoticeKinds
  BY DEF NoticeKinds
<1>7. NoticeUp(a, "turn_failure")
  BY <1>3, <1>4, <1>6, NoticeRises DEF NoticeMade
<1>8. Sent(a)'
  <2> SUFFICES ASSUME sending'[a] # None
               PROVE  /\ sending'[a].turn <= track'[a].turn
                      /\ sending'[a].raced => sending'[a].turn < track'[a].turn
                      /\ ~(sending'[a].blank /\ ~sending'[a].raced)
                      /\ sending'[a].basis <= basis'[a]
    BY DEF Sent
  <2>1. /\ sending[a] # None /\ sending[a].turn \in Nat /\ sending'[a].turn = sending[a].turn
        /\ sending'[a].blank = sending[a].blank
    BY <1>4 DEF KeptMade, Sending
  <2>2. ~(sending[a].blank /\ ~sending[a].raced) /\ sending[a].basis <= basis[a]
    BY <1>1, <1>3, <2>1 DEF Sent
  <2> QED  BY <1>2, <1>3, <1>5, <1>7, <2>1, <2>2 DEF NoticeUp
<1>9. Same(Peer(a))
  BY <1>2, <1>3, <1>4, <1>7, OthersSame DEF NoticeUp
<1>10. /\ Held(a)' > 0 /\ Held(a) <= Held(a)' /\ basis[a] <= basis'[a]
       /\ basis'[a] <= conv.ordinary[Peer(a)] /\ handed'[a].turn <= conv.ordinary[Peer(a)]
  BY <1>1, <1>2, <1>3, <1>7 DEF Based, NoticeUp
<1>11. Rise(a)
  BY <1>3, <1>6, <1>7, <1>9, <1>10 DEF Rise, NoticeUp
<1> QED  BY <1>8, <1>11

\* A notice that is dropped brings no number that its recipient does not hold, unless it
\* crosses the send under way; and if it is the report of a drop, that leaves a doubt.
LEMMA NoticeDropRises ==
  ASSUME TypeOK, WireInv, Sound, TurnInv, NEW a \in Agents, down[a] # <<>>,
         Head(down[a]).kind \in NoticeKinds, Drop(a, Head(down[a])), doubt' \subseteq {"untold"},
         down' = [down EXCEPT ![a] = Tail(@)], UNCHANGED <<conv, basis, owed>>
  PROVE  Rise(a) /\ Sent(a)'
<1> DEFINE m == Head(down[a])
<1>1. Sent(a) /\ Numbered(a) /\ Based(a)
  BY DEF TurnInv
<1>2. /\ track[a].turn \in Nat /\ basis[a] \in Nat /\ Held(a) \in Nat
      /\ down \in [Agents -> Seq(Inbound)] /\ down[a] \in Seq(Inbound)
  BY HeldTyped DEF TypeOK
<1>3. m = down[a][1] /\ 1 \in DOMAIN down[a] /\ m \in Inbound
  BY <1>2, TailElems
<1>4. m.turn \in Nat /\ m.turn <= track[a].turn /\ m.kind # "ordinary"
  BY <1>3 DEF Drop, Stale, Inbound, NoticeKinds
<1>5. /\ UNCHANGED <<track, sending, up, handed, unheard>>
      /\ doubt' = doubt \cup Missed(a, m)
  BY <1>4 DEF Drop, IsSilent
<1>6. ~Crosses(a, m)
  <2>1. "crossed" \notin doubt' /\ "crossed" \in Doubts
    BY DEF Doubts
  <2> HIDE DEF m
  <2> QED  BY <1>5, <2>1 DEF Missed
<1>7. m.kind = "stale_delivery" => "untold" \in doubt'
  <2>1. "untold" \in Doubts
    BY DEF Doubts
  <2> HIDE DEF m
  <2> QED  BY <1>5, <2>1 DEF Missed
<1>8. m.turn <= Held(a)
  <2>1. m.kind \in NoticeKinds
    OBVIOUS
  <2> HIDE DEF m
  <2>2. CASE sending[a] # None /\ sending[a].outcome # "accepted" /\ track[a].turn = sending[a].turn
    <3>1. m.turn # track[a].turn
      BY <1>6, <2>1, <2>2 DEF Crosses
    <3> QED  BY <1>2, <1>4, <2>2, <3>1 DEF Held
  <2>3. CASE ~(sending[a] # None /\ sending[a].outcome # "accepted" /\ track[a].turn = sending[a].turn)
    BY <1>4, <2>3 DEF Held
  <2> QED  BY <2>2, <2>3
<1>9. Held(a)' = Held(a)
  BY <1>5 DEF Held
<1>10. Sent(a)'
  BY <1>1, <1>5 DEF Sent
<1>11. Same(Peer(a))
  BY <1>2, <1>5, OthersSame
<1> HIDE DEF m
<1>12. down'[a] = Tail(down[a])
  BY <1>2
<1>13. /\ \A j \in DOMAIN down'[a] : \E i \in DOMAIN down[a] : down'[a][j] = down[a][i]
       /\ \A i \in DOMAIN down[a] : i = 1 \/ \E j \in DOMAIN down'[a] : down'[a][j] = down[a][i]
  BY <1>2, <1>12, TailKeeps
<1>14. \A i \in DOMAIN down[a] : \/ \E j \in DOMAIN down'[a] : down'[a][j] = down[a][i]
                                 \/ down[a][i].turn <= Held(a)'
  BY <1>3, <1>8, <1>9, <1>13
<1>15. ASSUME a \in unheard', "untold" \notin doubt'
       PROVE  /\ a \in unheard
              /\ \A i \in DOMAIN down[a] : down[a][i].kind = "stale_delivery" =>
                   \E j \in DOMAIN down'[a] : down'[a][j] = down[a][i]
  BY <1>3, <1>5, <1>7, <1>13, <1>15
<1>16. /\ handed'[a].wake \/ owed'[a] => Held(a)' > 0
       /\ basis[a] <= basis'[a] /\ basis'[a] <= conv.ordinary[Peer(a)]
       /\ handed'[a].turn <= conv.ordinary[Peer(a)] /\ Held(a) <= Held(a)'
  BY <1>1, <1>2, <1>5, <1>9 DEF Numbered, Based
<1>17. Peer(a) \in unheard' => Peer(a) \in unheard
  BY <1>5
<1>18. Rise(a)
  BY <1>5, <1>9, <1>11, <1>13, <1>14, <1>15, <1>16, <1>17 DEF Rise
<1> QED  BY <1>10, <1>18

\* An ordinary message that is dropped is told to its sender: while the conversation is open
\* the track of a is not closed.
LEMMA DropRises ==
  ASSUME TypeOK, WireInv, Sound, TurnInv, OpenInv, conv.status = "open", NEW a \in Agents,
         MayReceive(a), down[a] # <<>>, Head(down[a]).kind \notin NoticeKinds, Drop(a, Head(down[a])),
         down' = [down EXCEPT ![a] = Tail(@)], UNCHANGED <<conv, basis, owed>>
  PROVE  Rise(a) /\ Sent(a)'
<1> DEFINE m == Head(down[a])
<1>1. Sent(a) /\ Numbered(a) /\ Based(a)
  BY DEF TurnInv
<1>2. /\ sending \in [Agents -> Sending \cup {None}] /\ track[a].turn \in Nat
      /\ basis[a] \in Nat /\ Held(a) \in Nat
      /\ down \in [Agents -> Seq(Inbound)] /\ down[a] \in Seq(Inbound)
  BY HeldTyped DEF TypeOK
<1>3. m = down[a][1] /\ 1 \in DOMAIN down[a] /\ m \in Inbound
  BY <1>2, TailElems
<1>4. m.kind \notin NoticeKinds
  OBVIOUS
<1>5. ~track[a].closed
  BY DEF OpenInv, Sure, Sound, EndsAgree, Agrees, MayReceive
<1>6. m.kind # "end" /\ m.turn <= track[a].turn
  BY DEF Drop, Stale
<1>7. m.kind = "ordinary" /\ m.turn \in Nat
  BY <1>3, <1>4, <1>6 DEF Inbound
<1>8. /\ track' = [track EXCEPT ![a].turn = NextTurn(track[a])]
      /\ up' = [up EXCEPT ![a] = Append(@, Notice("stale_delivery", NextTurn(track[a])))]
      /\ sending' = Raced(a) /\ unheard' = unheard \cup {Peer(a)} /\ UNCHANGED handed
  BY <1>4, <1>5, <1>7 DEF Drop, IsSilent
<1>9. "stale_delivery" \in NoticeKinds
  BY DEF NoticeKinds
<1>10. /\ KeptMade /\ (sending[a] # None => sending'[a].raced)
       /\ \A b \in Agents : b # a => sending'[b] = sending[b]
  BY <1>2, <1>8, RacedKept DEF Raced
<1>11. NoticeUp(a, "stale_delivery")
  BY <1>8, <1>9, <1>10, NoticeRises DEF NoticeMade
<1>12. Sent(a)'
  <2> SUFFICES ASSUME sending'[a] # None
               PROVE  /\ sending'[a].turn < track'[a].turn /\ sending'[a].raced
                      /\ sending'[a].turn <= track'[a].turn
                      /\ sending'[a].basis <= basis'[a]
    BY DEF Sent
  <2>1. sending[a] # None /\ sending[a].turn \in Nat /\ sending'[a].turn = sending[a].turn
    BY <1>10 DEF KeptMade, Sending
  <2>2. sending'[a].basis = sending[a].basis /\ sending[a].basis <= basis[a]
    BY <1>1, <1>2, <1>8, <2>1 DEF Sent, Raced, Sending
  <2> QED  BY <1>2, <1>10, <1>11, <2>1, <2>2 DEF NoticeUp
<1>13. Same(Peer(a))
  BY <1>2, <1>8, <1>10, <1>11, OthersSame DEF NoticeUp
<1>14. /\ Held(a)' > 0 /\ Held(a) <= Held(a)' /\ m.turn <= Held(a)' /\ basis[a] <= basis'[a]
       /\ basis'[a] <= conv.ordinary[Peer(a)] /\ handed'[a].turn <= conv.ordinary[Peer(a)]
  BY <1>1, <1>2, <1>6, <1>7, <1>8, <1>11 DEF Based, NoticeUp
<1> HIDE DEF m
<1>15. down'[a] = Tail(down[a])
  BY <1>2
<1>16. /\ \A j \in DOMAIN down'[a] : \E i \in DOMAIN down[a] : down'[a][j] = down[a][i]
       /\ \A i \in DOMAIN down[a] : i = 1 \/ \E j \in DOMAIN down'[a] : down'[a][j] = down[a][i]
  BY <1>2, <1>15, TailKeeps
<1>17. /\ \A i \in DOMAIN down[a] : \/ \E j \in DOMAIN down'[a] : down'[a][j] = down[a][i]
                                    \/ down[a][i].turn <= Held(a)'
       /\ \A i \in DOMAIN down[a] : down[a][i].kind = "stale_delivery" =>
            \E j \in DOMAIN down'[a] : down'[a][j] = down[a][i]
  BY <1>3, <1>7, <1>14, <1>16
<1>18. a \in unheard' => a \in unheard
  BY <1>8, Peers
<1>19. Rise(a)
  BY <1>9, <1>11, <1>13, <1>14, <1>16, <1>17, <1>18 DEF Rise, NoticeUp
<1> QED  BY <1>12, <1>19

\* A message that is taken brings a number its sender holds.
LEMMA TakeRises ==
  ASSUME TypeOK, WireInv, Sound, TurnInv, OpenInv, conv.status = "open", NEW a \in Agents,
         down[a] # <<>>, Take(a, Head(down[a])),
         down' = [down EXCEPT ![a] = Tail(@)], UNCHANGED <<conv, basis, owed>>
  PROVE  Rise(a) /\ Sent(a)'
<1> DEFINE m == Head(down[a])
           t == Heard(track[a], m)
<1>1. Sent(a) /\ Numbered(a) /\ Based(a)
  BY DEF TurnInv
<1>2. /\ sending \in [Agents -> Sending \cup {None}] /\ track[a].turn \in Nat /\ track[a] \in Track
      /\ track \in [Agents -> Track] /\ conv.ordinary[Peer(a)] \in Nat
      /\ basis[a] \in Nat /\ Held(a) \in Nat /\ Held(Peer(a)) \in Nat
      /\ down \in [Agents -> Seq(Inbound)] /\ down[a] \in Seq(Inbound)
      /\ handed \in [Agents -> [wake : BOOLEAN, turn : Nat]]
  BY HeldTyped, Peers DEF TypeOK, Track
<1>3. m = down[a][1] /\ 1 \in DOMAIN down[a] /\ m \in Inbound
  BY <1>2, TailElems
<1>4. m.kind # "end"
  BY <1>3 DEF OpenInv, Sure, Sound, EndsAgree, Agrees
<1>5. m.turn \in Nat /\ m.turn > track[a].turn
  BY <1>2, <1>3, <1>4 DEF Take, Stale, Inbound
<1>6. t.turn = m.turn /\ t # track[a]
  <2>1. t.turn = MaxOf(track[a].turn, m.turn)
    BY <1>2 DEF Heard, Track
  <2>2. MaxOf(track[a].turn, m.turn) = m.turn
    BY <1>2, <1>5 DEF MaxOf
  <2>3. m.turn # track[a].turn
    BY <1>2, <1>5
  <2> HIDE DEF t
  <2> QED  BY <2>1, <2>2, <2>3
<1>7. track' = [track EXCEPT ![a] = t] /\ sending' = Raced(a) /\ UNCHANGED up
      /\ unheard' = IF m.kind = "stale_delivery" THEN unheard \ {a} ELSE unheard
  BY <1>6 DEF Take
<1>8. /\ KeptMade /\ (sending[a] # None => sending'[a].raced)
      /\ \A b \in Agents : b # a => sending'[b] = sending[b] /\ track'[b] = track[b]
  BY <1>2, <1>7, RacedKept DEF Raced
<1>9. track'[a].turn = m.turn
  BY <1>2, <1>6, <1>7
<1>10. \/ UNCHANGED handed
       \/ handed' = [handed EXCEPT ![a] =
               [wake |-> TRUE, turn |-> IF m.kind = "ordinary" THEN MaxOf(@.turn, m.turn) ELSE @.turn]]
  BY DEF Take
<1> HIDE DEF m, t
<1>11. ASSUME sending'[a] # None
       PROVE  /\ sending[a] # None /\ sending[a].turn \in Nat /\ sending'[a].turn = sending[a].turn
              /\ sending[a].turn <= track[a].turn
  BY <1>1, <1>8, <1>11 DEF KeptMade, Sending, Sent
<1>12. Held(a)' = m.turn /\ Held(a) <= track[a].turn
  BY <1>2, <1>5, <1>9, <1>11 DEF Held
<1>13. Sent(a)'
  <2> SUFFICES ASSUME sending'[a] # None
               PROVE  /\ sending'[a].turn < track'[a].turn /\ sending'[a].raced
                      /\ sending'[a].turn <= track'[a].turn
                      /\ sending'[a].basis <= basis'[a]
    BY DEF Sent
  <2>1. sending'[a].basis = sending[a].basis /\ sending[a].basis <= basis[a]
    BY <1>1, <1>2, <1>7, <1>11 DEF Sent, Raced, Sending
  <2> QED  BY <1>2, <1>5, <1>8, <1>9, <1>11, <2>1
<1>14. \A b \in Agents : b # a => handed'[b] = handed[b] /\ down'[b] = down[b]
  BY <1>2, <1>10
<1>15. Same(Peer(a))
  BY <1>7, <1>8, <1>14, OthersSame
<1>16. handed'[a].turn <= conv.ordinary[Peer(a)]
  <2>1. handed[a].turn \in Nat /\ handed[a].turn <= conv.ordinary[Peer(a)]
    BY <1>1, <1>2 DEF Based
  <2>2. m.kind = "ordinary" => m.turn <= conv.ordinary[Peer(a)]
    BY <1>1, <1>3 DEF Based
  <2>3. handed'[a].turn \in {handed[a].turn} \cup (IF m.kind = "ordinary" THEN {m.turn} ELSE {})
    BY <1>2, <1>10 DEF MaxOf
  <2> QED  BY <2>1, <2>2, <2>3
<1>17. m.turn <= Held(Peer(a))
  BY <1>1, <1>3 DEF Numbered
<1>18. down'[a] = Tail(down[a])
  BY <1>2
<1>19. /\ \A j \in DOMAIN down'[a] : \E i \in DOMAIN down[a] : down'[a][j] = down[a][i]
       /\ \A i \in DOMAIN down[a] : i = 1 \/ \E j \in DOMAIN down'[a] : down'[a][j] = down[a][i]
  BY <1>2, <1>18, TailKeeps
<1>20. m.turn <= Held(a)' /\ Held(a)' > 0 /\ Held(a) <= Held(a)' /\ Held(a)' <= Held(Peer(a))
       /\ basis[a] <= basis'[a] /\ basis'[a] <= conv.ordinary[Peer(a)]
  BY <1>1, <1>2, <1>5, <1>12, <1>17 DEF Based
<1>21. \A i \in DOMAIN down[a] : \/ \E j \in DOMAIN down'[a] : down'[a][j] = down[a][i]
                                 \/ down[a][i].turn <= Held(a)'
  BY <1>3, <1>19, <1>20
<1>22. ASSUME a \in unheard'
       PROVE  /\ a \in unheard
              /\ \A i \in DOMAIN down[a] : down[a][i].kind = "stale_delivery" =>
                   \E j \in DOMAIN down'[a] : down'[a][j] = down[a][i]
  BY <1>3, <1>7, <1>19, <1>22
<1>23. Peer(a) \in unheard' => Peer(a) \in unheard
  BY <1>7
<1>24. Rise(a)
  BY <1>7, <1>15, <1>16, <1>19, <1>20, <1>21, <1>22, <1>23 DEF Rise
<1> QED  BY <1>13, <1>24

\* What an accepted message does to the numbers: its own is the server's newest, is held by its
\* sender, and is what the sender holds if it holds more than before.
LEMMA AcceptedHeld ==
  ASSUME TypeOK, TypeOK', WireInv, WireInv', AskedInv, Sound, TurnInv, NEW a \in Agents, Record(a),
         Rejection(a, Head(up[a])) = "none"
  PROVE  /\ Held(a) <= Held(a)' /\ Head(up[a]).turn <= Held(a)'
         /\ Held(a)' = Held(a) \/ Held(a)' = Head(up[a]).turn
         /\ Held(a)' \in Nat /\ Held(Peer(a))' = Held(Peer(a)) /\ Sent(a)' /\ Sent(Peer(a))'
<1> DEFINE m == Head(up[a])
<1>1. Sent(a) /\ Numbered(a) /\ Sent(Peer(a))
  BY Peers DEF TurnInv
<1>2. /\ up[a] \in Seq(Envelope) /\ track[a].turn \in Nat /\ sending \in [Agents -> Sending \cup {None}]
      /\ Held(a) \in Nat
  BY HeldTyped DEF TypeOK
<1>3. up[a] # <<>> /\ sending' = Answered(a, m, "accepted") /\ UNCHANGED <<track, basis, handed, owed>>
  BY DEF Record
<1>4. m = up[a][1] /\ 1 \in DOMAIN up[a] /\ m \in Envelope
  BY <1>2, <1>3, TailElems
<1>5. m.turn \in Nat /\ (m.kind \in NoticeKinds \/ m.kind = "ordinary")
  BY <1>4 DEF Envelope
<1>6. "accepted" \in Outcomes
  BY DEF Outcomes
<1>7. \A b \in Agents : b # a => sending'[b] = sending[b]
  BY <1>3, <1>6, AnsweredTyped
<1>8. Held(Peer(a))' = Held(Peer(a)) /\ Sent(Peer(a))'
  BY <1>1, <1>3, <1>7, Peers DEF Held, Sent
<1> HIDE DEF m
<1>9. CASE m.kind \in NoticeKinds
  <2>1. ~m.asked /\ m.turn <= Held(a)
    BY <1>1, <1>4, <1>9 DEF WireInv, Numbered
  <2>2. sending' = sending
    BY <1>3, <2>1 DEF Answered
  <2>3. Held(a)' = Held(a) /\ Sent(a)'
    BY <1>1, <1>3, <2>2 DEF Held, Sent
  <2>4. Held(a) <= Held(a)
    BY <1>2
  <2> QED  BY <1>2, <1>8, <2>1, <2>3, <2>4 DEF m
<1>10. CASE m.kind = "ordinary"
  <2>1. m.asked
    BY <1>4, <1>10 DEF AskedInv, Sure, Sound
  <2>2. sending[a] # None /\ sending[a].outcome = "none" /\ m.turn = sending[a].turn
    BY <1>4, <2>1 DEF WireInv
  <2>3. /\ sending[a] \in Sending /\ sending'[a] \in Sending
        /\ sending'[a] = [sending[a] EXCEPT !.outcome = "accepted"]
    BY <1>3, <1>6, <2>1, AnsweredTyped DEF m
  <2>4. /\ sending'[a].turn = sending[a].turn /\ sending'[a].raced = sending[a].raced
        /\ sending'[a].blank = sending[a].blank /\ sending'[a].basis = sending[a].basis
        /\ sending'[a].outcome = "accepted"
    BY <2>3 DEF Sending
  <2>5. Held(a)' = track[a].turn
    BY <1>3, <2>4 DEF Held
  <2>6. m.turn <= track[a].turn
    BY <1>1, <2>2 DEF Sent
  <2>7. Held(a) <= track[a].turn /\ (Held(a) = track[a].turn \/ m.turn = track[a].turn)
    BY <1>2, <2>2 DEF Held
  <2>8. Sent(a)'
    BY <1>1, <1>3, <2>2, <2>4 DEF Sent
  <2> QED  BY <1>2, <1>5, <1>8, <2>5, <2>6, <2>7, <2>8 DEF m
<1> QED  BY <1>5, <1>9, <1>10

\* An accepted message that does not end the conversation goes down to the peer.
LEMMA AcceptedKeeps ==
  ASSUME TypeOK, TypeOK', WireInv, WireInv', AskedInv, Sound, Sound', TurnInv, NEW a \in Agents,
         Record(a), Rejection(a, Head(up[a])) = "none"
  PROVE  NoneYet' /\ \A b \in Agents : Sent(b)' /\ Numbered(b)' /\ Level(b)' /\ Based(b)' /\ Told(b)'
<1> DEFINE p == Peer(a)
           m == Head(up[a])
           sent == [kind |-> m.kind, turn |-> m.turn, done |-> m.done]
           entry == Recorded(a, m)
<1>1. p \in Agents /\ p # a /\ Peer(p) = a /\ \A b \in Agents : b = a \/ b = p
  BY Peers
<1>2. /\ Sent(a) /\ Numbered(a) /\ Level(a) /\ Based(a) /\ Told(a)
      /\ Sent(p) /\ Numbered(p) /\ Level(p) /\ Based(p) /\ Told(p)
      /\ NoneYet
  BY <1>1 DEF TurnInv
<1>3. /\ Held(a) <= Held(a)' /\ m.turn <= Held(a)'
      /\ Held(a)' = Held(a) \/ Held(a)' = m.turn
      /\ Held(a)' \in Nat /\ Held(p)' = Held(p) /\ Sent(a)' /\ Sent(p)'
  BY AcceptedHeld
<1>4. /\ up[a] # <<>> /\ up' = [up EXCEPT ![a] = Tail(@)] /\ conv' = Evaluated(entry)
      /\ down' = [down EXCEPT ![p] = @ \o <<sent>> \o (IF Exceeded(entry) THEN <<EndNotice>> ELSE <<>>)]
      /\ UNCHANGED <<track, basis, handed, owed, unheard, doubt>>
  BY DEF Record
<1>5. /\ up \in [Agents -> Seq(Envelope)] /\ up[a] \in Seq(Envelope)
      /\ down \in [Agents -> Seq(Inbound)] /\ down[p] \in Seq(Inbound)
      /\ conv \in Entry /\ conv.max \in Nat /\ conv.ordinary \in [Agents -> Nat]
      /\ conv.ordinary[a] \in Nat /\ conv.ordinary[p] \in Nat
      /\ basis[a] \in Nat /\ basis[p] \in Nat /\ handed[a].turn \in Nat /\ handed[p].turn \in Nat
      /\ Held(a) \in Nat /\ Held(p) \in Nat
  BY <1>1, HeldTyped DEF TypeOK, Entry
<1>6. m = up[a][1] /\ 1 \in DOMAIN up[a] /\ m \in Envelope
  BY <1>4, <1>5, TailElems
<1>7. /\ m.turn \in Nat /\ m.turn > 0 /\ m.basis \in Nat
      /\ m.kind \in NoticeKinds \/ m.kind = "ordinary"
  BY <1>6 DEF Envelope
<1>8. ~Exceeded(entry) /\ conv' = entry
  BY <1>4 DEF Sound, Evaluated, Recorded
<1>9. /\ conv'.status = "open" /\ conv'.max = m.turn
      /\ conv'.ordinary = IF m.kind = "ordinary" THEN [conv.ordinary EXCEPT ![a] = m.turn]
                          ELSE conv.ordinary
  BY <1>8 DEF Recorded
<1>10. /\ conv'.ordinary[p] = conv.ordinary[p]
       /\ conv'.ordinary[a] = IF m.kind = "ordinary" THEN m.turn ELSE conv.ordinary[a]
  BY <1>1, <1>5, <1>9
<1>11. conv.max < m.turn
  <2>1. CASE conv.status = "open"
    BY <1>5, <1>7, <2>1 DEF Rejection
  <2>2. CASE conv.status = "none"
    BY <1>2, <1>7, <2>2 DEF NoneYet, NoConversation
  <2> QED  BY <1>5, <2>1, <2>2 DEF Sound, Entry
<1>12. m.kind = "ordinary" => m.basis = conv.ordinary[p]
  BY DEF Rejection
<1>13. sent \in Inbound /\ sent.kind = m.kind /\ sent.turn = m.turn
  BY <1>6 DEF Inbound, Envelope
<1> HIDE DEF sent, m, entry
<1>14. down'[p] = Append(down[p], sent) /\ down'[a] = down[a]
  <2>1. down'[p] = (down[p] \o <<sent>>) \o <<>>
    BY <1>1, <1>4, <1>5, <1>8
  <2> QED  BY <1>1, <1>4, <1>5, <1>13, <2>1
<1>15. /\ \A i \in DOMAIN down[p] : \E j \in DOMAIN down'[p] : down'[p][j] = down[p][i]
       /\ \A j \in DOMAIN down'[p] : (\E i \in DOMAIN down[p] : down'[p][j] = down[p][i]) \/ down'[p][j] = sent
       /\ \E j \in DOMAIN down'[p] : down'[p][j] = sent
  <2> DEFINE s == down[p]
             q == down'[p]
  <2>1. s \in Seq(Inbound) /\ sent \in Inbound /\ q = Append(s, sent)
    BY <1>5, <1>13, <1>14
  <2> HIDE DEF s, q
  <2>2. /\ \A i \in DOMAIN s : \E j \in DOMAIN q : q[j] = s[i]
        /\ \A j \in DOMAIN q : (\E i \in DOMAIN s : q[j] = s[i]) \/ q[j] = sent
        /\ \E j \in DOMAIN q : q[j] = sent
    <3>1. OneMore(s, sent, q)
      BY <2>1, AppendKeeps
    <3> QED  BY <3>1 DEF OneMore
  <2> QED  BY <2>2 DEF s, q
<1>16. up'[a] = Tail(up[a]) /\ up'[p] = up[p]
  BY <1>1, <1>4, <1>5
<1>17. /\ \A j \in DOMAIN up'[a] : \E i \in DOMAIN up[a] : up'[a][j] = up[a][i]
       /\ \A i \in DOMAIN up[a] : i = 1 \/ \E j \in DOMAIN up'[a] : up'[a][j] = up[a][i]
  BY <1>4, <1>5, <1>16, TailKeeps
<1>18. /\ \A i \in DOMAIN up[a] : up[a][i].turn \in Nat
       /\ \A i \in DOMAIN down[p] : down[p][i].turn \in Nat
  <2>1. ASSUME NEW i \in DOMAIN up[a] PROVE up[a][i].turn \in Nat
    <3>1. up[a][i] \in Envelope
      BY <1>5, LenProperties, ElementOfSeq
    <3> QED  BY <3>1 DEF Envelope
  <2>2. ASSUME NEW i \in DOMAIN down[p] PROVE down[p][i].turn \in Nat
    <3>1. down[p][i] \in Inbound
      BY <1>5, LenProperties, ElementOfSeq
    <3> QED  BY <3>1 DEF Inbound
  <2> QED  BY <2>1, <2>2
<1> HIDE DEF p
<1>19. NoneYet'
  BY <1>9 DEF NoneYet
<1>20. Numbered(a)'
  <2>1. ASSUME NEW j \in DOMAIN up'[a]
        PROVE  /\ up'[a][j].kind \in NoticeKinds => up'[a][j].turn <= Held(a)'
               /\ up'[a][j].kind = "ordinary" => up'[a][j].basis <= basis'[a]
    <3>1. PICK i \in DOMAIN up[a] : up'[a][j] = up[a][i]
      BY <1>17
    <3>2. /\ up[a][i].kind \in NoticeKinds => up[a][i].turn <= Held(a)
          /\ up[a][i].kind = "ordinary" => up[a][i].basis <= basis[a]
      BY <1>2 DEF Numbered
    <3> QED  BY <1>3, <1>4, <1>5, <1>18, <3>1, <3>2
  <2>2. handed'[a].wake \/ owed'[a] => Held(a)' > 0
    BY <1>2, <1>3, <1>4, <1>5 DEF Numbered
  <2>3. \A i \in DOMAIN down'[a] : down'[a][i].turn <= Held(p)'
    BY <1>2, <1>3, <1>14 DEF Numbered, p
  <2> QED  BY <2>1, <2>2, <2>3 DEF Numbered, p
<1>21. Numbered(p)'
  <2>1. ASSUME NEW j \in DOMAIN down'[p] PROVE down'[p][j].turn <= Held(a)'
    <3>1. CASE down'[p][j] = sent
      BY <1>3, <1>13, <3>1
    <3>2. CASE \E i \in DOMAIN down[p] : down'[p][j] = down[p][i]
      <4>1. PICK i \in DOMAIN down[p] : down'[p][j] = down[p][i]
        BY <3>2
      <4>2. down[p][i].turn <= Held(a)
        BY <1>1, <1>2 DEF Numbered
      <4> QED  BY <1>3, <1>5, <1>18, <4>1, <4>2
    <3> QED  BY <1>15, <3>1, <3>2
  <2>2. handed'[p].wake \/ owed'[p] => Held(p)' > 0
    BY <1>2, <1>3, <1>4 DEF Numbered
  <2>3. \A i \in DOMAIN up'[p] :
          /\ up'[p][i].kind \in NoticeKinds => up'[p][i].turn <= Held(p)'
          /\ up'[p][i].kind = "ordinary" => up'[p][i].basis <= basis'[p]
    BY <1>2, <1>3, <1>4, <1>16 DEF Numbered
  <2> QED  BY <1>1, <2>1, <2>2, <2>3 DEF Numbered
<1>22. \E j \in DOMAIN down'[p] : down'[p][j].turn = m.turn /\ down'[p][j].kind = m.kind
  BY <1>13, <1>15
<1>23. Level(a)'
  <2>1. conv'.max <= Held(a)'
    BY <1>3, <1>9
  <2>2. \/ Held(a)' <= Held(p)'
        \/ \E i \in DOMAIN down'[p] : Held(a)' <= down'[p][i].turn
        \/ \E i \in DOMAIN up'[a] : up'[a][i].kind \in NoticeKinds /\ Held(a)' <= up'[a][i].turn
    <3>1. CASE Held(a)' = m.turn
      BY <1>7, <1>22, <3>1
    <3>2. CASE Held(a)' = Held(a)
      <4>1. CASE Held(a) <= Held(p)
        BY <1>3, <3>2, <4>1
      <4>2. CASE \E i \in DOMAIN down[p] : Held(a) <= down[p][i].turn
        <5>1. PICK i \in DOMAIN down[p] : Held(a) <= down[p][i].turn
          BY <4>2
        <5>2. PICK j \in DOMAIN down'[p] : down'[p][j] = down[p][i]
          BY <1>15
        <5> QED  BY <3>2, <5>1, <5>2
      <4>3. CASE \E i \in DOMAIN up[a] : up[a][i].kind \in NoticeKinds /\ Held(a) <= up[a][i].turn
        <5>1. PICK i \in DOMAIN up[a] : up[a][i].kind \in NoticeKinds /\ Held(a) <= up[a][i].turn
          BY <4>3
        <5>2. CASE i = 1
          BY <1>6, <1>22, <3>2, <5>1, <5>2
        <5>3. CASE i # 1
          <6>1. PICK j \in DOMAIN up'[a] : up'[a][j] = up[a][i]
            BY <1>17, <5>3
          <6> QED  BY <3>2, <5>1, <6>1
        <5> QED  BY <5>2, <5>3
      <4> QED  BY <1>2, <4>1, <4>2, <4>3 DEF Level, p
    <3> QED  BY <1>3, <3>1, <3>2
  <2> QED  BY <2>1, <2>2 DEF Level, p
<1>24. Level(p)'
  <2>1. \E i \in DOMAIN down'[p] : conv'.max <= down'[p][i].turn
    BY <1>7, <1>9, <1>22
  <2>2. \/ Held(p)' <= Held(a)'
        \/ \E i \in DOMAIN down'[a] : Held(p)' <= down'[a][i].turn
        \/ \E i \in DOMAIN up'[p] : up'[p][i].kind \in NoticeKinds /\ Held(p)' <= up'[p][i].turn
    <3>1. \/ Held(p) <= Held(a)
          \/ \E i \in DOMAIN down[a] : Held(p) <= down[a][i].turn
          \/ \E i \in DOMAIN up[p] : up[p][i].kind \in NoticeKinds /\ Held(p) <= up[p][i].turn
      BY <1>1, <1>2 DEF Level
    <3>2. CASE Held(p) <= Held(a)
      BY <1>3, <1>5, <3>2
    <3> QED  BY <1>3, <1>14, <1>16, <3>1, <3>2
  <2> QED  BY <1>1, <2>1, <2>2 DEF Level
<1>25. /\ conv.ordinary[a] <= conv.max /\ conv.ordinary[p] <= conv.max
       /\ conv.ordinary[a] <= conv'.ordinary[a] /\ conv'.ordinary[a] <= conv'.max
       /\ conv'.ordinary[p] <= conv'.max
  BY <1>2, <1>5, <1>7, <1>9, <1>10, <1>11 DEF Based
<1>26. Based(a)'
  <2>1. basis[a] = conv.ordinary[p] \/ conv.ordinary[p] > conv'.ordinary[a]
    <3>1. CASE m.kind = "ordinary"
      <4>1. m.basis <= basis[a] /\ basis[a] <= conv.ordinary[p]
        BY <1>2, <1>6, <3>1 DEF Numbered, Based, p
      <4> QED  BY <1>5, <1>7, <1>12, <3>1, <4>1
    <3>2. CASE m.kind # "ordinary"
      BY <1>2, <1>10, <3>2 DEF Based, p
    <3> QED  BY <3>1, <3>2
  <2> QED  BY <1>2, <1>4, <1>10, <1>14, <1>25, <2>1 DEF Based, p
<1>27. Based(p)'
  <2>1. ASSUME NEW j \in DOMAIN down'[p], down'[p][j].kind = "ordinary"
        PROVE  down'[p][j].turn <= conv'.ordinary[a]
    <3>1. CASE down'[p][j] = sent
      BY <1>7, <1>10, <1>13, <2>1, <3>1
    <3>2. CASE \E i \in DOMAIN down[p] : down'[p][j] = down[p][i]
      <4>1. PICK i \in DOMAIN down[p] : down'[p][j] = down[p][i]
        BY <3>2
      <4>2. down[p][i].turn <= conv.ordinary[a]
        BY <1>1, <1>2, <2>1, <4>1 DEF Based
      <4>3. /\ down[p][i].turn \in Nat /\ conv.ordinary[a] \in Nat /\ conv'.ordinary[a] \in Nat
            /\ conv.ordinary[a] <= conv'.ordinary[a]
        BY <1>5, <1>7, <1>10, <1>18, <1>25
      <4> QED  BY <4>1, <4>2, <4>3
    <3> QED  BY <1>15, <3>1, <3>2
  <2>2. basis[p] <= conv'.ordinary[a] /\ handed[p].turn <= conv'.ordinary[a]
    <3>1. basis[p] <= conv.ordinary[a] /\ handed[p].turn <= conv.ordinary[a]
      BY <1>1, <1>2 DEF Based
    <3>2. conv.ordinary[a] \in Nat /\ conv'.ordinary[a] \in Nat /\ conv.ordinary[a] <= conv'.ordinary[a]
      BY <1>5, <1>7, <1>10, <1>25
    <3> QED  BY <1>5, <3>1, <3>2
  <2>3. basis[p] = conv'.ordinary[a] \/ conv'.ordinary[a] > conv'.ordinary[p]
    <3>1. CASE m.kind = "ordinary"
      BY <1>5, <1>7, <1>10, <1>11, <1>25, <3>1
    <3>2. CASE m.kind # "ordinary"
      BY <1>1, <1>2, <1>10, <3>2 DEF Based
    <3> QED  BY <3>1, <3>2
  <2> QED  BY <1>1, <1>4, <1>25, <2>1, <2>2, <2>3 DEF Based
<1>28. Told(a)'
  BY <1>2, <1>4, <1>14, <1>16 DEF Told, p
<1>29. Told(p)'
  <2> SUFFICES ASSUME p \in unheard, "untold" \notin doubt
               PROVE  \/ \E i \in DOMAIN up'[a] : up'[a][i].kind = "stale_delivery"
                      \/ \E i \in DOMAIN down'[p] : down'[p][i].kind = "stale_delivery"
    BY <1>1, <1>4 DEF Told
  <2>1. CASE \E i \in DOMAIN up[a] : up[a][i].kind = "stale_delivery"
    <3>1. PICK i \in DOMAIN up[a] : up[a][i].kind = "stale_delivery"
      BY <2>1
    <3>2. CASE i = 1
      BY <1>6, <1>22, <3>1, <3>2
    <3>3. CASE i # 1
      BY <1>17, <3>1, <3>3
    <3> QED  BY <3>2, <3>3
  <2>2. CASE \E i \in DOMAIN down[p] : down[p][i].kind = "stale_delivery"
    BY <1>15, <2>2
  <2> QED  BY <1>1, <1>2, <2>1, <2>2 DEF Told
<1> QED  BY <1>1, <1>3, <1>19, <1>20, <1>21, <1>23, <1>24, <1>26, <1>27, <1>28, <1>29

\* A conversation that goes on without a doubt has gone on without one.
LEMMA SoundBefore ==
  ASSUME TypeOK, [Next]_vars, Sound'
  PROVE  /\ Sound
         /\ ~TrackerRestart /\ ~CloseByServer
         /\ \A a \in Agents : ~GiveUp(a) /\ ~WrapperRestart(a)
<1>1. doubt \subseteq doubt'
  BY DoubtStays
<1>2. ~TrackerRestart /\ ~CloseByServer
  <2>1. ~TrackerRestart
    BY DEF Sound, TrackerRestart
  <2>2. ~CloseByServer
    BY DEF Sound, CloseByServer, TypeOK
  <2> QED  BY <2>1, <2>2
<1>3. \A a \in Agents : ~GiveUp(a) /\ ~WrapperRestart(a)
  BY DEF Sound, GiveUp, WrapperRestart
<1>4. UNCHANGED conv \/ \E a \in Agents : Record(a)
  BY <1>2, <1>3
  DEF Next, Refuse, Invoke, Dispatch, RejectHere, Resolve, Receive, BeginTurn, TurnFails, vars, serverVars
<1>5. ASSUME NEW a \in Agents, Record(a), conv.status = "closed" PROVE UNCHANGED conv
  BY <1>5 DEF Record, Rejection
<1> QED  BY <1>1, <1>2, <1>3, <1>4, <1>5 DEF Sound

\* Every step keeps the counters together.
LEMMA NextTurns == TypeOK /\ ConvInv /\ TurnInv /\ [Next]_vars => TurnInv'
<1> SUFFICES ASSUME TypeOK, ConvInv, TurnInv, [Next]_vars, Sound'
             PROVE  NoneYet' /\ \A a \in Agents :
                      Sent(a)' /\ Numbered(a)' /\ Level(a)' /\ Based(a)' /\ Told(a)'
  BY DEF TurnInv
<1>1. /\ WireInv /\ AskedInv /\ OpenInv /\ TypeOK' /\ WireInv'
  BY NextTyped, NextWire DEF ConvInv
<1>2. Sound /\ ~TrackerRestart /\ ~CloseByServer /\ \A a \in Agents : ~GiveUp(a) /\ ~WrapperRestart(a)
  BY SoundBefore
<1>3. NoneYet /\ \A a \in Agents : Sent(a) /\ Numbered(a) /\ Level(a) /\ Based(a) /\ Told(a)
  BY <1>2 DEF TurnInv
<1>4. ASSUME NEW a \in Agents, Rise(a), Sent(a)', NoneYet'
      PROVE  NoneYet' /\ \A b \in Agents :
               Sent(b)' /\ Numbered(b)' /\ Level(b)' /\ Based(b)' /\ Told(b)'
  <2>1. Sent(Peer(a))'
    BY <1>3, <1>4, Peers DEF Rise, Same, Sent
  <2>2. \A b \in Agents : Sent(b)'
    BY <1>4, <2>1, Peers
  <2>3. \A b \in Agents : Numbered(b)' /\ Level(b)' /\ Based(b)' /\ Told(b)'
    BY <1>1, <1>2, <1>4, DoubtStays, RiseKeeps
  <2> QED  BY <1>4, <2>2, <2>3
<1>5. ASSUME UNCHANGED <<conv, down, closing, unheard>> PROVE NoneYet'
  BY <1>3, <1>5 DEF NoneYet
<1>6. ASSUME NEW a \in Agents, Invoke(a) \/ Dispatch(a) \/ RejectHere(a) \/ Resolve(a) \/ BeginTurn(a)
                               \/ TurnFails(a)
      PROVE  NoneYet' /\ Rise(a) /\ Sent(a)'
  <2>1. Rise(a) /\ Sent(a)'
    BY <1>1, <1>2, <1>6, InvokeRises, DispatchRises, RejectHereRises, ResolveRises, BeginTurnRises,
       TurnFailsRises
  <2>2. UNCHANGED <<conv, down, closing, unheard>>
    BY <1>6 DEF Invoke, Dispatch, RejectHere, Resolve, BeginTurn, TurnFails, serverVars, wireVars, history
  <2> QED  BY <1>5, <2>1, <2>2
<1>7. ASSUME NEW a \in Agents, Refuse(a) PROVE NoneYet' /\ Rise(a) /\ Sent(a)'
  <2>1. Head(up[a]).kind = "ordinary"
    BY <1>7 DEF Refuse, Sound
  <2>2. "refused" \in Outcomes
    BY DEF Outcomes
  <2>3. Rise(a) /\ Sent(a)'
    BY <1>1, <1>2, <1>7, <2>1, <2>2, AnswerRises DEF Refuse
  <2> QED  BY <1>5, <1>7, <2>3 DEF Refuse
<1>8. ASSUME NEW a \in Agents, Record(a), Rejection(a, Head(up[a])) # "none"
      PROVE  NoneYet' /\ Rise(a) /\ Sent(a)'
  <2>1. /\ up[a] # <<>> /\ up' = [up EXCEPT ![a] = Tail(@)]
        /\ sending' = Answered(a, Head(up[a]), Rejection(a, Head(up[a])))
        /\ UNCHANGED <<conv, track, basis, handed, owed, down, closing, unheard>>
        /\ Head(up[a]).kind = "ordinary"
    BY <1>8 DEF Record, Sound
  <2>2. Rejection(a, Head(up[a])) \in Outcomes /\ Rejection(a, Head(up[a])) # "accepted"
    BY DEF Rejection, Outcomes
  <2>3. Rise(a) /\ Sent(a)'
    BY <1>1, <1>2, <2>1, <2>2, AnswerRises
  <2> QED  BY <1>5, <2>1, <2>3
<1>9. ASSUME NEW a \in Agents, Receive(a) PROVE NoneYet' /\ Rise(a) /\ Sent(a)'
  <2>1. MayReceive(a) /\ UNCHANGED <<conv, basis, owed>> /\ doubt' \subseteq {"untold"}
    BY <1>9 DEF Receive, serverVars, Sound
  <2>2. conv.status = "open"
    BY <1>2, <1>3, <1>9 DEF Receive, NoneYet, Sound, TypeOK
  <2>3. ~closing[a]
    BY <1>1, <1>2, <2>2 DEF OpenInv, Sure, Sound, EndsAgree, Agrees
  <2>4. /\ down[a] # <<>> /\ down' = [down EXCEPT ![a] = Tail(@)]
        /\ Drop(a, Head(down[a])) \/ Take(a, Head(down[a]))
    BY <1>9, <2>3 DEF Receive
  <2>5. Rise(a) /\ Sent(a)'
    BY <1>1, <1>2, <2>1, <2>2, <2>4, NoticeDropRises, DropRises, TakeRises
  <2>6. NoneYet'
    BY <2>1, <2>2 DEF NoneYet
  <2> QED  BY <2>5, <2>6
<1>10. ASSUME NEW a \in Agents, Record(a), Rejection(a, Head(up[a])) = "none"
       PROVE  NoneYet' /\ \A b \in Agents :
                Sent(b)' /\ Numbered(b)' /\ Level(b)' /\ Based(b)' /\ Told(b)'
  BY <1>1, <1>2, <1>10, AcceptedKeeps
<1>11. CASE UNCHANGED vars
  BY <1>3, <1>11 DEF vars, serverVars, wrapperVars, wireVars, history, NoneYet, Sent, Numbered, Level,
                     Based, Told, Held
<1> QED  BY <1>2, <1>4, <1>6, <1>7, <1>8, <1>9, <1>10, <1>11 DEF Next

\* The counters are together in the initial state.
LEMMA InitTurns == Init => TurnInv
<1> SUFFICES ASSUME Init PROVE TurnInv
  OBVIOUS
<1>1. \A a \in Agents : /\ sending[a] = None /\ up[a] = <<>> /\ down[a] = <<>> /\ ~closing[a]
                        /\ track[a].turn = 0 /\ basis[a] = 0 /\ ~handed[a].wake
                        /\ handed[a].turn = 0 /\ ~owed[a] /\ conv.ordinary[a] = 0
  BY DEF Init, FreshTrack, NoConversation
<1>2. conv = NoConversation /\ conv.max = 0 /\ unheard = {}
  BY DEF Init, NoConversation
<1>3. \A a \in Agents : Held(a) = 0 /\ DOMAIN up[a] = {} /\ DOMAIN down[a] = {} /\ Peer(a) \in Agents
  BY <1>1, EmptySeq, Peers DEF Held
<1>4. NoneYet
  BY <1>1, <1>2 DEF NoneYet
<1>5. ASSUME NEW a \in Agents PROVE Sent(a) /\ Numbered(a) /\ Level(a) /\ Based(a) /\ Told(a)
  BY <1>1, <1>2, <1>3 DEF Sent, Numbered, Level, Based, Told
<1> QED  BY <1>4, <1>5 DEF TurnInv

-----------------------------------------------------------------------------
(* The theorems.                                                           *)

\* The inductive invariant holds in every state.
LEMMA Invariant == Spec => [](TypeOK /\ ConvInv)
<1>1. TypeOK /\ ConvInv /\ [Next]_vars => (TypeOK /\ ConvInv)'
  BY NextTyped, NextWire, NextBlank, NextAsked, NextOpening, NextOpen DEF ConvInv
<1> QED  BY InitTyped, <1>1, PTL DEF Spec

\* The counters stay together.
LEMMA TurnsKept == Spec => [](TypeOK /\ ConvInv /\ TurnInv)
<1>1. TypeOK /\ ConvInv /\ [Next]_vars => (TypeOK /\ ConvInv)'
  BY NextTyped, NextWire, NextBlank, NextAsked, NextOpening, NextOpen DEF ConvInv
<1> QED  BY InitTyped, InitTurns, <1>1, NextTurns, PTL DEF Spec

\* Every variable keeps its type: the numbers on the wire are positive, whatever is taken
\* back or overtaken (inter_agent.ts, conversation_states.ex).
THEOREM Typed == Spec => []TypeOK
  BY Invariant, PTL

\* A wrapper that takes the conversation as over, or has kept its end from the agent, is
\* right: the server has ended it, unless the outcome of a send was given up (the done gate
\* of inter_agent.ts and evaluate_close of conversation_states.ex).
THEOREM EndTrue == Spec => []EndIsReal
<1>1. TypeOK /\ ConvInv => EndIsReal
  <2> SUFFICES ASSUME TypeOK, ConvInv, Sure, conv.status = "open", NEW a \in Agents
               PROVE  a \notin silenced /\ (track[a].closed => Gated(a))
    BY DEF EndIsReal, Sure
  <2> QED  BY DEF ConvInv, OpenInv, EndsAgree, Agrees
<1> QED  BY Invariant, <1>1, PTL

\* What a wrapper has learned of the end is not undone by the answer to a send that was
\* under way (afterRejection of inter_agent.ts).
THEOREM EndStays == Spec => EndIsKept
<1> DEFINE Kept == \A a \in Agents : track[a].closed /\ ~Gated(a) =>
                      track'[a].closed \/ WrapperRestart(a)
<1>1. TypeOK /\ ConvInv /\ [Next]_vars => [Kept]_vars
  <2> SUFFICES ASSUME TypeOK, ConvInv, [Next]_vars, NEW a \in Agents, track[a].closed, ~Gated(a),
                      ~WrapperRestart(a)
               PROVE  track'[a].closed
    OBVIOUS
  <2>1. track \in [Agents -> Track] /\ sending \in [Agents -> Sending \cup {None}]
    BY DEF TypeOK, Track
  <2>2. ASSUME NEW b \in Agents, Invoke(b) PROVE track'[a].closed
    <3>1. b # a
      BY <2>2 DEF Invoke
    <3> QED  BY <2>1, <2>2, <3>1 DEF Invoke
  <2>3. ASSUME NEW b \in Agents, WrapperRestart(b) PROVE track'[a].closed
    <3>1. b # a
      BY <2>3
    <3> QED  BY <2>1, <2>3, <3>1 DEF WrapperRestart
  <2>4. ASSUME NEW b \in Agents, Resolve(b) PROVE track'[a].closed
    <3>1. CASE b = a
      <4>1. sending[a] # None /\ ~sending[a].flipped
        BY <2>4, <3>1 DEF Resolve, Gated
      <4>2. ~(sending[a].blank /\ ~sending[a].raced)
        BY <4>1 DEF ConvInv, BlankInv
      <4>3. AfterRejection(track[a], sending[a]).closed
        <5>1. track[a] \in Track
          BY <2>1
        <5> QED  BY <4>1, <4>2, <5>1 DEF AfterRejection, RolledBack, Track
      <4> QED  BY <2>1, <2>4, <3>1, <4>3 DEF Resolve
    <3>2. CASE b # a
      BY <2>1, <2>4, <3>2 DEF Resolve
    <3> QED  BY <3>1, <3>2
  <2>5. ASSUME NEW b \in Agents, TurnFails(b) PROVE track'[a].closed
    <3>1. KeptEnd
      BY <2>5, TurnTaken DEF TurnFails
    <3> QED  BY <3>1 DEF KeptEnd
  <2>6. ASSUME NEW b \in Agents, Receive(b) PROVE track'[a].closed
    <3>1. ASSUME NEW m, Drop(b, m) PROVE track'[a].closed
      <4>1. UNCHANGED track \/ track' = [track EXCEPT ![b].turn = NextTurn(track[b])]
        BY <3>1 DEF Drop
      <4> QED  BY <4>1, TurnTaken DEF KeptEnd
    <3>2. ASSUME NEW m, Take(b, m) PROVE track'[a].closed
      <4>1. track' = [track EXCEPT ![b] = Heard(track[b], m)]
        BY <3>2 DEF Take
      <4>2. CASE b = a
        <5>1. track[a] \in Track
          BY <2>1
        <5>2. Heard(track[a], m).closed
          BY <5>1 DEF Heard, Track
        <5> QED  BY <2>1, <4>1, <4>2, <5>2
      <4>3. CASE b # a
        BY <2>1, <4>1, <4>3
      <4> QED  BY <4>2, <4>3
    <3> QED  BY <2>6, <3>1, <3>2 DEF Receive
  <2>7. ASSUME NEW b \in Agents,
               Record(b) \/ Refuse(b) \/ Dispatch(b) \/ RejectHere(b) \/ GiveUp(b) \/ BeginTurn(b)
        PROVE  track'[a].closed
    BY <2>7 DEF Record, Refuse, Dispatch, RejectHere, GiveUp, BeginTurn, wrapperVars
  <2>8. CASE CloseByServer \/ TrackerRestart \/ UNCHANGED vars
    BY <2>8 DEF CloseByServer, TrackerRestart, vars, wrapperVars
  <2> QED  BY <2>2, <2>3, <2>4, <2>5, <2>6, <2>7, <2>8 DEF Next
<1> QED  BY Invariant, <1>1, PTL DEF Spec, EndIsKept

\* The sender of a message that was accepted and then dropped is told, once all is quiet,
\* unless a notice was refused, the report was itself dropped as stale, an answer was given
\* up or a side restarted (the stale branch of receiveInbound, inter_agent.ts).
THEOREM DropsTold == Spec => []DropReported
<1>1. TypeOK /\ ConvInv /\ TurnInv => DropReported
  <2> SUFFICES ASSUME TypeOK, TurnInv, Quiet, conv.status = "open", doubt = {} PROVE unheard = {}
    BY DEF DropReported
  <2>1. unheard \subseteq Agents
    BY DEF TypeOK
  <2>2. ASSUME NEW a \in Agents PROVE a \notin unheard
    <3>1. DOMAIN up[Peer(a)] = {} /\ DOMAIN down[a] = {}
      BY Peers, EmptySeq DEF Quiet
    <3> QED  BY <3>1 DEF TurnInv, Sound, Told
  <2> QED  BY <2>1, <2>2
<1> QED  BY TurnsKept, <1>1, PTL

\* An open conversation wedges only after one of four events. If no notice was refused, none
\* was dropped with the very number of a send under way, no answer was given up and no side
\* restarted, then once all is quiet both counters are level with the server's, and the agent
\* that spoke last, or has read what the other said last, can go on: however sends crossed,
\* were dropped or rejected. After the second event the code can wedge (inter_agent.ts, the
\* silent branch of receiveInbound and the rollback of invoke).
THEOREM NoWedge == Spec => []SomeoneCanSpeak
<1>1. TypeOK /\ ConvInv /\ TurnInv => SomeoneCanSpeak
  <2> SUFFICES ASSUME TypeOK, ConvInv, TurnInv, Quiet, conv.status = "open",
                      doubt \subseteq {"untold"}
               PROVE  (\E a \in Agents : CanSpeak(a)) /\ \A a \in Agents : track[a].turn >= conv.max
    BY DEF SomeoneCanSpeak
  <2>1. \A a \in Agents : Level(a) /\ Based(a)
    BY DEF TurnInv, Sound
  <2>2. \A a \in Agents : /\ Held(a) = track[a].turn /\ DOMAIN up[a] = {} /\ DOMAIN down[a] = {}
                          /\ track[a].turn \in Nat /\ conv.ordinary[a] \in Nat /\ Peer(a) \in Agents
    BY Peers, EmptySeq DEF Quiet, Held, TypeOK
  <2>3. \A a \in Agents : conv.max <= track[a].turn /\ track[a].turn <= track[Peer(a)].turn
    BY <2>1, <2>2 DEF Level
  <2>4. conv.max \in Nat
    BY DEF TypeOK
  <2>5. \E a \in Agents : basis[a] = conv.ordinary[Peer(a)]
    <3>1. Starter \in Agents /\ Peer(Starter) \in Agents /\ Peer(Peer(Starter)) = Starter
      BY AgentsAssumption, Peers
    <3> DEFINE p == Peer(Starter)
    <3>2. /\ basis[Starter] = conv.ordinary[p] \/ conv.ordinary[p] > conv.ordinary[Starter]
          /\ basis[p] = conv.ordinary[Starter] \/ conv.ordinary[Starter] > conv.ordinary[p]
      BY <2>1, <3>1 DEF Based
    <3>3. conv.ordinary[p] \in Nat /\ conv.ordinary[Starter] \in Nat
      BY <2>2, <3>1
    <3>4. basis[Starter] = conv.ordinary[p] \/ basis[p] = conv.ordinary[Starter]
      BY <3>2, <3>3
    <3> QED  BY <3>1, <3>4
  <2>6. PICK a \in Agents : basis[a] = conv.ordinary[Peer(a)]
    BY <2>5
  <2>7. Peer(a) \in Agents /\ Peer(Peer(a)) = a
    BY Peers
  <2>8. track[Peer(a)].turn <= track[a].turn
    BY <2>3, <2>7
  <2>9. \A b \in Agents : track[b].turn >= conv.max
    BY <2>2, <2>3, <2>4
  <2> QED  BY <2>6, <2>8, <2>9 DEF CanSpeak
<1> QED  BY TurnsKept, <1>1, PTL
=============================================================================
