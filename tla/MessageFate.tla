----------------------------- MODULE MessageFate -----------------------------
(***************************************************************************)
(* What the delivery protocol promises about the messages to a recipient,  *)
(* numbered in the order the server took them.  A message is handled (its  *)
(* turn started) at most once, and never after it was reported lost.  A    *)
(* message reported lost was not handled, unless a process of the          *)
(* recipient ended before it confirmed it.  The server counts a message as *)
(* accounted for only when it was handled or reported.                     *)
(***************************************************************************)
EXTENDS Naturals

VARIABLES
    sent,       \* messages taken so far
    accounted,  \* the server's confirmed prefix
    handled, reported, abandoned

fateVars == <<sent, accounted, handled, reported, abandoned>>

Init == sent = 0 /\ accounted = 0 /\ handled = {} /\ reported = {} /\ abandoned = {}

\* The prefix may move up over what is handled or reported by then.
Account ==
    /\ accounted' >= accounted /\ accounted' <= sent
    /\ \A m \in (accounted + 1)..accounted' : m \in handled \cup reported'

Take ==
    /\ sent' = sent + 1
    /\ UNCHANGED <<accounted, handled, reported, abandoned>>

Handle ==
    /\ \E m \in 1..sent :
          /\ m \notin handled \cup reported
          /\ handled' = handled \cup {m}
    /\ UNCHANGED <<sent, accounted, reported, abandoned>>

Confirm ==
    /\ reported' = reported
    /\ Account
    /\ UNCHANGED <<sent, handled, abandoned>>

Report ==
    /\ reported \subseteq reported'
    /\ reported' \ reported \subseteq (accounted + 1)..sent
    /\ (reported' \ reported) \cap handled = {}
    /\ Account
    /\ UNCHANGED <<sent, handled, abandoned>>

\* A process of the recipient ended: what it had not confirmed is reported.
Abandon ==
    /\ reported \subseteq reported'
    /\ reported' \ reported \subseteq (accounted + 1)..sent
    /\ abandoned' = abandoned \cup (reported' \ reported)
    /\ Account
    /\ UNCHANGED <<sent, handled>>

Next == Take \/ Handle \/ Confirm \/ Report \/ Abandon

Safe == Init /\ [][Next]_fateVars
=============================================================================
