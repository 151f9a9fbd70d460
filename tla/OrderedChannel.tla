--------------------------- MODULE OrderedChannel ---------------------------
(***************************************************************************)
(* What Session::Write promises its callers: messages reach the client in  *)
(* the order in which they were accepted, each at most once, and all of    *)
(* them as long as the connection holds.                                   *)
(***************************************************************************)
EXTENDS Naturals, Sequences

CONSTANT Messages

VARIABLES sent,      \* every message accepted, in order
          received,  \* what reached the client, in order
          broken     \* the connection is gone

chanVars == <<sent, received, broken>>

Init == sent = <<>> /\ received = <<>> /\ broken = FALSE

Send == /\ \E m \in Messages : sent' = Append(sent, m)
        /\ UNCHANGED <<received, broken>>

Deliver ==
  /\ ~broken /\ Len(received) < Len(sent)
  /\ received' = Append(received, sent[Len(received) + 1])
  /\ UNCHANGED <<sent, broken>>

Break == broken' = TRUE /\ UNCHANGED <<sent, received>>

Next == Send \/ Deliver \/ Break

SafeSpec == Init /\ [][Next]_chanVars

Spec == SafeSpec /\ WF_chanVars(Deliver)
=============================================================================
