---------------------------- MODULE LatestFrame ----------------------------
(***************************************************************************)
(* What the frame link promises its host application, with no threads and  *)
(* no buffers: requests are posted one after the other, and each time the  *)
(* host asks, it is shown the newest one, never one it has moved past.     *)
(* Requests may be skipped; none is shown twice or out of order.           *)
(***************************************************************************)
EXTENDS Naturals

VARIABLES posted,  \* how many requests the client has posted
          shown    \* the number of the request the host reads, 0 before any

Init == posted = 0 /\ shown = 0

\* The client posts one more request.
Post == posted' = posted + 1 /\ UNCHANGED shown

\* The host is shown the newest request, which it has not read before.
Show == posted > shown /\ shown' = posted /\ UNCHANGED posted

\* The library is shut down, or initialised again.
Restart == posted' = 0 /\ shown' = 0

Next == Post \/ Show \/ Restart

Spec == Init /\ [][Next]_<<posted, shown>>
=============================================================================
