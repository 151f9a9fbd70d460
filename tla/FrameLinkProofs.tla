--------------------------- MODULE FrameLinkProofs --------------------------
(***************************************************************************)
(* What FrameLink's runs check on small bounds, proved for every bound:    *)
(* the inductive invariant IInv, the safety invariants it implies, and the *)
(* refinement of LatestFrame by a host that keeps its role.                *)
(***************************************************************************)
EXTENDS FrameLink, TLAPS

(* Every step keeps the type invariant, whatever the bounds.               *)
LEMMA TypeOKInductive == TypeOK /\ [Next]_vars => TypeOK'
<1> SUFFICES ASSUME TypeOK, [Next]_vars PROVE TypeOK'
  OBVIOUS
<1> USE BoundsAssumption, RoleAssumption
    DEF TypeOK, vars, ioVars, frameVars, appVars, Buffers, Torn, Timeouts,
        Results, Locked
<1>1. CASE Initialise \/ Shutdown
  <2>1. /\ buf' \in [Buffers -> Int] /\ tick_version' \in Nat
        /\ last_consumed_version' \in Nat
        /\ sessions' \in 0..MaxSessions /\ late' \in Nat /\ last' \in Nat
    BY <1>1 DEF Initialise, Shutdown, NewLink, NewVersions
  <2> QED BY <1>1, <2>1, Zenon DEF Initialise, Shutdown, NewLink
<1>2. CASE IoNext
  <2>1. CASE OnAccept
    <3>1. sessions' \in 0..MaxSessions
      BY <2>1 DEF OnAccept
    <3>2. session' \in BOOLEAN /\ accepting' \in BOOLEAN
      BY <2>1, Zenon DEF OnAccept
    <3> QED BY <2>1, <3>1, <3>2 DEF OnAccept
  <2>5. CASE OnAcceptError
    <3>1. accepting' \in BOOLEAN
      BY <2>5, Zenon DEF OnAcceptError
    <3> QED BY <2>5, <3>1 DEF OnAcceptError
  <2>6. CASE OnDisconnect
    <3>1. session' \in BOOLEAN /\ accepting' \in BOOLEAN /\ quit' \in BOOLEAN
      BY <2>6, Zenon DEF OnDisconnect
    <3> QED BY <2>6, <3>1 DEF OnDisconnect
  <2>2. CASE OnTickLock
    BY <2>2 DEF OnTickLock
  <2>3. CASE OnTickStore
    <3>1. tick_version' \in Nat
      BY <2>3 DEF OnTickStore
    <3>2. buf' \in [Buffers -> Int]
      BY <2>3 DEF OnTickStore
    <3> QED BY <2>3, <3>1, <3>2 DEF OnTickStore
  <2>4. CASE OnTickNotify
    BY <2>4 DEF OnTickNotify
  <2> QED BY <1>2, <2>1, <2>2, <2>3, <2>4, <2>5, <2>6 DEF IoNext
<1>3. CASE AwaitNext
  <2>1. CASE AwaitQuit \/ AwaitStreamsChanged
    BY <2>1 DEF AwaitQuit, AwaitStreamsChanged, CallAwait
  <2>2. CASE \E t \in Timeouts : AwaitEnter(t)
    BY <2>2 DEF AwaitEnter, CallAwait
  <2>3. CASE ReadVersion
    BY <2>3 DEF ReadVersion
  <2>4. CASE AwaitBlock \/ SpuriousWakeup
    BY <2>4 DEF AwaitBlock, SpuriousWakeup
  <2>5. CASE AwaitTimeout
    BY <2>5 DEF AwaitTimeout
  <2>6. CASE AwaitSwap
    BY <2>6 DEF AwaitSwap, SwapAndReturn
  <2> QED BY <1>3, <2>1, <2>2, <2>3, <2>4, <2>5, <2>6 DEF AwaitNext
<1>4. CASE FollowerNext
  <2>1. CASE \E f \in BOOLEAN : SetFollower(f)
    BY <2>1 DEF SetFollower
  <2>2. CASE FollowerEnter
    <3>1. pc' \in {"idle", "follow"} /\ result' \in {"QUIT", "none"}
      BY <2>2 DEF FollowerEnter
    <3>2. framed' = TRUE
      BY <2>2 DEF FollowerEnter
    <3> QED BY <2>2, <3>1, <3>2 DEF FollowerEnter
  <2>3. CASE FollowerKeep
    BY <2>3 DEF FollowerKeep
  <2>4. CASE FollowerSwap
    BY <2>4 DEF FollowerSwap, SwapAndReturn
  <2> QED BY <1>4, <2>1, <2>2, <2>3, <2>4 DEF FollowerNext
<1>5. CASE UNCHANGED vars
  BY <1>5
<1> QED BY <1>1, <1>2, <1>3, <1>4, <1>5 DEF Next

-----------------------------------------------------------------------------
(* The invariant holds of the initial states and is kept by every step:    *)
(* one step for each action, and in it one for each part of the invariant  *)
(* that the action could disturb.                                          *)
LEMMA IInvInit == Init => IInv
<1> SUFFICES ASSUME Init PROVE IInv
  OBVIOUS
<1> USE BoundsAssumption, RoleAssumption DEF Init, Buffers, Torn, Locked
<1>1. TypeOK
  <2>1. /\ sessions \in 0..MaxSessions /\ buf \in [Buffers -> Int]
        /\ inbox \in Buffers /\ published \in Buffers
        /\ tick_version \in Nat /\ last_consumed_version \in Nat
        /\ last \in Nat /\ late \in Nat
    OBVIOUS
  <2> QED BY <2>1, Zenon DEF TypeOK, Timeouts, Results
<1>2. OneClientAtATime /\ BuffersInv /\ NewestInv
  BY DEF OneClientAtATime, BuffersInv, NewestInv
<1>3. AwaitInv /\ LateInv /\ RoleInv
  BY DEF AwaitInv, LateInv, RoleInv
<1> QED BY <1>1, <1>2, <1>3 DEF IInv

LEMMA IInvInductive == IInv /\ [Next]_vars => IInv'
<1> SUFFICES ASSUME IInv, [Next]_vars PROVE IInv'
  OBVIOUS
<1>0. TypeOK /\ TypeOK'
  BY TypeOKInductive DEF IInv
<1> DEFINE Rest == /\ OneClientAtATime /\ BuffersInv /\ NewestInv
                   /\ AwaitInv /\ LateInv /\ RoleInv
<1> SUFFICES Rest'
  BY <1>0 DEF IInv
<1>h. Rest
  BY DEF IInv
<1> USE <1>0, <1>h, BoundsAssumption, RoleAssumption
    DEF TypeOK, OneClientAtATime, BuffersInv, NewestInv, AwaitInv, LateInv,
        RoleInv, vars, ioVars, frameVars, appVars, Buffers, Torn, Locked
<1>1. CASE Initialise \/ Shutdown
  BY <1>1 DEF Initialise, Shutdown, NewLink, NewVersions
<1>2. CASE OnAccept \/ OnAcceptError
  BY <1>2 DEF OnAccept, OnAcceptError
<1>3. CASE OnDisconnect
  BY <1>3 DEF OnDisconnect
<1>4. CASE OnTickLock
  BY <1>4 DEF OnTickLock
<1>5. CASE OnTickStore
  BY <1>5 DEF OnTickStore
<1>6. CASE OnTickNotify
  BY <1>6 DEF OnTickNotify
<1>7. CASE AwaitQuit \/ AwaitStreamsChanged
  BY <1>7 DEF AwaitQuit, AwaitStreamsChanged, CallAwait
<1>8. CASE \E t \in Timeouts : AwaitEnter(t)
  BY <1>8 DEF AwaitEnter, CallAwait
<1>9. CASE ReadVersion
  BY <1>9 DEF ReadVersion
<1>10. CASE AwaitSwap
  BY <1>10 DEF AwaitSwap, SwapAndReturn
<1>11. CASE AwaitTimeout \/ AwaitBlock \/ SpuriousWakeup
  BY <1>11 DEF AwaitTimeout, AwaitBlock, SpuriousWakeup
<1>12. CASE \E f \in BOOLEAN : SetFollower(f)
  BY <1>12 DEF SetFollower
<1>13. CASE FollowerEnter \/ FollowerKeep
  BY <1>13 DEF FollowerEnter, FollowerKeep
<1>14. CASE FollowerSwap
  \* The tick is newer than the one consumed last, so the inbox has it.
  <2>1. /\ ~Locked /\ inbox' = published /\ published' = inbox
        /\ buf' = buf /\ tick_version' = tick_version /\ ioPc' = ioPc
        /\ last_consumed_version' = tick_version
    BY <1>14 DEF FollowerSwap, SwapAndReturn
  <2>2. OneClientAtATime' /\ BuffersInv' /\ NewestInv'
    BY <1>14, <2>1 DEF FollowerSwap, SwapAndReturn
  <2>3. AwaitInv' /\ LateInv'
    BY <1>14 DEF FollowerSwap, SwapAndReturn
  <2>4. RoleInv'
    <3>1. pc = "follow" /\ is_follower /\ framed
      BY <1>14 DEF FollowerSwap
    <3>2. ~RoleSwitching => buf[inbox] = tick_version
      BY <1>14, <3>1 DEF FollowerSwap
    <3>3. pc' = "idle" /\ is_follower' = is_follower /\ framed' = framed
      BY <1>14 DEF FollowerSwap, SwapAndReturn
    <3>4. ~RoleSwitching => last_consumed_version' = (buf[published])'
      BY <2>1, <3>2
    <3> QED BY <3>1, <3>3, <3>4, Zenon
  <2> QED BY <2>2, <2>3, <2>4
<1>15. CASE UNCHANGED vars
  BY <1>15
<1> QED
  BY <1>1, <1>2, <1>3, <1>4, <1>5, <1>6, <1>7, <1>8, <1>9, <1>10, <1>11,
     <1>12, <1>13, <1>14, <1>15 DEF Next, IoNext, AwaitNext, FollowerNext

THEOREM Invariance == Spec => []IInv
<1>1. Init => IInv
  BY IInvInit
<1>2. IInv /\ [Next]_vars => IInv'
  BY IInvInductive
<1> QED BY <1>1, <1>2, PTL DEF Spec

-----------------------------------------------------------------------------
(* The variables of FrameLink keep their types under any bounds.           *)
THEOREM TypeCorrect == Spec => []TypeOK
<1>1. IInv => TypeOK
  BY DEF IInv
<1> QED BY <1>1, Invariance, PTL

(* OnAccept never replaces the session of a client still connected.        *)
THEOREM SingleClient == Spec => []OneClientAtATime
<1>1. IInv => OneClientAtATime
  BY DEF IInv
<1> QED BY <1>1, Invariance, PTL

(* The host never reads a request the io thread is moving in, although it  *)
(* reads *published_ without the mutex.                                    *)
THEOREM NeverTorn == Spec => []NoTornFrame
<1>1. IInv => NoTornFrame
  <2> SUFFICES ASSUME IInv PROVE NoTornFrame
    OBVIOUS
  <2> QED BY DEF IInv, TypeOK, BuffersInv, NoTornFrame, Buffers
<1> QED BY <1>1, Invariance, PTL

(* After a disconnect at most one more frame is published, whatever        *)
(* clients connect and however many ticks they send.                       *)
THEOREM QuitEndsFrames == Spec => []AtMostOneFrameAfterQuit
<1>1. IInv => AtMostOneFrameAfterQuit
  <2> SUFFICES ASSUME IInv PROVE AtMostOneFrameAfterQuit
    OBVIOUS
  <2> QED BY DEF IInv, LateInv, AtMostOneFrameAfterQuit
<1> QED BY <1>1, Invariance, PTL

-----------------------------------------------------------------------------
(* What an application's frame call that publishes a frame does, and what  *)
(* every other step leaves alone: the io thread writes to the buffer the   *)
(* host does not read.                                                     *)
LEMMA OtherStepsKeepPublished ==
  ASSUME IInv, [Next]_vars,
         ~Initialise, ~Shutdown, ~AwaitSwap, ~FollowerSwap
  PROVE  (buf[published])' = buf[published]
<1> USE DEF IInv, TypeOK, BuffersInv, vars, ioVars, frameVars, appVars, Buffers
<1>1. CASE OnTickLock \/ OnTickStore
  BY <1>1 DEF OnTickLock, OnTickStore
<1>2. CASE UNCHANGED <<buf, published>>
  BY <1>2
<1>3. OnTickLock \/ OnTickStore \/ UNCHANGED <<buf, published>>
  BY DEF Next, IoNext, AwaitNext, FollowerNext, OnAccept, OnAcceptError,
         OnDisconnect, OnTickNotify, AwaitQuit, AwaitStreamsChanged,
         AwaitEnter, CallAwait, ReadVersion, AwaitTimeout, AwaitBlock,
         SpuriousWakeup, SetFollower, FollowerEnter, FollowerKeep
<1> QED BY <1>1, <1>2, <1>3

(* Only a frame call that succeeds, or a new Link, changes what the host   *)
(* reads through Published().                                              *)
THEOREM StablePublished == Spec => PublishedIsStable
<1> DEFINE Stable == buf'[published'] # buf[published] =>
                       \/ pc # "idle" /\ pc' = "idle" /\ result' = "SUCCESS"
                       \/ Initialise \/ Shutdown
<1>1. IInv /\ [Next]_vars => [Stable]_vars
  <2> SUFFICES ASSUME IInv, [Next]_vars, buf'[published'] # buf[published],
                      ~Initialise, ~Shutdown
               PROVE  pc # "idle" /\ pc' = "idle" /\ result' = "SUCCESS"
    OBVIOUS
  <2>1. AwaitSwap \/ FollowerSwap
    BY OtherStepsKeepPublished
  <2> QED BY <2>1 DEF AwaitSwap, FollowerSwap, SwapAndReturn
<1> QED BY <1>1, Invariance, PTL DEF Spec, PublishedIsStable

-----------------------------------------------------------------------------
(* A host that keeps its role implements LatestFrame: each frame published *)
(* is the newest request stored, and one it has not shown before.          *)
LEMMA SwapShowsNewest ==
  ASSUME IInv, ~RoleSwitching, AwaitSwap \/ FollowerSwap
  PROVE  Latest!Show
<1> USE DEF IInv, TypeOK, BuffersInv, NewestInv, AwaitInv, RoleInv, Buffers,
        Locked, SwapAndReturn
<1>1. buf' = buf /\ published' = inbox /\ tick_version' = tick_version
  BY DEF AwaitSwap, FollowerSwap
<1>2. ~Locked /\ tick_version > buf[published]
  <2>1. CASE AwaitSwap
    BY <2>1 DEF AwaitSwap
  <2>2. CASE FollowerSwap
    <3>1. last_consumed_version = buf[published]
      BY <2>2 DEF FollowerSwap
    <3> QED BY <2>2, <3>1 DEF FollowerSwap
  <2> QED BY <2>1, <2>2
<1>3. buf[inbox] = tick_version
  BY <1>2
<1> QED BY <1>1, <1>2, <1>3 DEF Latest!Show

THEOREM ImplementsLatestFrame == ~RoleSwitching => (Spec => ShowsLatestFrame)
<1> SUFFICES ASSUME ~RoleSwitching PROVE Spec => ShowsLatestFrame
  OBVIOUS
<1>1. Init => Latest!Init
  BY DEF Init, Latest!Init, Buffers
<1>2. IInv /\ [Next]_vars => [Latest!Next]_<<tick_version, buf[published]>>
  <2> SUFFICES ASSUME IInv, [Next]_vars
               PROVE  [Latest!Next]_<<tick_version, buf[published]>>
    OBVIOUS
  <2>1. CASE AwaitSwap \/ FollowerSwap
    BY <2>1, SwapShowsNewest DEF Latest!Next
  <2>2. CASE Initialise \/ Shutdown
    BY <2>2 DEF Initialise, Shutdown, NewLink, NewVersions, Buffers,
                Latest!Next, Latest!Restart
  <2>3. CASE ~Initialise /\ ~Shutdown /\ ~AwaitSwap /\ ~FollowerSwap
    <3>1. (buf[published])' = buf[published]
      BY <2>3, OtherStepsKeepPublished
    <3>2. CASE OnTickStore
      BY <3>1, <3>2 DEF OnTickStore, Latest!Next, Latest!Post
    <3>3. CASE tick_version' = tick_version
      BY <3>1, <3>3
    <3>4. OnTickStore \/ tick_version' = tick_version
      BY <2>3 DEF Next, IoNext, AwaitNext, FollowerNext, OnAccept,
         OnAcceptError, OnDisconnect, OnTickLock, OnTickNotify, AwaitQuit,
         AwaitStreamsChanged, AwaitEnter, CallAwait, ReadVersion,
         AwaitTimeout, AwaitBlock, SpuriousWakeup, SetFollower,
         FollowerEnter, FollowerKeep, vars, frameVars
    <3> QED BY <3>2, <3>3, <3>4
  <2> QED BY <2>1, <2>2, <2>3
<1> QED BY <1>1, <1>2, Invariance, PTL DEF Spec, ShowsLatestFrame, Latest!Spec
=============================================================================
