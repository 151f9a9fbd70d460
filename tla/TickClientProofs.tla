-------------------------- MODULE TickClientProofs --------------------------
(***************************************************************************)
(* Proofs about TickClient for any number of starts and writes, and about  *)
(* ClusterClient, whose steps are those of TickClient with more to them.   *)
(* The Booleans of the type invariant are dealt with apart from the rest.  *)
(***************************************************************************)
EXTENDS ClusterClient, SequenceTheorems, TLAPS

Flags == /\ running \in BOOLEAN /\ open \in BOOLEAN /\ peer \in BOOLEAN
         /\ stopped \in BOOLEAN

Handlers == Receive \/ ReceiveFails \/ Written \/ WriteFails \/ AbortReported

LEMMA NextCases ==
  Next <=> AppNext \/ PeerLeaves \/ StartNext \/ TickNext \/ TickExpires
             \/ Handlers
BY Zenon DEF Next, Handlers

LEMMA InitIInv == Init => IInv
<1> SUFFICES ASSUME Init PROVE IInv
  OBVIOUS
<1>1. Flags
  BY Zenon DEF Init, Flags
<1>2. TypeOK
  BY <1>1, BoundsAssumption DEF Init, TypeOK, Flags
<1> QED BY <1>2 DEF Init, IInv, LateInv

\* Every action sets a flag to TRUE or FALSE or leaves it alone.
LEMMA FlagsKept == Flags /\ [Next]_vars => Flags'
<1> SUFFICES ASSUME Flags, [Next]_vars PROVE Flags'
  OBVIOUS
<1> USE DEF Flags, sockVars, asyncVars, ioVars
<1>1. CASE AppNext
  BY <1>1, Zenon DEF AppNext, Connect, Connected, ConnectFailed, CallStart,
       Stop, Disconnect, StopIo, CloseSocket
<1>2. CASE PeerLeaves
  BY <1>2, Zenon DEF PeerLeaves
<1>3. CASE StartNext
  BY <1>3, Zenon DEF StartNext, StartBegin, StartArm, RunIo, LeaveIo, StartEnd
<1>4. CASE TickNext \/ TickExpires
  BY <1>4, Zenon DEF TickNext, TickSend, TickRearm, TickThrows, TickExpires
<1>5. CASE Handlers
  BY <1>5, Zenon DEF Handlers, Receive, ReceiveFails, Written,
       WriteFails, AbortReported, LoopStop
<1>6. CASE UNCHANGED vars
  BY <1>6, Zenon DEF vars
<1> QED BY <1>1, <1>2, <1>3, <1>4, <1>5, <1>6, NextCases

LEMMA TypeKept == TypeOK /\ [Next]_vars => TypeOK'
<1> SUFFICES ASSUME TypeOK, [Next]_vars PROVE TypeOK'
  OBVIOUS
<1>f. Flags'
  BY FlagsKept DEF TypeOK, Flags
<1> USE <1>f, BoundsAssumption DEF TypeOK, Flags, sockVars, asyncVars, ioVars
<1>1. CASE AppNext
  <2>1. CASE Connect \/ Connected \/ ConnectFailed
    BY <2>1 DEF Connect, Connected, ConnectFailed
  <2>2. CASE CallStart
    BY <2>2 DEF CallStart
  <2>3. CASE Stop
    BY <2>3 DEF Stop
  <2>4. CASE Disconnect
    BY <2>4 DEF Disconnect
  <2>5. CASE StopIo
    BY <2>5 DEF StopIo
  <2>6. CASE CloseSocket
    BY <2>6 DEF CloseSocket
  <2> QED BY <1>1, <2>1, <2>2, <2>3, <2>4, <2>5, <2>6 DEF AppNext
<1>2. CASE PeerLeaves
  BY <1>2 DEF PeerLeaves
<1>3. CASE StartNext
  <2>1. CASE StartBegin \/ StartArm
    BY <2>1 DEF StartBegin, StartArm
  <2>2. CASE RunIo \/ LeaveIo \/ StartEnd
    BY <2>2 DEF RunIo, LeaveIo, StartEnd
  <2> QED BY <1>3, <2>1, <2>2 DEF StartNext
<1>4. CASE TickNext
  <2>1. CASE TickSend
    BY <2>1 DEF TickSend
  <2>2. CASE TickRearm \/ TickThrows
    BY <2>2 DEF TickRearm, TickThrows
  <2> QED BY <1>4, <2>1, <2>2 DEF TickNext
<1>5. CASE TickExpires
  BY <1>5 DEF TickExpires, Dispatch
<1>6. CASE Handlers
  <2>2. CASE Receive
    BY <2>2 DEF Receive, LoopStop, Dispatch
  <2>3. CASE ReceiveFails
    BY <2>3 DEF ReceiveFails, LoopStop, Dispatch
  <2>4. CASE Written
    BY <2>4 DEF Written, Dispatch
  <2>5. CASE WriteFails
    BY <2>5 DEF WriteFails, LoopStop, Dispatch
  <2>6. CASE AbortReported
    BY <2>6 DEF AbortReported, LoopStop, Dispatch
  <2> QED BY <1>6, <2>2, <2>3, <2>4, <2>5, <2>6 DEF Handlers
<1>7. CASE UNCHANGED vars
  BY <1>7 DEF vars
<1> QED BY <1>1, <1>2, <1>3, <1>4, <1>5, <1>6, <1>7, NextCases

\* Once stopped io_ stays stopped, whoever steps.
LEMMA StoppedStays == stopped /\ [Next]_vars => stopped'
<1> SUFFICES ASSUME stopped, [Next]_vars PROVE stopped'
  OBVIOUS
<1> USE DEF asyncVars, ioVars
<1>1. CASE AppNext \/ PeerLeaves
  BY <1>1, Zenon DEF AppNext, Connect, Connected, ConnectFailed, CallStart,
       Stop, Disconnect, StopIo, CloseSocket, PeerLeaves
<1>2. CASE StartNext
  BY <1>2, Zenon DEF StartNext, StartBegin, StartArm, RunIo, LeaveIo, StartEnd
<1>3. CASE TickNext \/ TickExpires
  BY <1>3, Zenon DEF TickNext, TickSend, TickRearm, TickThrows, TickExpires
<1>4. CASE Handlers
  BY <1>4, Zenon DEF Handlers, Dispatch, Receive, ReceiveFails,
       Written, WriteFails, AbortReported
<1>5. CASE UNCHANGED vars
  BY <1>5, Zenon DEF vars
<1> QED BY <1>1, <1>2, <1>3, <1>4, <1>5, NextCases

\* The handler that sends late is past sending, and no other begins.
LEMMA LateKept == IInv /\ [Next]_vars => LateInv'
<1> SUFFICES ASSUME IInv, [Next]_vars PROVE LateInv'
  OBVIOUS
<1>1. stopped => stopped'
  BY StoppedStays
<1> USE DEF IInv, LateInv
<1>2. CASE TickSend
  <2>1. late = 0 /\ loop' = "sent" /\ stopped' = stopped
    BY <1>2 DEF TickSend, TypeOK
  <2> QED BY <1>2, <2>1 DEF TickSend
<1>3. CASE CallStart
  BY <1>3 DEF CallStart
<1>4. CASE TickExpires
  <2>1. ~stopped /\ late' = late
    BY <1>4 DEF TickExpires, Dispatch
  <2> QED BY <2>1 DEF TypeOK
<1>5. ASSUME late' = late, loop' = "tick" => loop = "tick" PROVE LateInv'
  BY <1>1, <1>5
<1>6. CASE AppNext /\ ~CallStart
  BY <1>5, <1>6 DEF AppNext, Connect, Connected, ConnectFailed, Stop,
       Disconnect, StopIo, CloseSocket
<1>7. CASE StartNext
  BY <1>5, <1>7 DEF StartNext, StartBegin, StartArm, RunIo, LeaveIo, StartEnd
<1>8. CASE TickRearm \/ TickThrows \/ PeerLeaves
  BY <1>5, <1>8 DEF TickRearm, TickThrows, PeerLeaves
<1>9. CASE Handlers
  BY <1>5, <1>9 DEF Handlers, Receive, ReceiveFails, Written,
       WriteFails, AbortReported
<1>10. CASE UNCHANGED vars
  BY <1>5, <1>10 DEF vars
<1> QED BY <1>2, <1>3, <1>4, <1>6, <1>7, <1>8, <1>9, <1>10, NextCases
          DEF TickNext

(* IInv is an invariant of the client.                                     *)
THEOREM Invariance == Spec => []IInv
<1>1. IInv /\ [Next]_vars => IInv'
  BY TypeKept, LateKept DEF IInv
<1> QED BY <1>1, InitIInv, PTL DEF Spec

(* The variables of the client keep their types (client.h:85-93).          *)
THEOREM TypeCorrect == Spec => []TypeOK
<1>1. IInv => TypeOK
  BY DEF IInv
<1> QED BY <1>1, Invariance, PTL

(* After io_.stop() (client.cpp:487) at most the tick whose handler was    *)
(* under way is sent, for any number of starts, ticks and writes.          *)
THEOREM LastTick == Spec => []OneTickAfterStop
<1>1. IInv => OneTickAfterStop
  BY DEF IInv, LateInv, OneTickAfterStop
<1> QED BY <1>1, Invariance, PTL

-----------------------------------------------------------------------------
(* ClusterClient.  Each of its steps is one of TickClient or leaves that    *)
(* client alone, so that what holds of the client holds here too.           *)

LEMMA ClientStep == [ClusterNext]_allVars => [Next]_vars
<1> SUFFICES ASSUME [ClusterNext]_allVars PROVE [Next]_vars
  OBVIOUS
<1>1. CASE SetNext \/ WrittenPart \/ OnRead
  BY <1>1, Zenon DEF SetNext, SetCameras, SetTexts, SetSkeleton, NoSkeleton,
       Set, WrittenPart, OnRead
<1>2. CASE Aside
  BY <1>2, Zenon DEF Aside, Next, AppNext, StartNext, TickNext
<1>3. CASE Connects \/ Closes \/ Begins \/ Rearms
  BY <1>3, Zenon DEF Connects, Closes, Begins, Rearms, Next, AppNext,
       StartNext, TickNext
<1>4. CASE BuildAndSend \/ WrittenWhole \/ WriteEnds \/ HostLeaves
  BY <1>4, Zenon DEF BuildAndSend, WrittenWhole, WriteEnds, HostLeaves, Next,
       TickNext
<1>5. CASE UNCHANGED allVars
  BY <1>5, Zenon DEF allVars
<1> QED BY <1>1, <1>2, <1>3, <1>4, <1>5, Zenon DEF ClusterNext

(* A ClusterClient is a TickClient: what it sets, builds and writes never   *)
(* changes when it starts and stops (client.cpp:452-529).                   *)
THEOREM IsTickClient == ClusterSpec => Spec
<1>1. ClusterInit => Init
  BY DEF ClusterInit
<1> QED BY <1>1, ClientStep, PTL DEF ClusterSpec, Spec

(* Of its requests, too, at most one is sent after io_.stop().              *)
THEOREM LastRequest == ClusterSpec => []OneTickAfterStop
BY IsTickClient, LastTick, PTL

-----------------------------------------------------------------------------
(* Why only shared ticks are lost.  What is on its way to the host is a     *)
(* sequence of parts, and a tick begins with its first.                     *)

Line == [tick : Nat, part : {1, 2}, last : BOOLEAN]

Firsts == {i \in DOMAIN wire : wire[i].part = 1}

Newest == IF heard = <<>> THEN 0 ELSE heard[Len(heard)]

SeqInv == /\ \E S : sent \in Seq(S)
          /\ pending \in Seq(Line) /\ wire \in Seq(Line) /\ heard \in Seq(Nat)

\* The socket; and the wire ends inside a request only as long as its first
\* part is what the socket was given last.
SocketInv ==
  /\ Len(pending) = writes
  /\ ~open => pending = <<>>
  /\ app = "connecting" => ~open
  /\ open /\ ~peer => wire = <<>>
  /\ open /\ wire # <<>> /\ ~wire[Len(wire)].last =>
       pending # <<>> /\ ~pending[Len(pending)].last

\* Ticks are on their way in order, after those that were heard.
OrderInv ==
  /\ Newest <= Len(sent)
  /\ \A i \in Firsts : Newest < wire[i].tick /\ wire[i].tick <= Len(sent)
  /\ \A i, j \in Firsts : i < j => wire[i].tick < wire[j].tick

\* An unshared tick is on its way as long as the connection lasts, or a later
\* one is.
ArrivalInv ==
  \A k \in 1..Len(sent) \ shared :
    /\ Newest < k
    /\ (open /\ peer) \/ \E j \in Firsts : k < wire[j].tick
    => \E i \in Firsts : wire[i].tick = k

\* The line of an unshared tick is its own: it begins after the end of another,
\* and what follows is its second part, or is yet to be written.
AloneAt(i) ==
  /\ i = 1 \/ wire[i - 1].last
  /\ \/ wire[i].last
     \/ i < Len(wire) /\ wire[i + 1] = Part(wire[i].tick, 2, 2)
     \/ i = Len(wire) /\ (open => pending = <<wire[i]>>)

AloneInv == \A i \in Firsts : wire[i].tick \notin shared => AloneAt(i)

WireInv == SeqInv /\ SocketInv /\ OrderInv /\ ArrivalInv /\ AloneInv
             /\ OnlySharedTicksAreLost

LEMMA PartInLine ==
  ASSUME NEW k \in Nat, NEW i \in {1, 2}, NEW n \in {1, 2}
  PROVE  /\ Part(k, i, n) \in Line
         /\ Part(k, i, n).tick = k /\ Part(k, i, n).part = i
         /\ Part(k, i, n).last <=> i = n
BY DEF Part, Line

LEMMA TickIsNat == ASSUME NEW q \in Line PROVE q.tick \in Nat
BY DEF Line

\* Of a queue, when its head goes and when something joins it.
LEMMA QueueFacts ==
  ASSUME NEW S, NEW s \in Seq(S), s # <<>>
  PROVE  /\ Head(s) = s[1] /\ Head(s) \in S
         /\ Tail(s) \in Seq(S) /\ Len(Tail(s)) = Len(s) - 1
         /\ Len(s) > 1 => Tail(s) # <<>> /\ Tail(s)[Len(Tail(s))] = s[Len(s)]
<1>1. Len(s) \in Nat /\ Len(s) > 0
  OBVIOUS
<1>2. /\ Tail(s) \in Seq(S) /\ Len(Tail(s)) = Len(s) - 1
      /\ \A i \in 1..Len(s) - 1 : Tail(s)[i] = s[i + 1]
  OBVIOUS
<1>3. ASSUME Len(s) > 1
      PROVE  Tail(s) # <<>> /\ Tail(s)[Len(Tail(s))] = s[Len(s)]
  <2>1. Len(s) - 1 \in 1..Len(s) - 1 /\ (Len(s) - 1) + 1 = Len(s)
    BY <1>1, <1>3
  <2>2. Tail(s)[Len(s) - 1] = s[(Len(s) - 1) + 1]
    BY <1>2, <2>1
  <2>3. Tail(s) # <<>>
    <3>1. Len(Tail(s)) # 0
      BY <1>1, <1>2, <1>3
    <3>2. Tail(s) = <<>> => Len(Tail(s)) = 0
      BY Len(<<>>) = 0, Zenon
    <3> QED BY <3>1, <3>2, Zenon
  <2> QED BY <1>2, <2>1, <2>2, <2>3
<1> QED BY <1>1, <1>2, <1>3

LEMMA AppendFacts ==
  ASSUME NEW S, NEW s \in Seq(S), NEW e \in S
  PROVE  /\ Append(s, e) \in Seq(S) /\ Append(s, e) # <<>>
         /\ Len(s) \in Nat /\ Len(Append(s, e)) = Len(s) + 1
         /\ DOMAIN s = 1..Len(s) /\ DOMAIN Append(s, e) = 1..Len(s) + 1
         /\ Append(s, e)[Len(s) + 1] = e
         /\ \A i \in 1..Len(s) : Append(s, e)[i] = s[i]
         /\ s = <<>> => Append(s, e) = <<e>>
<1>1. /\ Append(s, e) \in Seq(S) /\ Append(s, e) # <<>>
      /\ Len(s) \in Nat /\ Len(Append(s, e)) = Len(s) + 1
  OBVIOUS
<1>2. DOMAIN s = 1..Len(s) /\ DOMAIN Append(s, e) = 1..Len(s) + 1
  BY <1>1
<1>3. /\ Append(s, e)[Len(s) + 1] = e
      /\ \A i \in 1..Len(s) : Append(s, e)[i] = s[i]
  BY <1>1
<1>4. s = <<>> => Append(s, e) = <<e>>
  OBVIOUS
<1> QED BY <1>1, <1>2, <1>3, <1>4

LEMMA InitWireInv == ClusterInit => WireInv
<1> SUFFICES ASSUME ClusterInit PROVE WireInv
  OBVIOUS
<1> USE DEF ClusterInit, Init
<1>1. SeqInv
  <2>1. sent \in Seq({})
    OBVIOUS
  <2> QED BY <2>1 DEF SeqInv
<1>2. SocketInv
  BY DEF SocketInv
<1>3. Firsts = {} /\ Newest = 0 /\ Len(sent) = 0
  BY DEF Firsts, Newest
<1>4. OrderInv /\ ArrivalInv /\ AloneInv
  BY <1>3 DEF OrderInv, ArrivalInv, AloneInv
<1>5. OnlySharedTicksAreLost
  BY DEF OnlySharedTicksAreLost
<1> QED BY <1>1, <1>2, <1>4, <1>5 DEF WireInv

-----------------------------------------------------------------------------
(* The steps.  Most leave everything alone that WireInv speaks of.          *)

Quiet == /\ UNCHANGED <<sent, shared, pending, wire, heard, writes, open, peer>>
         /\ app' = "connecting" => ~open'

LEMMA StepCases ==
  [ClusterNext]_allVars /\ SocketInv =>
    \/ Quiet \/ Connects \/ Closes \/ BuildAndSend \/ WrittenPart
    \/ WrittenWhole \/ WriteEnds \/ OnRead \/ HostLeaves
<1> SUFFICES ASSUME [ClusterNext]_allVars, SocketInv
             PROVE  \/ Quiet \/ Connects \/ Closes \/ BuildAndSend
                    \/ WrittenPart \/ WrittenWhole \/ WriteEnds \/ OnRead
                    \/ HostLeaves
  OBVIOUS
<1>0. \/ SetNext \/ (Aside /\ UNCHANGED clusterVars) \/ Begins \/ Rearms
      \/ UNCHANGED allVars
      \/ Connects \/ Closes \/ BuildAndSend \/ WrittenPart
      \/ WrittenWhole \/ WriteEnds \/ OnRead \/ HostLeaves
  BY Zenon DEF ClusterNext
<1> USE DEF sockVars, asyncVars, ioVars, vars, requestVars, clusterVars,
            allVars, Quiet, SocketInv
<1>1. SetNext => Quiet
  <2> SUFFICES ASSUME SetNext PROVE Quiet
    OBVIOUS
  <2>1. UNCHANGED <<vars, bound, t, sent, meant, shared, pending, wire, heard>>
    BY Zenon DEF SetNext, SetCameras, SetTexts, SetSkeleton, NoSkeleton,
         Set
  <2> QED BY <2>1
<1>2. Aside /\ UNCHANGED clusterVars => Quiet
  <2> SUFFICES ASSUME Aside, UNCHANGED clusterVars PROVE Quiet
    OBVIOUS
  <2>1. CASE Connect \/ ConnectFailed \/ Stop \/ Disconnect \/ StopIo
    BY <2>1 DEF Connect, ConnectFailed, Stop, Disconnect, StopIo
  <2>2. CASE CallStart \/ StartArm \/ RunIo \/ LeaveIo \/ StartEnd
             \/ TickThrows \/ TickExpires
    BY <2>2 DEF CallStart, StartArm, RunIo, LeaveIo, StartEnd,
         TickThrows, TickExpires
  <2>3. CASE Receive \/ ReceiveFails \/ AbortReported
    BY <2>3 DEF Receive, ReceiveFails, AbortReported
  <2> QED BY <2>1, <2>2, <2>3 DEF Aside
<1>3. Begins \/ Rearms => Quiet
  BY DEF Begins, Rearms, StartBegin, TickRearm
<1>4. UNCHANGED allVars => Quiet
  OBVIOUS
<1> QED BY <1>0, <1>1, <1>2, <1>3, <1>4, Zenon

LEMMA QuietKeeps == WireInv /\ Quiet => WireInv'
<1> SUFFICES ASSUME WireInv, Quiet PROVE WireInv'
  OBVIOUS
<1> USE DEF WireInv, Quiet
<1>1. SeqInv'
  BY DEF SeqInv
<1>2. SocketInv'
  BY DEF SocketInv
<1>3. Firsts' = Firsts /\ Newest' = Newest
  BY DEF Firsts, Newest
<1>4. OrderInv'
  BY <1>3 DEF OrderInv
<1>5. ArrivalInv'
  BY <1>3 DEF ArrivalInv
<1>6. AloneInv'
  BY <1>3 DEF AloneInv, AloneAt
<1>7. OnlySharedTicksAreLost'
  BY DEF OnlySharedTicksAreLost
<1> QED BY <1>1, <1>2, <1>4, <1>5, <1>6, <1>7

\* A new connection begins with nothing.
LEMMA ConnectsKeeps == WireInv /\ Connects => WireInv'
<1> SUFFICES ASSUME WireInv, Connects PROVE WireInv'
  OBVIOUS
<1> USE DEF Connects, Connected, ioVars, asyncVars
<1>1. SeqInv'
  <2>1. sent' \in Seq({})
    OBVIOUS
  <2> QED BY <2>1 DEF SeqInv, WireInv
<1>2. SocketInv'
  BY DEF WireInv, SocketInv
<1>3. Firsts' = {} /\ Newest' = 0 /\ Len(sent') = 0
  BY DEF Firsts, Newest
<1>4. (OrderInv /\ ArrivalInv /\ AloneInv)'
  BY <1>3 DEF OrderInv, ArrivalInv, AloneInv
<1>5. OnlySharedTicksAreLost'
  BY DEF OnlySharedTicksAreLost
<1> QED BY <1>1, <1>2, <1>4, <1>5 DEF WireInv

\* Nothing more is written to a socket that is closed.
LEMMA ClosesKeeps == WireInv /\ Closes => WireInv'
<1> SUFFICES ASSUME WireInv, Closes PROVE WireInv'
  OBVIOUS
<1> USE DEF Closes, CloseSocket, requestVars, WireInv
<1>1. SeqInv'
  BY DEF SeqInv
<1>2. SocketInv'
  BY DEF SocketInv
<1>3. Firsts' = Firsts /\ Newest' = Newest
  BY DEF Firsts, Newest
<1>4. OrderInv'
  BY <1>3 DEF OrderInv
<1>5. ArrivalInv'
  BY <1>3 DEF ArrivalInv
<1>6. AloneInv'
  BY <1>3 DEF AloneInv, AloneAt
<1>7. OnlySharedTicksAreLost'
  BY DEF OnlySharedTicksAreLost
<1> QED BY <1>1, <1>2, <1>4, <1>5, <1>6, <1>7

\* Nothing arrives from a connection that is gone.
LEMMA HostLeavesKeeps == WireInv /\ HostLeaves => WireInv'
<1> SUFFICES ASSUME WireInv, HostLeaves PROVE WireInv'
  OBVIOUS
<1> USE DEF HostLeaves, PeerLeaves, requestVars, ioVars, asyncVars, WireInv
<1>1. SeqInv'
  BY DEF SeqInv
<1>2. SocketInv'
  BY DEF SocketInv
<1>3. Firsts' = {} /\ Newest' = Newest
  BY DEF Firsts, Newest
<1>4. (OrderInv /\ ArrivalInv /\ AloneInv)'
  BY <1>3 DEF OrderInv, ArrivalInv, AloneInv
<1>5. OnlySharedTicksAreLost'
  BY DEF OnlySharedTicksAreLost
<1> QED BY <1>1, <1>2, <1>4, <1>5

\* A write can only fail where the host is gone.
LEMMA WriteEndsKeeps == WireInv /\ WriteEnds => WireInv'
<1> SUFFICES ASSUME WireInv, WriteEnds PROVE WireInv'
  OBVIOUS
<1> USE DEF WriteEnds, WriteFails, requestVars, sockVars, WireInv
<1>0. pending \in Seq(Line) /\ pending # <<>> /\ open /\ wire = <<>>
  BY DEF SocketInv, SeqInv
<1>1. SeqInv'
  BY <1>0 DEF SeqInv
<1>2. SocketInv'
  BY <1>0 DEF SocketInv
<1>3. Firsts' = {} /\ Firsts = {} /\ Newest' = Newest
  BY <1>0 DEF Firsts, Newest
<1>4. (OrderInv /\ AloneInv)'
  BY <1>3 DEF OrderInv, AloneInv
<1>5. ArrivalInv'
  BY <1>3 DEF ArrivalInv
<1>6. OnlySharedTicksAreLost'
  BY DEF OnlySharedTicksAreLost
<1> QED BY <1>1, <1>2, <1>4, <1>5, <1>6

\* A request that was written whole is no longer the last thing begun, unless
\* the wire ends with it.
LEMMA WrittenWholeKeeps == WireInv /\ WrittenWhole => WireInv'
<1> SUFFICES ASSUME WireInv, WrittenWhole PROVE WireInv'
  OBVIOUS
<1> USE DEF WrittenWhole, Written, requestVars, sockVars, WireInv
<1>0. pending \in Seq(Line) /\ pending # <<>> /\ open
  BY DEF SocketInv, SeqInv
<1>1. SeqInv'
  BY <1>0 DEF SeqInv
<1>2. SocketInv'
  <2>1. Len(pending) = 1 => pending[Len(pending)].last
    BY <1>0, QueueFacts
  <2>2. Len(pending) \in Nat /\ Len(pending) > 0
    BY <1>0
  <2> QED BY <1>0, <2>1, <2>2, QueueFacts DEF SocketInv
<1>3. Firsts' = Firsts /\ Newest' = Newest
  BY DEF Firsts, Newest
<1>4. OrderInv'
  BY <1>3 DEF OrderInv
<1>5. ArrivalInv'
  BY <1>3 DEF ArrivalInv
<1>6. AloneInv'
  <2> SUFFICES ASSUME NEW i \in Firsts, wire[i].tick \notin shared
               PROVE  AloneAt(i)'
    BY <1>3 DEF AloneInv
  <2>1. AloneAt(i)
    BY DEF AloneInv
  <2>2. pending = <<wire[i]>> => wire[i].last
    OBVIOUS
  <2> QED BY <1>0, <2>1, <2>2 DEF AloneAt
<1>7. OnlySharedTicksAreLost'
  BY DEF OnlySharedTicksAreLost
<1> QED BY <1>1, <1>2, <1>4, <1>5, <1>6, <1>7

\* The second part follows the first: had another request come between, both
\* would be shared.
LEMMA WrittenPartKeeps == WireInv /\ WrittenPart => WireInv'
<1> SUFFICES ASSUME WireInv, WrittenPart PROVE WireInv'
  OBVIOUS
<1> DEFINE p == Part(Head(pending).tick, 2, 2)
<1> USE DEF WireInv
<1>0. /\ pending \in Seq(Line) /\ pending # <<>> /\ open /\ wire \in Seq(Line)
      /\ UNCHANGED <<sent, shared, heard, writes, open, peer, app>>
      /\ pending' = Append(Tail(pending), p)
      /\ wire' = IF peer THEN Append(wire, p) ELSE wire
  BY DEF SocketInv, SeqInv, WrittenPart, Begin, requestVars, vars, sockVars,
         ioVars, asyncVars
<1>1. p \in Line /\ p.part = 2 /\ p.last
  <2>1. Head(pending).tick \in Nat
    BY <1>0, QueueFacts, TickIsNat
  <2> QED BY <2>1, PartInLine
<1> HIDE DEF p
<1>2. SeqInv'
  BY <1>0, <1>1, QueueFacts, AppendFacts DEF SeqInv
<1>3. SocketInv'
  <2>0. Tail(pending) \in Seq(Line) /\ Len(Tail(pending)) = Len(pending) - 1
    BY <1>0, QueueFacts
  <2>1. /\ Len(pending') = Len(pending) /\ pending' # <<>>
        /\ pending'[Len(pending')] = p
    BY <1>0, <1>1, <2>0, AppendFacts
  <2>2. peer => wire'[Len(wire')] = p
    BY <1>0, <1>1, AppendFacts
  <2> QED BY <1>0, <1>1, <2>1, <2>2 DEF SocketInv
<1>4. CASE ~peer
  <2>1. Firsts' = {} /\ Firsts = {} /\ Newest' = Newest
    BY <1>0, <1>4 DEF Firsts, Newest, SocketInv
  <2>2. (OrderInv /\ AloneInv /\ ArrivalInv)'
    BY <1>0, <1>4, <2>1 DEF OrderInv, AloneInv, ArrivalInv
  <2>3. OnlySharedTicksAreLost'
    BY <1>0 DEF OnlySharedTicksAreLost
  <2> QED BY <1>2, <1>3, <2>2, <2>3
<1>5. CASE peer
  <2>1. /\ Len(wire') = Len(wire) + 1 /\ wire'[Len(wire) + 1] = p
        /\ \A i \in DOMAIN wire : i \in DOMAIN wire' /\ wire'[i] = wire[i]
        /\ DOMAIN wire = 1..Len(wire) /\ Len(wire) \in Nat
        /\ DOMAIN wire' = 1..Len(wire) + 1
    BY <1>0, <1>1, <1>5, AppendFacts
  <2>2. Firsts' = Firsts /\ Newest' = Newest
    BY <1>0, <1>1, <2>1 DEF Firsts, Newest
  <2>3. \A i \in Firsts : i \in 1..Len(wire) /\ wire'[i] = wire[i]
    BY <2>1 DEF Firsts
  <2>4. OrderInv'
    BY <1>0, <2>2, <2>3 DEF OrderInv
  <2>5. ArrivalInv'
    BY <1>0, <2>2, <2>3 DEF ArrivalInv
  <2>6. AloneInv'
    <3> SUFFICES ASSUME NEW i \in Firsts, wire[i].tick \notin shared
                 PROVE  AloneAt(i)'
      BY <1>0, <2>2, <2>3 DEF AloneInv
    <3>1. AloneAt(i)
      BY DEF AloneInv
    <3>2. i \in 1..Len(wire) /\ wire'[i] = wire[i]
      BY <2>3
    <3>3. i = 1 \/ wire'[i - 1].last
      BY <2>1, <3>1, <3>2 DEF AloneAt
    <3>4. CASE wire[i].last
      BY <3>2, <3>3, <3>4 DEF AloneAt
    <3>5. CASE i < Len(wire) /\ wire[i + 1] = Part(wire[i].tick, 2, 2)
      BY <2>1, <3>2, <3>3, <3>5 DEF AloneAt
    <3>6. CASE i = Len(wire) /\ pending = <<wire[i]>>
      <4>1. p = Part(wire[i].tick, 2, 2)
        BY <1>0, <3>6, QueueFacts DEF p
      <4>2. i < Len(wire') /\ wire'[i + 1] = Part(wire'[i].tick, 2, 2)
        BY <2>1, <3>2, <3>6, <4>1
      <4> QED BY <3>3, <4>2 DEF AloneAt
    <3> QED BY <1>0, <3>1, <3>4, <3>5, <3>6 DEF AloneAt
  <2>7. OnlySharedTicksAreLost'
    BY <1>0 DEF OnlySharedTicksAreLost
  <2> QED BY <1>2, <1>3, <2>4, <2>5, <2>6, <2>7
<1> QED BY <1>4, <1>5

\* A new request comes last, and makes shared what it may come into.
LEMMA BuildAndSendKeeps == WireInv /\ BuildAndSend => WireInv'
<1> SUFFICES ASSUME WireInv, BuildAndSend PROVE WireInv'
  OBVIOUS
<1> DEFINE k == Len(sent) + 1
           p == Part(k, 1, IF data.skel_poses = <<>> THEN 1 ELSE 2)
<1> USE DEF WireInv
<1>0. /\ pending \in Seq(Line) /\ wire \in Seq(Line)
      /\ UNCHANGED <<heard, open, peer, app>>
      /\ writes' = IF open THEN writes + 1 ELSE writes
      /\ pending' = IF open THEN Append(pending, p) ELSE pending
      /\ wire' = IF open /\ peer THEN Append(wire, p) ELSE wire
      /\ shared' = IF pending = <<>> THEN shared
                   ELSE shared \cup {k} \cup {q.tick : q \in Range(pending)}
  BY DEF SeqInv, BuildAndSend, Begin, TickSend, sockVars
<1>1. /\ Len(sent) \in Nat /\ Len(sent') = k
      /\ \E S : sent' \in Seq(S)
  <2>1. sent' = Append(sent, ToJson(BuildRequest))
    BY DEF BuildAndSend
  <2>2. PICK S : sent \in Seq(S)
    BY DEF SeqInv
  <2> DEFINE j == ToJson(BuildRequest)
             T == S \cup {j}
  <2> HIDE DEF j
  <2>3. sent \in Seq(T) /\ j \in T
    BY <2>2
  <2>4. Append(sent, j) \in Seq(T) /\ Len(Append(sent, j)) = Len(sent) + 1
        /\ Len(sent) \in Nat
    BY <2>3
  <2> QED BY <2>1, <2>4 DEF j
<1>2. p \in Line /\ p.part = 1 /\ p.tick = k
  BY <1>1, PartInLine
<1> HIDE DEF p
<1>3. SeqInv'
  BY <1>0, <1>1, <1>2, AppendFacts DEF SeqInv
<1>4. SocketInv'
  <2>1. open => /\ Len(pending') = Len(pending) + 1 /\ pending' # <<>>
                /\ pending'[Len(pending')] = p
    BY <1>0, <1>2, AppendFacts
  <2>2. open /\ peer => wire'[Len(wire')] = p
    BY <1>0, <1>2, AppendFacts
  <2> QED BY <1>0, <1>2, <2>1, <2>2 DEF SocketInv
<1>5. OnlySharedTicksAreLost'
  <2>1. shared \subseteq shared'
    BY <1>0
  <2> QED BY <1>0, <2>1 DEF OnlySharedTicksAreLost
<1>6. Newest' = Newest
  BY <1>0 DEF Newest
<1>7. CASE ~(open /\ peer)
  <2>1. wire' = wire /\ Firsts' = Firsts /\ shared \subseteq shared'
    BY <1>0, <1>7 DEF Firsts
  <2>2. \A i \in Firsts : wire[i].tick \in Nat /\ i \in DOMAIN wire
    <3> SUFFICES ASSUME NEW i \in Firsts PROVE wire[i] \in Line
      BY TickIsNat DEF Firsts
    <3> QED BY <1>0 DEF Firsts
  <2>3. Newest \in Nat
    BY DEF Newest, SeqInv
  <2>4. OrderInv'
    BY <1>1, <1>6, <2>1, <2>2, <2>3 DEF OrderInv
  <2>5. ArrivalInv'
    BY <1>0, <1>1, <1>6, <1>7, <2>1, <2>2 DEF ArrivalInv, OrderInv
  <2>6. AloneInv'
    <3>1. CASE open
      BY <1>7, <2>1, <2>2, <3>1 DEF AloneInv, SocketInv
    <3>2. CASE ~open
      BY <1>0, <2>1, <3>2 DEF AloneInv, AloneAt
    <3> QED BY <3>1, <3>2
  <2> QED BY <1>3, <1>4, <1>5, <2>4, <2>5, <2>6
<1>8. CASE open /\ peer
  <2>1. /\ Len(wire') = Len(wire) + 1 /\ wire'[Len(wire) + 1] = p
        /\ \A i \in DOMAIN wire : i \in DOMAIN wire' /\ wire'[i] = wire[i]
        /\ DOMAIN wire = 1..Len(wire) /\ Len(wire) \in Nat
        /\ DOMAIN wire' = 1..Len(wire) + 1
    BY <1>0, <1>2, <1>8, AppendFacts
  <2>2. Firsts' = Firsts \cup {Len(wire) + 1}
    BY <1>2, <2>1 DEF Firsts
  <2>3. \A i \in Firsts : i \in 1..Len(wire) /\ wire'[i] = wire[i]
    BY <2>1 DEF Firsts
  <2>4. \A i \in Firsts : wire[i].tick \in Nat
    <3> SUFFICES ASSUME NEW i \in Firsts PROVE wire[i] \in Line
      BY TickIsNat
    <3> QED BY <1>0 DEF Firsts
  <2>5. Newest \in Nat
    BY DEF Newest, SeqInv
  <2>6. OrderInv'
    BY <1>1, <1>2, <1>6, <2>1, <2>2, <2>3, <2>4, <2>5 DEF OrderInv
  <2>7. ArrivalInv'
    <3> SUFFICES ASSUME NEW q \in 1..k, q \notin shared', Newest < q
                 PROVE  \E i \in Firsts' : wire'[i].tick = q
      BY <1>1, <1>6 DEF ArrivalInv
    <3>1. CASE q = k
      BY <1>2, <2>1, <2>2, <3>1
    <3>2. CASE q # k
      <4>1. q \in 1..Len(sent) \ shared
        BY <1>0, <1>1, <3>2
      <4>2. PICK i \in Firsts : wire[i].tick = q
        BY <1>8, <4>1 DEF ArrivalInv
      <4> QED BY <2>2, <2>3, <4>2
    <3> QED BY <3>1, <3>2
  <2>8. AloneInv'
    <3> SUFFICES ASSUME NEW i \in Firsts', wire'[i].tick \notin shared'
                 PROVE  AloneAt(i)'
      BY DEF AloneInv
    <3>1. CASE i = Len(wire) + 1
      <4>1. wire'[i] = p /\ pending = <<>>
        BY <1>0, <1>2, <2>1, <3>1
      <4>2. pending' = <<p>>
        BY <1>0, <1>2, <1>8, <4>1, AppendFacts
      <4>3. i = 1 \/ wire'[i - 1].last
        <5>1. CASE wire = <<>>
          BY <3>1, <5>1
        <5>2. CASE wire # <<>>
          <6>1. wire[Len(wire)].last
            BY <1>8, <4>1, <5>2 DEF SocketInv
          <6>2. Len(wire) \in 1..Len(wire) /\ i - 1 = Len(wire)
            BY <1>0, <2>1, <3>1, <5>2
          <6> QED BY <2>1, <6>1, <6>2
        <5> QED BY <5>1, <5>2
      <4> QED BY <2>1, <3>1, <4>1, <4>2, <4>3 DEF AloneAt
    <3>2. CASE i # Len(wire) + 1
      <4>1. i \in Firsts /\ i \in 1..Len(wire) /\ wire'[i] = wire[i]
        BY <2>2, <2>3, <3>2
      <4>2. wire[i].tick \notin shared
        BY <1>0, <4>1
      <4>3. AloneAt(i)
        BY <4>1, <4>2 DEF AloneInv
      <4>4. i = 1 \/ wire'[i - 1].last
        BY <2>1, <4>1, <4>3 DEF AloneAt
      <4>5. pending # <<wire[i]>>
        <5> SUFFICES ASSUME pending = <<wire[i]>>
                     PROVE  wire[i].tick \in shared'
          BY <4>1
        <5>1. wire[i] \in Range(pending) /\ pending # <<>>
          BY DEF Range
        <5> QED BY <1>0, <5>1
      <4>6. \/ wire[i].last
            \/ i < Len(wire) /\ wire[i + 1] = Part(wire[i].tick, 2, 2)
        BY <1>8, <4>3, <4>5 DEF AloneAt
      <4> QED BY <2>1, <4>1, <4>4, <4>6 DEF AloneAt
    <3> QED BY <3>1, <3>2
  <2> QED BY <1>3, <1>4, <1>5, <2>6, <2>7, <2>8
<1> QED BY <1>7, <1>8

\* What is read is one line, and that of an unshared tick is taken.
LEMMA OnReadKeeps == WireInv /\ OnRead => WireInv'
<1> SUFFICES ASSUME WireInv, OnRead PROVE WireInv'
  OBVIOUS
<1> USE DEF WireInv
<1>0. /\ wire \in Seq(Line) /\ heard \in Seq(Nat) /\ Len(wire) \in Nat
      /\ UNCHANGED <<sent, shared, pending, writes, open, peer, app>>
  BY DEF SeqInv, OnRead, requestVars, vars, sockVars, ioVars, asyncVars
<1>1. PICK n \in DOMAIN wire :
        /\ wire[n].last /\ \A i \in 1..n - 1 : ~wire[i].last
        /\ wire' = SubSeq(wire, n + 1, Len(wire))
        /\ heard' = IF Whole(SubSeq(wire, 1, n))
                    THEN Append(heard, wire[n].tick) ELSE heard
  BY Zenon DEF OnRead
<1> DEFINE whole == Whole(SubSeq(wire, 1, n))
<1>2. n \in 1..Len(wire)
  BY <1>0
<1>3. /\ wire' \in Seq(Line) /\ Len(wire') = Len(wire) - n
      /\ DOMAIN wire' = 1..Len(wire) - n
      /\ \A i \in 1..Len(wire) - n : wire'[i] = wire[i + n]
  <2>1. n + 1 \in 1..Len(wire) + 1 /\ Len(wire) <= Len(wire)
    BY <1>0, <1>2
  <2> QED BY <1>0, <1>1, <1>2, <2>1, SubSeqProperties
<1>4. \A i \in Firsts' : /\ i \in 1..Len(wire) - n /\ i + n \in Firsts
                         /\ wire'[i] = wire[i + n]
  BY <1>0, <1>2, <1>3 DEF Firsts
<1>5. \A i \in Firsts : i \in 1..Len(wire) /\ wire[i] \in Line /\ wire[i].part = 1
                        /\ wire[i].tick \in Nat
  <2> SUFFICES ASSUME NEW i \in Firsts
               PROVE  i \in 1..Len(wire) /\ wire[i] \in Line /\ wire[i].part = 1
    BY TickIsNat
  <2> QED BY <1>0 DEF Firsts
<1>6. Newest \in Nat
  BY <1>0 DEF Newest
<1>7. /\ DOMAIN SubSeq(wire, 1, n) = 1..n /\ Len(SubSeq(wire, 1, n)) = n
      /\ \A i \in 1..n : SubSeq(wire, 1, n)[i] = wire[i]
  BY <1>0, <1>2
<1>8. whole => 1 \in Firsts /\ wire[n].tick = wire[1].tick
  <2> SUFFICES ASSUME whole
               PROVE  1 \in Firsts /\ wire[n].tick = wire[1].tick
    OBVIOUS
  <2>1. \A i \in 1..n : wire[i] = Part(wire[1].tick, i, n)
    <3> DEFINE line == SubSeq(wire, 1, n)
    <3>1. line = [i \in DOMAIN line |-> Part(line[1].tick, i, Len(line))]
      BY DEF Whole
    <3>2. /\ DOMAIN line = 1..n /\ Len(line) = n
          /\ \A i \in 1..n : line[i] = wire[i]
      BY <1>7
    <3> HIDE DEF line
    <3>3. line[1] = wire[1]
      BY <1>2, <3>2
    <3>4. \A i \in DOMAIN line : line[i] = Part(line[1].tick, i, Len(line))
      BY <3>1, Zenon
    <3> QED BY <3>2, <3>3, <3>4
  <2>2. wire[1].part = 1 /\ wire[n].tick = wire[1].tick
    <3>1. wire[1] = Part(wire[1].tick, 1, n) /\ wire[n] = Part(wire[1].tick, n, n)
      BY <1>2, <2>1
    <3> QED BY <3>1 DEF Part
  <2> QED BY <1>0, <1>2, <2>2 DEF Firsts
<1>9. \A i \in Firsts : i <= n /\ wire[i].tick \notin shared => i = 1 /\ whole
  <2> SUFFICES ASSUME NEW i \in Firsts, i <= n, wire[i].tick \notin shared
               PROVE  i = 1 /\ whole
    OBVIOUS
  <2> DEFINE k == wire[1].tick
  <2>1. AloneAt(i)
    BY DEF AloneInv
  <2>2. i = 1
    BY <1>1, <1>2, <1>5, <2>1 DEF AloneAt
  <2>3. CASE wire[1].last
    <3>1. n = 1
      BY <1>1, <1>2, <2>3
    <3>2. wire[1] = Part(k, 1, 1)
      BY <1>5, <2>2, <2>3 DEF Part, Line
    <3> QED BY <1>7, <2>2, <3>1, <3>2 DEF Whole
  <2>4. CASE ~wire[1].last
    <3>1. n > 1
      BY <1>1, <1>2, <2>4
    <3>2. wire[2] = Part(k, 2, 2)
      BY <1>2, <2>1, <2>2, <2>4, <3>1 DEF AloneAt
    <3>3. n = 2
      <4>1. wire[2].last
        BY <1>5, <2>2, <3>2, PartInLine
      <4> QED BY <1>1, <1>2, <3>1, <4>1
    <3>4. wire[1] = Part(k, 1, 2)
      BY <1>5, <2>2, <2>4 DEF Part, Line
    <3> QED BY <1>7, <2>2, <3>2, <3>3, <3>4 DEF Whole
  <2> QED BY <2>3, <2>4
<1>10. Newest' = IF whole THEN wire[1].tick ELSE Newest
  <2>1. CASE whole
    <3>1. heard' = Append(heard, wire[1].tick) /\ wire[1].tick \in Nat
      BY <1>1, <1>5, <1>8, <2>1
    <3> QED BY <1>0, <2>1, <3>1, AppendFacts DEF Newest
  <2>2. CASE ~whole
    BY <1>1, <2>2 DEF Newest
  <2> QED BY <2>1, <2>2
<1>11. Newest <= Newest'
  BY <1>5, <1>6, <1>8, <1>10 DEF OrderInv
<1> HIDE DEF whole
<1>12. SeqInv'
  <2>1. heard' \in Seq(Nat)
    BY <1>0, <1>1, <1>5, <1>8, AppendFacts DEF whole
  <2> QED BY <1>0, <1>3, <2>1 DEF SeqInv
<1>13. SocketInv'
  <2>1. wire' # <<>> => wire # <<>> /\ wire'[Len(wire')] = wire[Len(wire)]
    <3> SUFFICES ASSUME wire' # <<>>
                 PROVE  wire # <<>> /\ wire'[Len(wire')] = wire[Len(wire)]
      OBVIOUS
    <3>1. Len(wire') = Len(wire) - n /\ Len(wire') # 0
      BY <1>3
    <3> DEFINE m == Len(wire)
    <3>0. m \in Nat /\ n \in 1..m /\ m - n # 0
      BY <1>0, <1>2, <3>1
    <3> HIDE DEF m
    <3>2. m - n \in 1..m - n /\ (m - n) + n = m
      BY <3>0
    <3> USE DEF m
    <3>3. Len(<<>>) = 0
      OBVIOUS
    <3> QED BY <1>2, <1>3, <3>2, <3>3
  <2>2. wire = <<>> => wire' = <<>>
    BY <1>2
  <2> QED BY <1>0, <2>1, <2>2 DEF SocketInv
<1>14. OrderInv'
  <2>1. Newest' <= Len(sent')
    BY <1>0, <1>8, <1>10 DEF OrderInv
  <2>2. \A i \in Firsts' : Newest' < wire'[i].tick /\ wire'[i].tick <= Len(sent')
    <3> SUFFICES ASSUME NEW i \in Firsts'
                 PROVE  Newest' < wire'[i].tick /\ wire'[i].tick <= Len(sent')
      OBVIOUS
    <3>1. i + n \in Firsts /\ wire'[i] = wire[i + n] /\ 1 < i + n
      BY <1>2, <1>4
    <3>2. wire[i + n].tick <= Len(sent) /\ Newest < wire[i + n].tick
      BY <3>1 DEF OrderInv
    <3>3. whole => wire[1].tick < wire[i + n].tick
      BY <1>8, <3>1 DEF OrderInv, whole
    <3> QED BY <1>0, <1>10, <3>1, <3>2, <3>3 DEF whole
  <2>3. \A i, j \in Firsts' : i < j => wire'[i].tick < wire'[j].tick
    <3> SUFFICES ASSUME NEW i \in Firsts', NEW j \in Firsts', i < j
                 PROVE  wire'[i].tick < wire'[j].tick
      OBVIOUS
    <3>1. i + n \in Firsts /\ j + n \in Firsts /\ i + n < j + n
      BY <1>2, <1>4
    <3> QED BY <1>4, <3>1 DEF OrderInv
  <2> QED BY <2>1, <2>2, <2>3 DEF OrderInv
<1>15. ArrivalInv'
  <2> SUFFICES ASSUME NEW k \in 1..Len(sent), k \notin shared, Newest' < k,
                      (open /\ peer) \/ \E j \in Firsts' : k < wire'[j].tick
               PROVE  \E i \in Firsts' : wire'[i].tick = k
    BY <1>0 DEF ArrivalInv
  <2>1. (open /\ peer) \/ \E j \in Firsts : k < wire[j].tick
    BY <1>4
  <2>2. Newest < k
    <3>1. Newest' \in Nat
      BY <1>5, <1>6, <1>8, <1>10 DEF whole
    <3> QED BY <1>6, <1>11, <3>1
  <2>3. PICK i \in Firsts : wire[i].tick = k
    BY <2>1, <2>2 DEF ArrivalInv
  <2>4. i > n
    <3> SUFFICES ASSUME i <= n PROVE FALSE
      BY <1>2, <1>5
    <3>1. i = 1 /\ whole
      BY <1>9, <2>3 DEF whole
    <3> QED BY <1>10, <2>3, <3>1 DEF whole
  <2>5. i - n \in 1..Len(wire) - n /\ (i - n) + n = i
    BY <1>0, <1>2, <1>5, <2>4
  <2>6. wire'[i - n] = wire[i]
    BY <1>3, <2>5
  <2>7. i - n \in Firsts'
    BY <1>3, <1>5, <2>5, <2>6 DEF Firsts
  <2> QED BY <2>3, <2>6, <2>7
<1>16. AloneInv'
  <2> SUFFICES ASSUME NEW i \in Firsts', wire'[i].tick \notin shared
               PROVE  AloneAt(i)'
    BY <1>0 DEF AloneInv
  <2>1. /\ i \in 1..Len(wire) - n /\ i + n \in Firsts /\ wire'[i] = wire[i + n]
    BY <1>4
  <2>2. AloneAt(i + n)
    BY <2>1 DEF AloneInv
  <2>3. i = 1 \/ wire'[i - 1].last
    <3> SUFFICES ASSUME i # 1 PROVE wire'[i - 1].last
      OBVIOUS
    <3>1. i - 1 \in 1..Len(wire) - n /\ (i - 1) + n = (i + n) - 1 /\ i + n # 1
      BY <1>0, <1>2, <2>1
    <3> QED BY <1>3, <2>2, <3>1 DEF AloneAt
  <2>4. CASE wire[i + n].last
    BY <2>1, <2>3, <2>4 DEF AloneAt
  <2>5. CASE i + n < Len(wire) /\ wire[i + n + 1] = Part(wire[i + n].tick, 2, 2)
    <3>1. i + 1 \in 1..Len(wire) - n /\ (i + 1) + n = i + n + 1
      BY <1>0, <1>2, <2>1, <2>5
    <3>2. wire'[i + 1] = Part(wire'[i].tick, 2, 2) /\ i < Len(wire')
      BY <1>0, <1>2, <1>3, <2>1, <2>5, <3>1
    <3> QED BY <2>3, <3>2 DEF AloneAt
  <2>6. CASE i + n = Len(wire) /\ (open => pending = <<wire[i + n]>>)
    <3>1. i = Len(wire')
      BY <1>0, <1>2, <1>3, <2>1, <2>6
    <3> QED BY <1>0, <2>1, <2>3, <2>6, <3>1 DEF AloneAt
  <2> QED BY <2>2, <2>4, <2>5, <2>6 DEF AloneAt
<1>17. OnlySharedTicksAreLost'
  <2>1. CASE ~whole
    BY <1>0, <1>1, <2>1 DEF OnlySharedTicksAreLost, whole
  <2>2. CASE whole
    <3> DEFINE k == wire[1].tick
    <3>1. /\ 1 \in Firsts /\ heard' = Append(heard, k) /\ k \in Nat
      BY <1>1, <1>5, <1>8, <2>2 DEF whole
    <3>2. Newest < k /\ k <= Len(sent)
      BY <3>1 DEF OrderInv
    <3>3. (Newest + 1)..(k - 1) \subseteq shared
      <4> SUFFICES ASSUME NEW q \in (Newest + 1)..(k - 1), q \notin shared
                   PROVE  FALSE
        OBVIOUS
      <4>1. q \in 1..Len(sent) /\ Newest < q /\ q < k
        <5>1. Len(sent) \in Nat
          BY DEF SeqInv
        <5> QED BY <1>6, <3>1, <3>2, <5>1
      <4>2. PICK i \in Firsts : wire[i].tick = q
        BY <3>1, <4>1 DEF ArrivalInv
      <4>3. i = 1 \/ 1 < i
        BY <1>5
      <4> QED BY <3>1, <4>1, <4>2, <4>3 DEF OrderInv
    <3> HIDE DEF k
    <3>4. /\ DOMAIN heard = 1..Len(heard) /\ Len(heard) \in Nat
          /\ DOMAIN heard' = 1..Len(heard) + 1 /\ heard'[Len(heard) + 1] = k
          /\ \A i \in 1..Len(heard) : heard'[i] = heard[i]
      BY <1>0, <3>1, AppendFacts
    <3> SUFFICES ASSUME NEW i \in 1..Len(heard) + 1
                 PROVE  LET before == IF i = 1 THEN 0 ELSE heard'[i - 1]
                        IN  /\ heard'[i] > before
                            /\ (before + 1)..(heard'[i] - 1) \subseteq shared
      BY <1>0, <3>4 DEF OnlySharedTicksAreLost
    <3>5. CASE i = Len(heard) + 1
      <4>1. Newest = IF i = 1 THEN 0 ELSE heard'[i - 1]
        <5>1. CASE heard = <<>>
          BY <3>5, <5>1 DEF Newest
        <5>2. CASE heard # <<>>
          <6>1. Len(heard) \in 1..Len(heard) /\ i - 1 = Len(heard) /\ i # 1
            BY <1>0, <3>4, <3>5, <5>2
          <6> QED BY <3>4, <5>2, <6>1 DEF Newest
        <5> QED BY <5>1, <5>2
      <4> QED BY <1>6, <3>1, <3>2, <3>3, <3>4, <3>5, <4>1
    <3>6. CASE i # Len(heard) + 1
      <4>1. i \in 1..Len(heard) /\ (i # 1 => i - 1 \in 1..Len(heard))
        BY <3>4, <3>6
      <4> QED BY <3>4, <4>1 DEF OnlySharedTicksAreLost
    <3> QED BY <3>5, <3>6
  <2> QED BY <2>1, <2>2
<1> QED BY <1>12, <1>13, <1>14, <1>15, <1>16, <1>17

\* ClusterClient's invariant so far.
LEMMA WireInvariance == ClusterSpec => []WireInv
<1>1. WireInv /\ [ClusterNext]_allVars => WireInv'
  BY StepCases, QuietKeeps, ConnectsKeeps, ClosesKeeps, BuildAndSendKeeps,
     WrittenPartKeeps, WrittenWholeKeeps, WriteEndsKeeps, OnReadKeeps,
     HostLeavesKeeps, Zenon DEF WireInv
<1> QED BY <1>1, InitWireInv, PTL DEF ClusterSpec

(* A tick the host has not got was being written while another was, for any *)
(* number of ticks, connections and writes outstanding (client.cpp:593,     *)
(* link.cpp:126): two writes that overlap are all that can spoil a line.    *)
THEOREM NoOtherTickIsLost == ClusterSpec => []OnlySharedTicksAreLost
<1>1. WireInv => OnlySharedTicksAreLost
  BY DEF WireInv
<1> QED BY <1>1, WireInvariance, PTL

-----------------------------------------------------------------------------
(* What a request shows.  It arrives as it was built, and its parts were of *)
(* the sizes the host is told.                                              *)

Joint == [id : Int, parent : Int]
Pose == [root : Int, joints : Seq(Int)]

Request == [t : Int, cameras : Seq([id : Int, at : Int]),
            text_values : Seq(Int), joint_names : Seq(Int),
            skel_layout : Seq(Joint), skel_poses : Seq(Pose)]

\* The layout, the names and every pose are of one number of joints.
Fits(r) == /\ Len(r.joint_names) = Len(r.skel_layout)
           /\ \A i \in DOMAIN r.skel_poses :
                Len(r.skel_poses[i].joints) = Len(r.skel_layout)

DataInv ==
  /\ data \in Request /\ Fits(data)
  /\ \A i \in DOMAIN data.cameras : data.cameras[i] = NoCamera
  /\ bound \in Bounds /\ t \in Nat

ShownInv ==
  /\ \E S : meant \in Seq(S)
  /\ \E S : sent \in Seq(S)
  /\ Len(meant) = Len(sent)
  /\ \A k \in 1..Len(sent) : Shows(FromJson(sent[k]), meant[k])

LEMMA RoundTrip ==
  ASSUME NEW r \in Request, Fits(r)
  PROVE  FromJson(ToJson(r)) = r
<1> DEFINE F == {"t", "cameras", "text_values", "joint_names", "skel_layout",
                 "skel_poses"}
           has == {f \in Optional : r[f] # <<>>}
           D == {"t", "cameras"} \cup has
                  \cup (IF "joint_names" \in has THEN {"skel_layout"} ELSE {})
<1>1. DOMAIN r = F /\ r = [f \in F |-> r[f]]
  BY DEF Request
<1>2. DOMAIN NoRequest = F
  BY DEF NoRequest
<1>3. /\ r["text_values"] = <<>> => NoRequest["text_values"] = r["text_values"]
      /\ r["joint_names"] = <<>> => NoRequest["joint_names"] = r["joint_names"]
      /\ r["skel_poses"] = <<>> => NoRequest["skel_poses"] = r["skel_poses"]
      /\ r["joint_names"] = <<>> => NoRequest["skel_layout"] = r["skel_layout"]
  <2>1. r.joint_names = <<>> => r.skel_layout = <<>>
    BY EmptySeq, Len(<<>>) = 0 DEF Request, Fits
  <2> QED BY <2>1 DEF NoRequest
<1>4. ToJson(r) = [f \in D |-> r[f]]
  BY DEF ToJson
<1> HIDE DEF D
<1>5. DOMAIN ToJson(r) = D /\ \A f \in D : ToJson(r)[f] = r[f]
  BY <1>4
<1>6. FromJson(ToJson(r))
        = [f \in F |-> IF f \in D /\ (f = "skel_layout" => "joint_names" \in D)
                      THEN ToJson(r)[f] ELSE NoRequest[f]]
  BY <1>2, <1>5 DEF FromJson
<1>7. ASSUME NEW f \in F
      PROVE  (IF f \in D /\ (f = "skel_layout" => "joint_names" \in D)
              THEN ToJson(r)[f] ELSE NoRequest[f]) = r[f]
  BY <1>3, <1>5 DEF D, Optional
<1> QED BY <1>1, <1>6, <1>7
\* With the room it was told to make, a host reads all joints.
LEMMA AllJoints ==
  ASSUME NEW S, NEW s \in Seq(S) PROVE FirstJoints(s, Len(s)) = s
<1>1. Len(s) \in Nat /\ DOMAIN s = 1..Len(s)
  OBVIOUS
<1>2. Min({Len(s), Len(s)}) = Len(s)
  <2>1. {Len(s), Len(s)} = {Len(s)}
    OBVIOUS
  <2>2. \A x : x \in {Len(s)} <=> x = Len(s)
    OBVIOUS
  <2> QED BY <1>1, <2>1, <2>2 DEF Min
<1>3. SubSeq(s, 1, Len(s)) = [i \in 1..Len(s) |-> s[i]]
  BY <1>1
<1> QED BY <1>1, <1>2, <1>3 DEF FirstJoints

LEMMA ShowsWhatIsMeant ==
  ASSUME NEW r \in Request, Fits(r), NEW m,
         DOMAIN m.at = DOMAIN r.cameras,
         \A h \in DOMAIN m.at : r.cameras[h] = [id |-> h, at |-> m.at[h]],
         m.texts = r.text_values, m.joints = r.skel_layout,
         m.names = r.joint_names, m.poses = r.skel_poses
  PROVE  Shows(r, m)
<1>1. \A h \in DOMAIN m.at : GetCamera(r, h) = [id |-> h, at |-> m.at[h]]
  <2> SUFFICES ASSUME NEW h \in DOMAIN m.at
               PROVE  GetCamera(r, h) = [id |-> h, at |-> m.at[h]]
    OBVIOUS
  <2>1. r.cameras # <<>>
    <3>1. r.cameras = <<>> => Len(r.cameras) = 0
      BY Len(<<>>) = 0, Zenon
    <3>2. Len(r.cameras) \in Nat /\ DOMAIN r.cameras = 1..Len(r.cameras)
      BY DEF Request
    <3> QED BY <3>1, <3>2
  <2> QED BY <2>1 DEF GetCamera
<1>2. r.text_values \in Seq(Int) /\ Len(r.text_values) \in Nat
      /\ DOMAIN r.text_values = 1..Len(r.text_values)
  BY DEF Request
<1>3. \A i \in DOMAIN m.texts : GetText(r, i - 1) = m.texts[i]
  <2> SUFFICES ASSUME NEW i \in 1..Len(r.text_values)
               PROVE  GetText(r, i - 1) = r.text_values[i]
    BY <1>2
  <2>1. i - 1 < Len(r.text_values) /\ (i - 1) + 1 = i
    BY <1>2
  <2> QED BY <2>1 DEF GetText
<1>4. GetText(r, Len(m.texts)) = NotFound
  BY <1>2 DEF GetText
<1>5. GetSkeletonLayout(r, Len(m.joints)) = m.joints
  <2>1. r.skel_layout \in Seq(Joint)
    BY DEF Request
  <2> QED BY <2>1, AllJoints DEF GetSkeletonLayout
<1>6. GetSkeletonJointNames(r) = m.names
  BY DEF GetSkeletonJointNames
<1>7. \A i \in DOMAIN m.poses :
        GetSkeletonJointPoses(r, i - 1, Len(m.joints)) = m.poses[i]
  <2>1. r.skel_poses \in Seq(Pose) /\ DOMAIN r.skel_poses = 1..Len(r.skel_poses)
        /\ Len(r.skel_poses) \in Nat
    BY DEF Request
  <2> SUFFICES ASSUME NEW i \in 1..Len(r.skel_poses)
               PROVE  GetSkeletonJointPoses(r, i - 1, Len(r.skel_layout))
                        = r.skel_poses[i]
    BY <2>1
  <2> DEFINE p == r.skel_poses[i]
  <2>2. i - 1 < Len(r.skel_poses) /\ (i - 1) + 1 = i
    BY <2>1
  <2>3. p \in Pose /\ Len(p.joints) = Len(r.skel_layout)
    BY <2>1 DEF Fits
  <2>4. GetSkeletonJointPoses(r, i - 1, Len(r.skel_layout))
          = [p EXCEPT !.joints = FirstJoints(p.joints, Len(r.skel_layout))]
    BY <2>2 DEF GetSkeletonJointPoses
  <2> HIDE DEF p
  <2>5. FirstJoints(p.joints, Len(r.skel_layout)) = p.joints
    BY <2>3, AllJoints DEF Pose
  <2>6. [p EXCEPT !.joints = p.joints] = p
    BY <2>3 DEF Pose
  <2>7. GetSkeletonJointPoses(r, i - 1, Len(r.skel_layout)) = p
    BY <2>4, <2>5, <2>6
  <2> QED BY <2>7 DEF p
<1> QED BY <1>1, <1>3, <1>4, <1>5, <1>6, <1>7 DEF Shows
LEMMA InitData == ClusterInit => DataInv /\ ShownInv
<1> SUFFICES ASSUME ClusterInit PROVE DataInv /\ ShownInv
  OBVIOUS
<1> USE DEF ClusterInit
<1>1. NoRequest \in Request /\ Fits(NoRequest) /\ NoRequest.cameras = <<>>
  BY DEF NoRequest, Request, Fits
<1>2. DataInv
  BY <1>1 DEF DataInv
<1>3. sent \in Seq({}) /\ meant \in Seq({}) /\ Len(sent) = 0 /\ Len(meant) = 0
  OBVIOUS
<1>4. ShownInv
  BY <1>3 DEF ShownInv
<1> QED BY <1>2, <1>4

LEMMA DataCases ==
  [ClusterNext]_allVars =>
    \/ SetNext \/ BuildAndSend
    \/ /\ UNCHANGED <<bound, data>> /\ t' \in {0, t, t + 1}
       /\ UNCHANGED <<sent, meant>> \/ (sent' = <<>> /\ meant' = <<>>)
<1> SUFFICES ASSUME [ClusterNext]_allVars, ~SetNext, ~BuildAndSend
             PROVE  /\ UNCHANGED <<bound, data>> /\ t' \in {0, t, t + 1}
                    /\ \/ UNCHANGED <<sent, meant>>
                       \/ sent' = <<>> /\ meant' = <<>>
  OBVIOUS
<1> USE DEF requestVars, clusterVars, allVars
<1>1. CASE (Aside /\ UNCHANGED clusterVars) \/ UNCHANGED allVars
  BY <1>1
<1>2. CASE Connects \/ Closes \/ Begins \/ Rearms
  BY <1>2 DEF Connects, Closes, Begins, Rearms
<1>3. CASE WrittenPart \/ WrittenWhole \/ WriteEnds \/ HostLeaves \/ OnRead
  BY <1>3 DEF WrittenPart, WrittenWhole, WriteEnds, HostLeaves, OnRead
<1> QED BY <1>1, <1>2, <1>3, Zenon DEF ClusterNext

\* A sequence of n equal elements.
LEMMA Constant ==
  ASSUME NEW n \in Nat, NEW S, NEW e \in S
  PROVE  [i \in 1..n |-> e] \in Seq(S) /\ Len([i \in 1..n |-> e]) = n
<1>1. [i \in 1..n |-> e] \in [1..n -> S]
  OBVIOUS
<1> QED BY <1>1, SeqDef

LEMMA SetData == DataInv /\ SetNext => DataInv' /\ UNCHANGED <<sent, meant>>
<1> SUFFICES ASSUME DataInv, SetNext
             PROVE  DataInv' /\ UNCHANGED <<sent, meant>>
  OBVIOUS
<1>1. UNCHANGED <<bound, t, sent, meant>>
  BY Zenon DEF SetNext, SetCameras, SetTexts, SetSkeleton, NoSkeleton, Set
<1>2. bound.cameras \in Nat /\ bound.texts \in Nat /\ bound.joints \in Nat
  BY ClusterAssumption DEF DataInv
<1> USE DEF Set, DataInv
<1>3. CASE SetCameras(bound.cameras)
  <2> DEFINE cs == [i \in 1..bound.cameras |-> NoCamera]
  <2>1. NoCamera \in [id : Int, at : Int]
    BY DEF NoCamera, Zero
  <2>2. cs \in Seq([id : Int, at : Int]) /\ \A i \in DOMAIN cs : cs[i] = NoCamera
    BY <1>2, <2>1, Constant
  <2>3. data' = [data EXCEPT !.cameras = cs]
    BY <1>3 DEF SetCameras
  <2> HIDE DEF cs
  <2> QED BY <1>1, <2>2, <2>3 DEF Request, Fits
<1>4. CASE SetTexts(bound.texts)
  <2> DEFINE xs == [i \in 1..bound.texts |-> AsSet]
  <2>1. xs \in Seq(Int)
    BY <1>2, Constant DEF AsSet
  <2>2. data' = [data EXCEPT !.text_values = xs]
    BY <1>4 DEF SetTexts
  <2> HIDE DEF xs
  <2> QED BY <1>1, <2>1, <2>2 DEF Request, Fits
<1>5. ASSUME NEW posed \in BOOLEAN, SetSkeleton(bound.joints, posed)
      PROVE  DataInv'
  <2> DEFINE n == bound.joints
             layout == [i \in 1..n |-> [id |-> i, parent |-> i - 1]]
             names == [i \in 1..n |-> i]
             pose == [root |-> AsSet, joints |-> [i \in 1..n |-> AsSet]]
             poses == IF posed THEN <<pose>> ELSE <<>>
  <2>1. layout \in Seq(Joint) /\ Len(layout) = n
    <3>1. layout \in [1..n -> Joint]
      BY <1>2 DEF Joint
    <3> QED BY <1>2, <3>1, SeqDef
  <2>2. names \in Seq(Int) /\ Len(names) = n
    <3>1. names \in [1..n -> Int]
      BY <1>2
    <3> QED BY <1>2, <3>1, SeqDef
  <2>3. pose \in Pose /\ Len(pose.joints) = n
    <3>1. AsSet \in Int
      BY DEF AsSet
    <3>2. [i \in 1..n |-> AsSet] \in Seq(Int) /\ Len([i \in 1..n |-> AsSet]) = n
      BY <1>2, <3>1, Constant
    <3> QED BY <3>1, <3>2 DEF Pose
  <2>4. data' = [data EXCEPT !.skel_layout = layout, !.joint_names = names,
                             !.skel_poses = poses]
    BY <1>5 DEF SetSkeleton
  <2> HIDE DEF layout, names, pose
  <2>5. poses \in Seq(Pose) /\ \A i \in DOMAIN poses : Len(poses[i].joints) = n
    BY <2>3
  <2> HIDE DEF poses
  <2>6. data' \in Request /\ data'.cameras = data.cameras
        /\ data'.skel_layout = layout /\ data'.joint_names = names
        /\ data'.skel_poses = poses
    BY <2>1, <2>2, <2>4, <2>5 DEF Request
  <2>7. Fits(data')
    BY <2>1, <2>2, <2>5, <2>6 DEF Fits
  <2> QED BY <1>1, <2>6, <2>7
<1>6. CASE NoSkeleton
  <2> DEFINE e == <<>>
  <2>0. /\ e \in Seq(Joint) /\ e \in Seq(Int) /\ e \in Seq(Pose)
        /\ DOMAIN e = {}
    OBVIOUS
  <2>1. data' = [data EXCEPT !.skel_layout = e, !.joint_names = e,
                             !.skel_poses = e]
    BY <1>6 DEF NoSkeleton
  <2> HIDE DEF e
  <2>2. /\ data' \in Request /\ data'.cameras = data.cameras
        /\ data'.skel_layout = e /\ data'.joint_names = e
        /\ data'.skel_poses = e
    BY <2>0, <2>1 DEF Request
  <2>3. Fits(data')
    BY <2>0, <2>2 DEF Fits
  <2> QED BY <1>1, <2>2, <2>3
<1> QED BY <1>1, <1>3, <1>4, <1>5, <1>6 DEF SetNext

\* What callbacks make of the texts and the poses.
LEMMA Edited ==
  ASSUME DataInv
  PROVE  /\ Texts \in Seq(Int) /\ Poses \in Seq(Pose)
         /\ \A i \in DOMAIN Poses :
              Len(Poses[i].joints) = Len(data.skel_layout)
         /\ FrameCameras \in Seq([id : Int, at : Int])
         /\ DOMAIN FrameCameras = DOMAIN data.cameras
         /\ \A i \in DOMAIN data.cameras :
              FrameCameras[i] =
                [id |-> i, at |-> IF "cameras" \in BuildCallbacks THEN t ELSE Zero]
<1> USE DEF DataInv
<1>1. /\ data.text_values \in Seq(Int) /\ data.skel_poses \in Seq(Pose)
      /\ data.cameras \in Seq([id : Int, at : Int])
  BY DEF Request
<1>2. Texts \in Seq(Int)
  <2>1. DOMAIN data.text_values = 1..Len(data.text_values)
        /\ Len(data.text_values) \in Nat
    BY <1>1
  <2>2. [i \in 1..Len(data.text_values) |-> t] \in Seq(Int)
    BY <2>1, Constant
  <2> QED BY <1>1, <2>1, <2>2 DEF Texts, Edit
<1>3. Poses \in Seq(Pose)
      /\ \A i \in DOMAIN Poses : Len(Poses[i].joints) = Len(data.skel_layout)
  <2> DEFINE ps == data.skel_poses
             new == [root |-> t, joints |-> [i \in DOMAIN ps[1].joints |-> t]]
  <2>1. \A i \in DOMAIN ps : Len(ps[i].joints) = Len(data.skel_layout)
    BY DEF Fits
  <2>2. CASE "skeleton" \in BuildCallbacks /\ ps # <<>>
    <3>1. 1 \in 1..Len(ps) /\ DOMAIN ps = 1..Len(ps)
      BY <1>1, <2>2
    <3>2. ps[1] \in Pose
      BY <1>1, <3>1
    <3>3. /\ DOMAIN ps[1].joints = 1..Len(ps[1].joints)
          /\ Len(ps[1].joints) \in Nat
      BY <3>2 DEF Pose
    <3>4. new \in Pose /\ Len(new.joints) = Len(ps[1].joints)
      BY <3>3, Constant DEF Pose
    <3>5. Poses = [ps EXCEPT ![1] = new]
      BY <2>2 DEF Poses
    <3> HIDE DEF ps, new
    <3>6. Poses \in Seq(Pose) /\ DOMAIN Poses = DOMAIN ps
      BY <1>1, <3>1, <3>4, <3>5, ExceptSeq DEF ps
    <3>7. \A i \in DOMAIN ps : Poses[i] = IF i = 1 THEN new ELSE ps[i]
      BY <3>1, <3>5
    <3> QED BY <2>1, <3>1, <3>4, <3>6, <3>7
  <2>3. CASE ~("skeleton" \in BuildCallbacks /\ ps # <<>>)
    <3>1. Poses = ps
      BY <2>3 DEF Poses
    <3> QED BY <1>1, <2>1, <3>1
  <2> QED BY <2>2, <2>3
<1>4. /\ DOMAIN FrameCameras = DOMAIN data.cameras
      /\ \A i \in DOMAIN data.cameras :
           FrameCameras[i] =
             [id |-> i, at |-> IF "cameras" \in BuildCallbacks THEN t ELSE Zero]
  <2>1. CASE "cameras" \in BuildCallbacks
    BY <2>1 DEF FrameCameras, Edit
  <2>2. CASE "cameras" \notin BuildCallbacks
    BY <2>2 DEF FrameCameras, Edit, NoCamera
  <2> QED BY <2>1, <2>2
<1>5. FrameCameras \in Seq([id : Int, at : Int])
  <2>1. DOMAIN FrameCameras = 1..Len(data.cameras) /\ Len(data.cameras) \in Nat
    BY <1>1, <1>4
  <2>2. FrameCameras = [i \in 1..Len(data.cameras) |->
          [id |-> i, at |-> IF "cameras" \in BuildCallbacks THEN t ELSE Zero]]
    <3>1. FrameCameras = [i \in DOMAIN FrameCameras |-> FrameCameras[i]]
      BY DEF FrameCameras, Edit
    <3> QED BY <1>4, <2>1, <3>1
  <2>3. FrameCameras \in [1..Len(data.cameras) -> [id : Int, at : Int]]
    BY <2>2 DEF Zero
  <2> QED BY <2>1, <2>3, SeqDef
<1> QED BY <1>2, <1>3, <1>4, <1>5

LEMMA BuildData ==
  DataInv /\ ShownInv /\ BuildAndSend => DataInv' /\ ShownInv'
<1> SUFFICES ASSUME DataInv, ShownInv, BuildAndSend
             PROVE  DataInv' /\ ShownInv'
  OBVIOUS
<1> DEFINE r == BuildRequest
           m == [at |-> [i \in DOMAIN data.cameras |->
                           IF "cameras" \in BuildCallbacks THEN t ELSE Zero],
                 texts |-> Texts, poses |-> Poses,
                 joints |-> data.skel_layout, names |-> data.joint_names]
           k == Len(sent) + 1
<1>1. /\ data' = [data EXCEPT !.text_values = Texts, !.skel_poses = Poses]
      /\ sent' = Append(sent, ToJson(r)) /\ meant' = Append(meant, m)
      /\ UNCHANGED <<bound, t>>
  BY DEF BuildAndSend
<1>2. /\ data' \in Request /\ data'.cameras = data.cameras
      /\ data'.text_values = Texts /\ data'.skel_poses = Poses
      /\ data'.skel_layout = data.skel_layout
      /\ data'.joint_names = data.joint_names
  BY <1>1, Edited DEF DataInv, Request
<1>3. Fits(data')
  BY <1>2, Edited DEF DataInv, Fits
<1>4. DataInv'
  BY <1>1, <1>2, <1>3 DEF DataInv
<1>5. /\ r \in Request /\ r.cameras = FrameCameras /\ r.text_values = Texts
      /\ r.skel_poses = Poses /\ r.skel_layout = data.skel_layout
      /\ r.joint_names = data.joint_names
  <2>1. FrameCameras \in Seq([id : Int, at : Int]) /\ t \in Int
    BY Edited DEF DataInv
  <2> QED BY <1>2, <2>1 DEF BuildRequest, Request
<1>6. Fits(r)
  BY <1>5, Edited DEF DataInv, Fits
<1> HIDE DEF r
<1>7. Shows(r, m)
  <2>1. DOMAIN m.at = DOMAIN r.cameras
    BY <1>5, Edited
  <2>2. \A h \in DOMAIN m.at : r.cameras[h] = [id |-> h, at |-> m.at[h]]
    BY <1>5, Edited
  <2>3. m.texts = r.text_values /\ m.joints = r.skel_layout
        /\ m.names = r.joint_names /\ m.poses = r.skel_poses
    BY <1>5
  <2> HIDE DEF m
  <2> QED BY <1>5, <1>6, <2>1, <2>2, <2>3, ShowsWhatIsMeant
<1>8. Shows(FromJson(ToJson(r)), m)
  BY <1>5, <1>6, <1>7, RoundTrip
<1> DEFINE j == ToJson(r)
<1> HIDE DEF m, j
<1>9. /\ Len(sent) \in Nat /\ Len(sent') = k /\ sent'[k] = j
      /\ \A i \in 1..Len(sent) : sent'[i] = sent[i]
      /\ \E S : sent' \in Seq(S)
  <2>1. PICK S : sent \in Seq(S)
    BY DEF ShownInv
  <2> DEFINE T == S \cup {j}
  <2>2. sent \in Seq(T) /\ j \in T
    BY <2>1
  <2> HIDE DEF T
  <2> QED BY <1>1, <2>2, AppendFacts DEF j
<1>10. /\ Len(meant') = k /\ meant'[k] = m
       /\ \A i \in 1..Len(sent) : meant'[i] = meant[i]
       /\ \E S : meant' \in Seq(S)
  <2>1. PICK S : meant \in Seq(S)
    BY DEF ShownInv
  <2> DEFINE T == S \cup {m}
  <2>2. meant \in Seq(T) /\ m \in T /\ Len(meant) = Len(sent)
    BY <2>1 DEF ShownInv
  <2> HIDE DEF T
  <2>3. meant' = Append(meant, m)
    BY <1>1 DEF m
  <2> QED BY <2>2, <2>3, AppendFacts
<1>11. ASSUME NEW i \in 1..k PROVE Shows(FromJson(sent'[i]), meant'[i])
  <2>1. CASE i = k
    BY <1>8, <1>9, <1>10, <2>1 DEF j
  <2>2. CASE i # k
    <3>1. i \in 1..Len(sent)
      BY <1>9, <2>2
    <3> QED BY <1>9, <1>10, <3>1 DEF ShownInv
  <2> QED BY <2>1, <2>2
<1>12. ShownInv'
  BY <1>9, <1>10, <1>11 DEF ShownInv
<1> QED BY <1>4, <1>12
LEMMA DataKept ==
  DataInv /\ ShownInv /\ [ClusterNext]_allVars => DataInv' /\ ShownInv'
<1> SUFFICES ASSUME DataInv, ShownInv, [ClusterNext]_allVars
             PROVE  DataInv' /\ ShownInv'
  OBVIOUS
<1>1. CASE SetNext
  BY <1>1, SetData DEF ShownInv
<1>2. CASE BuildAndSend
  BY <1>2, BuildData
<1>3. CASE UNCHANGED <<bound, data>> /\ t' \in {0, t, t + 1}
           /\ (UNCHANGED <<sent, meant>> \/ (sent' = <<>> /\ meant' = <<>>))
  <2>1. DataInv'
    BY <1>3 DEF DataInv
  <2>2. CASE UNCHANGED <<sent, meant>>
    BY <2>1, <2>2 DEF ShownInv
  <2>3. CASE sent' = <<>> /\ meant' = <<>>
    <3>1. sent' \in Seq({}) /\ meant' \in Seq({})
          /\ Len(sent') = 0 /\ Len(meant') = 0
      BY <2>3
    <3> QED BY <2>1, <3>1 DEF ShownInv
  <2> QED BY <1>3, <2>2, <2>3
<1> QED BY <1>1, <1>2, <1>3, DataCases

(* In each tick it has got a host finds what was meant (client.cpp:552-577, *)
(* renderstream.cpp:245-410), for any number of cameras, texts and joints,  *)
(* with or without callbacks, and whichever ticks were lost before.         *)
THEOREM SeesTick == ClusterSpec => []HostSeesTick
<1>1. ClusterSpec => [](DataInv /\ ShownInv)
  BY InitData, DataKept, PTL DEF ClusterSpec
<1>2. WireInv /\ ShownInv => HostSeesTick
  <2> SUFFICES ASSUME WireInv, ShownInv, heard # <<>>
               PROVE  Shows(Inbox, meant[Last(heard)])
    BY DEF HostSeesTick
  <2>1. /\ Len(heard) \in 1..Len(heard) /\ DOMAIN heard = 1..Len(heard)
        /\ heard[Len(heard)] \in Nat
    BY DEF WireInv, SeqInv
  <2>2. heard[Len(heard)] <= Len(sent)
    BY DEF WireInv, OrderInv, Newest
  <2>3. heard[Len(heard)] > 0
    <3> DEFINE n == Len(heard)
               before == IF n = 1 THEN 0 ELSE heard[n - 1]
    <3>1. heard[n] > before
      BY <2>1 DEF WireInv, OnlySharedTicksAreLost
    <3>2. n # 1 => n - 1 \in 1..n
      BY <2>1
    <3>3. \A i \in 1..n : heard[i] \in Nat
      BY <2>1 DEF WireInv, SeqInv
    <3>4. before \in Nat
      BY <3>2, <3>3
    <3> HIDE DEF before
    <3> QED BY <2>1, <3>1, <3>4
  <2>4. Last(heard) \in 1..Len(sent)
    <3>1. Len(sent) \in Nat
      BY DEF ShownInv
    <3> QED BY <2>1, <2>2, <2>3, <3>1 DEF Last
  <2> QED BY <2>4 DEF ShownInv, Inbox
<1> QED BY <1>1, <1>2, WireInvariance, PTL
=============================================================================
