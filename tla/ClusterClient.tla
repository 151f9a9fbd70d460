---------------------------- MODULE ClusterClient ---------------------------
(***************************************************************************)
(* A RenderStreamClient (rs-client/client.cpp) with what its application   *)
(* has set, the requests its ticks build, the socket they are written to,  *)
(* and the session of the host that reads them (rs-dll/link.cpp).  When    *)
(* the client starts and stops is TickClient's business.                   *)
(*                                                                         *)
(* A request is written by asio::async_write.  One that is too long for    *)
(* one write of the socket (here: one that has a pose) is written in two   *)
(* parts, of which the second is begun by the handler of the first; the    *)
(* socket writes parts in the order they were begun.  Nobody waits for a   *)
(* request to be written before the next tick writes its own.  The host    *)
(* has a session with a read buffer of its own for each connection, and    *)
(* connections are looked at one by one.                                   *)
(***************************************************************************)
EXTENDS TickClient, FrameRequest

CONSTANTS
  Bounds,        \* bounds: in a behaviour, calls of Start, ticks sent over a
                 \* connection, and how many cameras, texts and joints are set
  BuildCallbacks \* the on_build_... callbacks there are

ASSUME ClusterAssumption ==
  /\ Bounds \subseteq [starts : 0..MaxStarts, ticks : Nat, cameras : Nat,
                       texts : Nat, joints : Nat]
  /\ BuildCallbacks \subseteq {"cameras", "texts", "skeleton"}

VARIABLES
  bound,       \* those of Bounds that this behaviour keeps to
  data,        \* cameras_, text_values_, joint_names_, skel_layout_, skel_poses_
  t,           \* t_, in ticks
  sent, meant, \* the requests sent, as JSON, and what they are to show
  shared,      \* ticks that were being written when another was
  pending,     \* parts the socket has been given and has not reported
  wire,        \* parts on their way to the host, or in its read_buf_
  heard        \* which ticks it has got

requestVars == <<bound, data, t, sent, meant, shared>>
clusterVars == <<requestVars, pending, wire, heard>>
allVars     == <<vars, clusterVars>>

Parts == [tick : DOMAIN sent, part : {1, 2}, last : BOOLEAN]

ClusterTypeOK ==
  /\ TypeOK
  /\ bound \in Bounds /\ t \in Nat
  /\ Len(sent) = Len(meant) /\ Len(sent) <= bound.ticks
  /\ heard \in Seq(DOMAIN sent) /\ shared \subseteq DOMAIN sent
  /\ Range(pending) \cup Range(wire) \subseteq Parts
  /\ open => Len(pending) = writes

ClusterInit ==
  /\ Init
  /\ bound \in Bounds
  /\ data = NoRequest /\ t = 0 /\ sent = <<>> /\ meant = <<>> /\ shared = {}
  /\ pending = <<>> /\ wire = <<>> /\ heard = <<>>

-----------------------------------------------------------------------------
(* The application, before it connects.                                    *)

Setting == app = "idle" /\ ~open /\ starts = 0

Set(to) ==
  /\ Setting /\ data' = to
  /\ UNCHANGED <<vars, bound, t, sent, meant, shared, pending, wire, heard>>

\* Cameras without a position, which the callback is to give them.
SetCameras(n) == Set([data EXCEPT !.cameras = [i \in 1..n |-> NoCamera]])

SetTexts(n) == Set([data EXCEPT !.text_values = [i \in 1..n |-> AsSet]])

\* A layout of n joints with their names, with a pose or without.
SetSkeleton(n, posed) ==
  Set([data EXCEPT
         !.skel_layout = [i \in 1..n |-> [id |-> i, parent |-> i - 1]],
         !.joint_names = [i \in 1..n |-> i],
         !.skel_poses =
            IF posed THEN <<[root   |-> AsSet,
                             joints |-> [i \in 1..n |-> AsSet]]>>
                     ELSE <<>>])

NoSkeleton ==
  Set([data EXCEPT !.skel_layout = <<>>, !.joint_names = <<>>,
                   !.skel_poses = <<>>])

-----------------------------------------------------------------------------
(* build_and_send.  A callback edits what there is: a copy of the cameras, *)
(* and the texts and the first pose in place.                              *)

Edit(which, seq, value) ==
  IF which \in BuildCallbacks THEN [i \in DOMAIN seq |-> value] ELSE seq

FrameCamerasM ==  \* the cameras are numbered before the callback
  Edit("cameras", [i \in DOMAIN data.cameras |-> [id |-> i, at |-> Zero]],
       [id |-> 0, at |-> t])

FrameCameras ==
  LET set == Edit("cameras", data.cameras, [id |-> 0, at |-> t])
  IN  [i \in DOMAIN set |-> [set[i] EXCEPT !.id = i]]

Texts == Edit("texts", data.text_values, t)

Poses == IF "skeleton" \in BuildCallbacks /\ data.skel_poses # <<>>
         THEN [data.skel_poses EXCEPT
                 ![1] = [root   |-> t,
                         joints |-> [i \in DOMAIN @.joints |-> t]]]
         ELSE data.skel_poses

BuildRequest == [data' EXCEPT !.t = t, !.cameras = FrameCameras]

Part(k, i, n) == [tick |-> k, part |-> i, last |-> i = n]

\* A part reaches the wire unless the connection is gone.
Begin(part, others) ==
  /\ pending' = IF open THEN Append(others, part) ELSE others
  /\ wire' = IF open /\ peer THEN Append(wire, part) ELSE wire

\* The application meant to show what its callbacks have just made.
BuildAndSend ==
  LET k == Len(sent) + 1 IN
  /\ TickSend
  /\ data' = [data EXCEPT !.text_values = Texts, !.skel_poses = Poses]
  /\ sent' = Append(sent, ToJson(BuildRequest))
  /\ meant' = Append(meant,
       [at |-> [i \in DOMAIN data.cameras |->
                  IF "cameras" \in BuildCallbacks THEN t ELSE Zero],
        texts |-> Texts, poses |-> Poses,
        joints |-> data.skel_layout, names |-> data.joint_names])
  /\ Begin(Part(k, 1, IF data.skel_poses = <<>> THEN 1 ELSE 2), pending)
  /\ shared' = IF pending = <<>> THEN shared
               ELSE shared \cup {k} \cup {p.tick : p \in Range(pending)}
  /\ UNCHANGED <<bound, t, heard>>

\* The first part of a request is written, and its handler goes on with it.
WrittenPart ==
  /\ Dispatch /\ pending # <<>> /\ ~Head(pending).last
  /\ Begin(Part(Head(pending).tick, 2, 2), Tail(pending))
  /\ UNCHANGED <<vars, requestVars, heard>>

WrittenWhole ==
  /\ pending # <<>> /\ Head(pending).last /\ Written
  /\ pending' = Tail(pending)
  /\ UNCHANGED <<requestVars, wire, heard>>

WriteEnds ==
  /\ WriteFails /\ pending' = Tail(pending)
  /\ UNCHANGED <<requestVars, wire, heard>>

-----------------------------------------------------------------------------
(* The host's session.                                                     *)

Whole(line) == LET k == line[1].tick
               IN  line = [i \in DOMAIN line |-> Part(k, i, Len(line))]

\* A line is taken when it is complete; one that is no JSON is dropped.
OnReadM ==  \* what was read behind the line is dropped with it
  \E n \in DOMAIN wire :
    /\ wire[n].last /\ \A i \in 1..n - 1 : ~wire[i].last
    /\ wire' = <<>>
    /\ heard' = IF Whole(SubSeq(wire, 1, n)) THEN Append(heard, wire[n].tick)
                                             ELSE heard
    /\ UNCHANGED <<vars, requestVars, pending>>

OnRead ==
  \E n \in DOMAIN wire :
    /\ wire[n].last /\ \A i \in 1..n - 1 : ~wire[i].last
    /\ wire' = SubSeq(wire, n + 1, Len(wire))
    /\ heard' = IF Whole(SubSeq(wire, 1, n)) THEN Append(heard, wire[n].tick)
                                             ELSE heard
    /\ UNCHANGED <<vars, requestVars, pending>>

\* The Request the host has taken last.
Inbox == FromJson(sent[Last(heard)])

\* The host, or the way to it, goes.
HostLeaves ==
  /\ PeerLeaves /\ wire' = <<>>
  /\ UNCHANGED <<requestVars, pending, heard>>

-----------------------------------------------------------------------------
\* A new connection has a socket and a session of its own.
Connects ==
  /\ Connected
  /\ sent' = <<>> /\ meant' = <<>> /\ shared' = {} /\ heard' = <<>>
  /\ wire' = <<>> /\ UNCHANGED <<bound, data, t, pending>>

\* What was on its way may still arrive.
Closes == CloseSocket /\ pending' = <<>> /\ UNCHANGED <<requestVars, wire, heard>>

Begins ==
  /\ StartBegin /\ t' = 0
  /\ UNCHANGED <<bound, data, sent, meant, shared, pending, wire, heard>>

Rearms ==
  /\ TickRearm /\ t' = t + 1
  /\ UNCHANGED <<bound, data, sent, meant, shared, pending, wire, heard>>

SetNext ==
  \/ SetCameras(bound.cameras) \/ SetTexts(bound.texts)
  \/ \E posed \in BOOLEAN : SetSkeleton(bound.joints, posed)
  \/ NoSkeleton

\* What TickClient does and no request is concerned with.
Aside ==
  \/ Connect \/ ConnectFailed \/ Stop \/ Disconnect \/ StopIo
  \/ CallStart /\ starts < bound.starts
  \/ StartArm \/ RunIo \/ LeaveIo \/ StartEnd \/ TickThrows
  \/ TickExpires /\ Len(sent) < bound.ticks
  \/ Receive \/ ReceiveFails \/ AbortReported

ClusterNext ==
  \/ SetNext
  \/ Aside /\ UNCHANGED clusterVars
  \/ Connects \/ Closes \/ Begins \/ Rearms
  \/ BuildAndSend \/ WrittenPart \/ WrittenWhole \/ WriteEnds
  \/ OnRead \/ HostLeaves

ClusterSpec == ClusterInit /\ [][ClusterNext]_allVars

\* TickClient's fairness; what was written is reported, and the host, which
\* does nothing else on the thread of its session, reads it.
FairClusterSpec ==
  /\ ClusterSpec
  /\ WF_vars(StopIo) /\ WF_vars(StartNext) /\ WF_vars(TickNext)
  /\ SF_vars(ReceiveFails \/ AbortReported)
  /\ WF_allVars(WrittenPart) /\ WF_allVars(OnRead)

-----------------------------------------------------------------------------
(* Properties *)

\* The host gets ticks in the order they were sent, none twice, and has lost
\* none but those that were being written while another was: whatever became
\* of their lines, the tick after them is read again.
OnlySharedTicksAreLost ==
  \A i \in DOMAIN heard :
    LET before == IF i = 1 THEN 0 ELSE heard[i - 1]
    IN  heard[i] > before /\ (before + 1)..(heard[i] - 1) \subseteq shared

\* A tick that had the socket to itself arrives, unless Start ends or the
\* connection does.
TickArrives ==
  \A k \in 1..Max({b.ticks : b \in Bounds}) :
    k \in DOMAIN sent ~>
      k \in Range(heard) \/ k \in shared \/ loop = "out" \/ ~(open /\ peer)

\* What a host finds in the request r is what was meant.
Shows(r, m) ==
  /\ \A h \in DOMAIN m.at : GetCamera(r, h) = [id |-> h, at |-> m.at[h]]
  /\ \A i \in DOMAIN m.texts : GetText(r, i - 1) = m.texts[i]
  /\ GetText(r, Len(m.texts)) = NotFound
  /\ GetSkeletonLayout(r, Len(m.joints)) = m.joints
  /\ GetSkeletonJointNames(r) = m.names
  /\ \A i \in DOMAIN m.poses :
       GetSkeletonJointPoses(r, i - 1, Len(m.joints)) = m.poses[i]

\* In a tick it got, the host finds for every stream that has a camera the
\* position that was meant for it, under the number of the stream; every text
\* and no other; and a skeleton whose names, joints and pose are of one
\* SetSkeleton, or none.  Of a stream that has no camera nothing is said here:
\* renderstream.h:432 promises it RS_ERROR_NOTFOUND, and link.cpp:305-315 gives
\* it the first camera, or an empty one.
HostSeesTick == heard # <<>> => Shows(Inbox, meant[Last(heard)])
=============================================================================
