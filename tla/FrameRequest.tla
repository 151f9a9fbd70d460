---------------------------- MODULE FrameRequest ----------------------------
(***************************************************************************)
(* rs::Request, what a client sends with each tick: its fields, the JSON   *)
(* object that is made of it, the Request a host makes of that object, and *)
(* what the rs_getFrame... functions of the host read in it.  Positions of *)
(* cameras and joints, and texts, are values that are passed on: the tick  *)
(* they were made in, or one of the three below.  The parameters have a    *)
(* module of their own, SchemaExchange; images are never set.              *)
(***************************************************************************)
EXTENDS Integers, Sequences, SequencesExt

Zero == -1      \* what a position is before it is set
AsSet == -2     \* what the application has set before it connects
NotFound == -3  \* the answer that there is no such text

NoRequest == [t |-> 0, cameras |-> <<>>, text_values |-> <<>>,
              joint_names |-> <<>>, skel_layout |-> <<>>, skel_poses |-> <<>>]

Optional == {"text_values", "joint_names", "skel_poses"}

\* What is empty is left out, and the layout goes with the joints' names.
ToJsonM(r) ==  \* the layout goes with a pose
  LET has == {f \in Optional : r[f] # <<>>}
  IN  [f \in {"t", "cameras"} \cup has
               \cup (IF "skel_poses" \in has THEN {"skel_layout"} ELSE {})
         |-> r[f]]

ToJson(r) ==
  LET has == {f \in Optional : r[f] # <<>>}
  IN  [f \in {"t", "cameras"} \cup has
               \cup (IF "joint_names" \in has THEN {"skel_layout"} ELSE {})
         |-> r[f]]

\* Nothing of the request before is kept, and a layout without names is not
\* looked at.
FromJson(j) ==
  [f \in DOMAIN NoRequest |->
     IF f \in DOMAIN j /\ (f = "skel_layout" => "joint_names" \in DOMAIN j)
     THEN j[f] ELSE NoRequest[f]]

-----------------------------------------------------------------------------
NoCamera == [id |-> 0, at |-> Zero]

\* A handle that has no camera is given the first one, or an empty one.
GetCamera(r, handle) ==
  IF r.cameras = <<>> THEN NoCamera
  ELSE r.cameras[IF handle \in DOMAIN r.cameras THEN handle ELSE 1]

\* Texts are counted from 0.
GetText(r, i) == IF i < Len(r.text_values) THEN r.text_values[i + 1]
                                           ELSE NotFound

\* The caller has asked for the number of joints and made room for them.
FirstJoints(joints, room) == SubSeq(joints, 1, Min({room, Len(joints)}))

GetSkeletonLayout(r, room) == FirstJoints(r.skel_layout, room)

\* All of them, whatever room there is.
GetSkeletonJointNames(r) == r.joint_names

GetSkeletonJointPoses(r, i, room) ==
  IF i < Len(r.skel_poses)
  THEN LET pose == r.skel_poses[i + 1]
       IN  [pose EXCEPT !.joints = FirstJoints(@, room)]
  ELSE [root |-> Zero, joints |-> <<>>]
=============================================================================
