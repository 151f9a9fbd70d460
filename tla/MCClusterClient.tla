--------------------------- MODULE MCClusterClient ---------------------------
(* Three kinds of behaviour: a client that is started twice; one that is    *)
(* started once and sends three ticks, with a skeleton; and one that sends  *)
(* two, with cameras and texts.                                             *)
EXTENDS ClusterClient

Bound(s, k, c, x, j) ==
  [starts |-> s, ticks |-> k, cameras |-> c, texts |-> x, joints |-> j]

MCBounds == {Bound(2, 1, 0, 0, 0), Bound(1, 3, 0, 0, 1), Bound(1, 2, 2, 1, 0)}
=============================================================================
