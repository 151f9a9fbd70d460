------------------------------- MODULE Sender -------------------------------
(***************************************************************************)
(* The two implementations of ISender (rs-dll/sender/): NdiSender, one NDI *)
(* instance per layer, and NovaNdiSender, whose library makes a GPU        *)
(* context for each layer if there is a D3D11 device, and a CPU context    *)
(* where that is not to be had.  Which of the two is built is a choice of  *)
(* the build.  All calls come from the host's thread; Start is a step for  *)
(* each context it asks the library for, in the order its map has.         *)
(***************************************************************************)
EXTENDS Integers

VARIABLES backend,    \* "ndi" or "nova", RS_SENDER_NOVANDI
          layers,     \* layers_: what a layer has, "none", "cpu" or "gpu"
          started,    \* started_
          gpu_ready,  \* gpu_ready_, which NdiSender has not
          todo,       \* layers Start has not come to yet
          contexts    \* what is open in the library

senderVars == <<backend, layers, started, gpu_ready, todo, contexts>>

NoLayers == [l \in {} |-> "none"]
Idle(ls) == [l \in ls |-> "none"]

OwnedBy(ls) == {<<l, layers[l]>> : l \in {k \in ls : layers[k] # "none"}}
Owned       == OwnedBy(DOMAIN layers)

SenderTypeOK ==
  /\ backend \in {"ndi", "nova"} /\ started \in BOOLEAN /\ gpu_ready \in BOOLEAN
  /\ DOMAIN layers \subseteq Nat /\ todo \subseteq DOMAIN layers
  /\ \A l \in DOMAIN layers : layers[l] \in {"none", "cpu", "gpu"}
  /\ contexts \subseteq Nat \X {"cpu", "gpu"}

SenderInit ==
  /\ backend \in {"ndi", "nova"} /\ layers = NoLayers
  /\ started = FALSE /\ gpu_ready = FALSE /\ todo = {} /\ contexts = {}

-----------------------------------------------------------------------------
\* What StopLocked closes: NdiSender's does nothing unless it was started.
Closing == IF backend = "nova" \/ started THEN Owned ELSE {}

\* NovaNdiSender forgets its layers, NdiSender only their instances.
StopM ==  \* the GPU contexts are forgotten with the layers
  /\ contexts' = {c \in contexts : c \notin Closing \/ c[2] = "gpu"}
  /\ layers' = IF backend = "nova" THEN NoLayers
               ELSE IF started THEN Idle(DOMAIN layers) ELSE layers
  /\ started' = FALSE /\ gpu_ready' = FALSE
  /\ UNCHANGED <<backend, todo>>

Stop ==
  /\ contexts' = contexts \ Closing
  /\ layers' = IF backend = "nova" THEN NoLayers
               ELSE IF started THEN Idle(DOMAIN layers) ELSE layers
  /\ started' = FALSE /\ gpu_ready' = FALSE
  /\ UNCHANGED <<backend, todo>>

\* Start: what there was is stopped, and n layers are configured.
Configure(n) ==
  /\ contexts' = contexts \ Closing
  /\ layers' = Idle(0..(n - 1)) /\ todo' = 0..(n - 1)
  /\ started' = FALSE /\ gpu_ready' = FALSE
  /\ UNCHANGED backend

\* NovaNDISenderCore.dll is not there, or lacks an export.
NoLibrary ==
  /\ backend = "nova"
  /\ contexts' = contexts \ Closing /\ layers' = NoLayers
  /\ started' = FALSE /\ gpu_ready' = FALSE
  /\ UNCHANGED <<backend, todo>>

Make(l, kind) ==
  /\ l \in todo /\ todo' = todo \ {l}
  /\ layers' = [layers EXCEPT ![l] = kind]
  /\ contexts' = contexts \cup {<<l, kind>>}
  /\ UNCHANGED <<backend, started, gpu_ready>>

\* The GPU context comes first, and is instead of the other.
MakeGpu(l, d3d11) == backend = "nova" /\ d3d11 /\ Make(l, "gpu")
MakeCpu(l) == Make(l, "cpu")

\* No context is to be had for l: Start gives back those it has made.
MakeFailsM(l) ==  \* the GPU contexts are not given back
  /\ l \in todo /\ todo' = {}
  /\ contexts' = contexts \ {c \in OwnedBy(DOMAIN layers \ todo) : c[2] = "cpu"}
  /\ layers' = IF backend = "nova" THEN NoLayers ELSE Idle(DOMAIN layers)
  /\ UNCHANGED <<backend, started, gpu_ready>>

MakeFails(l) ==
  /\ l \in todo /\ todo' = {}
  /\ contexts' = contexts \ OwnedBy(DOMAIN layers \ todo)
  /\ layers' = IF backend = "nova" THEN NoLayers ELSE Idle(DOMAIN layers)
  /\ UNCHANGED <<backend, started, gpu_ready>>

\* Every layer has been visited.
Finish(d3d11) ==
  /\ todo = {} /\ started' = TRUE
  /\ gpu_ready' = (d3d11 /\ \E l \in DOMAIN layers : layers[l] = "gpu")
  /\ UNCHANGED <<backend, layers, todo, contexts>>

-----------------------------------------------------------------------------
WantsGpuTextures == gpu_ready

Send(l) == started /\ l \in DOMAIN layers /\ layers[l] = "cpu"

SendTexture(l) ==
  started /\ gpu_ready /\ l \in DOMAIN layers /\ layers[l] = "gpu"

\* What becomes of a frame of layer l that rs_sendFrame2 had converted.
Delivers(l) == IF WantsGpuTextures THEN SendTexture(l) ELSE Send(l)
=============================================================================
