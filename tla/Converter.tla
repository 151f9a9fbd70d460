----------------------------- MODULE Converter ------------------------------
(***************************************************************************)
(* rs::Converter (rs-dll/converter.cpp) as rs_sendFrame2 drives it: the    *)
(* host submits each stream's texture once per frame, in stream order; a   *)
(* copy into one of the layer's two buffers is recorded; the last stream   *)
(* of a frame submits the command list, waits for a fence and hands the    *)
(* buffers to the sender, which reads the one it was given last until it   *)
(* is given another (NDIlib_send_send_video_async_v2).  The GPU runs the   *)
(* lists in order, beside the host's thread.                               *)
(*                                                                         *)
(* The buffers are made for the first texture, and made anew when a larger *)
(* one comes.  Widths are counted in halves, so that a stream can be       *)
(* clipped to one of them; heights follow the same rules and are left out, *)
(* and rows need no padding (a width is a multiple of 64 pixels).          *)
(* What a failed assert does depends on the build: both are steps here.    *)
(***************************************************************************)
EXTENDS Integers, Sequences, SequencesExt

CONSTANTS NStreams,    \* Streams().size()
          kMaxLayers,
          Clippable,   \* bound: the streams that may be clipped
          MaxWidth,    \* bound: widths of streams and textures
          MaxFrames,   \* bound: frames the host renders
          MaxInits     \* bound: calls of Initialize

ASSUME SizeAssumption ==
  /\ NStreams \in Nat \ {0} /\ kMaxLayers \in Nat \ {0}
  /\ MaxWidth \in Nat \ {0} /\ MaxFrames \in Nat /\ MaxInits \in Nat

Streams == 0..(NStreams - 1)
Layers  == 0..(kMaxLayers - 1)

ASSUME ClippableAssumption == Clippable \subseteq Streams

Slots   == {0, 1}
Widths  == 1..MaxWidth
Nothing == [layer |-> -1, bank |-> 0, frame |-> 0, gen |-> 0, full |-> FALSE]

VARIABLES
  device, inits,                     \* device_ is set; calls of Initialize
  declared, clipped,                 \* the streams' widths; which of them
                                     \* are half of each texture
  sender,                            \* "gpu" wants textures, "cpu" pixels
  command_index, reset_command,
  fence_value, completed,            \* per slot: signalled last, and passed
  pool, gen, bank,                   \* width of the buffers, 0 for none; how
                                     \* many were made; the next bank of each
  overwritten,                       \* buffers whose guard word is gone
  data_pack, data_pack_index, image_index, frame_complete,
  recording,                         \* copies in the open command list
  gpu,                               \* command lists not yet finished
  held,                              \* per layer, what the sender reads
  pc, stream, frame, tex,            \* the host's call, its arguments
  steady,                            \* nothing failed or was skipped so far
  as_declared,                       \* textures were as wide as their streams
  hung                               \* a fence wait was given up

packVars == <<data_pack, data_pack_index, image_index, frame_complete>>
gpuVars  == <<completed, gpu>>
listVars == <<command_index, reset_command, recording>>
historyVars == <<steady, as_declared, hung>>
hostVars == <<pc, stream, frame, tex, historyVars>>
poolVars == <<pool, gen, bank, overwritten>>
streamVars == <<declared, clipped, sender>>
vars == <<device, inits, streamVars, fence_value, poolVars, held,
          packVars, gpuVars, listVars, hostVars>>

Outputs == [layer : Layers, bank : Slots, frame : 1..MaxFrames, gen : Nat,
            full : BOOLEAN]

TypeOK ==
  /\ device \in BOOLEAN /\ inits \in 0..MaxInits
  /\ declared \in [Streams -> Widths] /\ clipped \in SUBSET Streams
  /\ sender \in {"gpu", "cpu", "stopped"}
  /\ command_index \in Slots /\ reset_command \in BOOLEAN
  /\ fence_value \in [Slots -> Nat] /\ completed \in [Slots -> Nat]
  /\ pool \in Nat /\ gen \in Nat /\ bank \in [Layers -> Slots]
  /\ overwritten \in SUBSET (Layers \X Slots)
  /\ data_pack \in [Slots -> Seq(Outputs)] /\ data_pack_index \in -1..1
  /\ image_index \in Streams /\ frame_complete \in BOOLEAN
  /\ recording \in SUBSET Outputs
  /\ gpu \in Seq([slot : Slots, value : Nat, copies : SUBSET Outputs])
  /\ held \in [Layers -> Outputs \cup {Nothing}]
  /\ pc \in {"idle", "pool", "fence", "send", "shutdown", "stopping", "aborted"}
  /\ stream \in Streams /\ frame \in Nat \ {0} /\ tex \in Widths \cup {0}
  /\ steady \in BOOLEAN /\ as_declared \in BOOLEAN /\ hung \in BOOLEAN

\* What Shutdown puts back, besides the pool: all but fence_value_.
FreshState ==
  /\ device' = FALSE /\ pool' = 0 /\ bank' = [l \in Layers |-> 0]
  /\ overwritten' = {}
  /\ data_pack' = [s \in Slots |-> <<>>] /\ data_pack_index' = -1
  /\ image_index' = 0 /\ frame_complete' = FALSE
  /\ command_index' = 0 /\ reset_command' = TRUE /\ recording' = {}

Init ==
  /\ device = FALSE /\ inits = 0
  /\ declared \in [Streams -> Widths] /\ clipped \in SUBSET Clippable
  /\ sender \in {"gpu", "cpu", "stopped"}
  /\ command_index = 0 /\ reset_command = TRUE /\ recording = {}
  /\ fence_value = [s \in Slots |-> 0] /\ completed = [s \in Slots |-> 0]
  /\ pool = 0 /\ gen = 0 /\ bank = [l \in Layers |-> 0] /\ overwritten = {}
  /\ data_pack = [s \in Slots |-> <<>>] /\ data_pack_index = -1
  /\ image_index = 0 /\ frame_complete = FALSE
  /\ gpu = <<>> /\ held = [l \in Layers |-> Nothing]
  /\ pc = "idle" /\ stream = 0 /\ frame = 1 /\ tex = 0
  /\ steady = TRUE /\ as_declared = TRUE /\ hung = FALSE

-----------------------------------------------------------------------------
\* New allocators, and new fences that have passed 0.
Initialize ==
  /\ ~device /\ pc = "idle" /\ inits < MaxInits /\ frame + inits <= MaxFrames
  /\ device' = TRUE /\ inits' = inits + 1
  /\ completed' = [s \in Slots |-> 0]
  /\ UNCHANGED <<streamVars, fence_value, poolVars, held, packVars, gpu,
                 listVars, hostVars>>

\* The host renders one frame less for each call of Initialize but one.
InBounds == frame <= MaxFrames /\ frame + inits <= MaxFrames + 1

\* The host goes on to its next stream, or to the next frame.
NextStream ==
  IF stream = NStreams - 1 THEN stream' = 0 /\ frame' = frame + 1
                           ELSE stream' = stream + 1 /\ frame' = frame

\* Submit is entered with a texture of width w; a list that was submitted is
\* recorded anew.
CallSubmit(w) ==
  /\ device /\ pc = "idle" /\ InBounds
  /\ pc' = "pool" /\ tex' = w
  /\ as_declared' = (as_declared /\ w = declared[stream])
  /\ reset_command' = FALSE
  /\ recording' = IF reset_command THEN {} ELSE recording
  /\ UNCHANGED <<device, inits, streamVars, command_index, fence_value,
                 poolVars, held, packVars, gpuVars, stream, frame, steady,
                 hung>>

\* The host has no texture to submit: Submit returns early, the stream is
\* missing from the frame, and image_index_ does not count it.
NoTexture ==
  /\ device /\ pc = "idle" /\ InBounds
  /\ steady' = FALSE /\ NextStream
  /\ UNCHANGED <<device, inits, streamVars, fence_value, poolVars, held,
                 packVars, gpuVars, listVars, pc, tex, as_declared, hung>>

Passed(s) == completed[s] >= fence_value[s]
LayerOf(s) == IF s >= kMaxLayers THEN kMaxLayers - 1 ELSE s

\* What is copied of a texture of width w, with the clipping of stream s: the
\* Converter takes that of the stream its layer is named after.
Shown(s, w) == IF s \in clipped THEN w ELSE 2 * w
CopyWidth == Shown(LayerOf(stream), tex)

\* The width the buffers must have: a shared texture holds what is shown, a
\* readback buffer whole rows of the widest stream.
NeedReadbackM == 2 * tex  \* the streams are not looked at
NeedReadback == 2 * Max({tex} \cup Range(declared))

Need == IF sender = "gpu" THEN CopyWidth ELSE NeedReadback

\* What is there is too small, or nothing is there: it is released and made
\* anew, for which the CPU path waits for both fences, without a time limit.
TooSmall(wants_gpu) == pc = "pool" /\ (sender = "gpu") = wants_gpu /\ pool < Need
ReleaseReadbackPool == \A s \in Slots : Passed(s)

NewPool ==
  /\ pool' = Need /\ gen' = gen + 1 /\ bank' = [l \in Layers |-> 0]
  /\ overwritten' = {}
  /\ UNCHANGED <<device, inits, streamVars, fence_value, held, packVars,
                 gpuVars, listVars, hostVars>>

EnsureSharedPool == TooSmall(TRUE) /\ NewPool
EnsureReadbackPool == TooSmall(FALSE) /\ ReleaseReadbackPool /\ NewPool

\* It cannot be made: Submit returns, or the CPU path's assert fails.
NoPool ==
  /\ pool' = 0 /\ bank' = [l \in Layers |-> 0] /\ overwritten' = {}
  /\ tex' = 0 /\ steady' = FALSE
  /\ UNCHANGED <<device, inits, streamVars, fence_value, gen, held, packVars,
                 gpuVars, listVars, as_declared, hung>>

SharedPoolFails == TooSmall(TRUE) /\ NoPool /\ pc' = "idle" /\ NextStream

ReadbackPoolFails ==
  /\ TooSmall(FALSE) /\ ReleaseReadbackPool /\ NoPool
  /\ \/ pc' = "idle" /\ NextStream
     \/ pc' = "aborted" /\ UNCHANGED <<stream, frame>>

\* A copy that comes to the end of a readback buffer.
FillsBuffer == sender # "gpu" /\ CopyWidth >= pool

\* The copy is recorded and its buffer noted; the pack it goes to is the one
\* data_pack_index_ names, 1 before there has been any.
RecordM ==  \* the bank is not flipped
  LET l    == LayerOf(stream)
      out  == [layer |-> l, bank |-> bank[l], frame |-> frame, gen |-> gen,
               full |-> FillsBuffer]
      into == IF data_pack_index = 0 THEN 0 ELSE 1
  IN /\ pc = "pool" /\ pool >= Need
     /\ UNCHANGED bank
     /\ recording' = recording \cup {out} /\ tex' = 0
     /\ data_pack' = [data_pack EXCEPT ![into] = Append(@, out)]

Record ==
  LET l    == LayerOf(stream)
      out  == [layer |-> l, bank |-> bank[l], frame |-> frame, gen |-> gen,
               full |-> FillsBuffer]
      into == IF data_pack_index = 0 THEN 0 ELSE 1
  IN /\ pc = "pool" /\ pool >= Need
     /\ bank' = [bank EXCEPT ![l] = 1 - @]
     /\ recording' = recording \cup {out} /\ tex' = 0
     /\ data_pack' = [data_pack EXCEPT ![into] = Append(@, out)]

\* Not the last texture of the frame: Consume has nothing to hand out.
SubmitMore ==
  /\ Record /\ image_index # NStreams - 1
  /\ image_index' = image_index + 1
  /\ pc' = "idle" /\ NextStream
  /\ UNCHANGED <<device, inits, streamVars, fence_value, pool, gen, overwritten,
                 held, gpuVars, data_pack_index, frame_complete, command_index,
                 reset_command, historyVars>>

\* The last: the list is executed and its fence signalled behind it.
SubmitLastM ==  \* the fence is signalled with the value before
  /\ Record /\ image_index = NStreams - 1
  /\ fence_value' = [fence_value EXCEPT ![command_index] = @ + 1]
  /\ gpu' = Append(gpu, [slot |-> command_index,
                         value |-> fence_value[command_index],
                         copies |-> recording'])
  /\ reset_command' = TRUE /\ pc' = "fence"
  /\ UNCHANGED <<device, inits, streamVars, pool, gen, overwritten, held,
                 data_pack_index, image_index, frame_complete, completed,
                 command_index, stream, frame, historyVars>>

SubmitLast ==
  /\ Record /\ image_index = NStreams - 1
  /\ fence_value' = [fence_value EXCEPT ![command_index] = @ + 1]
  /\ gpu' = Append(gpu, [slot |-> command_index,
                         value |-> fence_value'[command_index],
                         copies |-> recording'])
  /\ reset_command' = TRUE /\ pc' = "fence"
  /\ UNCHANGED <<device, inits, streamVars, pool, gen, overwritten, held,
                 data_pack_index, image_index, frame_complete, completed,
                 command_index, stream, frame, historyVars>>

\* The packs and the slots change over.
SwitchSlots ==
  /\ pc = "fence"
  /\ data_pack_index' = (data_pack_index + 1) % 2
  /\ command_index' = (command_index + 1) % 2
  /\ frame_complete' = TRUE /\ image_index' = 0 /\ pc' = "send"
  /\ UNCHANGED <<device, inits, streamVars, fence_value, poolVars, held,
                 data_pack, gpuVars, reset_command, recording, stream, frame,
                 tex, as_declared>>

\* The fence of the slot data_pack_index_ names has passed, or there is none.
FencePassedM == SwitchSlots /\ UNCHANGED <<steady, hung>>  \* the wait is left out

FencePassed ==
  /\ \A s \in Slots : s = data_pack_index => Passed(s)
  /\ SwitchSlots /\ UNCHANGED <<steady, hung>>

\* Five seconds are over: an assert fails, or the frame goes on regardless.
TimedOut == pc = "fence" /\ \E s \in Slots : s = data_pack_index /\ ~Passed(s)

FenceTimeout ==
  /\ TimedOut /\ pc' = "aborted"
  /\ UNCHANGED <<device, inits, streamVars, fence_value, poolVars, held,
                 packVars, gpuVars, listVars, stream, frame, tex, historyVars>>

FenceIgnored ==
  TimedOut /\ SwitchSlots /\ steady' = FALSE /\ hung' = TRUE

ReadyIndex == (data_pack_index + 1) % 2

\* Consume hands out the ready pack, and each buffer in it is sent; a layer
\* in skipped has no receiver, so that Send returns early and the sender
\* keeps the buffer it has.
Sent(skipped) ==
  [l \in Layers |->
     LET pack == data_pack[ReadyIndex]
         mine == {i \in DOMAIN pack : pack[i].layer = l}
     IN IF mine = {} \/ l \in skipped THEN held[l] ELSE pack[Max(mine)]]

ConsumeAndSendM(skipped) ==  \* the pack is not cleared
  /\ pc = "send" /\ frame_complete
  /\ frame_complete' = FALSE /\ UNCHANGED data_pack
  /\ sender = "stopped" => skipped = Layers
  /\ held' = Sent(skipped)
  /\ steady' = (steady /\ skipped = {})
  /\ pc' = "idle" /\ NextStream
  /\ UNCHANGED <<device, inits, streamVars, fence_value, poolVars, gpuVars,
                 listVars, data_pack_index, image_index, tex, as_declared, hung>>

ConsumeAndSend(skipped) ==
  /\ pc = "send" /\ frame_complete
  /\ frame_complete' = FALSE
  /\ data_pack' = [data_pack EXCEPT ![ReadyIndex] = <<>>]
  /\ sender = "stopped" => skipped = Layers
  /\ held' = Sent(skipped)
  /\ steady' = (steady /\ skipped = {})
  /\ pc' = "idle" /\ NextStream
  /\ UNCHANGED <<device, inits, streamVars, fence_value, poolVars, gpuVars,
                 listVars, data_pack_index, image_index, tex, as_declared, hung>>

\* The pack names a buffer that is gone: the guard word at its end is read, or
\* it is handed to the sender's library, with any outcome.
Released(o) == o.gen # gen \/ pool = 0

ConsumeReleased ==
  /\ pc = "send" /\ \E o \in Range(data_pack[ReadyIndex]) : Released(o)
  /\ pc' = "aborted"
  /\ UNCHANGED <<device, inits, streamVars, fence_value, poolVars, held,
                 packVars, gpuVars, listVars, stream, frame, tex, historyVars>>

\* The guard word is the last of the buffer's own bytes, so that a copy that
\* fills the buffer overwrites it, and Consume's assert fails; without asserts
\* the buffer is sent all the same.  "GPU wrote past buffer bounds"
\* (converter.cpp:467) is not what has happened then.
GuardLost(o) == ~Released(o) /\ <<o.layer, o.bank>> \in overwritten

ConsumeAsserts ==
  /\ pc = "send" /\ sender # "gpu"
  /\ \E o \in Range(data_pack[ReadyIndex]) : GuardLost(o)
  /\ pc' = "aborted"
  /\ UNCHANGED <<device, inits, streamVars, fence_value, poolVars, held,
                 packVars, gpuVars, listVars, stream, frame, tex, historyVars>>

-----------------------------------------------------------------------------
\* rs_shutdown: the fences are waited for without a time limit and everything
\* is released, a frame that has been begun with it.
CallShutdown ==
  /\ device /\ pc = "idle" /\ pc' = "shutdown"
  /\ UNCHANGED <<device, inits, streamVars, fence_value, poolVars, held,
                 packVars, gpuVars, listVars, stream, frame, tex, historyVars>>

Shutdown ==
  /\ pc = "shutdown" /\ \A s \in Slots : Passed(s)
  /\ FreshState
  /\ pc' = "stopping" /\ hung' = FALSE /\ steady' = (steady /\ stream = 0)
  /\ UNCHANGED <<inits, streamVars, fence_value, gen, held, gpuVars, stream,
                 frame, tex, as_declared>>

\* Then the sender is stopped, and gives up what it holds; it is not started
\* again, since the streams stay loaded.
StopSenderM ==  \* the last frame is not taken back
  /\ pc = "stopping" /\ pc' = "idle" /\ sender' = "stopped"
  /\ UNCHANGED <<device, inits, declared, clipped, fence_value, poolVars, held,
                 packVars, gpuVars, listVars, stream, frame, tex, historyVars>>

StopSender ==
  /\ pc = "stopping" /\ pc' = "idle"
  /\ sender' = "stopped" /\ held' = [l \in Layers |-> Nothing]
  /\ UNCHANGED <<device, inits, declared, clipped, fence_value, poolVars,
                 packVars, gpuVars, listVars, stream, frame, tex, historyVars>>

\* The GPU comes to the end of a list and to the signal behind it.
GpuFinish ==
  /\ gpu # <<>>
  /\ completed' = [completed EXCEPT ![Head(gpu).slot] = Head(gpu).value]
  /\ gpu' = Tail(gpu)
  /\ overwritten' = overwritten \cup
       {<<o.layer, o.bank>> :
          o \in {c \in Head(gpu).copies : c.full /\ c.gen = gen}}
  /\ UNCHANGED <<device, inits, streamVars, fence_value, pool, gen, bank, held,
                 packVars, listVars, hostVars>>

HostStep ==
  \/ EnsureSharedPool \/ EnsureReadbackPool
  \/ SubmitMore \/ SubmitLast \/ FencePassed \/ Shutdown \/ StopSender
  \/ \E skipped \in SUBSET Layers : ConsumeAndSend(skipped)

TimeoutStep == FenceTimeout \/ FenceIgnored

Next ==
  \/ Initialize \/ NoTexture \/ SharedPoolFails \/ ReadbackPoolFails
  \/ ConsumeReleased \/ ConsumeAsserts
  \/ \E w \in Widths : CallSubmit(w)
  \/ HostStep \/ TimeoutStep \/ CallShutdown \/ GpuFinish

Spec == Init /\ [][Next]_vars

\* A call that has begun goes on, a wait with a time limit comes to its end,
\* and the GPU gets through its queue.
FairSpec == Spec /\ WF_vars(HostStep \/ TimeoutStep) /\ WF_vars(GpuFinish)

-----------------------------------------------------------------------------
(* Properties *)

Writing == UNION {gpu[i].copies : i \in DOMAIN gpu}

\* A command allocator is reset only when the GPU is done with the list
\* recorded from it last: the one fence wait of a frame, which is for the
\* frame before, is enough for two allocators, whatever fails in between,
\* unless it is given up.
AllocatorIsFree ==
  ~hung /\ device /\ reset_command /\ pc \in {"idle", "send"} =>
    \A i \in DOMAIN gpu : gpu[i].slot # command_index

\* The GPU never writes a later frame into the buffer the sender is reading:
\* two banks are enough for a sender that keeps one buffer of each layer, as
\* long as every stream is submitted and sent.
SentFrameNotOverwritten ==
  steady /\ NStreams <= kMaxLayers =>
    \A o \in Writing :
      LET h == held[o.layer]
      IN h # Nothing /\ h.bank = o.bank /\ h.gen = o.gen => h.frame = o.frame

\* No buffer that is in a pack, or that the sender reads, has been released,
\* between the calls of the host, as long as textures are as wide as their
\* streams and, for GPU textures, the first stream shows the widest box: the
\* CPU path makes its buffers for the widest stream before it records anything.
BufferOutlivesUse ==
  /\ steady /\ as_declared /\ pc \in {"idle", "pool", "fence", "send"}
  /\ sender = "gpu" => \A s \in Streams :
       Shown(LayerOf(s), declared[s]) <= Shown(0, declared[0])
  => /\ \A s \in Slots : \A o \in Range(data_pack[s]) : ~Released(o)
     /\ \A l \in Layers : held[l] # Nothing => ~Released(held[l])

\* The row pitch the sender computes in Start.
SenderPitch == Max({Shown(s, declared[s]) : s \in Streams})

\* The sender reads rows at the distance the Converter wrote them exactly when
\* a stream of the greatest width is not clipped, as long as textures are as
\* wide as their streams: the one takes what the clipping leaves of a stream,
\* the other its whole width.
RowsMatch ==
  pc = "send" /\ sender = "cpu" /\ as_declared =>
    (pool = SenderPitch <=> \E s \in Streams :
                              /\ s \notin clipped
                              /\ \A r \in Streams : declared[r] <= declared[s])

\* What is handed out at the end of a frame is that frame, each stream once.
PackIsOneFrame ==
  steady /\ pc = "send" =>
    /\ Len(data_pack[ReadyIndex]) = NStreams
    /\ \A s \in Streams : LET o == data_pack[ReadyIndex][s + 1]
                          IN o.layer = LayerOf(s) /\ o.frame = frame

\* Every call returns, or ends in an assert: the GPU answers what it is asked,
\* so that the waits without a time limit, of Shutdown and of a pool that is
\* made anew, end.  After a second Initialize that is so of fences whose value
\* the GPU has passed or is to signal: Shutdown leaves fence_value_ as it is,
\* and the new fences start at 0, so that the first wait for a slot that has
\* been used before never ends (converter.cpp:475).
Answered ==
  \A s \in Slots :
    Passed(s) \/ \E i \in DOMAIN gpu : /\ gpu[i].slot = s
                                      /\ gpu[i].value >= fence_value[s]

CallsReturn ==
  pc # "idle" /\ (inits <= 1 \/ Answered) ~> pc \in {"idle", "aborted"}

\* The pack that is handed out is the one whose fence has just been waited
\* for: converter.cpp:440-442 asserts it of fence_[data_pack_index_], and
\* Consume returns that pack, so that the sender reads finished pixels.
ConsumedIsFinished ==
  pc = "send" =>
    \A i \in DOMAIN data_pack[ReadyIndex] :
      data_pack[ReadyIndex][i] \notin Writing
=============================================================================
