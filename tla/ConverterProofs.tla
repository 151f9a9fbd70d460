--------------------------- MODULE ConverterProofs ---------------------------
(***************************************************************************)
(* Proofs about the Converter's two command allocators and its two packs,  *)
(* about the buffers the sender holds, for any number of streams, layers,  *)
(* frames and initialisations, and textures of any width.                  *)
(***************************************************************************)
EXTENDS Converter, SequenceTheorems, FiniteSetTheorems, WellFoundedInduction,
        TLAPS

Copies == [layer : Layers, bank : Slots, frame : Nat, gen : Nat, full : BOOLEAN]
Lists  == [slot : Slots, value : Nat, copies : SUBSET Copies]

HostTypes == stream \in Streams /\ frame \in Nat
PoolTypes == gen \in Nat /\ bank \in [Layers -> Slots] /\ tex \in Nat
PackTypes == /\ data_pack \in [Slots -> Seq(Copies)]
             /\ data_pack_index \in {-1, 0, 1}
             /\ image_index \in Nat
ListTypes == /\ command_index \in Slots /\ recording \in SUBSET Copies
             /\ fence_value \in [Slots -> Nat] /\ completed \in [Slots -> Nat]
             /\ gpu \in Seq(Lists)

Types == HostTypes /\ PoolTypes /\ PackTypes /\ ListTypes

USE SizeAssumption DEF Slots, Streams, Layers

LEMMA InitTypes == Init => Types
<1> SUFFICES ASSUME Init PROVE Types
  OBVIOUS
<1>1. HostTypes /\ PoolTypes
  BY DEF Init, HostTypes, PoolTypes
<1>2. PackTypes
  BY DEF Init, PackTypes
<1>3. ListTypes
  BY DEF Init, ListTypes
<1> QED BY <1>1, <1>2, <1>3 DEF Types

LEMMA NextStreamTypes == HostTypes /\ NextStream => HostTypes'
BY DEF HostTypes, NextStream

LEMMA NewPoolTypes == PoolTypes /\ NewPool => PoolTypes'
BY DEF PoolTypes, NewPool, hostVars

LEMMA NoPoolTypes == PoolTypes /\ NoPool => PoolTypes'
BY DEF PoolTypes, NoPool

\* The pack the copies go to.
Into == IF data_pack_index = 0 THEN 0 ELSE 1

\* What Record does, told apart for each of its variables.
LEMMA RecordEffect ==
  ASSUME Types, Record
  PROVE  LET out == [layer |-> LayerOf(stream), bank |-> bank[LayerOf(stream)],
                     frame |-> frame, gen |-> gen, full |-> FillsBuffer]
         IN  /\ out \in Copies
             /\ bank' \in [Layers -> Slots]
             /\ recording' = recording \cup {out}
             /\ data_pack' = [data_pack EXCEPT ![Into] = Append(@, out)]
             /\ Append(data_pack[Into], out) \in Seq(Copies)
<1> USE DEF Types
<1>1. LayerOf(stream) \in Layers
  BY DEF LayerOf, HostTypes
<1> DEFINE out == [layer |-> LayerOf(stream), bank |-> bank[LayerOf(stream)],
                   frame |-> frame, gen |-> gen, full |-> FillsBuffer]
<1>2. out \in Copies
  BY <1>1 DEF Copies, HostTypes, PoolTypes, FillsBuffer
<1>3. bank' \in [Layers -> Slots]
  BY <1>1 DEF Record, PoolTypes
<1>4. data_pack[Into] \in Seq(Copies)
  BY DEF PackTypes, Into
<1>5. Append(data_pack[Into], out) \in Seq(Copies)
  BY <1>2, <1>4, AppendProperties
<1> QED BY <1>2, <1>3, <1>5 DEF Record, Into

LEMMA RecordTypes ==
  ASSUME Types, Record
  PROVE  /\ bank' \in [Layers -> Slots]
         /\ data_pack' \in [Slots -> Seq(Copies)]
         /\ recording' \in SUBSET Copies
         /\ tex' \in Nat
<1> DEFINE out == [layer |-> LayerOf(stream), bank |-> bank[LayerOf(stream)],
                   frame |-> frame, gen |-> gen, full |-> FillsBuffer]
<1>1. /\ out \in Copies /\ bank' \in [Layers -> Slots]
      /\ recording' = recording \cup {out}
      /\ data_pack' = [data_pack EXCEPT ![Into] = Append(@, out)]
      /\ Append(data_pack[Into], out) \in Seq(Copies)
  BY RecordEffect
<1> HIDE DEF out
<1>2. data_pack' \in [Slots -> Seq(Copies)]
  BY <1>1 DEF Types, PackTypes, Into
<1>3. tex' \in Nat
  BY DEF Record
<1> QED BY <1>1, <1>2, <1>3 DEF Types, ListTypes

LEMMA TypesKept == Types /\ [Next]_vars => Types'
<1> SUFFICES ASSUME Types, [Next]_vars PROVE Types'
  OBVIOUS
<1> USE DEF packVars, gpuVars, listVars, historyVars, hostVars, poolVars,
            streamVars
<1>0. HostTypes /\ PoolTypes /\ PackTypes /\ ListTypes
  BY DEF Types
<1>1. CASE Initialize
  <2>1. HostTypes' /\ PoolTypes' /\ PackTypes'
    BY <1>0, <1>1 DEF Initialize, HostTypes, PoolTypes, PackTypes
  <2>2. ListTypes'
    BY <1>0, <1>1 DEF Initialize, ListTypes
  <2> QED BY <2>1, <2>2 DEF Types
<1>2. CASE NoTexture
  <2>1. HostTypes'
    BY <1>0, <1>2, NextStreamTypes DEF NoTexture
  <2>2. PoolTypes' /\ PackTypes' /\ ListTypes'
    BY <1>0, <1>2 DEF NoTexture, PoolTypes, PackTypes, ListTypes
  <2> QED BY <2>1, <2>2 DEF Types
<1>3. ASSUME NEW w \in Widths, CallSubmit(w) PROVE Types'
  BY <1>0, <1>3
  DEF CallSubmit, Widths, Types, HostTypes, PoolTypes, PackTypes, ListTypes
<1>4. CASE EnsureSharedPool \/ EnsureReadbackPool
  <2>1. NewPool
    BY <1>4 DEF EnsureSharedPool, EnsureReadbackPool
  <2>2. PoolTypes'
    BY <1>0, <2>1, NewPoolTypes
  <2>3. HostTypes' /\ PackTypes' /\ ListTypes'
    BY <1>0, <2>1 DEF NewPool, HostTypes, PackTypes, ListTypes
  <2> QED BY <2>2, <2>3 DEF Types
<1>5. CASE SharedPoolFails \/ ReadbackPoolFails
  <2>1. NoPool /\ (NextStream \/ UNCHANGED <<stream, frame>>)
    BY <1>5 DEF SharedPoolFails, ReadbackPoolFails
  <2>2. PoolTypes'
    BY <1>0, <2>1, NoPoolTypes
  <2>3. HostTypes'
    BY <1>0, <2>1, NextStreamTypes DEF HostTypes
  <2>4. PackTypes' /\ ListTypes'
    BY <1>0, <2>1 DEF NoPool, PackTypes, ListTypes
  <2> QED BY <2>2, <2>3, <2>4 DEF Types
<1>6. CASE SubmitMore
  <2>1. HostTypes'
    BY <1>0, <1>6, NextStreamTypes DEF SubmitMore
  <2>2. PoolTypes' /\ PackTypes' /\ ListTypes'
    BY <1>0, <1>6, RecordTypes DEF SubmitMore, PoolTypes, PackTypes, ListTypes
  <2> QED BY <2>1, <2>2 DEF Types
<1>7. CASE SubmitLast
  <2>1. HostTypes' /\ PoolTypes' /\ PackTypes'
    BY <1>0, <1>7, RecordTypes
    DEF SubmitLast, HostTypes, PoolTypes, PackTypes
  <2>2. recording' \in SUBSET Copies
    BY <1>7, RecordTypes DEF SubmitLast
  <2>3. fence_value' \in [Slots -> Nat]
    BY <1>0, <1>7 DEF SubmitLast, ListTypes
  <2>4. [slot |-> command_index, value |-> fence_value'[command_index],
         copies |-> recording'] \in Lists
    BY <1>0, <2>2, <2>3 DEF ListTypes, Lists
  <2>5. gpu' \in Seq(Lists)
    BY <1>0, <1>7, <2>4, AppendProperties DEF SubmitLast, ListTypes
  <2>6. command_index' = command_index /\ completed' = completed
    BY <1>7 DEF SubmitLast
  <2>7. ListTypes'
    BY <1>0, <2>2, <2>3, <2>5, <2>6 DEF ListTypes
  <2> QED BY <2>1, <2>7 DEF Types
<1>8. CASE FencePassed \/ FenceIgnored
  <2>1. SwitchSlots
    BY <1>8 DEF FencePassed, FenceIgnored
  <2>2. HostTypes' /\ PoolTypes'
    BY <1>0, <2>1 DEF SwitchSlots, HostTypes, PoolTypes
  <2>3. PackTypes'
    BY <1>0, <2>1 DEF SwitchSlots, PackTypes
  <2>4. ListTypes'
    BY <1>0, <2>1 DEF SwitchSlots, ListTypes
  <2> QED BY <2>2, <2>3, <2>4 DEF Types
<1>9. ASSUME NEW skipped \in SUBSET Layers, ConsumeAndSend(skipped) PROVE Types'
  <2>1. HostTypes'
    BY <1>0, <1>9, NextStreamTypes DEF ConsumeAndSend
  <2>2. PoolTypes' /\ ListTypes'
    BY <1>0, <1>9 DEF ConsumeAndSend, PoolTypes, ListTypes
  <2>3. <<>> \in Seq(Copies)
    OBVIOUS
  <2>4. data_pack' \in [Slots -> Seq(Copies)]
    BY <1>0, <1>9, <2>3 DEF ConsumeAndSend, PackTypes
  <2>5. PackTypes'
    BY <1>0, <1>9, <2>4 DEF ConsumeAndSend, PackTypes
  <2> QED BY <2>1, <2>2, <2>5 DEF Types
<1>10. CASE Shutdown
  <2>1. HostTypes' /\ PoolTypes' /\ PackTypes'
    BY <1>0, <1>10 DEF Shutdown, FreshState, HostTypes, PoolTypes, PackTypes
  <2>2. ListTypes'
    BY <1>0, <1>10 DEF Shutdown, FreshState, ListTypes
  <2> QED BY <2>1, <2>2 DEF Types
<1>11. CASE GpuFinish
  <2>1. Head(gpu) \in Lists /\ Tail(gpu) \in Seq(Lists)
    BY <1>0, <1>11, HeadTailProperties DEF GpuFinish, ListTypes
  <2>2. ListTypes'
    BY <1>0, <1>11, <2>1 DEF GpuFinish, ListTypes, Lists
  <2>3. HostTypes' /\ PoolTypes' /\ PackTypes'
    BY <1>0, <1>11 DEF GpuFinish, HostTypes, PoolTypes, PackTypes
  <2> QED BY <2>2, <2>3 DEF Types
<1>12. CASE ConsumeReleased \/ ConsumeAsserts \/ FenceTimeout
            \/ CallShutdown \/ StopSender
  BY <1>0, <1>12
  DEF ConsumeReleased, ConsumeAsserts, FenceTimeout, CallShutdown, StopSender,
     Types, HostTypes, PoolTypes, PackTypes, ListTypes
<1>13. CASE UNCHANGED vars
  BY <1>0, <1>13 DEF vars, Types, HostTypes, PoolTypes, PackTypes, ListTypes
<1> QED BY <1>1, <1>2, <1>3, <1>4, <1>5, <1>6, <1>7, <1>8, <1>9, <1>10, <1>11,
          <1>12, <1>13 DEF Next, HostStep, TimeoutStep

-----------------------------------------------------------------------------
(* The allocators.                                                         *)

\* The signals a fence still expects lie between what it has passed and what
\* it was told last, and come in order.
Signals ==
  /\ \A s \in Slots : completed[s] <= fence_value[s]
  /\ \A i \in DOMAIN gpu :
       /\ completed[gpu[i].slot] < gpu[i].value
       /\ gpu[i].value <= fence_value[gpu[i].slot]
  /\ \A i, j \in DOMAIN gpu :
       i < j /\ gpu[i].slot = gpu[j].slot => gpu[i].value < gpu[j].value

\* The list that is recorded is the other one than the last, and before there
\* is a last one the second has not been used.
OtherSlot ==
  /\ data_pack_index # -1 => command_index = 1 - data_pack_index
  /\ data_pack_index = -1 =>
       command_index = 0 /\ \A i \in DOMAIN gpu : gpu[i].slot = 0

Free == \A i \in DOMAIN gpu : gpu[i].slot # command_index

\* But for the moment between a list's submission and the switch of the slots,
\* the GPU has no list of the allocator that is recorded with.
FreeWhenIdle == ~hung /\ pc \notin {"fence", "aborted"} => Free

SlotInv == Signals /\ OtherSlot /\ FreeWhenIdle

LEMMA QueueTypes ==
  ASSUME ListTypes
  PROVE  /\ Len(gpu) \in Nat /\ DOMAIN gpu = 1..Len(gpu)
         /\ \A i \in DOMAIN gpu : gpu[i].slot \in Slots /\ gpu[i].value \in Nat
<1>1. Len(gpu) \in Nat /\ DOMAIN gpu = 1..Len(gpu)
  BY LenProperties DEF ListTypes
<1>2. \A i \in DOMAIN gpu : gpu[i] \in Lists
  BY <1>1, ElementOfSeq DEF ListTypes
<1> QED BY <1>1, <1>2 DEF Lists

\* A fence that has passed expects nothing.
LEMMA PassedIsDone ==
  ASSUME ListTypes, Signals, NEW s \in Slots, Passed(s)
  PROVE  \A i \in DOMAIN gpu : gpu[i].slot # s
BY QueueTypes DEF ListTypes, Signals, Passed

LEMMA InitSlots == Init => SlotInv
BY DEF Init, SlotInv, Signals, OtherSlot, FreeWhenIdle, Free

slotVars == <<gpu, completed, fence_value, command_index, data_pack_index>>

\* Most steps leave the slots alone, and begin nothing that is not free.
LEMMA SlotsAside ==
  ASSUME SlotInv, UNCHANGED slotVars,
         ~hung' /\ pc' \notin {"fence", "aborted"} =>
           ~hung /\ pc \notin {"fence", "aborted"}
  PROVE  SlotInv'
<1>1. Signals' /\ OtherSlot' /\ Free' = Free
  BY DEF SlotInv, Signals, OtherSlot, Free, slotVars
<1> QED BY <1>1 DEF SlotInv, FreeWhenIdle

\* The value signalled next is larger than all the slot expects.
LEMMA SlotsSubmitted == Types /\ SlotInv /\ SubmitLast => SlotInv'
<1> SUFFICES ASSUME Types, SlotInv, SubmitLast PROVE SlotInv'
  OBVIOUS
<1> DEFINE c == command_index  n == Len(gpu)
           e == [slot |-> c, value |-> fence_value'[c], copies |-> recording']
<1>1. /\ command_index' = c /\ data_pack_index' = data_pack_index
      /\ completed' = completed /\ pc' = "fence"
      /\ fence_value' = [fence_value EXCEPT ![c] = @ + 1]
      /\ gpu' = Append(gpu, e)
  BY DEF SubmitLast
<1>2. c \in Slots /\ fence_value'[c] = fence_value[c] + 1
  BY <1>1 DEF Types, ListTypes
<1>3. e \in Lists
  BY <1>2, RecordTypes DEF SubmitLast, Types, ListTypes, Lists
<1>4. /\ \A i \in 1..n : gpu'[i] = gpu[i]
      /\ gpu'[n + 1] = e /\ DOMAIN gpu' = 1..(n + 1)
  <2>1. gpu \in Seq(Lists)
    BY DEF Types, ListTypes
  <2>2. Append(gpu, e) \in Seq(Lists) /\ Len(Append(gpu, e)) = n + 1
        /\ Append(gpu, e)[n + 1] = e
        /\ \A i \in 1..n : Append(gpu, e)[i] = gpu[i]
    BY <1>3, <2>1, AppendProperties
  <2> QED BY <1>1, <2>2, LenProperties
<1>5. n \in Nat /\ DOMAIN gpu = 1..n
      /\ \A i \in 1..n : gpu[i].slot \in Slots /\ gpu[i].value \in Nat
  BY QueueTypes DEF Types
<1>6. \A s \in Slots : fence_value[s] \in Nat /\ completed[s] \in Nat
        /\ fence_value[s] <= fence_value'[s]
  BY <1>1 DEF Types, ListTypes
<1>7. e.slot = c /\ e.value = fence_value[c] + 1
  BY <1>2
<1> HIDE DEF e
<1>8. completed[c] < e.value
  <2>1. completed[c] <= fence_value[c]
    BY <1>2 DEF SlotInv, Signals
  <2> QED BY <1>2, <1>6, <1>7, <2>1
<1>9. Signals'
  <2>1. ASSUME NEW i \in 1..(n + 1)
        PROVE  /\ completed'[gpu'[i].slot] < gpu'[i].value
               /\ gpu'[i].value <= fence_value'[gpu'[i].slot]
    <3>1. CASE i = n + 1
      <4>1. gpu'[i].slot = c /\ gpu'[i].value = fence_value[c] + 1
        BY <1>4, <1>7, <3>1
      <4> QED BY <1>1, <1>2, <1>6, <1>7, <1>8, <4>1
    <3>2. CASE i \in 1..n
      BY <1>1, <1>4, <1>5, <1>6, <3>2 DEF SlotInv, Signals
    <3> QED BY <1>5, <3>1, <3>2
  <2>2. ASSUME NEW i \in 1..(n + 1), NEW j \in 1..(n + 1),
               i < j, gpu'[i].slot = gpu'[j].slot
        PROVE  gpu'[i].value < gpu'[j].value
    <3>1. i \in 1..n
      BY <1>5, <2>2
    <3>2. CASE j = n + 1
      <4>1. gpu'[j].slot = c /\ gpu'[j].value = fence_value[c] + 1
        BY <1>4, <1>7, <3>2
      <4>2. gpu[i].slot = c /\ gpu[i].value <= fence_value[c]
        BY <1>4, <1>5, <2>2, <3>1, <4>1 DEF SlotInv, Signals
      <4> QED BY <1>2, <1>4, <1>5, <1>6, <3>1, <4>1, <4>2
    <3>3. CASE j \in 1..n
      BY <1>4, <1>5, <2>2, <3>1, <3>3 DEF SlotInv, Signals
    <3> QED BY <1>5, <3>2, <3>3
  <2>3. \A s \in Slots : completed'[s] <= fence_value'[s]
    BY <1>1, <1>6 DEF SlotInv, Signals, Types, ListTypes
  <2> QED BY <1>4, <2>1, <2>2, <2>3 DEF Signals
<1>10. OtherSlot'
  BY <1>1, <1>2, <1>4, <1>5, <1>7 DEF SlotInv, OtherSlot
<1> QED BY <1>1, <1>9, <1>10 DEF SlotInv, FreeWhenIdle

\* The wait that ends a frame is for the slot that is recorded with next.
LEMMA SlotsSwitched == Types /\ SlotInv /\ (FencePassed \/ FenceIgnored) => SlotInv'
<1> SUFFICES ASSUME Types, SlotInv, FencePassed \/ FenceIgnored PROVE SlotInv'
  OBVIOUS
<1>1. /\ gpu' = gpu /\ completed' = completed /\ fence_value' = fence_value
      /\ data_pack_index' = (data_pack_index + 1) % 2
      /\ command_index' = (command_index + 1) % 2
  BY DEF FencePassed, FenceIgnored, SwitchSlots, gpuVars
<1>2. Signals'
  BY <1>1 DEF SlotInv, Signals
<1>3. /\ command_index \in {0, 1} /\ data_pack_index \in {-1, 0, 1}
      /\ command_index' = 1 - command_index
      /\ data_pack_index' = IF data_pack_index = 0 THEN 1 ELSE 0
  <2>1. command_index \in {0, 1} /\ data_pack_index \in {-1, 0, 1}
    BY DEF Types, ListTypes, PackTypes
  <2> QED BY <1>1, <2>1
<1>4. OtherSlot'
  BY <1>3 DEF SlotInv, OtherSlot
<1>5. CASE FenceIgnored
  BY <1>2, <1>4, <1>5 DEF FenceIgnored, SlotInv, FreeWhenIdle
<1>6. CASE FencePassed
  <2>1. CASE data_pack_index = -1
    <3>1. command_index' = 1 /\ \A i \in DOMAIN gpu : gpu[i].slot = 0
      BY <1>3, <2>1 DEF SlotInv, OtherSlot
    <3>2. Free'
      BY <1>1, <3>1 DEF Free
    <3> QED BY <1>2, <1>4, <3>2 DEF SlotInv, FreeWhenIdle
  <2>2. CASE data_pack_index # -1
    <3>1. data_pack_index \in Slots /\ command_index' = data_pack_index
      BY <1>3, <2>2 DEF SlotInv, OtherSlot
    <3>2. \A i \in DOMAIN gpu : gpu[i].slot # data_pack_index
      BY <1>6, <3>1, PassedIsDone DEF FencePassed, Types, SlotInv
    <3>3. Free'
      BY <1>1, <3>1, <3>2 DEF Free
    <3> QED BY <1>2, <1>4, <3>3 DEF SlotInv, FreeWhenIdle
  <2> QED BY <2>1, <2>2
<1> QED BY <1>5, <1>6

LEMMA SlotsFinished == Types /\ SlotInv /\ GpuFinish => SlotInv'
<1> SUFFICES ASSUME Types, SlotInv, GpuFinish PROVE SlotInv'
  OBVIOUS
<1> DEFINE n == Len(gpu)  c == gpu[1].slot  v == gpu[1].value
<1>1. /\ command_index' = command_index /\ data_pack_index' = data_pack_index
      /\ fence_value' = fence_value /\ pc' = pc /\ hung' = hung
  BY DEF GpuFinish, packVars, listVars, hostVars, historyVars
<1>2. /\ n \in Nat /\ DOMAIN gpu = 1..n
      /\ \A i \in 1..n : gpu[i].slot \in Slots /\ gpu[i].value \in Nat
  BY QueueTypes DEF Types
<1>3. /\ 1 <= n /\ DOMAIN gpu' = 1..(n - 1)
      /\ \A i \in 1..(n - 1) : gpu'[i] = gpu[i + 1]
  <2>1. gpu \in Seq(Lists) /\ gpu # <<>> /\ gpu' = Tail(gpu)
    BY DEF GpuFinish, Types, ListTypes
  <2>2. /\ Tail(gpu) \in Seq(Lists) /\ Len(Tail(gpu)) = n - 1
        /\ \A i \in 1..Len(Tail(gpu)) : Tail(gpu)[i] = gpu[i + 1]
    BY <2>1, HeadTailProperties
  <2>3. n # 0
    BY <2>1, EmptySeq
  <2> QED BY <1>2, <2>1, <2>2, <2>3, LenProperties
<1>4. completed' = [completed EXCEPT ![c] = v]
  <2>1. Head(gpu) = gpu[1]
    BY DEF Types, ListTypes
  <2> QED BY <2>1 DEF GpuFinish
<1>5. c \in Slots /\ v \in Nat /\ v <= fence_value[c]
  BY <1>2, <1>3 DEF SlotInv, Signals
<1>6. \A s \in Slots : completed'[s] = IF s = c THEN v ELSE completed[s]
  BY <1>4, <1>5 DEF Types, ListTypes
<1>7. ASSUME NEW i \in 1..(n - 1)
      PROVE  /\ i + 1 \in 1..n /\ gpu'[i] = gpu[i + 1]
             /\ gpu[i + 1].slot = c => v < gpu[i + 1].value
  BY <1>2, <1>3 DEF SlotInv, Signals
<1> HIDE DEF c, v
<1>8. Signals'
  <2>1. \A s \in Slots : completed'[s] <= fence_value'[s]
    BY <1>1, <1>5, <1>6 DEF SlotInv, Signals
  <2>2. ASSUME NEW i \in 1..(n - 1)
        PROVE  /\ completed'[gpu'[i].slot] < gpu'[i].value
               /\ gpu'[i].value <= fence_value'[gpu'[i].slot]
    <3>1. gpu[i + 1].slot \in Slots
      BY <1>2, <1>7
    <3>2. /\ completed[gpu[i + 1].slot] < gpu[i + 1].value
          /\ gpu[i + 1].value <= fence_value[gpu[i + 1].slot]
      BY <1>2, <1>7 DEF SlotInv, Signals
    <3> QED BY <1>1, <1>6, <1>7, <3>1, <3>2
  <2>3. ASSUME NEW i \in 1..(n - 1), NEW j \in 1..(n - 1),
               i < j, gpu'[i].slot = gpu'[j].slot
        PROVE  gpu'[i].value < gpu'[j].value
    <3>1. /\ gpu'[i] = gpu[i + 1] /\ gpu'[j] = gpu[j + 1]
          /\ i + 1 \in DOMAIN gpu /\ j + 1 \in DOMAIN gpu /\ i + 1 < j + 1
      BY <1>2, <1>7, <2>3
    <3> QED BY <2>3, <3>1 DEF SlotInv, Signals
  <2> QED BY <1>3, <2>1, <2>2, <2>3 DEF Signals
<1>9. OtherSlot'
  BY <1>1, <1>2, <1>3, <1>7 DEF SlotInv, OtherSlot
<1>10. Free => Free'
  BY <1>1, <1>2, <1>3, <1>7 DEF Free
<1> QED BY <1>1, <1>8, <1>9, <1>10 DEF SlotInv, FreeWhenIdle

\* Shutdown finds every fence passed, so that nothing is left to finish.
LEMMA SlotsReset == Types /\ SlotInv /\ Shutdown => SlotInv'
<1> SUFFICES ASSUME Types, SlotInv, Shutdown PROVE SlotInv'
  OBVIOUS
<1>1. DOMAIN gpu = {}
  <2>1. \A i \in DOMAIN gpu : gpu[i].slot \in Slots
    BY QueueTypes DEF Types
  <2>2. \A s \in Slots : \A i \in DOMAIN gpu : gpu[i].slot # s
    BY PassedIsDone DEF Shutdown, Types, SlotInv
  <2> QED BY <2>1, <2>2
<1>2. /\ gpu' = gpu /\ completed' = completed /\ fence_value' = fence_value
      /\ command_index' = 0 /\ data_pack_index' = -1
  BY DEF Shutdown, FreshState, gpuVars
<1> QED BY <1>1, <1>2 DEF SlotInv, Signals, OtherSlot, FreeWhenIdle, Free

LEMMA SlotsRenewed == Types /\ SlotInv /\ Initialize => SlotInv'
<1> SUFFICES ASSUME Types, SlotInv, Initialize PROVE SlotInv'
  OBVIOUS
<1>1. /\ gpu' = gpu /\ fence_value' = fence_value /\ pc' = pc /\ hung' = hung
      /\ command_index' = command_index /\ data_pack_index' = data_pack_index
      /\ completed' = [s \in Slots |-> 0]
  BY DEF Initialize, packVars, listVars, hostVars, historyVars
<1>2. \A s \in Slots : completed'[s] = 0 /\ fence_value[s] \in Nat
                       /\ completed[s] \in Nat
  BY <1>1 DEF Types, ListTypes
<1>3. Signals'
  BY <1>1, <1>2, QueueTypes DEF Types, SlotInv, Signals
<1> QED BY <1>1, <1>3 DEF SlotInv, OtherSlot, FreeWhenIdle, Free

LEMMA SlotsKept == Types /\ SlotInv /\ [Next]_vars => SlotInv'
<1> SUFFICES ASSUME Types, SlotInv, [Next]_vars PROVE SlotInv'
  OBVIOUS
<1> USE DEF slotVars, packVars, gpuVars, listVars, historyVars, hostVars,
            poolVars, streamVars
<1>1. CASE Initialize \/ SubmitLast \/ FencePassed \/ FenceIgnored \/ Shutdown
           \/ GpuFinish
  BY <1>1, SlotsRenewed, SlotsSubmitted, SlotsSwitched, SlotsReset,
     SlotsFinished
<1>2. ASSUME NEW w \in Widths, CallSubmit(w) PROVE SlotInv'
  BY <1>2, SlotsAside DEF CallSubmit
<1>3. CASE NoTexture \/ StopSender \/ CallShutdown
  BY <1>3, SlotsAside DEF NoTexture, StopSender, CallShutdown
<1>4. CASE SharedPoolFails \/ ReadbackPoolFails
  <2>1. UNCHANGED slotVars /\ hung' = hung /\ pc = "pool"
    BY <1>4 DEF SharedPoolFails, ReadbackPoolFails, NoPool, TooSmall
  <2> QED BY <2>1, SlotsAside
<1>5. CASE EnsureSharedPool \/ EnsureReadbackPool
  <2>1. UNCHANGED slotVars /\ hung' = hung /\ pc' = pc
    BY <1>5 DEF EnsureSharedPool, EnsureReadbackPool, NewPool
  <2> QED BY <2>1, SlotsAside
<1>6. CASE SubmitMore
  BY <1>6, SlotsAside DEF SubmitMore, Record
<1>7. ASSUME NEW skipped \in SUBSET Layers, ConsumeAndSend(skipped) PROVE SlotInv'
  BY <1>7, SlotsAside DEF ConsumeAndSend
<1>8. CASE ConsumeReleased \/ ConsumeAsserts \/ FenceTimeout
  BY <1>8, SlotsAside DEF ConsumeReleased, ConsumeAsserts, FenceTimeout
<1>9. CASE UNCHANGED vars
  BY <1>9, SlotsAside DEF vars
<1> QED BY <1>1, <1>2, <1>3, <1>4, <1>5, <1>6, <1>7, <1>8, <1>9
          DEF Next, HostStep, TimeoutStep

LEMMA SlotInvariance == Spec => [](Types /\ SlotInv)
<1>1. Types /\ SlotInv /\ [Next]_vars => (Types /\ SlotInv)'
  BY TypesKept, SlotsKept
<1> QED BY <1>1, InitTypes, InitSlots, PTL DEF Spec

(* An allocator is reset (converter.cpp:294) only when the GPU is done with *)
(* what was recorded from it, whatever fails before, unless a fence wait is *)
(* given up.                                                                *)
THEOREM FreeAllocator == Spec => []AllocatorIsFree
<1>1. SlotInv => AllocatorIsFree
  BY DEF SlotInv, FreeWhenIdle, Free, AllocatorIsFree
<1> QED BY <1>1, SlotInvariance, PTL

-----------------------------------------------------------------------------
(* The packs.                                                              *)

\* The first n streams of the frame, each once.
Holds(pack, n) ==
  /\ Len(pack) = n
  /\ \A s \in Streams : s < n => pack[s + 1].layer = LayerOf(s)
                                 /\ pack[s + 1].frame = frame

\* As long as nothing failed or was skipped, the pack that is filled holds the
\* streams that were submitted, and the other is empty.
PackInv ==
  steady =>
    /\ pc \in {"idle", "pool", "shutdown", "stopping"} =>
         /\ image_index = stream
         /\ Holds(data_pack[Into], stream) /\ data_pack[1 - Into] = <<>>
    /\ pc = "stopping" => stream = 0
    /\ pc = "fence" =>
         /\ stream = NStreams - 1
         /\ Holds(data_pack[Into], NStreams) /\ data_pack[1 - Into] = <<>>
    /\ pc = "send" =>
         /\ stream = NStreams - 1 /\ image_index = 0 /\ data_pack_index # -1
         /\ Holds(data_pack[ReadyIndex], NStreams)
         /\ data_pack[1 - ReadyIndex] = <<>>

LEMMA InitPacks == Init => PackInv
BY EmptySeq DEF Init, PackInv, Into, Holds

\* A copy that is recorded is the next of its frame.
LEMMA RecordExtends ==
  ASSUME Types, PackInv, steady, Record
  PROVE  /\ stream + 1 <= NStreams
         /\ Holds(data_pack'[Into], stream + 1) /\ data_pack'[1 - Into] = <<>>
<1> DEFINE out == [layer |-> LayerOf(stream), bank |-> bank[LayerOf(stream)],
                   frame |-> frame, gen |-> gen, full |-> FillsBuffer]
           pack == data_pack[Into]
<1>1. /\ out \in Copies
      /\ data_pack' = [data_pack EXCEPT ![Into] = Append(@, out)]
  BY RecordEffect
<1>2. stream \in Streams /\ pack \in Seq(Copies)
  BY DEF Types, HostTypes, PackTypes, Into
<1>3. Holds(pack, stream) /\ data_pack[1 - Into] = <<>>
  BY DEF PackInv, Record
<1>4. data_pack'[Into] = Append(pack, out) /\ data_pack'[1 - Into] = <<>>
  BY <1>1, <1>3 DEF Types, PackTypes, Into
<1>5. out.layer = LayerOf(stream) /\ out.frame = frame
  OBVIOUS
<1> HIDE DEF out
<1> DEFINE longer == Append(pack, out)
<1>6. /\ Len(longer) = stream + 1 /\ longer[stream + 1] = out
      /\ \A i \in 1..stream : longer[i] = pack[i]
  BY <1>1, <1>2, <1>3, AppendProperties DEF Holds
<1> HIDE DEF pack, longer
<1>7. ASSUME NEW s \in Streams, s < stream + 1
      PROVE  longer[s + 1].layer = LayerOf(s) /\ longer[s + 1].frame = frame
  <2>1. CASE s = stream
    BY <1>5, <1>6, <2>1
  <2>2. CASE s < stream
    <3>1. longer[s + 1] = pack[s + 1]
      BY <1>2, <1>6, <2>2
    <3>2. pack[s + 1].layer = LayerOf(s) /\ pack[s + 1].frame = frame
      BY <1>3, <2>2 DEF Holds
    <3> QED BY <3>1, <3>2
  <2> QED BY <1>2, <1>7, <2>1, <2>2
<1>8. Holds(longer, stream + 1)
  BY <1>6, <1>7 DEF Holds
<1> QED BY <1>2, <1>4, <1>8 DEF longer

\* Most steps leave the packs alone.
packsVars == <<data_pack, data_pack_index, image_index, stream, frame>>

LEMMA PacksAside ==
  ASSUME PackInv, UNCHANGED packsVars, steady' => steady,
         \/ pc' = pc
         \/ pc \in {"idle", "pool", "shutdown", "stopping"}
            /\ pc' \in {"idle", "pool", "shutdown"}
         \/ pc' = "aborted"
  PROVE  PackInv'
<1>1. Into' = Into /\ ReadyIndex' = ReadyIndex
  BY DEF Into, ReadyIndex, packsVars
<1> QED BY <1>1 DEF PackInv, Holds, packsVars

LEMMA PacksFilled == Types /\ PackInv /\ SubmitMore => PackInv'
<1> SUFFICES ASSUME Types, PackInv, SubmitMore, steady' PROVE PackInv'
  BY DEF PackInv
<1>1. /\ steady /\ Record /\ pc = "pool" /\ pc' = "idle" /\ NextStream
      /\ image_index # NStreams - 1 /\ image_index' = image_index + 1
      /\ data_pack_index' = data_pack_index
  BY DEF SubmitMore, Record, historyVars
<1>2. stream \in Streams /\ image_index = stream
  BY <1>1 DEF PackInv, Types, HostTypes
<1>3. stream' = stream + 1 /\ frame' = frame
  BY <1>1, <1>2 DEF NextStream
<1>4. Holds(data_pack'[Into], stream + 1) /\ data_pack'[1 - Into] = <<>>
  BY <1>1, RecordExtends
<1>5. Into' = Into
  BY <1>1 DEF Into
<1>6. Holds(data_pack[Into], stream)'
  BY <1>3, <1>4, <1>5 DEF Holds
<1> QED BY <1>1, <1>2, <1>3, <1>4, <1>5, <1>6 DEF PackInv

LEMMA PacksComplete == Types /\ PackInv /\ SubmitLast => PackInv'
<1> SUFFICES ASSUME Types, PackInv, SubmitLast, steady' PROVE PackInv'
  BY DEF PackInv
<1>1. /\ steady /\ Record /\ pc = "pool" /\ pc' = "fence"
      /\ image_index = NStreams - 1
      /\ data_pack_index' = data_pack_index /\ stream' = stream /\ frame' = frame
  BY DEF SubmitLast, Record, historyVars
<1>2. stream = NStreams - 1
  BY <1>1 DEF PackInv
<1>3. Holds(data_pack'[Into], NStreams) /\ data_pack'[1 - Into] = <<>>
  <2>1. stream + 1 = NStreams
    BY <1>2
  <2> QED BY <1>1, <2>1, RecordExtends
<1>4. Into' = Into
  BY <1>1 DEF Into
<1>5. Holds(data_pack[Into], NStreams)'
  BY <1>1, <1>3, <1>4 DEF Holds
<1> QED BY <1>1, <1>2, <1>3, <1>4, <1>5 DEF PackInv

LEMMA PacksSwitched == Types /\ PackInv /\ FencePassed => PackInv'
<1> SUFFICES ASSUME Types, PackInv, FencePassed, steady' PROVE PackInv'
  BY DEF PackInv
<1>1. /\ steady /\ pc = "fence" /\ pc' = "send" /\ image_index' = 0
      /\ data_pack_index' = (data_pack_index + 1) % 2
      /\ data_pack' = data_pack /\ stream' = stream /\ frame' = frame
  BY DEF FencePassed, SwitchSlots
<1>2. data_pack_index' # -1 /\ ReadyIndex' = Into
  <2>1. data_pack_index \in {-1, 0, 1}
    BY DEF Types, PackTypes
  <2> QED BY <1>1, <2>1 DEF ReadyIndex, Into
<1>3. /\ stream = NStreams - 1
      /\ Holds(data_pack[Into], NStreams) /\ data_pack[1 - Into] = <<>>
  BY <1>1 DEF PackInv
<1>4. Holds(data_pack[ReadyIndex], NStreams)'
  BY <1>1, <1>2, <1>3 DEF Holds
<1> QED BY <1>1, <1>2, <1>3, <1>4 DEF PackInv

LEMMA PacksSent ==
  ASSUME Types, PackInv, NEW skipped \in SUBSET Layers, ConsumeAndSend(skipped)
  PROVE  PackInv'
<1> SUFFICES ASSUME steady' PROVE PackInv'
  BY DEF PackInv
<1>1. /\ steady /\ pc = "send" /\ pc' = "idle" /\ NextStream
      /\ data_pack' = [data_pack EXCEPT ![ReadyIndex] = <<>>]
      /\ data_pack_index' = data_pack_index /\ image_index' = image_index
  BY DEF ConsumeAndSend
<1>2. /\ stream = NStreams - 1 /\ image_index = 0
      /\ data_pack_index \in Slots /\ data_pack[1 - ReadyIndex] = <<>>
  BY <1>1 DEF PackInv, Types, PackTypes
<1>3. stream' = 0
  BY <1>1, <1>2 DEF NextStream
<1>4. Into' = data_pack_index /\ ReadyIndex = 1 - data_pack_index
  BY <1>1, <1>2 DEF Into, ReadyIndex
<1>5. data_pack'[0] = <<>> /\ data_pack'[1] = <<>>
  BY <1>1, <1>2, <1>4 DEF Types, PackTypes
<1>6. data_pack'[Into'] = <<>> /\ data_pack'[1 - Into'] = <<>>
  BY <1>2, <1>4, <1>5
<1>7. Holds(data_pack[Into], 0)'
  BY <1>6, EmptySeq DEF Holds
<1> QED BY <1>1, <1>2, <1>3, <1>6, <1>7 DEF PackInv

LEMMA PacksReset == PackInv /\ Shutdown => PackInv'
<1> SUFFICES ASSUME PackInv, Shutdown, steady' PROVE PackInv'
  BY DEF PackInv
<1>1. /\ pc' = "stopping" /\ stream' = 0 /\ image_index' = 0
      /\ data_pack_index' = -1 /\ data_pack' = [s \in Slots |-> <<>>]
  BY DEF Shutdown, FreshState
<1>2. data_pack'[Into'] = <<>> /\ data_pack'[1 - Into'] = <<>>
  BY <1>1 DEF Into
<1>3. Holds(data_pack[Into], 0)'
  BY <1>2, EmptySeq DEF Holds
<1> QED BY <1>1, <1>2, <1>3 DEF PackInv

LEMMA PacksKept == Types /\ PackInv /\ [Next]_vars => PackInv'
<1> SUFFICES ASSUME Types, PackInv, [Next]_vars PROVE PackInv'
  OBVIOUS
<1> USE DEF packsVars, packVars, gpuVars, listVars, historyVars, hostVars,
            poolVars, streamVars
<1>1. CASE SubmitMore \/ SubmitLast \/ FencePassed \/ Shutdown
  BY <1>1, PacksFilled, PacksComplete, PacksSwitched, PacksReset
<1>2. ASSUME NEW skipped \in SUBSET Layers, ConsumeAndSend(skipped) PROVE PackInv'
  BY <1>2, PacksSent
<1>3. CASE NoTexture \/ FenceIgnored
  BY <1>3 DEF NoTexture, FenceIgnored, PackInv
<1>4. CASE SharedPoolFails \/ ReadbackPoolFails
  BY <1>4 DEF SharedPoolFails, ReadbackPoolFails, NoPool, PackInv
<1>5. CASE EnsureSharedPool \/ EnsureReadbackPool
  <2>1. UNCHANGED packsVars /\ steady' = steady /\ pc' = pc
    BY <1>5 DEF EnsureSharedPool, EnsureReadbackPool, NewPool
  <2> QED BY <2>1, PacksAside
<1>6. ASSUME NEW w \in Widths, CallSubmit(w) PROVE PackInv'
  BY <1>6, PacksAside DEF CallSubmit
<1>7. CASE Initialize \/ GpuFinish
  BY <1>7, PacksAside DEF Initialize, GpuFinish
<1>8. CASE ConsumeReleased \/ ConsumeAsserts \/ FenceTimeout
  BY <1>8, PacksAside DEF ConsumeReleased, ConsumeAsserts, FenceTimeout
<1>9. CASE CallShutdown \/ StopSender
  BY <1>9, PacksAside DEF CallShutdown, StopSender
<1>10. CASE UNCHANGED vars
  BY <1>10, PacksAside DEF vars
<1> QED BY <1>1, <1>2, <1>3, <1>4, <1>5, <1>6, <1>7, <1>8, <1>9, <1>10
          DEF Next, HostStep, TimeoutStep

(* What rs_sendFrame2 hands to the sender at the end of a frame is that     *)
(* frame, each of any number of streams once (converter.cpp:448-460).       *)
THEOREM WholeFrames == Spec => []PackIsOneFrame
<1>1. Types /\ PackInv /\ [Next]_vars => (Types /\ PackInv)'
  BY TypesKept, PacksKept
<1>2. PackInv => PackIsOneFrame
  BY DEF PackInv, Holds, PackIsOneFrame
<1> QED BY <1>1, <1>2, InitTypes, InitPacks, PTL DEF Spec
-----------------------------------------------------------------------------
(* What the sender reads and the GPU writes.                               *)

HeldTypes == held \in [Layers -> Copies \cup {Nothing}]

\* The pack that is filled or, when the slots have switched, handed out.
Current == data_pack[IF pc = "send" THEN ReadyIndex ELSE Into]

\* How many streams of the frame are in it.
Recorded == IF pc \in {"fence", "send"} THEN NStreams ELSE stream

SameBuffer(o, h) == h # Nothing /\ h.bank = o.bank /\ h.gen = o.gen
Harmless(o) ==
  SameBuffer(o, held[o.layer]) => held[o.layer].frame = o.frame

\* A copy of this frame, into another buffer than the sender's.
Fresh(o) ==
  /\ o.layer \in Streams /\ o.frame = frame
  /\ pc # "send" => ~SameBuffer(o, held[o.layer])

\* While a frame is recorded the next bank of a layer is not the sender's;
\* where this frame has been copied, the next is not that one either.
NextBank(l) ==
  IF l < Recorded
  THEN LET o == Current[l + 1]
       IN o.gen <= gen /\ (o.gen = gen => bank[l] # o.bank)
  ELSE held[l] # Nothing /\ held[l].gen = gen => bank[l] # held[l].bank

Buffers ==
  /\ \A l \in Layers : held[l] # Nothing => held[l].gen <= gen
  /\ \A i \in DOMAIN gpu : \A o \in gpu[i].copies : Harmless(o)
  /\ pc = "pool" => ~reset_command
  /\ pc \in {"fence", "send", "stopping"} => reset_command
  /\ pc \in {"idle", "pool"} /\ ~reset_command =>
       \A o \in recording : Fresh(o)
  /\ \A i \in DOMAIN gpu :
       pc = "send" \/ (pc = "fence" /\ gpu[i].slot = command_index) =>
         \A o \in gpu[i].copies : Fresh(o)
  /\ pc \in {"idle", "pool", "fence", "send"} => \A l \in Streams : NextBank(l)

BufferInv == /\ steady => ~hung
             /\ steady /\ NStreams <= kMaxLayers => Buffers

LEMMA InitBuffers == Init => HeldTypes /\ BufferInv
BY EmptySeq DEF Init, HeldTypes, BufferInv, Buffers, NextBank, Recorded

\* A bounded set of numbers has a largest: what is above it in the set is least.
LEMMA MaxIsMax ==
  ASSUME NEW n \in Nat, NEW S, \A x \in S : x \in Nat /\ x <= n, S # {}
  PROVE  Max(S) \in S /\ \A y \in S : y <= Max(S)
<1> DEFINE Above(x) == {y \in S : y > x}
           T == {Above(x) : x \in S}
<1>1. IsFiniteSet(S)
  BY FS_BoundedSetOfNaturals
<1>2. T \subseteq FiniteSubsetsOf(S) /\ T # {}
  <2>1. FiniteSubsetsOf(S) = SUBSET S
    BY <1>1, FS_FiniteSubsetsOfFinite
  <2>2. ASSUME NEW t \in T PROVE t \subseteq S
    OBVIOUS
  <2>3. PICK x \in S : Above(x) \in T
    OBVIOUS
  <2> HIDE DEF T
  <2> QED BY <2>1, <2>2, <2>3
<1>3. PICK t \in T : \A y \in T : <<y, t>> \notin StrictSubsetOrdering(S)
  <2> HIDE DEF T
  <2> QED BY <1>2, FS_StrictSubsetOrderingWellFounded, WFMin
<1>4. PICK m \in S : t = Above(m)
  BY <1>3
<1>5. ASSUME NEW y \in S PROVE m >= y
  <2>1. SUFFICES ASSUME y > m PROVE FALSE
    BY <1>4
  <2>2. Above(y) \subseteq Above(m) /\ y \in Above(m) /\ y \notin Above(y)
    BY <1>4, <2>1
  <2>3. Above(y) \in T /\ Above(y) \subseteq S /\ t \subseteq S
    BY <1>4
  <2> HIDE DEF Above, T
  <2>4. <<Above(y), t>> \in StrictSubsetOrdering(S)
    BY <1>4, <2>2, <2>3 DEF StrictSubsetOrdering
  <2> QED BY <1>3, <2>3, <2>4
<1>6. \A y \in S : Max(S) >= y /\ Max(S) \in S
  BY <1>4, <1>5 DEF Max
<1> QED BY <1>4, <1>6

\* A layer keeps what it has or is sent one of its copies in the ready pack.
LEMMA SentOne ==
  ASSUME Types, NEW skipped, NEW l \in Layers
  PROVE  LET pack == data_pack[ReadyIndex]
         IN \/ Sent(skipped)[l] = held[l]
            \/ \E i \in DOMAIN pack : Sent(skipped)[l] = pack[i]
<1> DEFINE pack == data_pack[ReadyIndex]
           mine == {i \in DOMAIN pack : pack[i].layer = l}
<1>1. pack \in Seq(Copies)
  BY DEF Types, PackTypes, ReadyIndex
<1>2. Len(pack) \in Nat /\ DOMAIN pack = 1..Len(pack)
  BY <1>1, LenProperties
<1>3. CASE mine # {}
  <2>1. \A x \in mine : x \in Nat /\ x <= Len(pack)
    BY <1>2
  <2> HIDE DEF mine
  <2>2. Max(mine) \in mine
    BY <1>2, <1>3, <2>1, MaxIsMax
  <2> QED BY <2>2 DEF Sent, mine
<1>4. CASE mine = {}
  BY <1>4 DEF Sent
<1> QED BY <1>3, <1>4

\* Where each stream has a layer of its own and none is skipped, it is sent
\* its copy.
LEMMA SentEach ==
  ASSUME Types, NStreams <= kMaxLayers, NEW l \in Layers,
         Holds(data_pack[ReadyIndex], NStreams)
  PROVE  Sent({})[l] = IF l \in Streams THEN data_pack[ReadyIndex][l + 1]
                                        ELSE held[l]
<1> DEFINE pack == data_pack[ReadyIndex]
           mine == {i \in DOMAIN pack : pack[i].layer = l}
<1>1. pack \in Seq(Copies)
  BY DEF Types, PackTypes, ReadyIndex
<1>2. DOMAIN pack = 1..NStreams
  BY <1>1, LenProperties DEF Holds
<1>3. ASSUME NEW i \in 1..NStreams PROVE pack[i].layer = i - 1
  <2>1. i - 1 \in Streams /\ i - 1 < NStreams /\ (i - 1) + 1 = i
    BY <1>3
  <2>2. pack[(i - 1) + 1].layer = LayerOf(i - 1)
    BY <2>1 DEF Holds
  <2> QED BY <2>1, <2>2 DEF LayerOf
<1>4. CASE l \in Streams
  <2>1. mine = {l + 1}
    BY <1>2, <1>3, <1>4
  <2>2. Max({l + 1}) = l + 1
    BY <1>4 DEF Max
  <2> QED BY <1>4, <2>1, <2>2 DEF Sent
<1>5. CASE l \notin Streams
  <2>1. mine = {}
    BY <1>2, <1>3, <1>5
  <2> QED BY <1>5, <2>1 DEF Sent
<1> QED BY <1>4, <1>5

LEMMA HeldTypesKept == Types /\ HeldTypes /\ [Next]_vars => HeldTypes'
<1> SUFFICES ASSUME Types, HeldTypes, [Next]_vars PROVE HeldTypes'
  OBVIOUS
<1>1. ASSUME NEW skipped \in SUBSET Layers, ConsumeAndSend(skipped)
      PROVE  HeldTypes'
  <2>1. held' = Sent(skipped)
    BY <1>1 DEF ConsumeAndSend
  <2>2. ASSUME NEW l \in Layers
        PROVE  Sent(skipped)[l] \in Copies \cup {Nothing}
    <3>1. data_pack[ReadyIndex] \in Seq(Copies)
      BY DEF Types, PackTypes, ReadyIndex
    <3>2. \A i \in DOMAIN data_pack[ReadyIndex] :
            data_pack[ReadyIndex][i] \in Copies
      BY <3>1, ElementOfSeq, LenProperties
    <3> QED BY <3>2, SentOne DEF HeldTypes
  <2>3. Sent(skipped) \in [Layers -> Copies \cup {Nothing}]
    BY <2>2 DEF Sent
  <2> QED BY <2>1, <2>3 DEF HeldTypes
<1>2. CASE StopSender
  BY <1>2 DEF StopSender, HeldTypes
<1>3. CASE held' = held
  BY <1>3 DEF HeldTypes
<1>4. CASE Initialize \/ NoTexture \/ SharedPoolFails \/ ReadbackPoolFails
           \/ ConsumeReleased \/ ConsumeAsserts
           \/ EnsureSharedPool \/ EnsureReadbackPool
  BY <1>3, <1>4 DEF Initialize, NoTexture, SharedPoolFails, ReadbackPoolFails,
     NoPool, ConsumeReleased, ConsumeAsserts, EnsureSharedPool,
     EnsureReadbackPool, NewPool
<1>5. ASSUME NEW w \in Widths, CallSubmit(w) PROVE HeldTypes'
  BY <1>3, <1>5 DEF CallSubmit
<1>6. CASE SubmitMore \/ SubmitLast \/ FencePassed \/ Shutdown \/ TimeoutStep
           \/ CallShutdown \/ GpuFinish \/ UNCHANGED vars
  BY <1>3, <1>6 DEF SubmitMore, SubmitLast, FencePassed, Shutdown, TimeoutStep,
     FenceTimeout, FenceIgnored, SwitchSlots, CallShutdown, GpuFinish, vars
<1> QED BY <1>1, <1>2, <1>4, <1>5, <1>6 DEF Next, HostStep

\* What the copy of a stream with a layer of its own is, and what its bank is.
LEMMA RecordOwn ==
  ASSUME Types, NStreams <= kMaxLayers, Record
  PROVE  LET out == [layer |-> stream, bank |-> bank[stream],
                     frame |-> frame, gen |-> gen, full |-> FillsBuffer]
         IN  /\ out \in Copies
             /\ bank' = [bank EXCEPT ![stream] = 1 - @]
             /\ recording' = recording \cup {out}
             /\ data_pack' = [data_pack EXCEPT ![Into] = Append(@, out)]
<1>1. stream \in Streams
  BY DEF Types, HostTypes
<1>2. LayerOf(stream) = stream
  BY <1>1 DEF LayerOf
<1> QED BY <1>2, RecordEffect DEF Record

\* It goes into another buffer than the sender's, and the next bank is not its.
LEMMA RecordFresh ==
  ASSUME Types, HeldTypes, PackInv, Buffers, steady, NStreams <= kMaxLayers,
         Record
  PROVE  /\ \A o \in recording' : o.layer \in Streams /\ o.frame = frame
                                  /\ ~SameBuffer(o, held[o.layer])
         /\ \A l \in Streams : l < stream + 1 =>
              LET o == data_pack'[Into][l + 1]
              IN o.gen <= gen /\ (o.gen = gen => bank'[l] # o.bank)
         /\ \A l \in Streams : l > stream => bank'[l] = bank[l]
<1> DEFINE out == [layer |-> stream, bank |-> bank[stream],
                   frame |-> frame, gen |-> gen, full |-> FillsBuffer]
           pack == data_pack[Into]
<1>1. /\ out \in Copies
      /\ bank' = [bank EXCEPT ![stream] = 1 - @]
      /\ recording' = recording \cup {out}
      /\ data_pack' = [data_pack EXCEPT ![Into] = Append(@, out)]
  BY RecordOwn
<1>2. /\ stream \in Streams /\ stream \in Layers /\ gen \in Nat
      /\ bank \in [Layers -> Slots] /\ pack \in Seq(Copies)
      /\ pc = "pool" /\ ~reset_command
  BY DEF Types, HostTypes, PoolTypes, PackTypes, Into, Record, Buffers
<1>3. NextBank(stream) /\ ~(stream < Recorded)
  BY <1>2 DEF Buffers, Recorded
<1>4. ~SameBuffer(out, held[stream])
  BY <1>3 DEF NextBank, SameBuffer
<1>5. ASSUME NEW o \in recording'
      PROVE  o.layer \in Streams /\ o.frame = frame
             /\ ~SameBuffer(o, held[o.layer])
  <2>1. CASE o \in recording
    BY <1>2, <2>1 DEF Buffers, Fresh
  <2>2. CASE o = out
    BY <1>2, <1>4, <2>2
  <2> QED BY <1>1, <1>5, <2>1, <2>2
<1>6. /\ out.gen = gen /\ out.bank = bank[stream] /\ bank[stream] \in Slots
      /\ bank'[stream] = 1 - bank[stream]
      /\ \A l \in Layers : l # stream => bank'[l] = bank[l]
  BY <1>1, <1>2
<1> HIDE DEF out
<1>7. data_pack'[Into] = Append(pack, out) /\ Len(pack) = stream
  <2>1. data_pack \in [Slots -> Seq(Copies)] /\ Into \in Slots
    BY DEF Types, PackTypes, Into
  <2> QED BY <1>1, <1>2, <2>1 DEF PackInv, Holds
<1>8. /\ Append(pack, out)[stream + 1] = out
      /\ \A i \in 1..stream : Append(pack, out)[i] = pack[i]
  BY <1>1, <1>2, <1>7, AppendProperties
<1>9. ASSUME NEW l \in Streams, l < stream + 1
      PROVE  LET o == data_pack'[Into][l + 1]
             IN o.gen <= gen /\ (o.gen = gen => bank'[l] # o.bank)
  <2>1. CASE l = stream
    BY <1>2, <1>6, <1>7, <1>8, <2>1
  <2>2. CASE l < stream
    <3>1. NextBank(l) /\ l < Recorded /\ Current = pack
      BY <1>2, <2>2 DEF Buffers, Recorded, Current
    <3>2. data_pack'[Into][l + 1] = pack[l + 1]
      <4>1. l + 1 \in 1..stream
        BY <1>2, <2>2
      <4> QED BY <1>7, <1>8, <4>1
    <3>3. bank'[l] = bank[l]
      BY <1>2, <1>6, <2>2
    <3> QED BY <3>1, <3>2, <3>3 DEF NextBank
  <2> QED BY <1>2, <1>9, <2>1, <2>2
<1>10. \A l \in Streams : l > stream => bank'[l] = bank[l]
  BY <1>2, <1>6
<1> QED BY <1>5, <1>9, <1>10

\* Most steps leave the buffers alone.
bufferVars == <<held, gen, bank, recording, reset_command, command_index, gpu,
                data_pack, data_pack_index, stream, frame>>

LEMMA BuffersAside ==
  ASSUME BufferInv, UNCHANGED bufferVars, steady' => steady /\ hung' = hung,
         pc' = pc \/ pc' \in {"aborted", "shutdown"}
  PROVE  BufferInv'
<1>1. Into' = Into /\ ReadyIndex' = ReadyIndex
  BY DEF Into, ReadyIndex, bufferVars
<1>2. ASSUME Buffers PROVE Buffers'
  <2>1. \A o : Harmless(o)' = Harmless(o)
    BY DEF Harmless, SameBuffer, bufferVars
  <2>2. CASE pc' = pc
    <3>1. \A o : Fresh(o)' = Fresh(o)
      BY <2>2 DEF Fresh, SameBuffer, bufferVars
    <3>2. \A l : NextBank(l)' = NextBank(l)
      BY <1>1, <2>2 DEF NextBank, Recorded, Current, bufferVars
    <3> QED BY <1>2, <2>1, <2>2, <3>1, <3>2 DEF Buffers, bufferVars
  <2>3. CASE pc' \in {"aborted", "shutdown"}
    BY <1>2, <2>1, <2>3 DEF Buffers, bufferVars
  <2> QED BY <2>2, <2>3
<1> QED BY <1>2 DEF BufferInv

LEMMA BuffersFilled ==
  Types /\ HeldTypes /\ PackInv /\ BufferInv /\ SubmitMore => BufferInv'
<1> SUFFICES ASSUME Types, HeldTypes, PackInv, BufferInv, SubmitMore, steady'
             PROVE  BufferInv'
  BY DEF BufferInv
<1>1. /\ steady /\ ~hung' /\ Record /\ pc = "pool" /\ pc' = "idle" /\ NextStream
      /\ held' = held /\ gen' = gen /\ gpu' = gpu
      /\ command_index' = command_index /\ reset_command' = reset_command
      /\ image_index # NStreams - 1 /\ data_pack_index' = data_pack_index
  BY DEF SubmitMore, Record, historyVars, gpuVars, BufferInv
<1>2. stream \in Streams /\ stream' = stream + 1 /\ frame' = frame /\ Into' = Into
  BY <1>1 DEF PackInv, Types, HostTypes, NextStream, Into
<1> SUFFICES ASSUME NStreams <= kMaxLayers PROVE Buffers'
  BY <1>1 DEF BufferInv
<1>3. Buffers
  BY <1>1 DEF BufferInv
<1>4. /\ \A o \in recording' : o.layer \in Streams /\ o.frame = frame
                               /\ ~SameBuffer(o, held[o.layer])
      /\ \A l \in Streams : l < stream + 1 =>
           LET o == data_pack'[Into][l + 1]
           IN o.gen <= gen /\ (o.gen = gen => bank'[l] # o.bank)
      /\ \A l \in Streams : l > stream => bank'[l] = bank[l]
  BY <1>1, <1>3, RecordFresh
<1>5. \A o \in recording' : Fresh(o)'
  BY <1>1, <1>2, <1>4 DEF Fresh, SameBuffer
<1>6. ASSUME NEW l \in Streams PROVE NextBank(l)'
  <2>1. Recorded' = stream + 1 /\ Current' = data_pack'[Into]
    BY <1>1, <1>2 DEF Recorded, Current
  <2>2. CASE l < stream + 1
    BY <1>1, <1>4, <2>1, <2>2 DEF NextBank
  <2>3. CASE l > stream
    <3>1. NextBank(l) /\ Recorded = stream
      BY <1>1, <1>3 DEF Buffers, Recorded
    <3>2. ~(l < Recorded) /\ ~(l < Recorded')
      BY <1>2, <2>1, <2>3, <3>1
    <3> QED BY <1>1, <1>4, <2>3, <3>1, <3>2 DEF NextBank
  <2> QED BY <1>2, <2>2, <2>3
<1>7. \A o : Harmless(o)' = Harmless(o)
  BY <1>1 DEF Harmless, SameBuffer
<1> QED BY <1>1, <1>3, <1>5, <1>6, <1>7 DEF Buffers

LEMMA BuffersSubmitted ==
  Types /\ HeldTypes /\ PackInv /\ SlotInv /\ BufferInv /\ SubmitLast
    => BufferInv'
<1> SUFFICES ASSUME Types, HeldTypes, PackInv, SlotInv, BufferInv, SubmitLast,
                    steady'
             PROVE  BufferInv'
  BY DEF BufferInv
<1> DEFINE n == Len(gpu)
           e == [slot |-> command_index, value |-> fence_value'[command_index],
                 copies |-> recording']
<1>1. /\ steady /\ ~hung /\ ~hung' /\ Record /\ pc = "pool" /\ pc' = "fence"
      /\ held' = held /\ gen' = gen /\ gpu' = Append(gpu, e)
      /\ command_index' = command_index /\ reset_command'
      /\ stream' = stream /\ frame' = frame /\ data_pack_index' = data_pack_index
  BY DEF SubmitLast, Record, historyVars, BufferInv
<1>2. stream = NStreams - 1 /\ Into' = Into
  BY <1>1 DEF SubmitLast, PackInv, Into
<1> SUFFICES ASSUME NStreams <= kMaxLayers PROVE Buffers'
  BY <1>1 DEF BufferInv
<1>3. Buffers
  BY <1>1 DEF BufferInv
<1>4. /\ \A o \in recording' : o.layer \in Streams /\ o.frame = frame
                               /\ ~SameBuffer(o, held[o.layer])
      /\ \A l \in Streams : l < stream + 1 =>
           LET o == data_pack'[Into][l + 1]
           IN o.gen <= gen /\ (o.gen = gen => bank'[l] # o.bank)
  BY <1>1, <1>3, RecordFresh
<1>5. \A o \in recording' : Fresh(o)' /\ Harmless(o)'
  BY <1>1, <1>4 DEF Fresh, Harmless, SameBuffer
<1>6. e.slot = command_index /\ e.copies = recording'
  OBVIOUS
<1>7. gpu \in Seq(Lists) /\ e \in Lists
  <2>1. recording' \in SUBSET Copies
    BY <1>1, RecordTypes
  <2>2. fence_value' \in [Slots -> Nat]
    BY DEF SubmitLast, Types, ListTypes
  <2> QED BY <2>1, <2>2 DEF Types, ListTypes, Lists
<1> HIDE DEF e
<1>8. /\ n \in Nat /\ DOMAIN gpu = 1..n /\ DOMAIN gpu' = 1..(n + 1)
      /\ gpu'[n + 1] = e /\ \A i \in 1..n : gpu'[i] = gpu[i]
  BY <1>1, <1>7, AppendProperties, LenProperties
<1>9. \A i \in 1..n : gpu[i].slot # command_index
  BY <1>1, <1>8 DEF SlotInv, FreeWhenIdle, Free
<1>10. \A o : Harmless(o)' = Harmless(o)
  BY <1>1 DEF Harmless, SameBuffer
<1>11. ASSUME NEW i \in DOMAIN gpu'
       PROVE  /\ \A o \in gpu'[i].copies : Harmless(o)'
              /\ gpu'[i].slot = command_index =>
                   \A o \in gpu'[i].copies : Fresh(o)'
  <2>1. CASE i = n + 1
    BY <1>5, <1>6, <1>8, <2>1
  <2>2. CASE i \in 1..n
    BY <1>3, <1>8, <1>9, <1>10, <2>2 DEF Buffers
  <2> QED BY <1>8, <2>1, <2>2
<1>12. ASSUME NEW l \in Streams PROVE NextBank(l)'
  <2>1. Recorded' = NStreams /\ Current' = data_pack'[Into]
    BY <1>1, <1>2 DEF Recorded, Current
  <2>2. l < NStreams /\ l < stream + 1
    BY <1>2
  <2> QED BY <1>1, <1>4, <2>1, <2>2 DEF NextBank
<1> QED BY <1>1, <1>3, <1>11, <1>12 DEF Buffers

\* After the wait the GPU has no copy but of this frame.
LEMMA BuffersSwitched ==
  Types /\ SlotInv /\ BufferInv /\ FencePassed => BufferInv'
<1> SUFFICES ASSUME Types, SlotInv, BufferInv, FencePassed, steady'
             PROVE  BufferInv'
  BY DEF BufferInv
<1>1. /\ steady /\ ~hung /\ ~hung' /\ pc = "fence" /\ pc' = "send"
      /\ held' = held /\ gen' = gen /\ bank' = bank /\ gpu' = gpu
      /\ reset_command' = reset_command /\ frame' = frame /\ stream' = stream
      /\ data_pack' = data_pack /\ data_pack_index' = (data_pack_index + 1) % 2
  BY DEF FencePassed, SwitchSlots, BufferInv, poolVars, gpuVars
<1> SUFFICES ASSUME NStreams <= kMaxLayers PROVE Buffers'
  BY <1>1 DEF BufferInv
<1>2. Buffers
  BY <1>1 DEF BufferInv
<1>3. data_pack_index \in {-1, 0, 1} /\ command_index \in {0, 1}
  BY DEF Types, PackTypes, ListTypes
<1>4. ReadyIndex' = Into
  BY <1>1, <1>3 DEF ReadyIndex, Into
<1>5. \A i \in DOMAIN gpu : gpu[i].slot = command_index
  <2>1. CASE data_pack_index = -1
    BY <2>1 DEF SlotInv, OtherSlot
  <2>2. CASE data_pack_index # -1
    <3>1. data_pack_index \in Slots /\ data_pack_index = 1 - command_index
      BY <1>3, <2>2 DEF SlotInv, OtherSlot
    <3>2. \A i \in DOMAIN gpu : gpu[i].slot # data_pack_index
      BY <3>1, PassedIsDone DEF FencePassed, Types, SlotInv
    <3>3. \A i \in DOMAIN gpu : gpu[i].slot \in Slots
      BY QueueTypes DEF Types
    <3> QED BY <1>3, <3>1, <3>2, <3>3
  <2> QED BY <2>1, <2>2
<1>6. \A o : Harmless(o)' = Harmless(o)
  BY <1>1 DEF Harmless, SameBuffer
<1>7. \A o : Fresh(o) => Fresh(o)'
  BY <1>1 DEF Fresh
<1>8. \A i \in DOMAIN gpu : \A o \in gpu[i].copies : Fresh(o)'
  BY <1>1, <1>2, <1>5, <1>7 DEF Buffers
<1>9. Recorded' = Recorded /\ Current' = Current
  BY <1>1, <1>4 DEF Recorded, Current
<1>10. \A l \in Streams : NextBank(l)'
  BY <1>1, <1>2, <1>9 DEF Buffers, NextBank
<1> QED BY <1>1, <1>2, <1>6, <1>8, <1>10 DEF Buffers

\* Each layer is sent the copy of this frame, which is all the GPU has.
LEMMA BuffersSent ==
  ASSUME Types, HeldTypes, PackInv, BufferInv, NEW skipped \in SUBSET Layers,
         ConsumeAndSend(skipped)
  PROVE  BufferInv'
<1> SUFFICES ASSUME steady' PROVE BufferInv'
  BY DEF BufferInv
<1>1. /\ steady /\ ~hung /\ ~hung' /\ skipped = {} /\ pc = "send" /\ pc' = "idle"
      /\ held' = Sent({}) /\ gen' = gen /\ bank' = bank /\ gpu' = gpu
      /\ reset_command' = reset_command /\ recording' = recording /\ NextStream
  BY DEF ConsumeAndSend, BufferInv, poolVars, gpuVars, listVars
<1> SUFFICES ASSUME NStreams <= kMaxLayers PROVE Buffers'
  BY <1>1 DEF BufferInv
<1>2. Buffers
  BY <1>1 DEF BufferInv
<1> DEFINE pack == data_pack[ReadyIndex]
<1>3. /\ stream = NStreams - 1 /\ stream' = 0 /\ Holds(pack, NStreams)
      /\ Current = pack /\ Recorded = NStreams /\ Recorded' = 0
  BY <1>1 DEF PackInv, NextStream, Current, Recorded
<1>4. \A l \in Layers :
        held'[l] = IF l \in Streams THEN pack[l + 1] ELSE held[l]
  BY <1>1, <1>3, SentEach
<1>5. \A l \in Streams : /\ l \in Layers /\ l < NStreams /\ pack[l + 1].frame = frame
                         /\ NextBank(l)
  BY <1>1, <1>2, <1>3 DEF Holds, Buffers
<1> HIDE DEF pack
<1>6. \A l \in Layers : held'[l] # Nothing => held'[l].gen <= gen'
  BY <1>1, <1>2, <1>3, <1>4, <1>5 DEF Buffers, NextBank
<1>7. \A i \in DOMAIN gpu : \A o \in gpu[i].copies : Harmless(o)'
  <2>1. \A i \in DOMAIN gpu : \A o \in gpu[i].copies :
          o.layer \in Streams /\ o.frame = frame
    BY <1>1, <1>2 DEF Buffers, Fresh
  <2> QED BY <1>1, <1>4, <1>5, <2>1 DEF Harmless
<1>8. ASSUME NEW l \in Streams PROVE NextBank(l)'
  BY <1>1, <1>3, <1>4, <1>5 DEF NextBank
<1> QED BY <1>1, <1>2, <1>6, <1>7, <1>8 DEF Buffers

LEMMA BuffersReset == Types /\ SlotInv /\ BufferInv /\ Shutdown => BufferInv'
<1> SUFFICES ASSUME Types, SlotInv, BufferInv, Shutdown, steady' PROVE BufferInv'
  BY DEF BufferInv, Shutdown
<1>1. /\ steady /\ ~hung' /\ held' = held /\ gen' = gen /\ gpu' = gpu
      /\ pc' = "stopping" /\ reset_command'
  BY DEF Shutdown, FreshState, gpuVars
<1>2. DOMAIN gpu = {}
  <2>1. \A i \in DOMAIN gpu : gpu[i].slot \in Slots
    BY QueueTypes DEF Types
  <2>2. \A s \in Slots : \A i \in DOMAIN gpu : gpu[i].slot # s
    BY PassedIsDone DEF Shutdown, Types, SlotInv
  <2> QED BY <2>1, <2>2
<1> QED BY <1>1, <1>2 DEF BufferInv, Buffers

LEMMA BuffersGivenUp == Types /\ PackInv /\ BufferInv /\ StopSender => BufferInv'
<1> SUFFICES ASSUME Types, PackInv, BufferInv, StopSender, steady' PROVE BufferInv'
  BY DEF BufferInv, StopSender, historyVars
<1>1. /\ steady /\ ~hung' /\ held' = [l \in Layers |-> Nothing] /\ gpu' = gpu
      /\ pc = "stopping" /\ pc' = "idle" /\ stream' = stream
      /\ reset_command' = reset_command
  BY DEF StopSender, BufferInv, historyVars, gpuVars, listVars
<1> SUFFICES ASSUME NStreams <= kMaxLayers PROVE Buffers'
  BY <1>1 DEF BufferInv
<1>2. stream = 0 /\ reset_command
  BY <1>1 DEF PackInv, BufferInv, Buffers
<1>3. \A i \in DOMAIN gpu : \A o \in gpu[i].copies : o.layer \in Layers
  <2>1. \A i \in DOMAIN gpu : gpu[i] \in Lists
    BY ElementOfSeq, LenProperties DEF Types, ListTypes
  <2> QED BY <2>1 DEF Lists, Copies
<1>4. \A i \in DOMAIN gpu : \A o \in gpu[i].copies : Harmless(o)'
  BY <1>1, <1>3 DEF Harmless, SameBuffer
<1>5. \A l \in Streams : NextBank(l)'
  BY <1>1, <1>2 DEF NextBank, Recorded
<1> QED BY <1>1, <1>2, <1>4, <1>5 DEF Buffers

LEMMA BuffersRemade ==
  Types /\ HeldTypes /\ PackInv /\ BufferInv /\ NewPool /\ pc = "pool"
    => BufferInv'
<1> SUFFICES ASSUME Types, HeldTypes, PackInv, BufferInv, NewPool, pc = "pool"
             PROVE  BufferInv'
  OBVIOUS
<1>1. /\ steady' = steady /\ hung' = hung /\ held' = held /\ gpu' = gpu
      /\ gen' = gen + 1 /\ gen \in Nat
      /\ pc' = pc /\ stream' = stream /\ frame' = frame
      /\ recording' = recording /\ reset_command' = reset_command
      /\ data_pack' = data_pack /\ data_pack_index' = data_pack_index
  BY DEF NewPool, packVars, gpuVars, listVars, hostVars, historyVars, Types,
     PoolTypes
<1> SUFFICES ASSUME steady, NStreams <= kMaxLayers PROVE Buffers'
  BY <1>1 DEF BufferInv
<1>2. Buffers
  BY DEF BufferInv
<1>3. \A l \in Layers : held[l] # Nothing => held[l].gen \in Nat
  BY DEF HeldTypes, Copies
<1>4. \A l \in Layers : held'[l] # Nothing => held'[l].gen < gen'
  BY <1>1, <1>2, <1>3 DEF Buffers
<1>5. \A o : (Harmless(o)' = Harmless(o)) /\ (Fresh(o)' = Fresh(o))
  BY <1>1 DEF Harmless, Fresh, SameBuffer
<1>6. ASSUME NEW l \in Streams PROVE NextBank(l)'
  <2>1. /\ NextBank(l) /\ Recorded = stream /\ Recorded' = stream
        /\ Current = data_pack[Into] /\ Current' = Current /\ l \in Layers
    BY <1>1, <1>2 DEF Buffers, Recorded, Current, Into
  <2>2. CASE l < stream
    <3>1. Current[l + 1].gen <= gen /\ Current[l + 1].gen \in Nat
      <4>1. /\ Current \in Seq(Copies) /\ Len(Current) = stream
            /\ stream \in Streams
        BY <2>1 DEF Types, PackTypes, HostTypes, PackInv, Holds, Into
      <4>2. Current[l + 1] \in Copies
        BY <2>2, <4>1, ElementOfSeq
      <4> QED BY <2>1, <2>2, <4>2 DEF NextBank, Copies
    <3> QED BY <1>1, <2>1, <2>2, <3>1 DEF NextBank
  <2>3. CASE ~(l < stream)
    BY <1>1, <1>3, <1>4, <2>1, <2>3 DEF NextBank
  <2> QED BY <2>2, <2>3
<1>7. \A l \in Layers : held'[l] # Nothing => held'[l].gen <= gen'
  BY <1>1, <1>3, <1>4
<1> QED BY <1>1, <1>2, <1>5, <1>6, <1>7 DEF Buffers

LEMMA BuffersCalled ==
  ASSUME BufferInv, NEW w \in Widths, CallSubmit(w)
  PROVE  BufferInv'
<1>1. /\ steady' = steady /\ hung' = hung /\ held' = held /\ gpu' = gpu
      /\ gen' = gen /\ bank' = bank /\ stream' = stream /\ frame' = frame
      /\ pc = "idle" /\ pc' = "pool" /\ reset_command' = FALSE
      /\ recording' = (IF reset_command THEN {} ELSE recording)
      /\ data_pack' = data_pack /\ data_pack_index' = data_pack_index
  BY DEF CallSubmit, packVars, gpuVars, poolVars
<1> SUFFICES ASSUME steady, NStreams <= kMaxLayers PROVE Buffers'
  BY <1>1 DEF BufferInv
<1>2. Buffers
  BY DEF BufferInv
<1>3. \A o : (Harmless(o)' = Harmless(o)) /\ (Fresh(o)' = Fresh(o))
  BY <1>1 DEF Harmless, Fresh, SameBuffer
<1>4. \A l : NextBank(l)' = NextBank(l)
  BY <1>1 DEF NextBank, Recorded, Current, Into
<1> QED BY <1>1, <1>2, <1>3, <1>4 DEF Buffers

\* The GPU's queue becomes shorter.
LEMMA BuffersFinished == Types /\ BufferInv /\ GpuFinish => BufferInv'
<1> SUFFICES ASSUME Types, BufferInv, GpuFinish PROVE BufferInv'
  OBVIOUS
<1>1. /\ steady' = steady /\ hung' = hung /\ held' = held /\ gen' = gen
      /\ bank' = bank /\ stream' = stream /\ frame' = frame /\ pc' = pc
      /\ recording' = recording /\ reset_command' = reset_command
      /\ command_index' = command_index
      /\ data_pack' = data_pack /\ data_pack_index' = data_pack_index
  BY DEF GpuFinish, packVars, poolVars, listVars, hostVars, historyVars
<1>2. \A i \in DOMAIN gpu' : i + 1 \in DOMAIN gpu /\ gpu'[i] = gpu[i + 1]
  <2>1. gpu \in Seq(Lists) /\ gpu # <<>> /\ gpu' = Tail(gpu)
    BY DEF GpuFinish, Types, ListTypes
  <2>2. /\ Tail(gpu) \in Seq(Lists) /\ Len(Tail(gpu)) = Len(gpu) - 1
        /\ \A i \in 1..Len(Tail(gpu)) : Tail(gpu)[i] = gpu[i + 1]
    BY <2>1, HeadTailProperties
  <2>3. /\ DOMAIN gpu = 1..Len(gpu) /\ Len(gpu) \in Nat
        /\ DOMAIN gpu' = 1..(Len(gpu) - 1)
    BY <2>1, <2>2, LenProperties
  <2> QED BY <2>1, <2>2, <2>3
<1> SUFFICES ASSUME steady, NStreams <= kMaxLayers PROVE Buffers'
  BY <1>1 DEF BufferInv
<1>3. Buffers
  BY DEF BufferInv
<1>4. \A o : (Harmless(o)' = Harmless(o)) /\ (Fresh(o)' = Fresh(o))
  BY <1>1 DEF Harmless, Fresh, SameBuffer
<1>5. \A l : NextBank(l)' = NextBank(l)
  BY <1>1 DEF NextBank, Recorded, Current, Into, ReadyIndex
<1> QED BY <1>1, <1>2, <1>3, <1>4, <1>5 DEF Buffers

LEMMA BuffersKept ==
  Types /\ HeldTypes /\ SlotInv /\ PackInv /\ BufferInv /\ [Next]_vars
    => BufferInv'
<1> SUFFICES ASSUME Types, HeldTypes, SlotInv, PackInv, BufferInv, [Next]_vars
             PROVE  BufferInv'
  OBVIOUS
<1> USE DEF packVars, gpuVars, listVars, historyVars, hostVars, poolVars,
            streamVars
<1>1. CASE SubmitMore \/ SubmitLast \/ FencePassed \/ Shutdown \/ StopSender
           \/ GpuFinish
  BY <1>1, BuffersFilled, BuffersSubmitted, BuffersSwitched, BuffersReset,
     BuffersGivenUp, BuffersFinished
<1>2. ASSUME NEW skipped \in SUBSET Layers, ConsumeAndSend(skipped)
      PROVE  BufferInv'
  BY <1>2, BuffersSent
<1>3. ASSUME NEW w \in Widths, CallSubmit(w) PROVE BufferInv'
  BY <1>3, BuffersCalled
<1>4. CASE NoTexture \/ FenceIgnored
  BY <1>4 DEF NoTexture, FenceIgnored, BufferInv
<1>5. CASE SharedPoolFails \/ ReadbackPoolFails
  BY <1>5 DEF SharedPoolFails, ReadbackPoolFails, NoPool, BufferInv
<1>6. CASE EnsureSharedPool \/ EnsureReadbackPool
  BY <1>6, BuffersRemade DEF EnsureSharedPool, EnsureReadbackPool, TooSmall
<1>7. CASE Initialize
  BY <1>7, BuffersAside DEF Initialize, bufferVars
<1>8. CASE ConsumeReleased \/ ConsumeAsserts \/ FenceTimeout
  BY <1>8, BuffersAside DEF ConsumeReleased, ConsumeAsserts, FenceTimeout, bufferVars
<1>9. CASE CallShutdown
  BY <1>9, BuffersAside DEF CallShutdown, bufferVars
<1>10. CASE UNCHANGED vars
  BY <1>10, BuffersAside DEF vars, bufferVars
<1> QED BY <1>1, <1>2, <1>3, <1>4, <1>5, <1>6, <1>7, <1>8, <1>9, <1>10
          DEF Next, HostStep, TimeoutStep

LEMMA BufferInvariance ==
  Spec => [](Types /\ HeldTypes /\ SlotInv /\ PackInv /\ BufferInv)
<1>1. Types /\ HeldTypes /\ SlotInv /\ PackInv /\ BufferInv /\ [Next]_vars
        => (Types /\ HeldTypes /\ SlotInv /\ PackInv /\ BufferInv)'
  BY TypesKept, HeldTypesKept, SlotsKept, PacksKept, BuffersKept
<1> QED BY <1>1, InitTypes, InitSlots, InitPacks, InitBuffers, PTL DEF Spec

(* The GPU does not write a later frame into the buffer the sender still    *)
(* reads (nova_ndi_sender.cpp and ndi_sender.cpp keep the last one they     *)
(* were given): two banks are enough for any number of streams that have    *)
(* each a layer of its own, as long as every one is submitted and sent.     *)
THEOREM TwoBanksAreEnough == Spec => []SentFrameNotOverwritten
<1>1. Types /\ BufferInv => SentFrameNotOverwritten
  <2> SUFFICES ASSUME Types, BufferInv, steady, NStreams <= kMaxLayers,
                      NEW o \in Writing
               PROVE  Harmless(o)
    BY DEF SentFrameNotOverwritten, Harmless, SameBuffer
  <2>1. PICK i \in DOMAIN gpu : o \in gpu[i].copies
    BY DEF Writing
  <2> QED BY <2>1 DEF BufferInv, Buffers
<1> QED BY <1>1, BufferInvariance, PTL

-----------------------------------------------------------------------------
(* The size of the buffers.                                                *)

Widest == Max(Range(declared))
PoolSize == IF sender = "gpu" THEN Shown(0, declared[0]) ELSE 2 * Widest

\* Textures are as wide as their streams, and the first shows the most if it
\* matters.
Expected == /\ as_declared
            /\ sender = "gpu" => \A s \in Streams :
                 Shown(LayerOf(s), declared[s]) <= Shown(0, declared[0])

\* The buffers, and what of them is in use, are of the size they were made of
\* first; there is nothing in use before.
Kept ==
  /\ IF pool = 0
     THEN /\ pc \in {"idle", "pool", "shutdown"} /\ stream = 0
          /\ \A l \in Layers : held[l] = Nothing
     ELSE pool = PoolSize
  /\ \A s \in Slots : \A o \in Range(data_pack[s]) : o.gen = gen
  /\ \A l \in Layers : held[l] # Nothing => held[l].gen = gen

SizeInv ==
  /\ declared \in [Streams -> Widths] /\ sender \in {"gpu", "cpu", "stopped"}
  /\ as_declared /\ pc = "pool" => tex = declared[stream]
  /\ as_declared /\ sender # "gpu" =>
       /\ pool \in {0, PoolSize}
       /\ pc \in {"fence", "send"} => pool = PoolSize
  /\ pc = "stopping" => pool = 0
  /\ steady /\ Expected /\ pc \in {"idle", "pool", "fence", "send", "shutdown"}
       => Kept

LEMMA InitSizes == Init => SizeInv
BY DEF Init, SizeInv, Kept, PoolSize, Range

LEMMA WidestWidth ==
  ASSUME declared \in [Streams -> Widths]
  PROVE  /\ Widest \in Nat /\ Widest >= 1 /\ Widest \in Range(declared)
         /\ \A s \in Streams : declared[s] <= Widest
<1>1. \A x \in Range(declared) : x \in Nat /\ x <= MaxWidth /\ x >= 1
  BY DEF Range, Widths
<1>2. \A s \in Streams : declared[s] \in Range(declared)
  BY DEF Range
<1>3. 0 \in Streams
  OBVIOUS
<1>4. Range(declared) # {}
  BY <1>2, <1>3
<1>5. Max(Range(declared)) \in Range(declared)
      /\ \A y \in Range(declared) : y <= Max(Range(declared))
  BY <1>1, <1>4, MaxIsMax
<1> QED BY <1>1, <1>2, <1>5 DEF Widest

\* What Submit needs for a texture that is as wide as its stream.
LEMMA NeedOfDeclared ==
  ASSUME Types, SizeInv, as_declared, pc = "pool"
  PROVE  /\ Need = IF sender = "gpu"
                   THEN Shown(LayerOf(stream), declared[stream]) ELSE PoolSize
         /\ Need \in Nat /\ Need >= 1
<1>1. /\ tex = declared[stream] /\ stream \in Streams
      /\ declared \in [Streams -> Widths]
  BY DEF SizeInv, Types, HostTypes
<1>2. {tex} \cup Range(declared) = Range(declared)
  BY <1>1 DEF Range
<1>3. Widest \in Nat /\ Widest >= 1
  BY <1>1, WidestWidth
<1>4. declared[stream] \in Nat /\ declared[stream] >= 1
  BY <1>1 DEF Widths
<1>5. CASE sender = "gpu"
  BY <1>1, <1>4, <1>5 DEF Need, CopyWidth, Shown
<1>6. CASE sender # "gpu"
  <2>1. NeedReadback = 2 * Widest
    BY <1>2 DEF NeedReadback, Widest
  <2>2. Need = PoolSize /\ PoolSize = 2 * Widest
    BY <1>6, <2>1 DEF Need, PoolSize
  <2> QED BY <1>3, <1>6, <2>2
<1> QED BY <1>5, <1>6

LEMMA EmptyPacks ==
  ASSUME Types, PackInv, steady, stream = 0,
         pc \in {"idle", "pool", "shutdown", "stopping"}
  PROVE  \A s \in Slots : Range(data_pack[s]) = {}
<1>1. /\ data_pack[Into] \in Seq(Copies) /\ Len(data_pack[Into]) = 0
      /\ data_pack[1 - Into] = <<>>
  BY DEF Types, PackTypes, PackInv, Holds, Into
<1>2. data_pack[Into] = <<>>
  BY <1>1, EmptySeq
<1>3. \A s \in Slots : s = Into \/ s = 1 - Into
  BY DEF Into
<1>4. Range(<<>>) = {}
  BY DEF Range
<1> QED BY <1>1, <1>2, <1>3, <1>4

\* Buffers that are made or made anew are the first ones, and large enough for
\* all that comes.
LEMMA SizesMade ==
  Types /\ PackInv /\ SizeInv /\ (EnsureSharedPool \/ EnsureReadbackPool)
    => SizeInv'
<1> SUFFICES ASSUME Types, PackInv, SizeInv,
                    EnsureSharedPool \/ EnsureReadbackPool
             PROVE  SizeInv'
  OBVIOUS
<1>1. /\ pc = "pool" /\ pool < Need /\ pool' = Need /\ gen' = gen + 1
      /\ declared' = declared /\ clipped' = clipped /\ sender' = sender
      /\ as_declared' = as_declared
      /\ pc' = pc /\ tex' = tex /\ stream' = stream /\ steady' = steady
      /\ held' = held /\ data_pack' = data_pack
  BY DEF EnsureSharedPool, EnsureReadbackPool, TooSmall, NewPool, streamVars,
     packVars, hostVars, historyVars
<1>2. PoolSize' = PoolSize /\ Expected' = Expected
  BY <1>1 DEF PoolSize, Expected, Widest, Shown
<1>3. as_declared /\ sender # "gpu" => pool' = PoolSize'
  BY <1>1, <1>2, NeedOfDeclared
<1>4. ASSUME steady, Expected PROVE Kept'
  <2>1. /\ Need = IF sender = "gpu"
                  THEN Shown(LayerOf(stream), declared[stream]) ELSE PoolSize
        /\ Need \in Nat /\ Kept
    BY <1>1, <1>4, NeedOfDeclared DEF SizeInv, Expected
  <2>2. Need <= PoolSize /\ PoolSize \in Nat
    <3>1. CASE sender = "gpu"
      <4>1. /\ stream \in Streams /\ 0 \in Streams
            /\ Shown(LayerOf(stream), declared[stream]) <= Shown(0, declared[0])
        BY <1>4, <3>1 DEF Types, HostTypes, Expected
      <4>2. Shown(0, declared[0]) \in Nat
        BY <4>1 DEF SizeInv, Widths, Shown
      <4> QED BY <2>1, <3>1, <4>1, <4>2 DEF PoolSize
    <3>2. CASE sender # "gpu"
      BY <2>1, <3>2
    <3> QED BY <3>1, <3>2
  <2>3. pool = 0
    BY <1>1, <2>1, <2>2 DEF Kept
  <2>4. stream = 0 /\ \A l \in Layers : held[l] = Nothing
    BY <2>1, <2>3 DEF Kept
  <2>5. \A s \in Slots : Range(data_pack[s]) = {}
    BY <1>1, <1>4, <2>4, EmptyPacks
  <2>6. Need = PoolSize
    BY <2>1, <2>4 DEF PoolSize, LayerOf
  <2> QED BY <1>1, <1>2, <2>4, <2>5, <2>6 DEF Kept
<1> QED BY <1>1, <1>2, <1>3, <1>4 DEF SizeInv

LEMMA SizesRecorded ==
  Types /\ SizeInv /\ (SubmitMore \/ SubmitLast) => SizeInv'
<1> SUFFICES ASSUME Types, SizeInv, SubmitMore \/ SubmitLast PROVE SizeInv'
  OBVIOUS
<1>1. /\ Record /\ pc = "pool" /\ pool >= Need /\ pc' \in {"idle", "fence"}
      /\ pool' = pool /\ gen' = gen /\ sender' = sender
      /\ declared' = declared /\ clipped' = clipped
      /\ as_declared' = as_declared /\ steady' = steady /\ held' = held
  BY DEF SubmitMore, SubmitLast, Record, streamVars, historyVars
<1>2. PoolSize' = PoolSize /\ Expected' = Expected
  BY <1>1 DEF PoolSize, Expected, Widest, Shown
<1>3. ASSUME as_declared PROVE pool # 0
  <2>1. Need \in Nat /\ Need >= 1
    BY <1>1, <1>3, NeedOfDeclared
  <2> QED BY <1>1, <2>1
<1>4. ASSUME steady, Expected PROVE Kept'
  <2> DEFINE out == [layer |-> LayerOf(stream), bank |-> bank[LayerOf(stream)],
                     frame |-> frame, gen |-> gen, full |-> FillsBuffer]
  <2>1. /\ Kept /\ pool # 0
    BY <1>1, <1>3, <1>4 DEF SizeInv, Expected
  <2>2. /\ data_pack' = [data_pack EXCEPT ![Into] = Append(@, out)]
        /\ out \in Copies /\ data_pack \in [Slots -> Seq(Copies)]
        /\ Into \in Slots /\ out.gen = gen
    BY <1>1, RecordEffect DEF Types, PackTypes, Into
  <2> HIDE DEF out
  <2>3. ASSUME NEW s \in Slots, NEW o \in Range(data_pack'[s])
        PROVE  o.gen = gen
    <3>1. CASE s = Into
      <4> DEFINE p == data_pack[Into]
      <4>1. p \in Seq(Copies) /\ data_pack'[s] = Append(p, out)
        BY <2>2, <3>1
      <4>2. PICK i \in DOMAIN Append(p, out) : o = Append(p, out)[i]
        BY <2>3, <4>1 DEF Range
      <4>3. /\ Append(p, out) \in Seq(Copies)
            /\ Len(Append(p, out)) = Len(p) + 1 /\ Len(p) \in Nat
            /\ Append(p, out)[Len(p) + 1] = out
            /\ \A j \in 1..Len(p) : Append(p, out)[j] = p[j]
        BY <2>2, <4>1, AppendProperties, LenProperties
      <4>4. i \in 1..(Len(p) + 1) /\ DOMAIN p = 1..Len(p)
        BY <4>1, <4>2, <4>3, LenProperties
      <4>5. CASE i = Len(p) + 1
        BY <2>2, <4>2, <4>3, <4>5
      <4>6. CASE i \in 1..Len(p)
        <5>1. o = p[i] /\ i \in DOMAIN p
          BY <4>2, <4>3, <4>4, <4>6
        <5>2. o \in Range(p)
          BY <5>1 DEF Range
        <5> QED BY <2>1, <2>2, <5>2 DEF Kept
      <4> QED BY <4>3, <4>4, <4>5, <4>6
    <3>2. CASE s # Into
      <4>1. data_pack'[s] = data_pack[s]
        BY <2>2, <3>2
      <4> QED BY <2>1, <2>3, <4>1 DEF Kept
    <3> QED BY <3>1, <3>2
  <2> QED BY <1>1, <1>2, <2>1, <2>3 DEF Kept
<1>5. as_declared /\ sender # "gpu" => pool' = PoolSize'
  BY <1>1, <1>2, <1>3 DEF SizeInv
<1> QED BY <1>1, <1>2, <1>4, <1>5 DEF SizeInv

LEMMA SizesSent ==
  ASSUME Types, SizeInv, NEW skipped \in SUBSET Layers, ConsumeAndSend(skipped)
  PROVE  SizeInv'
<1>1. /\ pc = "send" /\ pc' = "idle" /\ pool' = pool /\ gen' = gen
      /\ declared' = declared /\ clipped' = clipped /\ sender' = sender
      /\ as_declared' = as_declared
      /\ held' = Sent(skipped) /\ (steady' => steady)
      /\ data_pack' = [data_pack EXCEPT ![ReadyIndex] = <<>>]
  BY DEF ConsumeAndSend, streamVars, poolVars
<1>2. PoolSize' = PoolSize /\ Expected' = Expected
  BY <1>1 DEF PoolSize, Expected, Widest, Shown
<1>3. ASSUME steady, Expected PROVE Kept'
  <2>1. Kept /\ pool # 0
    BY <1>1, <1>3 DEF SizeInv, Kept
  <2>2. data_pack \in [Slots -> Seq(Copies)] /\ ReadyIndex \in Slots
    BY DEF Types, PackTypes, ReadyIndex
  <2>3. ASSUME NEW s \in Slots PROVE \A o \in Range(data_pack'[s]) : o.gen = gen
    <3>1. CASE s = ReadyIndex
      <4>1. data_pack'[s] = <<>>
        BY <1>1, <2>2, <3>1
      <4> QED BY <4>1 DEF Range
    <3>2. CASE s # ReadyIndex
      <4>1. data_pack'[s] = data_pack[s]
        BY <1>1, <2>2, <3>2
      <4> QED BY <2>1, <4>1 DEF Kept
    <3> QED BY <3>1, <3>2
  <2>4. ASSUME NEW l \in Layers, held'[l] # Nothing PROVE held'[l].gen = gen
    <3> DEFINE pack == data_pack[ReadyIndex]
    <3>1. held'[l] = held[l] \/ \E i \in DOMAIN pack : held'[l] = pack[i]
      <4>1. \/ Sent(skipped)[l] = held[l]
            \/ \E i \in DOMAIN pack : Sent(skipped)[l] = pack[i]
        BY SentOne
      <4> HIDE DEF pack
      <4> QED BY <1>1, <4>1
    <3>2. CASE held'[l] = held[l]
      BY <2>1, <2>4, <3>2 DEF Kept
    <3>3. ASSUME NEW i \in DOMAIN pack, held'[l] = pack[i]
          PROVE  held'[l].gen = gen
      <4>1. held'[l] \in Range(pack)
        BY <3>3 DEF Range
      <4> QED BY <2>1, <2>2, <4>1 DEF Kept
    <3> HIDE DEF pack
    <3> QED BY <3>1, <3>2, <3>3
  <2> QED BY <1>1, <1>2, <2>1, <2>3, <2>4 DEF Kept
<1> QED BY <1>1, <1>2, <1>3 DEF SizeInv

LEMMA SizesGivenUp == Types /\ PackInv /\ SizeInv /\ StopSender => SizeInv'
<1> SUFFICES ASSUME Types, PackInv, SizeInv, StopSender PROVE SizeInv'
  OBVIOUS
<1>1. /\ pc = "stopping" /\ pc' = "idle" /\ sender' = "stopped"
      /\ held' = [l \in Layers |-> Nothing] /\ pool' = pool /\ gen' = gen
      /\ declared' = declared /\ clipped' = clipped
      /\ steady' = steady /\ stream' = stream
      /\ data_pack' = data_pack
  BY DEF StopSender, poolVars, packVars, historyVars
<1>2. pool' = 0
  BY <1>1 DEF SizeInv
<1>3. ASSUME steady PROVE Kept'
  <2>1. stream = 0
    BY <1>1, <1>3 DEF PackInv
  <2>2. \A s \in Slots : Range(data_pack[s]) = {}
    BY <1>1, <1>3, <2>1, EmptyPacks
  <2> QED BY <1>1, <1>2, <2>1, <2>2 DEF Kept
<1> QED BY <1>1, <1>2, <1>3 DEF SizeInv

\* Most steps leave the sizes alone.
sizeVars == <<declared, clipped, sender, pool, gen, data_pack, held>>

LEMMA SizesAside ==
  ASSUME SizeInv, UNCHANGED sizeVars, as_declared' => as_declared,
         steady' => steady /\ stream' = stream,
         pc' = "pool" /\ as_declared' => tex' = declared[stream'],
         \/ pc' = pc
         \/ pc' = "aborted"
         \/ pc = "idle" /\ pc' \in {"pool", "shutdown"}
         \/ pc = "fence" /\ pc' = "send"
  PROVE  SizeInv'
<1>1. PoolSize' = PoolSize /\ (Expected' => Expected)
  BY DEF PoolSize, Expected, Widest, Shown, sizeVars
<1>2. ASSUME Kept, steady', pc' # "aborted" PROVE Kept'
  BY <1>1, <1>2 DEF Kept, sizeVars
<1> QED BY <1>1, <1>2 DEF SizeInv, sizeVars

LEMMA SizesKept == Types /\ PackInv /\ SizeInv /\ [Next]_vars => SizeInv'
<1> SUFFICES ASSUME Types, PackInv, SizeInv, [Next]_vars PROVE SizeInv'
  OBVIOUS
<1> USE DEF packVars, gpuVars, listVars, historyVars, hostVars, poolVars,
            streamVars
<1>1. CASE EnsureSharedPool \/ EnsureReadbackPool \/ SubmitMore \/ SubmitLast
           \/ StopSender
  BY <1>1, SizesMade, SizesRecorded, SizesGivenUp
<1>2. ASSUME NEW skipped \in SUBSET Layers, ConsumeAndSend(skipped) PROVE SizeInv'
  BY <1>2, SizesSent
<1>3. ASSUME NEW w \in Widths, CallSubmit(w) PROVE SizeInv'
  BY <1>3, SizesAside DEF CallSubmit, sizeVars
<1>4. CASE SharedPoolFails \/ ReadbackPoolFails
  <2>1. /\ pool' = 0 /\ ~steady' /\ pc' \in {"idle", "aborted"}
        /\ declared' = declared /\ clipped' = clipped /\ sender' = sender
    BY <1>4 DEF SharedPoolFails, ReadbackPoolFails, NoPool
  <2> QED BY <2>1 DEF SizeInv
<1>5. CASE Shutdown
  <2>1. /\ pool' = 0 /\ pc' = "stopping"
        /\ declared' = declared /\ clipped' = clipped /\ sender' = sender
    BY <1>5 DEF Shutdown, FreshState
  <2> QED BY <2>1 DEF SizeInv
<1>6. CASE FencePassed \/ FenceIgnored
  BY <1>6, SizesAside DEF FencePassed, FenceIgnored, SwitchSlots, sizeVars
<1>7. CASE Initialize
  BY <1>7, SizesAside DEF Initialize, sizeVars, SizeInv
<1>8. CASE NoTexture
  BY <1>8, SizesAside DEF NoTexture, sizeVars
<1>9. CASE ConsumeReleased \/ ConsumeAsserts \/ FenceTimeout \/ CallShutdown
  BY <1>9, SizesAside
  DEF ConsumeReleased, ConsumeAsserts, FenceTimeout, CallShutdown, sizeVars
<1>10. CASE GpuFinish
  BY <1>10, SizesAside DEF GpuFinish, sizeVars, SizeInv
<1>11. CASE UNCHANGED vars
  BY <1>11, SizesAside DEF vars, sizeVars, SizeInv
<1> QED BY <1>1, <1>2, <1>3, <1>4, <1>5, <1>6, <1>7, <1>8, <1>9, <1>10, <1>11
          DEF Next, HostStep, TimeoutStep

LEMMA SizeInvariance == Spec => [](Types /\ PackInv /\ SizeInv)
<1>1. Types /\ PackInv /\ SizeInv /\ [Next]_vars
        => (Types /\ PackInv /\ SizeInv)'
  BY TypesKept, PacksKept, SizesKept
<1> QED BY <1>1, InitTypes, InitPacks, InitSizes, PTL DEF Spec

(* What is in a pack, or in the sender's hands, is not released while the   *)
(* host's frames go as they should: where the pool is made anew there is    *)
(* nothing in use (converter.cpp:299-327 and 525-540).                      *)
THEOREM BuffersStay == Spec => []BufferOutlivesUse
<1>1. Types /\ PackInv /\ SizeInv => BufferOutlivesUse
  <2> SUFFICES ASSUME Types, PackInv, SizeInv, steady, Expected,
                      pc \in {"idle", "pool", "fence", "send"}
               PROVE  /\ \A s \in Slots : \A o \in Range(data_pack[s]) :
                           ~Released(o)
                      /\ \A l \in Layers : held[l] # Nothing =>
                           ~Released(held[l])
    BY DEF BufferOutlivesUse, Expected
  <2>1. Kept
    BY DEF SizeInv
  <2>2. CASE pool = 0
    <3>1. \A s \in Slots : Range(data_pack[s]) = {}
      BY <2>1, <2>2, EmptyPacks DEF Kept
    <3> QED BY <2>1, <2>2, <3>1 DEF Kept
  <2>3. CASE pool # 0
    BY <2>1, <2>3 DEF Kept, Released
  <2> QED BY <2>2, <2>3
<1> QED BY <1>1, SizeInvariance, PTL

(* The sender computes its rows of what the clipping leaves of the streams  *)
(* (ndi_sender.cpp:48-68), the Converter of the widest texture and stream   *)
(* (converter.cpp:502-520): they agree exactly when a stream of the         *)
(* greatest width is not clipped.                                           *)
THEOREM RowsAreRead == Spec => []RowsMatch
<1> DEFINE Whole(s) == /\ s \notin clipped
                       /\ \A r \in Streams : declared[r] <= declared[s]
<1>1. SizeInv => RowsMatch
  <2> SUFFICES ASSUME SizeInv, pc = "send", sender = "cpu", as_declared
               PROVE  pool = SenderPitch <=> \E s \in Streams : Whole(s)
    BY DEF RowsMatch
  <2> DEFINE S == {Shown(s, declared[s]) : s \in Streams}
  <2>1. declared \in [Streams -> Widths] /\ pool = 2 * Widest
    BY DEF SizeInv, PoolSize
  <2>2. /\ Widest \in Nat /\ Widest >= 1 /\ Widest \in Range(declared)
        /\ \A s \in Streams : declared[s] <= Widest
    BY <2>1, WidestWidth
  <2>3. \A s \in Streams :
          /\ declared[s] \in Nat
          /\ Shown(s, declared[s]) =
               IF s \in clipped THEN declared[s] ELSE 2 * declared[s]
    BY <2>1 DEF Shown, Widths
  <2>4. \A x \in S : x \in Nat /\ x <= 2 * Widest
    BY <2>2, <2>3
  <2>5. S # {}
    BY 0 \in Streams
  <2>6. Max(S) \in S /\ \A y \in S : y <= Max(S)
    <3> HIDE DEF S
    <3> QED BY <2>2, <2>4, <2>5, MaxIsMax
  <2>7. ASSUME NEW s \in Streams, Whole(s) PROVE pool = SenderPitch
    <3>1. PICK w \in Streams : declared[w] = Widest
      BY <2>1, <2>2 DEF Range
    <3>2. declared[s] = Widest
      BY <2>2, <2>3, <2>7, <3>1
    <3>3. 2 * Widest \in S
      BY <2>3, <2>7, <3>2
    <3>4. Max(S) = 2 * Widest
      <4> HIDE DEF S
      <4> QED BY <2>2, <2>4, <2>6, <3>3
    <3> QED BY <2>1, <3>4 DEF SenderPitch
  <2>8. ASSUME pool = SenderPitch PROVE \E s \in Streams : Whole(s)
    <3>1. PICK s \in Streams : Max(S) = Shown(s, declared[s])
      BY <2>6
    <3>2. Shown(s, declared[s]) = 2 * Widest
      BY <2>1, <2>8, <3>1 DEF SenderPitch
    <3>3. s \notin clipped /\ declared[s] = Widest
      BY <2>2, <2>3, <3>2
    <3> QED BY <2>2, <3>3
  <2> QED BY <2>7, <2>8
<1> QED BY <1>1, SizeInvariance, PTL
=============================================================================
