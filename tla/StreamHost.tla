----------------------------- MODULE StreamHost -----------------------------
(***************************************************************************)
(* The agent's PipeServer and one of its clients, the host process, whose  *)
(* first call of rs_getStreams (rs-dll/renderstream.cpp, streams.cpp) opens *)
(* the pipe, reads until the server closes it, parses what it was sent and *)
(* starts the sender, once in its life.  After that the streams stay what  *)
(* they are, whatever the agent is given, and rs_getStreams only copies    *)
(* them into the host's buffer.  The other clients do as PipeServer says.  *)
(***************************************************************************)
EXTENDS PipeServer, SequencesExt

CONSTANTS Host,      \* the client that is this process
          StreamsOf  \* what a parser finds in stream data, <<>> if nothing:
                     \* per stream the lengths of its strings

ASSUME HostAssumption ==
  /\ Host \in Clients
  /\ StreamsOf \in [Data -> Seq(Seq(Nat))] /\ StreamsOf[Empty] = <<>>

VARIABLES
  backend, layers, started, gpu_ready, todo, contexts,  \* g_sender
  pc,       \* where the host is in rs_getStreams
  gpu,      \* the Converter's devices: none, D3D12, D3D11 beside it
  loaded,   \* g_streams, as the data they were parsed from
  nBytes,   \* the size the host was told, or 0
  filled    \* bytes written into its buffer

senderVars == <<backend, layers, started, gpu_ready, todo, contexts>>
hostVars   == <<senderVars, pc, gpu, loaded, nBytes, filled>>
allVars    == <<vars, hostVars>>

Sender == INSTANCE Sender

StreamTypeOK ==
  /\ TypeOK /\ Sender!SenderTypeOK
  /\ pc \in {"idle", "reading", "starting", "answering"}
  /\ gpu \in {"none", "D3D12", "D3D11"} /\ loaded \in Data
  /\ nBytes \in Nat /\ filled \in Nat

StreamInit ==
  /\ Init /\ Sender!SenderInit
  /\ pc = "idle" /\ gpu = "none" /\ loaded = Empty /\ nBytes = 0 /\ filled = 0

-----------------------------------------------------------------------------
\* rs_initialiseGpGpuWithDX12DeviceAndQueue; a D3D11 device may not be had.
InitialiseGpu ==
  /\ pc = "idle" /\ gpu = "none" /\ gpu' \in {"D3D12", "D3D11"}
  /\ UNCHANGED <<vars, senderVars, pc, loaded, nBytes, filled>>

\* rs_shutdown, as far as the devices and the sender go.
Shutdown ==
  /\ pc = "idle" /\ gpu' = "none" /\ Sender!Stop
  /\ UNCHANGED <<vars, pc, loaded, nBytes, filled>>

-----------------------------------------------------------------------------
(* rs_getStreams.  A pipe that cannot be opened changes nothing.           *)

OpenPipe(p) ==
  /\ pc = "idle" /\ loaded = Empty
  /\ Open(Host, p) /\ pc' = "reading"
  /\ UNCHANGED <<senderVars, gpu, loaded, nBytes, filled>>

\* The pipe is at its end, and there is something in it; the sender begins
\* to start, and a sender that fails to is only logged.
StreamsLoaded == LET n == Len(StreamsOf[got[Host]]) IN
  /\ pc = "reading" /\ client[Host] = "answered" /\ n > 0
  /\ loaded' = got[Host]
  /\ \/ Sender!Configure(n) /\ pc' = "starting"
     \/ Sender!NoLibrary /\ pc' = "answering"
  /\ UNCHANGED <<vars, gpu, nBytes, filled>>

\* It was closed before, or what was read is empty or does not parse.
LoadFails ==
  /\ pc = "reading"
  /\ \/ client[Host] = "lost"
     \/ client[Host] = "answered" /\ StreamsOf[got[Host]] = <<>>
  /\ pc' = "idle"
  /\ UNCHANGED <<vars, senderVars, gpu, loaded, nBytes, filled>>

MakeContext(l) == Sender!MakeGpu(l, gpu = "D3D11") \/ Sender!MakeCpu(l)

StartSender ==
  /\ pc = "starting"
  /\ \/ (\E l \in todo : MakeContext(l)) /\ UNCHANGED pc
     \/ (\E l \in todo : Sender!MakeFails(l)) /\ pc' = "answering"
     \/ Sender!Finish(gpu = "D3D11") /\ pc' = "answering"
  /\ UNCHANGED <<vars, gpu, loaded, nBytes, filled>>

\* A later call finds the streams loaded.
CallAgain ==
  /\ pc = "idle" /\ loaded # Empty /\ pc' = "answering"
  /\ UNCHANGED <<vars, senderVars, gpu, loaded, nBytes, filled>>

StringBytesM(n) == n  \* the terminator is not counted
StringBytes(n) == IF n = 0 THEN 0 ELSE n + 1

DescriptionsSize == 12
DescriptionSize  == 76

\* Header, descriptions, and the pool of strings behind them.
Required(streams) ==
  DescriptionsSize + DescriptionSize * Len(streams)
    + FoldLeft(LAMBDA sum, s :
                 sum + FoldLeft(LAMBDA n, str : n + StringBytes(str), 0, s),
               0, streams)

\* Where to_c has come to after the last string: an empty one is a null
\* pointer.
WrittenTo(streams) ==
  FoldLeft(LAMBDA at, str : IF str = 0 THEN at ELSE at + str + 1,
           DescriptionsSize + DescriptionSize * Len(streams),
           FlattenSeq(streams))

AnswerSize ==
  /\ pc = "answering" /\ nBytes' = Required(StreamsOf[loaded]) /\ pc' = "idle"
  /\ UNCHANGED <<vars, senderVars, gpu, loaded, filled>>

\* The host has a buffer of the size it was told; a smaller one is refused,
\* and then nBytes is left alone.
FillBuffer ==
  /\ pc = "answering" /\ pc' = "idle"
  /\ filled' = IF nBytes < Required(StreamsOf[loaded]) THEN filled
               ELSE WrittenTo(StreamsOf[loaded])
  /\ UNCHANGED <<vars, senderVars, gpu, loaded, nBytes>>

-----------------------------------------------------------------------------
HostStep ==
  \/ StreamsLoaded \/ LoadFails \/ StartSender \/ AnswerSize \/ FillBuffer

AgentStep ==
  \/ Start \/ Stop \/ \E d \in Data : SetData(d)
  \/ \E c \in Clients \ {Host} : Leave(c) \/ \E p \in Pipes : Open(c, p)
  \/ IoNext

StreamNext ==
  \/ InitialiseGpu \/ Shutdown \/ CallAgain \/ \E p \in Pipes : OpenPipe(p)
  \/ HostStep
  \/ AgentStep /\ UNCHANGED hostVars

StreamSpec == StreamInit /\ [][StreamNext]_allVars

\* Handlers, operations and timers of the agent complete; a call of the host
\* goes on when it can.
FairStreamSpec ==
  StreamSpec /\ WF_vars(IoNext /\ UNCHANGED hostVars) /\ WF_allVars(HostStep)

-----------------------------------------------------------------------------
(* Properties *)

Quiet == pc \in {"idle", "answering"}

\* The library has open what the sender's layers name and nothing else: a
\* Start that fails, in the middle of its layers, and a Stop of either kind
\* leave no context behind, whose name a later one could not have; a sender
\* that was started has exactly one for each layer.
ContextsOwned == Quiet =>
  /\ contexts = Sender!Owned
  /\ IF started THEN \A l \in DOMAIN layers : layers[l] # "none"
     ELSE contexts = {}

\* GPU contexts are open, and textures asked for, only as long as the Converter
\* has the D3D11 device they were made on ("Uses the SAME D3D11 device as
\* Converter", nova_ndi_sender.cpp:187): between a shutdown and the next
\* initialisation, which may get no such device, nothing is left of them,
\* whatever became of the Start that made them.
DeviceOfContexts ==
  (gpu_ready \/ \E c \in contexts : c[2] = "gpu") => gpu = "D3D11"

\* Of a sender that was started, what rs_sendFrame2 converts of each layer is
\* sent: a layer for which there is no GPU context falls back to a CPU context
\* (nova_ndi_sender.cpp:198 and 202).
FallbackIsSent ==
  Quiet /\ started => \A l \in DOMAIN layers : Sender!Delivers(l)

\* The buffer that the host was told to make holds what is written into it.
StreamsFitBuffer == filled <= nBytes

\* rs_getStreams does not wait for ever on a pipe it has opened, whatever
\* the agent does meanwhile: it is answered, or the pipe is closed.
GetStreamsReturns == pc = "reading" ~> pc # "reading"
=============================================================================
