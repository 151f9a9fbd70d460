# RenderStream in TLA+

RenderStream lets a cluster client drive Unreal Engine nodes: an agent on each
node (`rs-agent`) launches the engine, a library inside the engine (`rs-dll`)
receives one request per frame over TCP, hands it to the game thread, reads the
rendered textures back from the GPU and sends them over NDI, and a client library
(`rs-client`) produces the requests. This directory holds TLA+ models of the
parts of that program in which threads, callbacks and an unreliable outside world
meet, the TLC runs that check them, and proofs for TLAPS.

## The system

| Component (source) | State | Operations | Speaks to |
|---|---|---|---|
| Link (`rs-dll/link.cpp`) | two `Request` buffers behind `inbox_` and `published_`, `tick_version_`, `last_consumed_version_`, `session_`, `quit_`, `is_follower_` | `OnAccept`, `OnTick`, `OnDisconnect` on the io thread; `AwaitFrame`, `BeginFollowerFrame`, `SetFollower`, readers of `Published()` on the host's | client over TCP, host by calls |
| Session (`rs-dll/link.cpp`) | `write_queue_`, `writing_` | `Write` from any thread, `DoWrite` and completions on the io thread | client over TCP |
| PipeServer (`rs-agent/pipe_server.cpp`) | `running_`, `current_data_`, the pipe, event and wait of the present accept | `Start`, `Stop`, `SetStreamData`, accept and write completions, retry timers | the host over a named pipe |
| Streams of the host (`rs-dll/streams.cpp`, `renderstream.cpp`) | `g_streams` | `LoadStreamsFromRemote`, `rs_getStreams` | PipeServer over the pipe, the sender by calls |
| HttpServer, ProcessManager (`rs-agent/`) | tracked processes, what exited last, the poll timer | launch, kill, status, list, schema; `OnPoll` | PipeServer by calls; the engine by process handles |
| Converter (`rs-dll/converter.cpp`) | two allocators, fences and packs, two banks of buffers per layer | `Initialize`, `Submit`, `Consume`, `Shutdown` | the GPU; the senders through `rs_sendFrame2` |
| NdiSender, NovaNdiSender (`rs-dll/sender/`) | a sending context per layer, `started_`, `gpu_ready_` | `Start`, `Stop`, `Send`, `SendTexture` | the libraries of NDI and NovaNDI |
| RenderStreamClient (`rs-client/client.cpp`) | socket, timer, `state_`, `running_`; cameras, texts, skeleton, parameters | `Connect`, `Start`, `Stop`, `Disconnect`, setters, `build_and_send`, HTTP queries | agent by HTTP, Link by TCP |
| LanAnnouncer, `Discover` | a UDP socket, a timer | broadcast, listen | each other by UDP |
| Schema and parameters (`common/renderstream.hpp`, `renderstream.cpp`, `client.cpp`) | the schema file; the host's `Schema`; `schema_`, `param_map_`, `param_values_` of the client | `rs_saveSchema`, `rs_loadSchema`, `rs_setSchema`, `rs_getFrameParameters`; `LoadSchema`, `SetParameters` | editor, host and agent by the file, client by HTTP and ticks |
| ndisplay-gen, examples, tray icon, logging | none that matters | | |

What is hard here: the host reads the published request with no lock; a Session
is written from three threads; completions of aborted waits arrive after `Stop`;
processes end whenever they like; the GPU is two frames behind and its buffers
may be made anew in the middle of a frame; the client is stopped from a thread that
cannot see where its loop is, and begins to write a request before the last one is
written; four parties lay out one row of parameters by a schema that may be
replaced under them.

## Modules

Each module starts with a comment that says what it stands for, and each mutated
form of a definition (its name ends in `M`) states in a comment the bug it makes.

**`FrameLink`** (implements **`LatestFrame`**). The io thread's handler is three
steps (lock and begin to move, store and count, notify), since an unlocked reader
could see a request half moved: `Torn`. `AwaitFrame` is the entry, the unlocked
read of `tick_version_`, the predicate under the mutex, the wait with its
wake-ups, and the swap. A request is known by its number. `LatestFrame` is the
promise: each frame shown is the newest request and newer than the last. What
`RoleSwitching` allows is a host that calls `rs_setFollower` after its first frame.

**`SessionWrite`** (implements **`OrderedChannel`**). `Write` is two steps, the
critical section and the post; `DoWrite` and the completion run on the io thread.

**`PipeServer`** (implements **`PipeService`**). The accept loop with its
completed handlers in the order in which the io thread runs them (`ready`), the
writes and timers that have not completed, the pipe of the present accept, and
clients that open a pipe, read, leave. All three outcomes of `ConnectNamedPipe`, the
failure to create a pipe, and the one-second retry are there. `BeginAccept` is two
steps, since a client may open the instance before `ConnectNamedPipe` is called on
it. A wait that is aborted completes with an error later. `PipeService` has no
pipes: a client connects, one moment's data is taken for it, and it is answered or
lost.

**`StreamHost`** makes one client of the pipe the host process: `rs_getStreams`
opens the pipe, reads until it is closed, parses, starts the sender and copies the
descriptions into a buffer whose size the host asked for before. **`Sender`** is the
two implementations of `ISender` as one state machine: which contexts a layer has,
and what `Start` gives back when the library fails in the middle of the layers.
Which of the two there is, is a choice of the initial state. **`MCStreamHost`** has
the stream data.

**`Agent`** uses `PipeService` in place of the server that implements it, adds
`ProcessManager` and the handlers of `HttpServer` that change state, and engine
processes that read the pipe and end. The data of a launch is the number of the
process it is for. Launch is one step: all of it runs on the io thread, and no
process reads the pipe before it exists. `LaunchThrows` is a launch whose handler
is left by an exception it does not catch after the pipe data was set.

**`Converter`**. The host's calls, one stream after the other; `Submit` is split
where it waits (for the pool's fences, for the frame's fence) and where the GPU
can run between its steps. A buffer is a layer, a bank, the frame copied into it and
the generation of the pool it is from; `gpu` is the queue of lists; `held` is the
buffer the sender reads, which `NDIlib_send_send_video_async_v2` keeps until it is
given the next. Textures have widths: a wider one replaces the pool, in the middle
of a frame if it comes there, and `clipped` is the set of the streams that are half
of each texture. A readback buffer ends in a guard word; `overwritten` are the buffers
whose word a copy has destroyed, and `ConsumeAsserts` is the assert that finds it gone
(without asserts the buffer is sent all the same). A fence wait that is given up goes
on or ends in an assert, by the build.
`rs_shutdown` releases the buffers in one step and stops the sender in the next.

**`TickClient`**. The application's thread and the thread in `Start`, with the
io_context's stopped flag, the timer, the read and the writes outstanding, and the
operations that ended with a socket and are reported in a later `Start`
(`aborted`). `running_` and `state_` are not atomic; they are written in separate
steps where the other thread could come between.

**`ClusterClient`** extends it, over **`FrameRequest`**: what the application sets,
what the `on_build_...` callbacks make of it, the request of each tick, the socket
and the host's session. A request with a pose is too long for one write of the
socket: its second part is begun by the handler of the first, and another request
may come between. `FrameRequest` is `to_json` and `from_json` of `rs::Request` and
the host's readers of cameras, texts and skeletons. **`MCClusterClient`** names the
three kinds of behaviours that are checked.

**`SchemaExchange`** over **`SchemaFormat`**, with the schemas of
**`MCSchemaExchange`**. The operators of `SchemaFormat` are the conversions and the
two walks over a schema, `bytes()` and `to_c`, each from its own lines; a string
is its length. `SchemaExchange` is the file (torn between opening and writing, or
for good when `dump()` throws), the editor that saves it, the host that builds or
loads a schema, and a client that sets and sends parameters. The host's reading
of its row (`HostOffset`) is external: the sum of the widths before, as the
header's comments on the types have it. `assigned` is not in the code: it is what
the application set, kept by key. A call of `SetParameters` with more values than
the parameter has, which the code does not refuse, is not made. The schemas a
host or an editor builds are any (`AssetsAssumption`); that the host finds what
was set is promised where every parameter of the laid-out scene has a key of its
own and a type that the host's header defines (`Addressable`).

**`FrameLinkProofs`, `SessionWriteProofs`, `AgentProofs`, `TickClientProofs`**
(with `ClusterClient`), **`ConverterProofs`, `PipeServerProofs`** (with `StreamHost`)
and **`SchemaProofs`** hold the theorems, **`FoldProofs`** what the last two need to
know of folds.

## Runs

| Run | Checks | Bounds |
|---|---|---|
| `frame_link` | types, one client at a time, no torn frame, at most one frame after quit, `*published_` stable between calls, refinement of `LatestFrame`, a tick wakes its waiter, every timed call returns | 3 ticks, 2 sessions: a tick lost, skipped and shown, and a client after a client |
| `frame_link_role_switch` | violated: a follower never goes back to an older frame | as above, 1 session |
| `session_write` | one write at a time, nothing stranded, refinement of `OrderedChannel` with its liveness | 2 writers and the io thread, 5 messages: the queue drains and fills again while a write flies |
| `pipe_server` (`MCStreamHost`) | one accept loop, nothing left open, refinement of `PipeService` with its liveness; the sender owns its contexts, and has those of the GPU only while their device exists, the stream descriptions fit, `rs_getStreams` returns | 2 clients, one of them the host, 2 pipe handles, 3 values (none, one that does not parse, two streams), 1 start and stop, both senders |
| `stream_host_fallback` (`MCStreamHost`) | violated: a layer that falls back to the CPU is sent | 1 client, the host |
| `pipe_server_restart` | violated: a server that says it runs accepts | 2 starts |
| `agent` | own streams, one session, the exit reported, an exit noticed | 3 launches, one run of the agent: one that fails, one that throws or is killed, one after it |
| `agent_slow_exit` | violated: one session, if a process outlives `Kill`'s wait | 2 launches |
| `tick_client` (`MCClusterClient`) | one tick after stop, `Stop` ends `Start`, a lost host ends `Start`; only ticks that shared the socket are lost, a tick that did not arrives, the host sees what was meant for the streams that have a camera | 2 starts (the second on an io_context that was stopped) with 1 tick; or 3 ticks with a skeleton, so that two overlap and one follows; or 2 ticks with 2 cameras and a text; 2 writes outstanding |
| `schema_exchange` | types, among them that the map of offsets has the keys of the schema loaded last; `to_c` stays in the buffer, aligned and without overlaps; saving again changes nothing; host and client have one hash; the host reads of each parameter what was set | 3 schemas (one empty, two of a scene with one name, in which a key changes its type and place), 2 saves, 2 calls of `SetParameters`, matrices of 2 by 2: a schema replaced between any two calls |
| `converter` | allocators free when reset, no frame overwritten under the sender, no buffer released in use, rows read as written exactly when a widest stream is not clipped, a pack is one frame; calls return | 3 frames of 2 streams, 2 widths, the second stream clipped or not, 2 calls of `Initialize` (the second leaves a frame less): each slot and pack is used twice and a bank once more, a stream fails or its texture grows inside a frame |
| `converter_early` | violated: what is handed out is finished | 4 frames |

The passing runs have between 1 300 (`agent`) and 790 000 (`converter`) distinct
states. Bounds are constants of the modules and appear as guards: they limit how many
ticks, sessions, launches, frames or starts there are, never what a step may do.
`MaxWrites` of `TickClient` delays a timer instead; the code has no such limit. They
are small because the state they bound is: two buffers, two slots, two banks, one
accept loop, at most one tracked process. Two rounds bring each of these back to
where it was with a history, and the theorems below do not depend on the bounds.
Where `CHECK_DEADLOCK FALSE` stands the system may stop for good: a session with
everything written, an agent that has quit, a process ended by an assert,
or by a wait of a second life of the Converter that does not end.

### What the violations say

* `frame_link_role_switch`: `AwaitFrame` does not set `last_consumed_version_`,
  so a host that becomes a follower after awaiting a frame has the two buffers
  swapped back, though nothing has arrived.
* `pipe_server_restart`: `Stop` posts its cleanup; after a `Start` that comes
  before it runs, it closes the new wait, and the server never accepts again.
* `agent_slow_exit`: `Kill` does not look at the result of its wait.
* `converter_early`: the frame's pack is handed out when the fence of the frame
  before has passed; the assert at `converter.cpp:440-442` looks at that fence.
* `stream_host_fallback`: with one GPU context `gpu_ready_` is set for all layers, the
  host submits textures only, and the CPU context that a layer fell back to gets none.

The models show more that disagrees with what is written; no run is made of it, and
the passing properties are stated so that they do not speak of it:

* `GetCamera` answers a stream that has no camera with the first one, or an empty one,
  and success (`link.cpp:305-315`); `renderstream.h:432` promises `RS_ERROR_NOTFOUND`.
  `HostSeesTick` is about the streams that have one.
* An agent that is started again tracks no process, and launches an engine beside the
  one an earlier agent left running (`MaxRuns = 2` violates `OneSessionAtATime`);
  `http_server.cpp:300` says "only one UE session at a time".
* Nothing resets `last_connect_ms_` between sessions (`ever` of `PipeService`), so that
  status says "running" of an engine that is still loading; `pipe_server.h:27` says
  "0 if never in this session".
* The guard word is the last of the buffer's own bytes (`converter.cpp:566`). A copy of
  the full size whose rows need no padding, as of a texture 1920 wide, destroys it, and
  an assert says that the GPU wrote past the buffer (`ConsumeAsserts`).

Of these no document says anything; the passing runs stay clear of them where they
must, and the hazards of PROJECT.json name them:

* A client that asks for a schema that is not there, or is being written, is told
  it has loaded an empty one, since the agent's error has status 200
  (`AgentAnswer`); a launch that is refused answers 200 too.
* After a second `Initialize` the first wait for a slot that has been used before
  never ends, since `Shutdown` leaves `fence_value_` and the new fences start from 0;
  `CallsReturn` says when the waits do end (`Answered`). Nor is the
  sender started again after `rs_shutdown`, as the streams stay loaded.
* Where every stream of the greatest width is clipped, the sender reads rows at
  another distance than the Converter wrote them; `RowsMatch` says that it is so then
  and only then.
* A stream that is skipped or fails shifts the banks and the packs: what
  `SentFrameNotOverwritten` and `PackIsOneFrame` say of frames in which nothing failed
  (`steady`) does not hold afterwards. Between `Shutdown` and `StopSender` the sender
  reads what is released, which `BufferOutlivesUse` leaves out.
* A texture wider than its stream, or a stream wider than the first, replaces the
  pool in the middle of a frame: buffers already in the pack are gone
  (`ConsumeReleased`). `BufferOutlivesUse` says when this cannot happen.
* Two requests that overlap and are longer than one write are both lost
  (`OnlySharedTicksAreLost` says that no others are).
* `rs_getSkeletonJointNames` takes no size from its caller, and `rs_loadSchema`, of a
  file that is not there, clears a whole `Schema` whatever size it is given. The host
  passes only sizes it was told, none of which is smaller (`LoadNotFound`).

## Fairness

* `FrameLink`: a handler or a call that has begun goes on (WF). Strong fairness
  for what needs the mutex: it is free again and again, and both the standard
  library's lock and the absolute deadline of `wait_for` let the host through.
  Nobody has to connect, send or call.
* `SessionWrite`: posted handlers run and writes on a live connection complete.
* `StreamHost`: handlers of the agent's io thread run, timers expire
  (`WF(IoNext)`), and a call of the host that can go on does (`WF(HostStep)`). The
  other clients may stay away, and nobody has to call, start or stop.
* `Agent`: only the poll timer.
* `TickClient`: both threads go on with what they have begun; a failed read is
  delivered although ticks are always ready too, because asio's queue is first in,
  first out (strong fairness). The tick timer, stops and the host are not fair.
* `ClusterClient`: besides, a first part that was written is reported, and the
  host's session, which does nothing else on its thread, reads what has arrived.
* `Converter`: a call goes on, a wait with a time limit ends, the GPU gets
  through its queue.

## Proofs

TLC checks the small instances above; these hold for every value of the
constants. Each follows one pattern: an inductive invariant `IInv` of the
component, checked by TLC first, kept by every action; then each property from
`IInv`.

* **FrameLink** (`Invariance`, `TypeCorrect`, `SingleClient`, `NeverTorn`,
  `QuitEndsFrames`, `StablePublished`). `NoTornFrame` alone is not inductive: it
  needs that `inbox` and `published` differ, that only the io thread inside
  `OnTick` makes the inbox torn, and that no swap happens while it holds the
  mutex (`BuffersInv`). `AtMostOneFrameAfterQuit` needs where the host's thread
  is (`LateInv`): after `quit_` no call gets past its entry. All of these hold
  with role switching too.
* `ImplementsLatestFrame` needs `ASSUME ~RoleSwitching`: by `NewestInv` and
  `RoleInv` the newest request is in the inbox exactly as long as it is newer
  than the one shown, and a swap shows it. Without the assumption the violating
  run is a counterexample.
* **SessionWrite** (`Invariance`, `SingleWrite`, `NeverStranded`,
  `ImplementsChannel`). `ChainInv`: `writing_` is set exactly when one of a writer
  about to post, a posted `DoWrite` or a write in flight exists, and there is
  exactly one. `OrderInv`: delivered, in flight and queued, in this order, are
  what was accepted.
* **Agent** (`TypeCorrect`, `ReportsLastExit` with no assumption; `OwnStreams`,
  `OneSession` under `~SlowExit` and `MaxRuns <= 1`). `SessionInv`: what is alive is
  tracked, at most the last launch is tracked, and while a process is tracked the
  pipe holds its data. Both assumptions are needed, as `agent_slow_exit` and
  `MaxRuns = 2` show.
* **TickClient** (`TypeCorrect`, `LastTick`). `LateInv`: the handler that sent
  late is past sending, and a stopped io_context dispatches no other; that it
  stays stopped is a lemma of its own (`StoppedStays`), and the reason a `Stop`
  between `running_ = true` and `io_.run()` is not lost.
* **ClusterClient**, in the same module. `IsTickClient`: each of its steps is one
  of `TickClient` or a stutter, so that `LastTick` carries over (`LastRequest`).
  `NoOtherTickIsLost` follows the parts on the wire (`WireInv`): ticks begin on it
  in order (`OrderInv`); an unshared tick is on it as long as the connection lasts
  (`ArrivalInv`); and the line of an unshared tick begins after the end of another
  and is followed by its own second part, or by nothing yet (`AloneInv`), which
  needs that the wire only ever ends inside a request that the socket still works
  on (`SocketInv`). So the line that is read is whole, or belongs to shared ticks.
  `SeesTick` needs that names, layout and poses are of one number of joints
  (`Fits`), for then nothing that `ToJson` leaves out was there (`RoundTrip`).
* **Converter** (`FreeAllocator`, `WholeFrames`, `TwoBanksAreEnough`, `BuffersStay`,
  `RowsAreRead`). `SlotInv`: the lists in the GPU's queue carry the
  fence values of their slots in order, so that a fence that has passed leaves none
  of its slot. `PackInv`: while nothing failed, the pack that is being filled is the
  frame's streams so far and the other is empty, or, once the fence has passed, the
  ready pack is the whole frame. `BufferInv`: the next bank of a layer is neither the
  one the sender holds nor the one this frame was copied to, and the copies of this
  frame that the GPU has yet to do go to other buffers than the sender's. `SizeInv`:
  while textures are as declared, the pool is empty or of the size the widest stream
  needs, so that what is in a pack or held is of its present generation, and
  `RowsAreRead` compares that size with what the clipping leaves of each stream. No
  assumption is made of the constants but their types; what a theorem is about is in
  its property.
* **PipeServer** (`AcceptLoop`, `PipesAreClosed`) under `MaxStarts <= 1`. `LoopInv`:
  the loop is at exactly one place, a thread in `BeginAccept`, a wait, a handler, a
  write, a timer, or nowhere once it has stopped; what is open belongs to that place
  or to a cleanup that is yet to run. The assumption is needed:
  `pipe_server_restart` is the counterexample.
* `ImplementsService`, with the same assumption: the server implements the safety
  part of `PipeService`. `PeerInv` follows, on top of `LoopInv`, what the client at
  the other end of each pipe has been given at each place of the loop.
* **StreamHost** (`OwnsContexts`, `ContextsHaveDevice`, `DescriptionsFit`), in the same
  module, for any streams and both senders. `IsPipeServer`: each of its steps is one
  of `PipeServer` or a stutter. `SenderInv`: while `Start` runs, a layer it has not
  come to has no context, there are no contexts but those of the layers, and none of
  the GPU without its device.
  `SizesInv`: a size the host was told is that of the streams that are loaded,
  which stay what they are. What is measured stream by stream and what is written
  string by string are folds, which are equal for any streams (`RequiredIsWritten`).
* **Folds** (`FoldProofs`). The provers instantiate no operator in a lemma, so
  the operator that is folded is a constant, and each fold of the model is an
  instance. The library defines `FoldLeft` by a recursive function on sets of
  indices: that there is one is `IteratesExists`, what it does with one element
  more `FoldAppend`, and a property that each step keeps is kept (`FoldInvariant`).
  Inductions are over a set of numbers reached (`UpTo`), by the least that is not.
* **SchemaExchange** (`TypeCorrect`, `LoadFitsBuffer`, `SavesTheSame`,
  `HashesAreEqual`, `HostReads`), for any schemas: any number of scenes, parameters
  and options, strings of any length, matrices of any size, any number of saves,
  loads and values set. Nothing is assumed but the types of the constants
  (`BoundsAssumption`, `AssetsAssumption`). What they follow from:
  * A conversion is known by what it does to one parameter (`Read`, `Given`,
    `Filled`) and to one hash (`Hashed`): lemmas `FromCFields` to `FillHashFields`.
    Two schemas are the same file when these agree.
  * `TypeInv` says more than `TypeOK`: where defaults are still missing.
  * `BufferInv`: what is in the host's buffer ends within its size. `Tracks` relates
    an offset of `bytes()` with the regions of `to_c` at the same place in the two
    walks; every string, array, parameter and scene keeps it, so `to_c` ends
    where `bytes()` said (`WrittenTracks`). The size asked for before does not
    matter, since `to_c` is called when the buffer is as large as what is loaded now.
  * `VersionInv`: what the host has of an asset, completed or not, makes the same
    file as the asset, and the client's schema is what the agent sends of that file.
    `SavedAgainIsSame` alone is not inductive, since it says nothing of the file
    between the save and the load.
  * `RowInv`: the host's schema is laid out as the asset (`SameLayout`), the map is
    that of the client's schema, and the client's values and the tick's are a row
    that holds what was assigned (`Rowed`). The client's offsets (a map that is
    filled) are the host's sums of widths (`OffsetsAre`), the defaults lie there
    (`DefaultsAre`), and what is set at one offset leaves the others (`SetRow`).
    `Addressable` is needed: with a type that its header does not define the file
    has a number where the host has none, and of two equal keys the map has one.

Assumptions on constants are the named `ASSUME`s of the modules (bounds are
natural numbers, flags Boolean, model values distinct).

Only model-checked: everything temporal under fairness (`TickWakesWaiter`,
`CallsReturn`, `ExitIsNoticed`, `StopEndsStart`, `PeerGoneEndsStart`, `TickArrives`,
`GetStreamsReturns`, and the liveness of `OrderedChannel` and `PipeService`). It needs
`ENABLED`, which the provers do not handle. Every invariant that a passing run
checks is stated by a theorem.

## Not modelled

* **LanAnnouncer, `Discover`**: a UDP broadcast on a timer, and a listener that
  keeps an entry per name until its time is over. Neither keeps state between calls
  nor shares any with the rest.
* **ndisplay-gen, examples**: JSON that is generated from a model, and programs that
  call the client in one order; no state that outlives a call.
* **Tray icon, message loop, logging, `encoding`, `lan_net`**: user interface, pure
  I/O, string conversions. The request to quit is `Agent`'s `Quit`.
* **HTTP queries of the client and GET handlers of the agent** other than the schema:
  one request and its answer, which change no state.
* **`last_status_`** of the Link: one comparison in one call. It outlives the session,
  so that the next client is not told a status that has not changed; nothing promises
  that it is.
* **Images**: `image_refs` has readers in the host, and no client sets one.
* **`AwaitFrame(-1)`**, which `OnDisconnect` does not wake: the call is in
  `FrameLink`, its return is promised nowhere, and `CallsReturn` leaves it out.
* **`FlushFileBuffers`** waits on the agent's io thread until the client has read;
  the clients of `PipeServer` read what they are sent.
* **Data races** on `session_` and on the client's timer are undefined behaviour with
  more outcomes than a model could list. **Floating-point** times (`1.0 / dt`,
  `link.cpp:289`), **pixel formats**, the text of JSON and handle values
  (`pipe_server.cpp:172` closes an event handle twice; the model cannot tell) are data
  no property tells apart.
