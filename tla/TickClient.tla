----------------------------- MODULE TickClient -----------------------------
(***************************************************************************)
(* rs::RenderStreamClient (rs-client/client.cpp) from Connect to           *)
(* Disconnect: one thread is in Start, which runs the io_context with a    *)
(* tick timer, a read and any number of writes, while the application's    *)
(* thread connects, asks the client to stop, and disconnects.  Nothing is  *)
(* guarded by a lock; io_.stop() is what reaches the other thread, and     *)
(* io_ is never restarted.  What a tick or a message contains is left out. *)
(***************************************************************************)
EXTENDS Naturals

CONSTANTS MaxStarts,  \* bound: calls of Start
          MaxWrites   \* bound: writes outstanding at once

ASSUME BoundsAssumption == MaxStarts \in Nat /\ MaxWrites \in Nat \ {0}

VARIABLES
  state, running,    \* state_, running_
  open, peer,        \* sock_ is connected; the host at its end is there
  timer,             \* the wait on tick_timer_
  reads, writes,     \* reads and writes outstanding on the connection
  aborted,           \* those that ended with it and have not been reported
  stopped,           \* io_.stopped()
  starts,            \* calls of Start so far
  app, loop,         \* where the application's thread and Start's are
  late               \* ticks sent after io_ was stopped

sockVars == <<open, peer>>
asyncVars == <<reads, writes, aborted>>
ioVars   == <<timer, asyncVars, stopped>>
vars     == <<state, running, sockVars, ioVars, starts, app, loop, late>>

TypeOK ==
  /\ state \in {"Ready", "Connecting", "Running", "Stopping", "Error"}
  /\ running \in BOOLEAN /\ open \in BOOLEAN /\ peer \in BOOLEAN
  /\ stopped \in BOOLEAN
  /\ timer \in {"off", "armed"}
  /\ reads \in Nat /\ writes \in Nat /\ aborted \in Nat
  /\ starts \in 0..MaxStarts
  /\ app \in {"idle", "connecting", "stopping", "parting", "closing"}
  /\ loop \in {"out", "called", "begun", "ready", "run", "tick", "sent",
               "leaving"}
  /\ late \in Nat

Init ==
  /\ state = "Ready" /\ running = FALSE
  /\ open = FALSE /\ peer = FALSE
  /\ timer = "off" /\ reads = 0 /\ writes = 0 /\ aborted = 0
  /\ stopped = FALSE
  /\ starts = 0 /\ app = "idle" /\ loop = "out" /\ late = 0

-----------------------------------------------------------------------------
(* The application's thread: Connect, which blocks and tries several times. *)

Connect ==
  /\ app = "idle" /\ ~open /\ loop = "out"
  /\ state' = "Connecting" /\ app' = "connecting"
  /\ UNCHANGED <<running, sockVars, ioVars, starts, loop, late>>

Connected ==
  /\ app = "connecting"
  /\ open' = TRUE /\ peer' = TRUE
  /\ state' = "Running" /\ app' = "idle"
  /\ UNCHANGED <<running, ioVars, starts, loop, late>>

ConnectFailed ==
  /\ app = "connecting"
  /\ state' = "Error" /\ app' = "idle"
  /\ UNCHANGED <<running, sockVars, ioVars, starts, loop, late>>

\* A thread is given Start to run, as in the examples.
CallStart ==
  /\ app = "idle" /\ open /\ loop = "out" /\ starts < MaxStarts
  /\ starts' = starts + 1 /\ loop' = "called" /\ late' = 0
  /\ UNCHANGED <<state, running, sockVars, ioVars, app>>

\* Stop does nothing when running_ is not set, which Disconnect does not
\* look at.
Stop ==
  /\ app = "idle" /\ running
  /\ running' = FALSE /\ state' = "Stopping" /\ app' = "stopping"
  /\ UNCHANGED <<sockVars, ioVars, starts, loop, late>>

Disconnect ==
  /\ app = "idle"
  /\ running' = FALSE
  /\ IF running THEN state' = "Stopping" /\ app' = "parting"
                ELSE state' = state /\ app' = "closing"
  /\ UNCHANGED <<sockVars, ioVars, starts, loop, late>>

\* The handler of the wait that is cancelled is never run: io_ is stopped.
StopIo ==
  /\ app \in {"stopping", "parting"}
  /\ timer' = "off" /\ stopped' = TRUE
  /\ app' = IF app = "parting" THEN "closing" ELSE "idle"
  /\ UNCHANGED <<state, running, sockVars, asyncVars, starts, loop, late>>

\* The socket is closed whether Start has returned or not, which aborts what
\* is outstanding on it.
CloseSocket ==
  /\ app = "closing"
  /\ open' = FALSE /\ peer' = FALSE /\ state' = "Ready" /\ app' = "idle"
  /\ reads' = 0 /\ writes' = 0 /\ aborted' = aborted + reads + writes
  /\ UNCHANGED <<running, timer, stopped, starts, loop, late>>

-----------------------------------------------------------------------------
(* The thread in Start.  running_ and state_ are set one after the other.   *)

StartBegin ==
  /\ loop = "called" /\ loop' = "begun"
  /\ running' = TRUE
  /\ UNCHANGED <<state, sockVars, ioVars, starts, app, late>>

StartArm ==
  /\ loop = "begun" /\ loop' = "ready"
  /\ state' = "Running" /\ timer' = "armed"
  /\ reads' = (IF open THEN reads + 1 ELSE reads)
  /\ aborted' = (IF open THEN aborted ELSE aborted + 1)
  /\ UNCHANGED <<running, sockVars, writes, stopped, starts, app, late>>

RunIoM ==  \* io_.restart() in front of io_.run()
  /\ loop = "ready" /\ loop' = "run" /\ stopped' = FALSE
  /\ UNCHANGED <<state, running, sockVars, timer, asyncVars, starts, app,
                 late>>

RunIo ==
  /\ loop = "ready" /\ loop' = "run"
  /\ UNCHANGED <<state, running, sockVars, ioVars, starts, app, late>>

\* run() returns when io_ has been stopped, or has nothing left to wait for,
\* which stops it too.
LeaveIo ==
  /\ loop = "run"
  /\ stopped \/ (timer = "off" /\ reads = 0 /\ writes = 0 /\ aborted = 0)
  /\ stopped' = TRUE /\ loop' = "leaving"
  /\ UNCHANGED <<state, running, sockVars, timer, asyncVars, starts, app,
                 late>>

StartEnd ==
  /\ loop = "leaving" /\ loop' = "out"
  /\ running' = FALSE
  /\ UNCHANGED <<state, sockVars, ioVars, starts, app, late>>

Dispatch == loop = "run" /\ ~stopped

\* on_tick: the timer expires, the tick is sent, the timer is set again.
TickExpires ==
  /\ Dispatch /\ timer = "armed"
  /\ writes < MaxWrites /\ aborted <= MaxWrites
  /\ timer' = "off" /\ loop' = "tick"
  /\ UNCHANGED <<state, running, sockVars, asyncVars, stopped, starts, app,
                 late>>

TickSend ==
  /\ loop = "tick" /\ loop' = "sent"
  /\ writes' = (IF open THEN writes + 1 ELSE writes)
  /\ aborted' = (IF open THEN aborted ELSE aborted + 1)
  /\ late' = (IF stopped THEN late + 1 ELSE late)
  /\ UNCHANGED <<state, running, sockVars, timer, reads, stopped, starts, app>>

TickRearmM ==  \* a tick that is late is sent at once
  /\ loop = "sent" /\ loop' \in {"run", "tick"} /\ writes < MaxWrites
  /\ timer' = "armed"
  /\ UNCHANGED <<state, running, sockVars, asyncVars, stopped, starts, app,
                 late>>

TickRearm ==
  /\ loop = "sent" /\ loop' = "run"
  /\ timer' = "armed"
  /\ UNCHANGED <<state, running, sockVars, asyncVars, stopped, starts, app,
                 late>>

\* A text that is not UTF-8 makes dump() throw out of io_.run().
TickThrows ==
  /\ loop = "tick" /\ loop' = "leaving"
  /\ UNCHANGED <<state, running, sockVars, ioVars, starts, app, late>>

\* Stop, called by a handler.
LoopStopM ==  \* running_ is left for somebody else to look at
  /\ running' = FALSE
  /\ state' = IF running THEN "Stopping" ELSE state
  /\ UNCHANGED <<timer, stopped>>

LoopStop ==
  /\ running' = FALSE
  /\ IF running
     THEN state' = "Stopping" /\ timer' = "off" /\ stopped' = TRUE
     ELSE UNCHANGED <<state, timer, stopped>>

\* on_recv: a line goes to a callback, which may ask the client to stop.
Receive ==
  /\ Dispatch /\ reads > 0 /\ peer
  /\ LoopStop
  /\ UNCHANGED <<sockVars, asyncVars, starts, app, loop, late>>

ReceiveFails ==
  /\ Dispatch /\ reads > 0 /\ ~peer
  /\ reads' = reads - 1 /\ LoopStop
  /\ UNCHANGED <<sockVars, writes, aborted, starts, app, loop, late>>

Written ==
  /\ Dispatch /\ writes > 0
  /\ writes' = writes - 1
  /\ UNCHANGED <<state, running, sockVars, timer, reads, aborted, stopped,
                 starts, app, loop, late>>

WriteFails ==
  /\ Dispatch /\ writes > 0 /\ ~peer
  /\ writes' = writes - 1 /\ LoopStop
  /\ UNCHANGED <<sockVars, reads, aborted, starts, app, loop, late>>

\* A read or write fails that was begun on a closed socket, or on one that was
\* closed since, perhaps in an earlier Start.
AbortReported ==
  /\ Dispatch /\ aborted > 0
  /\ aborted' = aborted - 1 /\ LoopStop
  /\ UNCHANGED <<sockVars, reads, writes, starts, app, loop, late>>

\* The host at the other end is gone.
PeerLeaves ==
  /\ open /\ peer /\ peer' = FALSE
  /\ UNCHANGED <<state, running, open, ioVars, starts, app, loop, late>>

AppNext == \/ Connect \/ Connected \/ ConnectFailed \/ CallStart
           \/ Stop \/ Disconnect \/ StopIo \/ CloseSocket

StartNext == StartBegin \/ StartArm \/ RunIo \/ LeaveIo \/ StartEnd

TickNext == TickSend \/ TickRearm \/ TickThrows

Next == \/ AppNext \/ StartNext \/ TickNext \/ PeerLeaves
        \/ TickExpires \/ Receive \/ ReceiveFails
        \/ Written \/ WriteFails \/ AbortReported

Spec == Init /\ [][Next]_vars

\* Both threads go on with what they have begun, and a read that has failed
\* is heard of.  Nobody has to stop the client.
FairSpec == Spec /\ WF_vars(StopIo) /\ WF_vars(StartNext) /\ WF_vars(TickNext)
                 /\ SF_vars(ReceiveFails \/ AbortReported)

-----------------------------------------------------------------------------
(* Properties *)

\* A tick handler that was under way when the client was stopped may still
\* send its tick, and no other is sent.
OneTickAfterStop == late <= 1

\* A Stop that found the client running makes Start return, wherever its
\* thread was between setting running_ and running the io_context.
StopEndsStart == app \in {"stopping", "parting"} ~> loop = "out"

\* When the host at the other end goes, Start returns.
PeerGoneEndsStart == loop = "run" /\ ~peer ~> loop = "out"

-----------------------------------------------------------------------------
(* The inductive invariant OneTickAfterStop rests on: the handler that sent *)
(* the late tick is past sending, and a stopped io_ begins no other.        *)

LateInv == late <= 1 /\ (late = 1 => stopped /\ loop # "tick")

IInv == TypeOK /\ LateInv
=============================================================================
