------------------------------ MODULE FrameLink -----------------------------
(***************************************************************************)
(* The tick side of rs::Link (rs-dll/link.cpp): the io thread accepts one  *)
(* client at a time and moves each request it sends into *inbox_; the host *)
(* application's thread swaps inbox_ and published_ inside AwaitFrame or   *)
(* BeginFollowerFrame, and reads *published_ between those calls without a *)
(* lock.  A request is known by the value tick_version_ takes when it is   *)
(* stored; 0 is the empty Request a buffer starts with.                    *)
(*                                                                         *)
(* The application's critical sections are single steps that need the      *)
(* mutex free; the io thread's is two steps, since it is a move of a large *)
(* structure that an unlocked reader could see half done.  The protocol    *)
(* of renderstream.h:424-425 is the guard on the application's calls: a    *)
(* follower calls BeginFollowerFrame where a controller calls AwaitFrame.  *)
(***************************************************************************)
EXTENDS Integers

CONSTANTS MaxTicks,      \* bound: requests stored by one Link
          MaxSessions,   \* bound: connections accepted by one Link
          RoleSwitching  \* may the host change role after its first frame?

ASSUME BoundsAssumption == MaxTicks \in Nat /\ MaxSessions \in Nat
ASSUME RoleAssumption   == RoleSwitching \in BOOLEAN

VARIABLES
  up,                     \* g_link is set
  session,                \* session_ is set
  accepting,              \* an async_accept is pending
  sessions,               \* connections accepted so far
  ioPc,                   \* where the io thread is in OnTick
  buf, inbox, published,  \* the two Requests and the two pointers
  tick_version, last_consumed_version,
  is_follower, quit,
  framed,                 \* the host has made a frame call on this Link
  pc,                     \* where the host's thread is in a frame call
  last, timeout,          \* AwaitFrame's local and its argument's class
  streams_signaled,       \* AwaitFrame's function-local static
  result,                 \* what the host's last frame call returned
  late                    \* frames published after quit_ was set

ioVars   == <<session, accepting, sessions, ioPc>>
frameVars == <<buf, inbox, published, tick_version, last_consumed_version>>
appVars  == <<is_follower, framed, pc, last, timeout, streams_signaled,
              result>>
vars     == <<up, quit, late, ioVars, frameVars, appVars>>

Buffers  == {0, 1}
Torn     == -1                          \* a Request half moved
Timeouts == {"forever", "poll", "timed"} \* timeoutMs < 0, = 0, > 0
Results  == {"none", "SUCCESS", "TIMEOUT", "STREAMS_CHANGED", "QUIT"}

Locked == ioPc = "writing"              \* the io thread holds mutex_

TypeOK ==
  /\ up \in BOOLEAN /\ session \in BOOLEAN /\ accepting \in BOOLEAN
  /\ sessions \in 0..MaxSessions
  /\ ioPc \in {"run", "writing", "notify"}
  /\ buf \in [Buffers -> Int]
  /\ inbox \in Buffers /\ published \in Buffers
  /\ tick_version \in Nat /\ last_consumed_version \in Nat
  /\ is_follower \in BOOLEAN /\ quit \in BOOLEAN /\ framed \in BOOLEAN
  /\ pc \in {"idle", "entered", "lock", "wait", "follow"}
  /\ last \in Nat /\ timeout \in Timeouts
  /\ streams_signaled \in BOOLEAN
  /\ result \in Results
  /\ late \in Nat

-----------------------------------------------------------------------------
(* Construction and destruction.  The constructor starts accepting; the    *)
(* destructor stops the io thread and waits for the handler it is running. *)

Init ==
  /\ up = FALSE /\ session = FALSE /\ accepting = FALSE /\ sessions = 0
  /\ ioPc = "run"
  /\ buf = [b \in Buffers |-> 0] /\ inbox = 0 /\ published = 1
  /\ tick_version = 0 /\ last_consumed_version = 0
  /\ is_follower = FALSE /\ quit = FALSE /\ framed = FALSE /\ late = 0
  /\ pc = "idle" /\ last = 0 /\ timeout = "poll"
  /\ streams_signaled = FALSE /\ result = "none"

NewVersionsM ==  \* "nothing consumed yet" as a sentinel below zero
  tick_version' = 0 /\ last_consumed_version' = -1

NewVersions == tick_version' = 0 /\ last_consumed_version' = 0

\* Every member of a Link starts afresh; the function-local statics do not.
\* BeginAccept in the constructor leaves an accept pending.
NewLink(accept) ==
  /\ pc = "idle" /\ ioPc = "run"
  /\ session' = FALSE /\ accepting' = accept /\ sessions' = 0
  /\ buf' = [b \in Buffers |-> 0] /\ inbox' = 0 /\ published' = 1
  /\ NewVersions
  /\ is_follower' = FALSE /\ quit' = FALSE /\ framed' = FALSE /\ late' = 0
  /\ result' = "none"
  /\ UNCHANGED <<ioPc, pc, last, timeout, streams_signaled>>

\* rs_initialise: a Link already there is replaced by the new one.
Initialise == up' = TRUE /\ NewLink(TRUE)

\* rs_shutdown, as far as the Link is concerned.
Shutdown == up /\ up' = FALSE /\ NewLink(FALSE)

-----------------------------------------------------------------------------
(* The io thread.  A line that does not parse changes nothing.             *)

OnAcceptM ==  \* accepts the next client while this one is served
  /\ accepting /\ ioPc = "run" /\ sessions < MaxSessions
  /\ session' = TRUE /\ sessions' = sessions + 1
  /\ UNCHANGED <<accepting, up, quit, late, ioPc, frameVars, appVars>>

OnAccept ==
  /\ accepting /\ ioPc = "run" /\ sessions < MaxSessions
  /\ session' = TRUE /\ accepting' = FALSE /\ sessions' = sessions + 1
  /\ UNCHANGED <<up, quit, late, ioPc, frameVars, appVars>>

\* An accept that fails is not repeated: this Link never accepts again.
OnAcceptError ==
  /\ accepting /\ ioPc = "run"
  /\ accepting' = FALSE
  /\ UNCHANGED <<up, quit, late, session, sessions, ioPc, frameVars, appVars>>

OnTickLock ==
  /\ session /\ ioPc = "run" /\ tick_version < MaxTicks
  /\ ioPc' = "writing"
  /\ buf' = [buf EXCEPT ![inbox] = Torn]
  /\ UNCHANGED <<up, quit, late, session, accepting, sessions, inbox,
                 published, tick_version, last_consumed_version, appVars>>

OnTickStore ==
  /\ ioPc = "writing"
  /\ ioPc' = "notify"
  /\ buf' = [buf EXCEPT ![inbox] = tick_version + 1]
  /\ tick_version' = tick_version + 1
  /\ UNCHANGED <<up, quit, late, session, accepting, sessions, inbox,
                 published, last_consumed_version, appVars>>

OnTickNotifyM ==  \* the notification is missing
  /\ ioPc = "notify"
  /\ ioPc' = "run"
  /\ UNCHANGED <<up, quit, late, session, accepting, sessions, frameVars,
                 appVars>>

OnTickNotify ==
  /\ ioPc = "notify"
  /\ ioPc' = "run"
  /\ pc' = IF pc = "wait" THEN "lock" ELSE pc
  /\ UNCHANGED <<up, quit, late, session, accepting, sessions, frameVars,
                 is_follower, framed, last, timeout, streams_signaled, result>>

\* The read fails: quit_ is set without the mutex and without a
\* notification, and is never cleared.
OnDisconnect ==
  /\ session /\ ioPc = "run"
  /\ quit' = TRUE /\ session' = FALSE /\ accepting' = TRUE
  /\ UNCHANGED <<up, late, sessions, ioPc, frameVars, appVars>>

-----------------------------------------------------------------------------
(* The host's thread, AwaitFrame.  quit_ and the static are looked at on   *)
(* entry, then tick_version_ is read, all without the mutex.               *)

CallAwait == up /\ pc = "idle" /\ ~is_follower /\ framed' = TRUE

AwaitQuit ==
  /\ CallAwait /\ quit
  /\ result' = "QUIT"
  /\ UNCHANGED <<up, quit, late, ioVars, frameVars, is_follower, pc, last,
                 timeout, streams_signaled>>

AwaitStreamsChanged ==
  /\ CallAwait /\ ~quit /\ ~streams_signaled
  /\ streams_signaled' = TRUE
  /\ result' = "STREAMS_CHANGED"
  /\ UNCHANGED <<up, quit, late, ioVars, frameVars, is_follower, pc, last,
                 timeout>>

AwaitEnterM(t) ==  \* the quit flag is not looked at
  /\ CallAwait /\ streams_signaled
  /\ pc' = "entered" /\ timeout' = t /\ result' = "none"
  /\ UNCHANGED <<up, quit, late, ioVars, frameVars, is_follower, last,
                 streams_signaled>>

AwaitEnter(t) ==
  /\ CallAwait /\ ~quit /\ streams_signaled
  /\ pc' = "entered" /\ timeout' = t /\ result' = "none"
  /\ UNCHANGED <<up, quit, late, ioVars, frameVars, is_follower, last,
                 streams_signaled>>

ReadVersionM ==  \* compares with what BeginFollowerFrame consumed last
  /\ pc = "entered"
  /\ last' = last_consumed_version /\ pc' = "lock"
  /\ UNCHANGED <<up, quit, late, ioVars, frameVars, is_follower, framed,
                 timeout, streams_signaled, result>>

ReadVersion ==
  /\ pc = "entered"
  /\ last' = tick_version /\ pc' = "lock"
  /\ UNCHANGED <<up, quit, late, ioVars, frameVars, is_follower, framed,
                 timeout, streams_signaled, result>>

SwapAndReturnM ==  \* published_ = inbox_ in place of the swap
  /\ published' = inbox /\ UNCHANGED inbox
  /\ late' = IF quit THEN late + 1 ELSE late
  /\ pc' = "idle" /\ result' = "SUCCESS"
  /\ UNCHANGED <<up, quit, ioVars, buf, tick_version, is_follower, framed,
                 last, timeout, streams_signaled>>

\* std::swap(inbox_, published_), and the end of the call that does it.
SwapAndReturn ==
  /\ inbox' = published /\ published' = inbox
  /\ late' = IF quit THEN late + 1 ELSE late
  /\ pc' = "idle" /\ result' = "SUCCESS"
  /\ UNCHANGED <<up, quit, ioVars, buf, tick_version, is_follower, framed,
                 last, timeout, streams_signaled>>

AwaitSwapM ==  \* the swap does not take the mutex
  /\ pc = "lock" \/ (pc = "wait" /\ timeout = "timed")
  /\ tick_version # last
  /\ SwapAndReturn /\ UNCHANGED last_consumed_version

\* The predicate holds under the mutex: at once, after a wake-up, or when
\* wait_for evaluates it a last time because its time is over.
AwaitSwap ==
  /\ pc = "lock" \/ (pc = "wait" /\ timeout = "timed")
  /\ ~Locked /\ tick_version # last
  /\ SwapAndReturn /\ UNCHANGED last_consumed_version

AwaitTimeoutM ==  \* a timed wait is left only by a tick
  /\ pc = "lock" /\ timeout = "poll"
  /\ ~Locked /\ tick_version = last
  /\ pc' = "idle" /\ result' = "TIMEOUT"
  /\ UNCHANGED <<up, quit, late, ioVars, frameVars, is_follower, framed,
                 last, timeout, streams_signaled>>

AwaitTimeout ==
  /\ (pc = "lock" /\ timeout = "poll") \/ (pc = "wait" /\ timeout = "timed")
  /\ ~Locked /\ tick_version = last
  /\ pc' = "idle" /\ result' = "TIMEOUT"
  /\ UNCHANGED <<up, quit, late, ioVars, frameVars, is_follower, framed,
                 last, timeout, streams_signaled>>

\* The predicate does not hold: the mutex is given up for the wait.
AwaitBlock ==
  /\ pc = "lock" /\ timeout # "poll" /\ ~Locked /\ tick_version = last
  /\ pc' = "wait"
  /\ UNCHANGED <<up, quit, late, ioVars, frameVars, is_follower, framed,
                 last, timeout, streams_signaled, result>>

\* A condition variable may wake its waiter for no reason.
SpuriousWakeup ==
  /\ pc = "wait" /\ pc' = "lock"
  /\ UNCHANGED <<up, quit, late, ioVars, frameVars, is_follower, framed,
                 last, timeout, streams_signaled, result>>

-----------------------------------------------------------------------------
(* The host's thread, SetFollower and BeginFollowerFrame.                  *)

SetFollower(f) ==
  /\ up /\ pc = "idle" /\ is_follower # f
  /\ RoleSwitching \/ ~framed
  /\ is_follower' = f
  /\ UNCHANGED <<up, quit, late, ioVars, frameVars, framed, pc, last, timeout,
                 streams_signaled, result>>

FollowerEnter ==
  /\ up /\ pc = "idle" /\ is_follower
  /\ framed' = TRUE
  /\ pc' = IF quit THEN "idle" ELSE "follow"
  /\ result' = IF quit THEN "QUIT" ELSE "none"
  /\ UNCHANGED <<up, quit, late, ioVars, frameVars, is_follower, last,
                 timeout, streams_signaled>>

\* No tick yet, or none since the last one consumed here.
FollowerKeep ==
  /\ pc = "follow" /\ ~Locked
  /\ tick_version \in {0, last_consumed_version}
  /\ pc' = "idle" /\ result' = "SUCCESS"
  /\ UNCHANGED <<up, quit, late, ioVars, frameVars, is_follower, framed,
                 last, timeout, streams_signaled>>

FollowerSwap ==
  /\ pc = "follow" /\ ~Locked
  /\ tick_version \notin {0, last_consumed_version}
  /\ SwapAndReturn /\ last_consumed_version' = tick_version

-----------------------------------------------------------------------------
IoNext == \/ OnAccept \/ OnAcceptError \/ OnDisconnect
          \/ OnTickLock \/ OnTickStore \/ OnTickNotify

AwaitNext == \/ AwaitQuit \/ AwaitStreamsChanged
             \/ \E t \in Timeouts : AwaitEnter(t)
             \/ ReadVersion \/ AwaitSwap \/ AwaitTimeout \/ AwaitBlock
             \/ SpuriousWakeup

FollowerNext == \/ \E f \in BOOLEAN : SetFollower(f)
                \/ FollowerEnter \/ FollowerKeep \/ FollowerSwap

Next == Initialise \/ Shutdown \/ IoNext \/ AwaitNext \/ FollowerNext

Spec == Init /\ [][Next]_vars

(* A handler and a call that have begun go on.  The mutex is given to the  *)
(* host's thread if it is free again and again, and the deadline of        *)
(* wait_for is absolute, so that wake-ups do not put it off.  Nobody has   *)
(* to connect, to send a tick or to make a call.                           *)
Fairness ==
  /\ WF_vars(OnTickStore) /\ WF_vars(OnTickNotify)
  /\ WF_vars(ReadVersion) /\ WF_vars(AwaitBlock)
  /\ SF_vars(AwaitSwap) /\ SF_vars(AwaitTimeout)
  /\ SF_vars(FollowerKeep) /\ SF_vars(FollowerSwap)

FairSpec == Spec /\ Fairness

-----------------------------------------------------------------------------
(* Properties *)

\* One client at a time: while a session is served no other is being
\* accepted, so that OnAccept cannot replace session_ under a client that is
\* still connected.
OneClientAtATime == ~(session /\ accepting)

\* What the host reads through Published() between two frame calls, with no
\* lock, is never a request the io thread is in the middle of moving in.
NoTornFrame == inbox # published /\ buf[published] # Torn

\* Whatever the io thread does, what *published_ holds changes only when a
\* frame call of the host returns a frame or the Link is replaced: pointers
\* from rs_getFrameText stay valid until the next call, as renderstream.h:430
\* says.
PublishedIsStable ==
  [][buf'[published'] # buf[published] =>
       \/ pc # "idle" /\ pc' = "idle" /\ result' = "SUCCESS"
       \/ Initialise \/ Shutdown]_vars

\* The quit flag stays up when another client connects, and only the call
\* that was already waiting can still publish a frame of that client: at most
\* one frame follows a disconnect.
AtMostOneFrameAfterQuit == late <= 1

\* A host that keeps its role sees the newest request each time a frame is
\* published, never one twice and never an older one.
Latest == INSTANCE LatestFrame WITH posted <- tick_version,
                                    shown <- buf[published]
ShowsLatestFrame == Latest!Spec

\* A tick stored while the host is blocked wakes it: the notification sent
\* after the mutex is released is not lost.
TickWakesWaiter == pc = "wait" /\ tick_version # last ~> pc = "idle"

\* Every frame call returns, except an AwaitFrame told to wait for ever.
CallsReturn ==
  pc # "idle" /\ (pc = "follow" \/ timeout # "forever") ~> pc = "idle"

\* BeginFollowerFrame never goes back to an older request: link.cpp:231
\* calls a tick that AwaitFrame or an earlier call has taken "already
\* consumed", the case in which the buffers are left as they are.
FollowerNeverGoesBack ==
  [][pc = "follow" => buf'[published'] >= buf[published]]_vars

-----------------------------------------------------------------------------
(* The inductive invariant the safety properties rest on. *)

\* Only the request being moved in is torn, and it is not the host's.
BuffersInv ==
  /\ inbox # published
  /\ \A b \in Buffers : buf[b] = Torn <=> (Locked /\ b = inbox)

\* No buffer is ahead of the newest request, which is in the inbox until it
\* is published.
NewestInv ==
  /\ \A b \in Buffers : buf[b] <= tick_version
  /\ ~Locked => tick_version \in {buf[inbox], buf[published]}

\* What AwaitFrame read is between the published request and the newest.
AwaitInv ==
  pc \in {"lock", "wait"} => buf[published] <= last /\ last <= tick_version

LateInv ==
  /\ ~quit => late = 0
  /\ late \in {0, 1} /\ (late = 1 => pc = "idle")

\* In a host that keeps its role last_consumed_version_ is, for a follower,
\* the request it shows, and 0 on any Link that has not been used yet.
RoleInv ==
  /\ pc = "follow" => is_follower
  /\ pc \in {"entered", "lock", "wait"} => ~is_follower
  /\ pc # "idle" => framed
  /\ ~framed => buf[published] = 0 /\ last_consumed_version = 0
  /\ is_follower /\ ~RoleSwitching => last_consumed_version = buf[published]

IInv == /\ TypeOK /\ OneClientAtATime
        /\ BuffersInv /\ NewestInv /\ AwaitInv /\ LateInv /\ RoleInv
=============================================================================
