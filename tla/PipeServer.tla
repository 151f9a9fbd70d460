----------------------------- MODULE PipeServer -----------------------------
(***************************************************************************)
(* The accept loop of rs-agent/pipe_server.cpp: one pipe instance at a     *)
(* time is created and listened on, its client is sent the stream data,    *)
(* and the next instance is created.  Handlers run one at a time on the io *)
(* thread, in the order they became ready; Start, Stop and SetStreamData   *)
(* are called by the thread that owns the server, which may be another     *)
(* one; a client opens the pipe whenever an instance is listening.         *)
(*                                                                         *)
(* BeginAccept is two steps, since a client can open the new instance      *)
(* before ConnectNamedPipe is called on it.  Event handles are left out: a *)
(* wait is aborted when accept_event_ is reset or replaced.                *)
(***************************************************************************)
EXTENDS PipeService, Integers, Sequences, FiniteSets

CONSTANTS Pipes,      \* bound: the handle values CreateNamedPipeW can return
          NoPipe,     \* nullptr
          NoClient,   \* nobody has opened this instance
          Gone,       \* its client has closed its end
          MaxStarts   \* bound: calls of Start that find it not running

ASSUME HandleAssumption ==
  /\ NoPipe \notin Pipes /\ MaxStarts \in Nat
  /\ NoClient # Gone /\ {NoClient, Gone} \cap Clients = {}

VARIABLES
  starts,       \* calls of Start so far
  open, peer,   \* handles not closed, and who is at their other end
  accept_pipe,  \* accept_pipe_
  armed,        \* the instance accept_event_ waits for a client of
  creating,     \* the instance a thread is between lines 80 and 93 with
  ready,        \* completed handlers, in the order the io thread runs them
  writes,       \* async_writes in progress
  timers        \* retry timers running

loopVars == <<open, peer, accept_pipe, armed, creating, ready, writes, timers>>
vars     == <<pipeVars, starts, loopVars>>

Threads  == {"owner", "io"}
Handler(kind, p, good) == [do |-> kind, pipe |-> p, ok |-> good]
Handlers == [do : {"cleanup", "accept", "immediate", "written", "begin"},
             pipe : Pipes \cup {NoPipe}, ok : BOOLEAN]
Writes   == [pipe : Pipes, empty : BOOLEAN]

TypeOK ==
  /\ PipeTypeOK /\ starts \in 0..MaxStarts
  /\ open \in SUBSET Pipes
  /\ peer \in [Pipes -> Clients \cup {NoClient, Gone}]
  /\ accept_pipe \in Pipes \cup {NoPipe} /\ armed \in Pipes \cup {NoPipe}
  /\ creating \in [Threads -> Pipes \cup {NoPipe}]
  /\ ready \in Seq(Handlers) /\ writes \in SUBSET Writes /\ timers \in Nat

Init ==
  /\ PipeInit /\ starts = 0
  /\ open = {} /\ peer = [p \in Pipes |-> NoClient]
  /\ accept_pipe = NoPipe /\ armed = NoPipe
  /\ creating = [t \in Threads |-> NoPipe]
  /\ ready = <<>> /\ writes = {} /\ timers = 0

-----------------------------------------------------------------------------
\* accept_event_.reset(): the wait in progress, if any, completes with an
\* error, behind the handlers in q.
AbortWait(q) ==
  IF armed = NoPipe THEN q ELSE Append(q, Handler("accept", NoPipe, FALSE))

\* Closing the handles in ps ends the connections made through them.
Close(ps) ==
  /\ open' = open \ ps
  /\ peer' = [p \in Pipes |-> IF p \in ps THEN NoClient ELSE peer[p]]

\* The clients that are still waiting at the other end of ps.
Waiting(ps) == {c \in Clients : client[c] \in {"connected", "reading"}
                                  /\ \E p \in ps \cap open : peer[p] = c}

Drop(ps) ==
  client' = [c \in Clients |-> IF c \in Waiting(ps) THEN "lost" ELSE client[c]]

\* BeginAccept as far as line 80, with on for running_.  The caller has left
\* q to run and gives up the handles in done once BeginAccept has returned.
BeginAcceptM(on, t, done, q) ==  \* Stop is not looked at
  \/ \E p \in Pipes \ open :
       /\ open' = (open \ done) \cup {p}
       /\ peer' = [r \in Pipes |-> IF r \in done THEN NoClient ELSE peer[r]]
       /\ accept_pipe' = p /\ creating' = [creating EXCEPT ![t] = p]
       /\ ready' = q /\ UNCHANGED timers
  \/ /\ Close(done) /\ timers' = timers + 1
     /\ ready' = q /\ UNCHANGED <<accept_pipe, creating>>

BeginAccept(on, t, done, q) ==
  \/ /\ ~on /\ Close(done) /\ ready' = q
     /\ UNCHANGED <<accept_pipe, creating, timers>>
  \/ on /\ \E p \in Pipes \ open :
       /\ open' = (open \ done) \cup {p}
       /\ peer' = [r \in Pipes |-> IF r \in done THEN NoClient ELSE peer[r]]
       /\ accept_pipe' = p /\ creating' = [creating EXCEPT ![t] = p]
       /\ ready' = q /\ UNCHANGED timers
  \/ /\ on /\ Close(done) /\ timers' = timers + 1
     /\ ready' = q /\ UNCHANGED <<accept_pipe, creating>>

\* ConnectNamedPipe finds no client yet, and the wait for one begins.
ConnectPending(t) == LET p == creating[t] IN
  /\ p \in open /\ peer[p] = NoClient
  /\ armed' = p /\ ready' = AbortWait(ready)
  /\ creating' = [creating EXCEPT ![t] = NoPipe]
  /\ UNCHANGED <<pipeVars, starts, open, peer, accept_pipe, writes, timers>>

\* A client was faster: the exchange is posted.
ConnectImmediate(t) == LET p == creating[t] IN
  /\ p \in open /\ peer[p] \in Clients
  /\ accept_pipe' = NoPipe
  /\ ready' = Append(ready, Handler("immediate", p, TRUE))
  /\ creating' = [creating EXCEPT ![t] = NoPipe]
  /\ UNCHANGED <<pipeVars, starts, open, peer, armed, writes, timers>>

\* CreateEventA or ConnectNamedPipe fails: the instance is closed, and
\* BeginAccept is called again in a second.
ConnectError(t) == LET p == creating[t] IN
  /\ p # NoPipe
  /\ Close({p}) /\ Drop({p}) /\ accept_pipe' = NoPipe /\ timers' = timers + 1
  /\ creating' = [creating EXCEPT ![t] = NoPipe]
  /\ UNCHANGED <<running, current_data, ever, got, starts, armed, ready,
                 writes>>

-----------------------------------------------------------------------------
(* The owner *)

Start ==
  /\ ~running /\ starts < MaxStarts /\ creating["owner"] = NoPipe
  /\ running' = TRUE /\ starts' = starts + 1
  /\ BeginAccept(TRUE, "owner", {}, ready)
  /\ UNCHANGED <<current_data, ever, client, got, armed, writes>>

Stop ==
  /\ running /\ creating["owner"] = NoPipe
  /\ running' = FALSE
  /\ ready' = Append(ready, Handler("cleanup", NoPipe, TRUE))
  /\ UNCHANGED <<current_data, ever, client, got, starts, open, peer,
                 accept_pipe, armed, creating, writes, timers>>

SetData(d) ==
  /\ creating["owner"] = NoPipe
  /\ SetStreamData(d) /\ UNCHANGED <<starts, loopVars>>

-----------------------------------------------------------------------------
(* The clients *)

\* CreateFileW finds an instance nobody else has opened; the event that the
\* io thread may be waiting for is signalled.
Open(c, p) ==
  /\ p \in open /\ peer[p] = NoClient
  /\ Connect(c)
  /\ peer' = [peer EXCEPT ![p] = c]
  /\ armed' = IF p = armed THEN NoPipe ELSE armed
  /\ ready' = IF p = armed THEN Append(ready, Handler("accept", p, TRUE))
                           ELSE ready
  /\ UNCHANGED <<starts, open, accept_pipe, creating, writes, timers>>

\* The client closes its end, or its process ends.
Leave(c) ==
  /\ Lose(c)
  /\ peer' = [p \in Pipes |-> IF peer[p] = c THEN Gone ELSE peer[p]]
  /\ UNCHANGED <<starts, open, accept_pipe, armed, creating, ready, writes,
                 timers>>

-----------------------------------------------------------------------------
(* The io thread *)

Running(kind) ==
  creating["io"] = NoPipe /\ ready # <<>> /\ Head(ready).do = kind

\* A wait that is still armed is aborted along with the pipe.
CleanupM ==  \* the pipe is forgotten, not closed
  /\ Running("cleanup")
  /\ ready' = AbortWait(Tail(ready)) /\ armed' = NoPipe
  /\ accept_pipe' = NoPipe
  /\ UNCHANGED <<pipeVars, starts, open, peer, creating, writes, timers>>

Cleanup ==
  /\ Running("cleanup")
  /\ ready' = AbortWait(Tail(ready)) /\ armed' = NoPipe
  /\ Close({accept_pipe}) /\ Drop({accept_pipe}) /\ accept_pipe' = NoPipe
  /\ UNCHANGED <<running, current_data, ever, got, starts, creating, writes,
                 timers>>

\* The wait failed, or the server has been stopped since.
AcceptAbandoned ==
  /\ Running("accept") /\ ~(Head(ready).ok /\ running)
  /\ ready' = AbortWait(Tail(ready)) /\ armed' = NoPipe
  /\ Close({accept_pipe}) /\ Drop({accept_pipe}) /\ accept_pipe' = NoPipe
  /\ UNCHANGED <<running, current_data, ever, got, starts, creating, writes,
                 timers>>

\* The data is copied and its write begins; with no pipe to write to, the
\* loop ends here.
AcceptComplete ==
  /\ Running("accept") /\ Head(ready).ok /\ running
  /\ ready' = AbortWait(Tail(ready)) /\ armed' = NoPipe
  /\ accept_pipe' = NoPipe
  /\ writes' = writes \cup {w \in Writes : w.pipe = accept_pipe
                                             /\ w.empty = (current_data = Empty)}
  /\ \/ accept_pipe \in Pipes /\ peer[accept_pipe] \in Clients
          /\ Take(peer[accept_pipe])
     \/ ~(accept_pipe \in Pipes /\ peer[accept_pipe] \in Clients)
          /\ UNCHANGED pipeVars
  /\ UNCHANGED <<starts, open, peer, creating, timers>>

\* The kernel has taken the data, or reports that nobody is there.  Data
\* that is empty is written, and recorded, in a handler of its own.
WriteDone(w) ==
  /\ w \in writes /\ writes' = writes \ {w}
  /\ ready' = Append(ready, Handler("written", w.pipe,
                                    w.empty \/ peer[w.pipe] \in Clients))
  /\ UNCHANGED <<pipeVars, starts, open, peer, accept_pipe, armed, creating,
                 timers>>

\* ok: last_connect_ms_ is set.  The pipe is closed with the handler.
Report(p, ok) ==
  /\ ever' = (ever \/ ok)
  /\ client' = [c \in Clients |->
                  IF c \in Waiting({p})
                  THEN IF ok THEN "answered" ELSE "lost" ELSE client[c]]

WrittenM ==  \* a failed write does not begin the next accept
  /\ Running("written")
  /\ Report(Head(ready).pipe, Head(ready).ok)
  /\ IF Head(ready).ok
     THEN BeginAccept(running, "io", {Head(ready).pipe}, Tail(ready))
     ELSE /\ Close({Head(ready).pipe}) /\ ready' = Tail(ready)
          /\ UNCHANGED <<accept_pipe, creating, timers>>
  /\ UNCHANGED <<running, current_data, got, starts, armed, writes>>

Written ==
  /\ Running("written")
  /\ Report(Head(ready).pipe, Head(ready).ok)
  /\ BeginAccept(running, "io", {Head(ready).pipe}, Tail(ready))
  /\ UNCHANGED <<running, current_data, got, starts, armed, writes>>

\* The posted exchange blocks until the client has read or gone, and does
\* not look at the outcome.
ImmediateM ==  \* the connection is not recorded
  /\ Running("immediate")
  /\ UNCHANGED ever
  /\ got' = [c \in Clients |-> IF c \in Waiting({Head(ready).pipe})
                               THEN current_data ELSE got[c]]
  /\ client' = [c \in Clients |-> IF c \in Waiting({Head(ready).pipe})
                                  THEN "answered" ELSE client[c]]
  /\ BeginAccept(running, "io", {Head(ready).pipe}, Tail(ready))
  /\ UNCHANGED <<running, current_data, starts, armed, writes>>

Immediate ==
  /\ Running("immediate")
  /\ Report(Head(ready).pipe, TRUE)
  /\ got' = [c \in Clients |-> IF c \in Waiting({Head(ready).pipe})
                               THEN current_data ELSE got[c]]
  /\ BeginAccept(running, "io", {Head(ready).pipe}, Tail(ready))
  /\ UNCHANGED <<running, current_data, starts, armed, writes>>

Expire ==
  /\ timers > 0 /\ timers' = timers - 1
  /\ ready' = Append(ready, Handler("begin", NoPipe, TRUE))
  /\ UNCHANGED <<pipeVars, starts, open, peer, accept_pipe, armed, creating,
                 writes>>

Retry ==
  /\ Running("begin")
  /\ BeginAccept(running, "io", {}, Tail(ready))
  /\ UNCHANGED <<pipeVars, starts, armed, writes>>

ConnectStep(t) ==
  ConnectPending(t) \/ ConnectImmediate(t) \/ ConnectError(t)

IoNext ==
  \/ Cleanup \/ AcceptAbandoned \/ AcceptComplete \/ Written \/ Immediate
  \/ Expire \/ Retry
  \/ \E w \in writes : WriteDone(w)
  \/ \E t \in Threads : ConnectStep(t)

Next ==
  \/ Start \/ Stop \/ \E d \in Data : SetData(d)
  \/ \E c \in Clients : Leave(c) \/ \E p \in Pipes : Open(c, p)
  \/ IoNext

Spec == Init /\ [][Next]_vars

\* Handlers, operations and timers complete; nobody has to connect.
FairSpec == Spec /\ WF_vars(IoNext)

-----------------------------------------------------------------------------
(* Properties *)

\* What will call BeginAccept again: each is the loop, once.
Continuations ==
  Cardinality({t \in Threads : creating[t] # NoPipe})
    + Cardinality({i \in 1..Len(ready) :
                     ready[i].do # "cleanup" /\ ready[i].ok}
                    \cup {i \in 1..Len(ready) : ready[i].do = "written"})
    + Cardinality(writes) + timers + IF armed = NoPipe THEN 0 ELSE 1

\* A server that is started once and stopped once always has exactly one
\* accept loop while it runs: no failure of a pipe, an event or a write ends
\* it, and none starts a second that would take accept_pipe_ from the first.
OneAcceptLoop == running => Continuations = 1

\* Once it has been stopped and what was in progress is over, no pipe is
\* left open, whatever the loop was doing when Stop was called.
NothingLeftOpen ==
  ~running /\ ready = <<>> /\ writes = {} /\ timers = 0
    /\ (\A t \in Threads : creating[t] = NoPipe) => open = {}

\* Each client is sent the data of one moment after it connected, its
\* connection is recorded, and it is answered or let go in the end.
IsPipeService == PipeSpec

\* A server that is started again serves again, as the test "Start/Stop can
\* be called multiple times" expects: while it runs it has an accept loop.
LoopsWhileRunning == running => Continuations >= 1
=============================================================================
