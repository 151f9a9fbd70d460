-------------------------- MODULE PipeServerProofs --------------------------
(***************************************************************************)
(* Proofs about the agent's pipe, for any number of clients, pipe handles  *)
(* and values of the stream data: the accept loop of a server that is      *)
(* started once; the service its clients get, as PipeService promises it;  *)
(* and the host, one of them, with its sender and the buffer that it asks  *)
(* rs_getStreams to fill, for any streams, layers and both implementations *)
(* of ISender.                                                             *)
(***************************************************************************)
EXTENDS StreamHost, SequenceTheorems, FiniteSetTheorems, TLAPS

-----------------------------------------------------------------------------
(* The accept loop.  It is at one place at a time: in BeginAccept on one of *)
(* the threads, in a wait, in a handler that is ready, in a write, in a     *)
(* timer, or nowhere.                                                       *)

\* What the io thread has to run; only a wait can have failed.
Queued == {h \in Handlers : /\ h.do \in {"immediate", "begin"} => h.ok
                            /\ h.do = "accept" /\ h.ok => h.pipe \in Pipes}

LoopTypes ==
  /\ starts \in Nat /\ timers \in Nat
  /\ open \in SUBSET Pipes /\ writes \in SUBSET Writes
  /\ accept_pipe \in Pipes \cup {NoPipe} /\ armed \in Pipes \cup {NoPipe}
  /\ creating \in [Threads -> Pipes \cup {NoPipe}]
  /\ ready \in Seq(Queued)

-----------------------------------------------------------------------------
(* Queues of handlers.                                                     *)

Elems(q) == {q[i] : i \in 1..Len(q)}

\* A handler that goes on with the loop.
Loop(h) == h.do \notin {"cleanup", "accept"} \/ (h.do = "accept" /\ h.ok)

NoLoop(q)  == \A i \in 1..Len(q) : ~Loop(q[i])
OneLoop(q) == \E k \in 1..Len(q) : \A i \in 1..Len(q) : Loop(q[i]) <=> i = k

LEMMA Appended ==
  ASSUME NEW q \in Seq(Queued), NEW h \in Queued
  PROVE  /\ Append(q, h) \in Seq(Queued)
         /\ Elems(Append(q, h)) = Elems(q) \cup {h}
         /\ NoLoop(q) /\ ~Loop(h) => NoLoop(Append(q, h))
         /\ NoLoop(q) /\ Loop(h) => OneLoop(Append(q, h))
         /\ OneLoop(q) /\ ~Loop(h) => OneLoop(Append(q, h))
<1> DEFINE r == Append(q, h)  n == Len(q)
<1>1. /\ r \in Seq(Queued) /\ Len(r) = n + 1 /\ n \in Nat
      /\ \A i \in 1..n : r[i] = q[i]
      /\ r[n + 1] = h
  BY AppendProperties, LenProperties
<1> HIDE DEF r
<1>2. 1..(n + 1) = 1..n \cup {n + 1}
  BY <1>1
<1>3. Elems(r) = Elems(q) \cup {h}
  BY <1>1, <1>2 DEF Elems
<1>4. NoLoop(q) /\ ~Loop(h) => NoLoop(r)
  BY <1>1, <1>2 DEF NoLoop
<1>5. ASSUME NoLoop(q), Loop(h) PROVE OneLoop(r)
  <2>1. n + 1 \in 1..Len(r)
    BY <1>1
  <2>2. \A i \in 1..Len(r) : Loop(r[i]) <=> i = n + 1
    BY <1>1, <1>2, <1>5 DEF NoLoop
  <2> QED BY <2>1, <2>2 DEF OneLoop
<1>6. ASSUME OneLoop(q), ~Loop(h) PROVE OneLoop(r)
  <2>1. PICK k \in 1..n : \A i \in 1..n : Loop(q[i]) <=> i = k
    BY <1>6 DEF OneLoop
  <2>2. k \in 1..Len(r) /\ k # n + 1
    BY <1>1, <2>1
  <2>3. \A i \in 1..Len(r) : Loop(r[i]) <=> i = k
    BY <1>1, <1>2, <1>6, <2>1, <2>2
  <2> QED BY <2>2, <2>3 DEF OneLoop
<1> QED BY <1>1, <1>3, <1>4, <1>5, <1>6 DEF r

LEMMA Tailed ==
  ASSUME NEW q \in Seq(Queued), q # <<>>
  PROVE  /\ Head(q) \in Queued /\ Tail(q) \in Seq(Queued)
         /\ Elems(q) = Elems(Tail(q)) \cup {Head(q)}
         /\ NoLoop(q) => NoLoop(Tail(q)) /\ ~Loop(Head(q))
         /\ OneLoop(q) /\ Loop(Head(q)) => NoLoop(Tail(q))
         /\ OneLoop(q) /\ ~Loop(Head(q)) => OneLoop(Tail(q))
<1> DEFINE r == Tail(q)  h == Head(q)  n == Len(q)
<1>1. /\ h \in Queued /\ r \in Seq(Queued) /\ Len(r) = n - 1
      /\ \A i \in 1..(n - 1) : r[i] = q[i + 1]
  BY HeadTailProperties
<1>2. n \in Nat /\ n # 0 /\ h = q[1]
  BY LenProperties, EmptySeq
<1> HIDE DEF r, h
<1>3. \A i \in 1..(n - 1) : i + 1 \in 1..n /\ i + 1 # 1 /\ r[i] = q[i + 1]
  BY <1>1, <1>2
<1>4. 1 \in 1..n /\ \A i \in 1..n : i = 1 \/ (i - 1 \in 1..(n - 1) /\ r[i - 1] = q[i])
  BY <1>2, <1>3
<1>5. Elems(q) = Elems(r) \cup {h}
  <2>1. \A x \in Elems(q) : x \in Elems(r) \cup {h}
    <3>1. ASSUME NEW i \in 1..n PROVE q[i] \in Elems(r) \cup {h}
      <4>1. CASE i = 1
        BY <1>2, <4>1
      <4>2. CASE i # 1
        BY <1>1, <1>4, <4>2 DEF Elems
      <4> QED BY <4>1, <4>2
    <3> QED BY <3>1 DEF Elems
  <2>2. \A x \in Elems(r) : x \in Elems(q)
    BY <1>1, <1>2, <1>3 DEF Elems
  <2>3. h \in Elems(q)
    BY <1>2, <1>4 DEF Elems
  <2> QED BY <2>1, <2>2, <2>3
<1>6. NoLoop(q) => NoLoop(r) /\ ~Loop(h)
  BY <1>1, <1>2, <1>3, <1>4 DEF NoLoop
<1>7. ASSUME OneLoop(q), Loop(h) PROVE NoLoop(r)
  BY <1>1, <1>2, <1>3, <1>4, <1>7 DEF NoLoop, OneLoop
<1>8. ASSUME OneLoop(q), ~Loop(h) PROVE OneLoop(r)
  <2>1. PICK k \in 1..n : \A i \in 1..n : Loop(q[i]) <=> i = k
    BY <1>8 DEF OneLoop
  <2>2. k - 1 \in 1..Len(r)
    BY <1>1, <1>2, <1>4, <1>8, <2>1
  <2>3. \A i \in 1..Len(r) : Loop(r[i]) <=> i = k - 1
    BY <1>1, <1>2, <1>3, <2>1
  <2> QED BY <2>2, <2>3 DEF OneLoop
<1> QED BY <1>1, <1>5, <1>6, <1>7, <1>8 DEF r, h

\* What the loop's handler is, in a queue that has one.
LEMMA OnlyLoop ==
  ASSUME NEW q \in Seq(Queued), OneLoop(q)
  PROVE  \E h \in Elems(q) : Loop(h) /\ \A g \in Elems(q) : Loop(g) => g = h
BY DEF OneLoop, Elems

Aborted == Handler("accept", NoPipe, FALSE)

\* A wait that is aborted leaves a handler that does not go on.
LEMMA AbortQueued ==
  ASSUME NEW q \in Seq(Queued)
  PROVE  /\ AbortWait(q) \in Seq(Queued)
         /\ Elems(AbortWait(q)) = Elems(q) \cup (IF armed = NoPipe THEN {} ELSE {Aborted})
         /\ NoLoop(q) => NoLoop(AbortWait(q))
         /\ OneLoop(q) => OneLoop(AbortWait(q))
<1>1. Aborted \in Queued /\ ~Loop(Aborted)
  BY DEF Aborted, Handler, Queued, Handlers, Loop
<1>2. CASE armed = NoPipe
  BY <1>2 DEF AbortWait
<1>3. CASE armed # NoPipe
  BY <1>1, <1>3, Appended DEF AbortWait, Aborted
<1> QED BY <1>2, <1>3

-----------------------------------------------------------------------------
(* The inductive invariant.                                                *)

Places == {"nowhere", "owner", "io", "wait", "ready", "write", "timer"}

\* The loop is at x, and at no other place.
At(x) ==
  /\ \A t \in Threads : creating[t] # NoPipe <=> x = t
  /\ armed # NoPipe <=> x = "wait"
  /\ IF x = "ready" THEN OneLoop(ready) ELSE NoLoop(ready)
  /\ IF x = "write" THEN \E w \in Writes : writes = {w} ELSE writes = {}
  /\ timers = IF x = "timer" THEN 1 ELSE 0

IsAccept(h) == h.do = "accept" /\ h.ok

\* accept_pipe_ is the instance the loop is busy with, if it is not taken
\* back by the cleanup.
AcceptPipe(x) ==
  /\ x \in Threads => accept_pipe = creating[x]
  /\ x = "wait" => accept_pipe = armed
  /\ \A h \in Elems(ready) :
       IsAccept(h) => accept_pipe = h.pipe \/ (~running /\ accept_pipe = NoPipe)
  /\ accept_pipe # NoPipe =>
       x \in Threads \cup {"wait"} \/ \E h \in Elems(ready) : IsAccept(h)

\* Every open instance is accept_pipe_, or belongs to a handler or a write.
Owned ==
  \A p \in open : \/ p = accept_pipe
                  \/ \E w \in writes : w.pipe = p
                  \/ \E h \in Elems(ready) :
                       h.do \in {"immediate", "written"} /\ h.pipe = p

\* A cleanup that is posted, and a wait that failed, belong to a server that
\* was stopped, and a loop that has an instance when it is stopped has its
\* cleanup to come.
Stopping(x) ==
  /\ \A h \in Elems(ready) : running => Loop(h)
  /\ ~running /\ x \in {"io", "wait"} =>
       \E h \in Elems(ready) : h.do = "cleanup"
  /\ x = "owner" => running
  /\ running => x # "nowhere" /\ starts = 1
  /\ starts = 0 => x = "nowhere" /\ ready = <<>> /\ open = {}
  /\ starts <= 1

LoopAt(x) == At(x) /\ AcceptPipe(x) /\ Owned /\ Stopping(x)

LoopInv == LoopTypes /\ \E x \in Places : LoopAt(x)

USE HandleAssumption DEF Threads, Handler

LEMMA InitLoop == Init => LoopInv
<1> SUFFICES ASSUME Init PROVE LoopInv
  OBVIOUS
<1>1. LoopTypes
  BY DEF Init, LoopTypes
<1>2. NoLoop(ready) /\ Elems(ready) = {}
  BY DEF Init, NoLoop, Elems
<1>3. At("nowhere")
  BY <1>2 DEF Init, At
<1>4. AcceptPipe("nowhere") /\ Owned /\ Stopping("nowhere")
  BY <1>2 DEF Init, PipeInit, AcceptPipe, Owned, Stopping
<1> QED BY <1>1, <1>3, <1>4 DEF LoopInv, LoopAt, Places

\* The steps of the clients, and of the owner when it sets the data.
LEMMA LoopAside ==
  ASSUME LoopInv, UNCHANGED <<starts, open, accept_pipe, armed, creating,
                              ready, writes, timers, running>>
  PROVE  LoopInv'
<1>1. LoopTypes'
  BY DEF LoopInv, LoopTypes
<1>2. PICK x \in Places : LoopAt(x)
  BY DEF LoopInv
<1>3. LoopAt(x)'
  BY <1>2 DEF LoopAt, At, AcceptPipe, Owned, Stopping
<1> QED BY <1>1, <1>3 DEF LoopInv

\* In a queue with one handler of the loop at its head.
LEMMA LoopIsHead ==
  ASSUME LoopTypes, OneLoop(ready), ready # <<>>, Loop(Head(ready))
  PROVE  /\ Head(ready) \in Queued /\ Tail(ready) \in Seq(Queued)
         /\ Elems(ready) = Elems(Tail(ready)) \cup {Head(ready)}
         /\ NoLoop(Tail(ready))
         /\ \A h \in Elems(ready) : Loop(h) => h = Head(ready)
<1>1. /\ Head(ready) \in Queued /\ Tail(ready) \in Seq(Queued)
      /\ Elems(ready) = Elems(Tail(ready)) \cup {Head(ready)}
      /\ NoLoop(Tail(ready))
  BY Tailed DEF LoopTypes
<1>2. PICK g \in Elems(ready) : Loop(g) /\ \A h \in Elems(ready) : Loop(h) => h = g
  BY OnlyLoop DEF LoopTypes
<1> QED BY <1>1, <1>2

LEMMA LoopWhere ==
  ASSUME NEW x \in Places, At(x), LoopTypes, ready # <<>>, Loop(Head(ready))
  PROVE  x = "ready" /\ OneLoop(ready)
<1>1. ~NoLoop(ready)
  BY Tailed DEF LoopTypes
<1> QED BY <1>1 DEF At

-----------------------------------------------------------------------------
(* BeginAccept and ConnectNamedPipe.                                       *)

LEMMA StartKeeps == MaxStarts <= 1 /\ LoopInv /\ Start => LoopInv'
<1> SUFFICES ASSUME MaxStarts <= 1, LoopInv, Start PROVE LoopInv'
  OBVIOUS
<1>1. PICK x \in Places : LoopAt(x)
  BY DEF LoopInv
<1>2. starts = 0 /\ starts' = 1 /\ running' /\ armed' = armed /\ writes' = writes
  BY DEF Start, LoopInv, LoopTypes
<1>3. x = "nowhere" /\ ready = <<>> /\ open = {}
  BY <1>1, <1>2 DEF LoopAt, Stopping
<1>4. /\ creating["io"] = NoPipe /\ creating["owner"] = NoPipe /\ armed = NoPipe
      /\ writes = {} /\ timers = 0 /\ NoLoop(ready)
  BY <1>1, <1>3 DEF LoopAt, At
<1>5. ready' = ready /\ Elems(ready) = {} /\ Elems(ready') = {}
  BY <1>3 DEF Start, BeginAccept, Elems
<1>6. CASE \E p \in Pipes : /\ open' = {p} /\ accept_pipe' = p /\ timers' = timers
                           /\ creating' = [creating EXCEPT !["owner"] = p]
  <2>1. PICK p \in Pipes : /\ open' = {p} /\ accept_pipe' = p /\ timers' = timers
                           /\ creating' = [creating EXCEPT !["owner"] = p]
    BY <1>6
  <2>2. LoopTypes'
    BY <1>2, <1>5, <2>1 DEF LoopInv, LoopTypes
  <2>3. creating'["owner"] = p /\ creating'["io"] = NoPipe
    BY <1>4, <2>1 DEF LoopInv, LoopTypes
  <2>4. At("owner")'
    BY <1>2, <1>4, <1>5, <2>1, <2>3 DEF At, NoLoop
  <2>5. AcceptPipe("owner")' /\ Owned'
    BY <1>5, <2>1, <2>3 DEF AcceptPipe, Owned
  <2>6. Stopping("owner")'
    BY <1>2, <1>5 DEF Stopping
  <2> QED BY <2>2, <2>4, <2>5, <2>6 DEF LoopInv, LoopAt, Places
<1>7. CASE open' = {} /\ timers' = timers + 1 /\ UNCHANGED <<accept_pipe, creating>>
  <2>1. LoopTypes'
    BY <1>2, <1>5, <1>7 DEF LoopInv, LoopTypes
  <2>2. At("timer")'
    BY <1>2, <1>4, <1>5, <1>7 DEF At, NoLoop
  <2>3. accept_pipe = NoPipe
    BY <1>1, <1>3, <1>5 DEF LoopAt, AcceptPipe
  <2>4. AcceptPipe("timer")' /\ Owned'
    BY <1>5, <1>7, <2>3 DEF AcceptPipe, Owned
  <2>5. Stopping("timer")'
    BY <1>2, <1>5 DEF Stopping
  <2> QED BY <2>1, <2>2, <2>4, <2>5 DEF LoopInv, LoopAt, Places
<1>8. \/ \E p \in Pipes : /\ open' = {p} /\ accept_pipe' = p /\ timers' = timers
                           /\ creating' = [creating EXCEPT !["owner"] = p]
      \/ open' = {} /\ timers' = timers + 1 /\ UNCHANGED <<accept_pipe, creating>>
  BY <1>3 DEF Start, BeginAccept, Close
<1> QED BY <1>6, <1>7, <1>8

LEMMA PendingKeeps ==
  ASSUME LoopInv, NEW t \in Threads, ConnectPending(t)
  PROVE  LoopInv'
<1>1. PICK x \in Places : LoopAt(x)
  BY DEF LoopInv
<1> DEFINE p == creating[t]
<1>2. p \in Pipes /\ x = t
  BY <1>1 DEF ConnectPending, LoopInv, LoopTypes, LoopAt, At
<1>3. armed = NoPipe /\ ready' = ready /\ NoLoop(ready) /\ accept_pipe = p
  BY <1>1, <1>2 DEF ConnectPending, AbortWait, LoopAt, At, AcceptPipe
<1>4. /\ armed' = p /\ creating' = [creating EXCEPT ![t] = NoPipe]
      /\ UNCHANGED <<starts, open, accept_pipe, writes, timers, running>>
  BY DEF ConnectPending, pipeVars
<1>5. LoopTypes'
  BY <1>2, <1>3, <1>4 DEF LoopInv, LoopTypes
<1>6. \A u \in Threads : creating'[u] = NoPipe
  BY <1>1, <1>2, <1>4 DEF LoopInv, LoopTypes, LoopAt, At
<1>7. At("wait")'
  BY <1>1, <1>2, <1>3, <1>4, <1>6 DEF LoopAt, At, NoLoop
<1>8. AcceptPipe("wait")' /\ Owned'
  BY <1>1, <1>3, <1>4 DEF LoopAt, AcceptPipe, Owned, Elems
<1>9. Stopping("wait")'
  BY <1>1, <1>2, <1>3, <1>4 DEF LoopAt, Stopping, Elems
<1> QED BY <1>5, <1>7, <1>8, <1>9 DEF LoopInv, LoopAt, Places

\* The loop's next handler is posted, and the loop is at no other place.
LEMMA ImmediateKeeps ==
  ASSUME LoopInv, NEW t \in Threads, ConnectImmediate(t)
  PROVE  LoopInv'
<1>1. PICK x \in Places : LoopAt(x)
  BY DEF LoopInv
<1> DEFINE p == creating[t]  h == Handler("immediate", p, TRUE)
<1>2. p \in Pipes /\ x = t
  BY <1>1 DEF ConnectImmediate, LoopInv, LoopTypes, LoopAt, At
<1>3. /\ ready' = Append(ready, h) /\ accept_pipe' = NoPipe
      /\ creating' = [creating EXCEPT ![t] = NoPipe]
      /\ UNCHANGED <<starts, open, armed, writes, timers, running>>
  BY DEF ConnectImmediate, pipeVars
<1>4. /\ accept_pipe = p /\ NoLoop(ready) /\ ready \in Seq(Queued)
      /\ armed = NoPipe /\ writes = {} /\ timers = 0
  BY <1>1, <1>2 DEF LoopAt, At, AcceptPipe, LoopInv, LoopTypes
<1>5. h \in Queued /\ Loop(h) /\ ~IsAccept(h) /\ h.do = "immediate" /\ h.pipe = p
  BY <1>2 DEF Queued, Handlers, Loop, IsAccept
<1>6. /\ ready' \in Seq(Queued) /\ OneLoop(ready')
      /\ Elems(ready') = Elems(ready) \cup {h}
  BY <1>3, <1>4, <1>5, Appended
<1> HIDE DEF h
<1>7. LoopTypes'
  BY <1>2, <1>3, <1>6 DEF LoopInv, LoopTypes
<1>8. \A u \in Threads : creating'[u] = NoPipe
  BY <1>1, <1>2, <1>3 DEF LoopInv, LoopTypes, LoopAt, At
<1>9. At("ready")'
  BY <1>3, <1>4, <1>6, <1>8 DEF At
<1>10. \A g \in Elems(ready) : ~IsAccept(g)
  BY <1>4 DEF NoLoop, Elems, Loop, IsAccept
<1>11. AcceptPipe("ready")'
  BY <1>3, <1>5, <1>6, <1>10 DEF AcceptPipe
<1>12. Owned'
  BY <1>1, <1>3, <1>4, <1>5, <1>6 DEF LoopAt, Owned
<1>13. ready' # <<>> /\ starts # 0
  BY <1>1, <1>2, <1>6, <1>5 DEF LoopAt, Stopping, OneLoop
<1>14. Stopping("ready")'
  BY <1>1, <1>2, <1>3, <1>5, <1>6, <1>13 DEF LoopAt, Stopping
<1> QED BY <1>7, <1>9, <1>11, <1>12, <1>14 DEF LoopInv, LoopAt, Places

\* The instance is closed, and the loop goes on when the timer expires.
LEMMA ErrorKeeps ==
  ASSUME LoopInv, NEW t \in Threads, ConnectError(t)
  PROVE  LoopInv'
<1>1. PICK x \in Places : LoopAt(x)
  BY DEF LoopInv
<1> DEFINE p == creating[t]
<1>2. p \in Pipes /\ x = t
  BY <1>1 DEF ConnectError, LoopInv, LoopTypes, LoopAt, At
<1>3. /\ open' = open \ {p} /\ accept_pipe' = NoPipe /\ timers' = timers + 1
      /\ creating' = [creating EXCEPT ![t] = NoPipe]
      /\ UNCHANGED <<starts, ready, armed, writes, running>>
  BY DEF ConnectError, Close
<1>4. /\ accept_pipe = p /\ NoLoop(ready) /\ armed = NoPipe /\ writes = {}
      /\ timers = 0 /\ Elems(ready') = Elems(ready)
  BY <1>1, <1>2, <1>3 DEF LoopAt, At, AcceptPipe
<1>5. LoopTypes'
  BY <1>3 DEF LoopInv, LoopTypes
<1>6. \A u \in Threads : creating'[u] = NoPipe
  BY <1>1, <1>2, <1>3 DEF LoopInv, LoopTypes, LoopAt, At
<1>7. At("timer")'
  BY <1>3, <1>4, <1>6 DEF At, NoLoop
<1>8. \A g \in Elems(ready) : ~IsAccept(g)
  BY <1>4 DEF NoLoop, Elems, Loop, IsAccept
<1>9. AcceptPipe("timer")'
  BY <1>3, <1>4, <1>8 DEF AcceptPipe
<1>10. Owned'
  BY <1>1, <1>3, <1>4 DEF LoopAt, Owned
<1>11. Stopping("timer")'
  BY <1>1, <1>2, <1>3, <1>4 DEF LoopAt, Stopping
<1> QED BY <1>5, <1>7, <1>9, <1>10, <1>11 DEF LoopInv, LoopAt, Places

-----------------------------------------------------------------------------
(* The handlers of the io thread.                                          *)

\* A handler of the loop is run: the loop was at no other place, the rest
\* of the queue is what a stopped server left, and accept_pipe_ is set only
\* for a completed wait.
LEMMA HeadIsLoop ==
  ASSUME LoopInv, ready # <<>>, Loop(Head(ready))
  PROVE  /\ Head(ready) \in Queued /\ Tail(ready) \in Seq(Queued)
         /\ NoLoop(Tail(ready)) /\ (running => Elems(Tail(ready)) = {})
         /\ \A h \in Elems(Tail(ready)) : ~Loop(h)
         /\ \A t \in Threads : creating[t] = NoPipe
         /\ armed = NoPipe /\ writes = {} /\ timers = 0
         /\ starts = 1
         /\ IF IsAccept(Head(ready))
            THEN accept_pipe = Head(ready).pipe \/ (~running /\ accept_pipe = NoPipe)
            ELSE accept_pipe = NoPipe
         /\ \A p \in open : \/ p = accept_pipe
                            \/ /\ Head(ready).do \in {"immediate", "written"}
                               /\ Head(ready).pipe = p
<1>1. PICK x \in Places : LoopAt(x)
  BY DEF LoopInv
<1>2. x = "ready" /\ OneLoop(ready) /\ LoopTypes
  BY <1>1, LoopWhere DEF LoopInv, LoopAt
<1>3. /\ Head(ready) \in Queued /\ Tail(ready) \in Seq(Queued)
      /\ Elems(ready) = Elems(Tail(ready)) \cup {Head(ready)}
      /\ NoLoop(Tail(ready))
      /\ \A h \in Elems(ready) : Loop(h) => h = Head(ready)
  BY <1>2, LoopIsHead
<1>4. \A h \in Elems(Tail(ready)) : ~Loop(h)
  BY <1>3 DEF NoLoop, Elems
<1>5. running => Elems(Tail(ready)) = {}
  BY <1>1, <1>3, <1>4 DEF LoopAt, Stopping
<1>6. /\ \A t \in Threads : creating[t] = NoPipe
      /\ armed = NoPipe /\ writes = {} /\ timers = 0
  BY <1>1, <1>2 DEF LoopAt, At
<1>7. starts = 1
  BY <1>1, <1>2 DEF LoopAt, Stopping, LoopTypes
<1>8. \A h \in Elems(ready) : IsAccept(h) => h = Head(ready)
  BY <1>3 DEF Loop, IsAccept
<1>9. IF IsAccept(Head(ready))
      THEN accept_pipe = Head(ready).pipe \/ (~running /\ accept_pipe = NoPipe)
      ELSE accept_pipe = NoPipe
  BY <1>1, <1>2, <1>3, <1>8 DEF LoopAt, AcceptPipe
<1>10. \A h \in Elems(ready) :
         h.do \in {"immediate", "written"} => h = Head(ready)
  BY <1>3 DEF Loop
<1>11. \A p \in open : \/ p = accept_pipe
                       \/ /\ Head(ready).do \in {"immediate", "written"}
                          /\ Head(ready).pipe = p
  BY <1>1, <1>6, <1>10 DEF LoopAt, Owned
<1> QED BY <1>3, <1>4, <1>5, <1>6, <1>7, <1>9, <1>11

\* A handler that gives up its instance and calls BeginAccept.
LEMMA BeginKeeps ==
  ASSUME LoopInv, ready # <<>>, Loop(Head(ready)), ~IsAccept(Head(ready)),
         NEW done,
         Head(ready).do \in {"immediate", "written"} => Head(ready).pipe \in done,
         BeginAccept(running, "io", done, Tail(ready)),
         UNCHANGED <<starts, running, armed, writes>>
  PROVE  LoopInv'
<1> DEFINE q == Tail(ready)
<1>1. /\ q \in Seq(Queued) /\ NoLoop(q) /\ (running => Elems(q) = {})
      /\ \A h \in Elems(q) : ~Loop(h)
      /\ creating["io"] = NoPipe /\ creating["owner"] = NoPipe
      /\ armed = NoPipe /\ writes = {} /\ timers = 0 /\ starts = 1
      /\ accept_pipe = NoPipe
      /\ \A p \in open : p \in done
  BY HeadIsLoop DEF LoopInv, LoopTypes
<1>2. \A h \in Elems(q) : ~IsAccept(h)
  BY <1>1 DEF Loop, IsAccept
<1> HIDE DEF q
<1>3. ready' = q
  BY DEF BeginAccept, q
<1>4. armed' = NoPipe /\ writes' = {} /\ starts' = 1 /\ running' = running
  BY <1>1
<1>5. CASE ~running /\ open' = {} /\ UNCHANGED <<accept_pipe, creating, timers>>
  <2>1. LoopTypes'
    BY <1>1, <1>3, <1>4, <1>5 DEF LoopInv, LoopTypes
  <2>2. At("nowhere")'
    BY <1>1, <1>3, <1>4, <1>5 DEF At
  <2>3. AcceptPipe("nowhere")' /\ Owned'
    BY <1>1, <1>2, <1>3, <1>4, <1>5 DEF AcceptPipe, Owned
  <2>4. Stopping("nowhere")'
    BY <1>3, <1>4, <1>5 DEF Stopping
  <2> QED BY <2>1, <2>2, <2>3, <2>4 DEF LoopInv, LoopAt, Places
<1>6. ASSUME NEW p \in Pipes, running, open' = {p}, accept_pipe' = p,
             timers' = timers, creating' = [creating EXCEPT !["io"] = p]
      PROVE  LoopInv'
  <2>1. LoopTypes'
    BY <1>1, <1>3, <1>4, <1>6 DEF LoopInv, LoopTypes
  <2>2. creating'["io"] = p /\ creating'["owner"] = NoPipe
    BY <1>1, <1>6 DEF LoopInv, LoopTypes
  <2>3. At("io")'
    BY <1>1, <1>3, <1>4, <1>6, <2>2 DEF At
  <2>4. AcceptPipe("io")' /\ Owned'
    BY <1>1, <1>2, <1>3, <1>4, <1>6, <2>2 DEF AcceptPipe, Owned
  <2>5. Stopping("io")'
    BY <1>1, <1>3, <1>4, <1>6 DEF Stopping
  <2> QED BY <2>1, <2>3, <2>4, <2>5 DEF LoopInv, LoopAt, Places
<1>7. CASE /\ running /\ open' = {} /\ timers' = timers + 1
           /\ UNCHANGED <<accept_pipe, creating>>
  <2>1. LoopTypes'
    BY <1>1, <1>3, <1>4, <1>7 DEF LoopInv, LoopTypes
  <2>2. At("timer")'
    BY <1>1, <1>3, <1>4, <1>7 DEF At
  <2>3. AcceptPipe("timer")' /\ Owned'
    BY <1>1, <1>2, <1>3, <1>4, <1>7 DEF AcceptPipe, Owned
  <2>4. Stopping("timer")'
    BY <1>1, <1>3, <1>4, <1>7 DEF Stopping
  <2> QED BY <2>1, <2>2, <2>3, <2>4 DEF LoopInv, LoopAt, Places
<1>8. open \ done = {}
  BY <1>1
<1> QED BY <1>5, <1>6, <1>7, <1>8 DEF BeginAccept, Close

\* A stopped server closes accept_pipe_, in the cleanup or when the wait
\* for its client was aborted or completed too late.
LEMMA CloseKeeps ==
  ASSUME LoopInv, ready # <<>>, Head(ready).do \in {"cleanup", "accept"}, ~running,
         ready' = AbortWait(Tail(ready)), armed' = NoPipe,
         open' = open \ {accept_pipe}, accept_pipe' = NoPipe, creating["io"] = NoPipe,
         UNCHANGED <<starts, running, creating, writes, timers>>
  PROVE  LoopInv'
<1>1. PICK x \in Places : LoopAt(x)
  BY DEF LoopInv
<1>0. PICK y \in Places :
        y = IF x = "wait" \/ Loop(Head(ready)) THEN "nowhere" ELSE x
  BY DEF Places
<1> DEFINE q == Tail(ready)
<1>2. /\ ready \in Seq(Queued) /\ q \in Seq(Queued)
      /\ Elems(ready) = Elems(q) \cup {Head(ready)}
      /\ IF Loop(Head(ready)) THEN x = "ready" /\ OneLoop(ready) ELSE TRUE
  BY <1>1, Tailed, LoopWhere DEF LoopInv, LoopTypes, LoopAt
<1>3. IF y = "ready" THEN OneLoop(q) ELSE NoLoop(q)
  <2>1. CASE Loop(Head(ready))
    BY <1>0, <1>2, <2>1, Tailed
  <2>2. CASE ~Loop(Head(ready))
    BY <1>0, <1>1, <1>2, <2>2, Tailed DEF LoopAt, At
  <2> QED BY <2>1, <2>2
<1>4. /\ ready' \in Seq(Queued)
      /\ IF y = "ready" THEN OneLoop(ready') ELSE NoLoop(ready')
      /\ Elems(ready') = Elems(q) \cup (IF armed = NoPipe THEN {} ELSE {Aborted})
  BY <1>2, <1>3, AbortQueued
<1>5. x \notin Threads /\ \A t \in Threads : creating[t] = NoPipe
  BY <1>1 DEF LoopAt, At, Stopping
<1> HIDE DEF q
<1>6. LoopTypes'
  BY <1>4 DEF LoopInv, LoopTypes
<1>7. y \in Places \ {"owner", "io", "wait"}
  BY <1>0, <1>1, <1>5 DEF Places
<1>8. At(y)'
  BY <1>0, <1>1, <1>2, <1>4, <1>5, <1>7 DEF LoopAt, At
<1>9. Aborted.do = "accept" /\ ~Aborted.ok
  BY DEF Aborted
<1>10. AcceptPipe(y)'
  BY <1>0, <1>1, <1>2, <1>4, <1>7, <1>9 DEF LoopAt, AcceptPipe, IsAccept
<1>11. Owned'
  <2>1. ASSUME NEW p \in open \ {accept_pipe}
        PROVE  \/ \E w \in writes : w.pipe = p
               \/ \E h \in Elems(ready') :
                    h.do \in {"immediate", "written"} /\ h.pipe = p
    BY <1>1, <1>2, <1>4 DEF LoopAt, Owned
  <2> QED BY <2>1 DEF Owned
<1>12. Stopping(y)'
  BY <1>0, <1>1, <1>7 DEF LoopAt, Stopping
<1> QED BY <1>6, <1>7, <1>8, <1>10, <1>11, <1>12 DEF LoopInv, LoopAt

LEMMA CleanupKeeps == LoopInv /\ (Cleanup \/ AcceptAbandoned) => LoopInv'
<1> SUFFICES ASSUME LoopInv, Cleanup \/ AcceptAbandoned PROVE LoopInv'
  OBVIOUS
<1>1. /\ ready # <<>> /\ Head(ready).do \in {"cleanup", "accept"}
      /\ Head(ready).do = "accept" => ~(Head(ready).ok /\ running)
      /\ ready' = AbortWait(Tail(ready)) /\ armed' = NoPipe
      /\ open' = open \ {accept_pipe} /\ accept_pipe' = NoPipe
      /\ creating["io"] = NoPipe
      /\ UNCHANGED <<starts, running, creating, writes, timers>>
  BY DEF Cleanup, AcceptAbandoned, Running, Close
<1>2. Head(ready) \in Elems(ready)
  BY <1>1, Tailed DEF LoopInv, LoopTypes
<1>3. ~running
  BY <1>1, <1>2 DEF LoopInv, LoopAt, Stopping, Loop
<1> QED BY <1>1, <1>3, CloseKeeps

\* The instance whose client has come is written to.
LEMMA CompleteKeeps == LoopInv /\ AcceptComplete => LoopInv'
<1> SUFFICES ASSUME LoopInv, AcceptComplete PROVE LoopInv'
  OBVIOUS
<1> DEFINE q == Tail(ready)
<1>1. ready # <<>> /\ IsAccept(Head(ready)) /\ Loop(Head(ready)) /\ running
  BY DEF AcceptComplete, Running, IsAccept, Loop
<1>2. /\ Head(ready) \in Queued /\ q \in Seq(Queued) /\ NoLoop(q) /\ Elems(q) = {}
      /\ \A t \in Threads : creating[t] = NoPipe
      /\ armed = NoPipe /\ writes = {} /\ timers = 0 /\ starts = 1
      /\ accept_pipe = Head(ready).pipe
      /\ \A p \in open : p = accept_pipe
  BY <1>1, HeadIsLoop DEF IsAccept
<1>3. accept_pipe \in Pipes
  BY <1>1, <1>2 DEF Queued, IsAccept
<1> HIDE DEF q
<1>4. /\ ready' = q /\ armed' = NoPipe /\ accept_pipe' = NoPipe
      /\ UNCHANGED <<starts, open, creating, timers, running>>
  BY <1>2 DEF AcceptComplete, AbortWait, q, Take, pipeVars
<1> DEFINE w == [pipe |-> accept_pipe, empty |-> current_data = Empty]
<1>5. writes' = {w} /\ w \in Writes
  <2>1. \A v \in Writes : v = [pipe |-> v.pipe, empty |-> v.empty]
    BY DEF Writes
  <2>2. w \in Writes
    BY <1>3 DEF Writes
  <2>3. {v \in Writes : v.pipe = accept_pipe /\ v.empty = (current_data = Empty)} = {w}
    BY <2>1, <2>2
  <2>4. writes' = writes \cup {v \in Writes : v.pipe = accept_pipe
                                            /\ v.empty = (current_data = Empty)}
    BY DEF AcceptComplete
  <2> QED BY <1>2, <2>2, <2>3, <2>4
<1>6. w.pipe = accept_pipe
  OBVIOUS
<1> HIDE DEF w
<1>7. LoopTypes'
  BY <1>2, <1>4, <1>5 DEF LoopInv, LoopTypes
<1>8. At("write")'
  BY <1>2, <1>4, <1>5 DEF At
<1>9. AcceptPipe("write")' /\ Owned'
  BY <1>2, <1>4, <1>5, <1>6 DEF AcceptPipe, Owned
<1>10. Stopping("write")'
  BY <1>1, <1>2, <1>4 DEF Stopping
<1> QED BY <1>7, <1>8, <1>9, <1>10 DEF LoopInv, LoopAt, Places

-----------------------------------------------------------------------------
(* Completions: the loop comes to stand in the queue.                      *)

LEMMA CompletionKeeps ==
  ASSUME LoopInv, NEW x \in Places, LoopAt(x), x \in {"wait", "write", "timer"},
         NEW h \in Queued, Loop(h), IsAccept(h) => h.pipe = accept_pipe,
         \A w \in writes : h.do \in {"immediate", "written"} /\ h.pipe = w.pipe,
         ready' = Append(ready, h), armed' = NoPipe, writes' = {}, timers' = 0,
         UNCHANGED <<starts, running, open, creating, accept_pipe>>,
         accept_pipe # NoPipe => IsAccept(h)
  PROVE  LoopInv'
<1>1. ready \in Seq(Queued) /\ NoLoop(ready) /\ \A t \in Threads : creating[t] = NoPipe
  BY DEF LoopInv, LoopTypes, LoopAt, At
<1>2. /\ ready' \in Seq(Queued) /\ OneLoop(ready')
      /\ Elems(ready') = Elems(ready) \cup {h}
  BY <1>1, Appended
<1>3. LoopTypes'
  BY <1>2 DEF LoopInv, LoopTypes
<1>4. At("ready")'
  BY <1>1, <1>2 DEF At
<1>5. \A g \in Elems(ready) : ~IsAccept(g)
  BY <1>1 DEF NoLoop, Elems, Loop, IsAccept
<1>6. AcceptPipe("ready")'
  BY <1>2, <1>5 DEF AcceptPipe
<1>7. Owned'
  <2>1. ASSUME NEW p \in open, p # accept_pipe
        PROVE  \E g \in Elems(ready') :
                 g.do \in {"immediate", "written"} /\ g.pipe = p
    BY <1>2, <2>1 DEF LoopAt, Owned
  <2> QED BY <2>1 DEF Owned
<1>8. starts # 0
  BY DEF LoopAt, Stopping
<1>9. Stopping("ready")'
  BY <1>2, <1>8 DEF LoopAt, Stopping
<1> QED BY <1>3, <1>4, <1>6, <1>7, <1>9 DEF LoopInv, LoopAt, Places

LEMMA OpenKeeps ==
  ASSUME LoopInv, NEW c \in Clients, NEW p \in Pipes, Open(c, p)
  PROVE  LoopInv'
<1>1. PICK x \in Places : LoopAt(x)
  BY DEF LoopInv
<1>2. UNCHANGED <<starts, running, open, accept_pipe, creating, writes, timers>>
  BY DEF Open, Connect
<1>3. CASE p # armed
  BY <1>2, <1>3, LoopAside DEF Open
<1>4. CASE p = armed
  <2> DEFINE h == Handler("accept", p, TRUE)
  <2>1. ready' = Append(ready, h) /\ armed' = NoPipe
    BY <1>4 DEF Open
  <2>2. x = "wait" /\ accept_pipe = p /\ writes = {} /\ timers = 0
    BY <1>1, <1>4 DEF LoopAt, At, AcceptPipe
  <2>3. h \in Queued /\ Loop(h) /\ IsAccept(h) /\ h.pipe = p
    BY DEF Queued, Handlers, Loop, IsAccept
  <2> HIDE DEF h
  <2> QED BY <1>1, <1>2, <2>1, <2>2, <2>3, CompletionKeeps
<1> QED BY <1>3, <1>4

LEMMA WriteKeeps ==
  ASSUME LoopInv, NEW w \in writes, WriteDone(w)
  PROVE  LoopInv'
<1>1. PICK x \in Places : LoopAt(x)
  BY DEF LoopInv
<1> DEFINE h == Handler("written", w.pipe, w.empty \/ peer[w.pipe] \in Clients)
<1>2. x = "write" /\ writes = {w} /\ w \in Writes /\ armed = NoPipe /\ timers = 0
  BY <1>1 DEF LoopAt, At
<1>3. /\ ready' = Append(ready, h) /\ writes' = {}
      /\ UNCHANGED <<starts, running, open, armed, accept_pipe, creating, timers>>
  BY <1>2 DEF WriteDone, pipeVars
<1>4. w.pipe \in Pipes /\ w.empty \in BOOLEAN
  BY <1>2 DEF Writes
<1>5. h \in Queued /\ Loop(h) /\ ~IsAccept(h) /\ h.do = "written" /\ h.pipe = w.pipe
  BY <1>4 DEF Queued, Handlers, Loop, IsAccept
<1>6. accept_pipe = NoPipe
  BY <1>1, <1>2 DEF LoopAt, At, AcceptPipe, NoLoop, Elems, Loop, IsAccept
<1> HIDE DEF h
<1> QED BY <1>1, <1>2, <1>3, <1>5, <1>6, CompletionKeeps

LEMMA ExpireKeeps == LoopInv /\ Expire => LoopInv'
<1> SUFFICES ASSUME LoopInv, Expire PROVE LoopInv'
  OBVIOUS
<1>1. PICK x \in Places : LoopAt(x)
  BY DEF LoopInv
<1> DEFINE h == Handler("begin", NoPipe, TRUE)
<1>2. x = "timer" /\ writes = {} /\ armed = NoPipe /\ timers = 1
  BY <1>1 DEF Expire, LoopAt, At
<1>3. /\ ready' = Append(ready, h) /\ timers' = 0
      /\ UNCHANGED <<starts, running, open, armed, accept_pipe, creating, writes>>
  BY <1>2 DEF Expire, pipeVars
<1>4. h \in Queued /\ Loop(h) /\ ~IsAccept(h)
  BY DEF Queued, Handlers, Loop, IsAccept
<1>5. accept_pipe = NoPipe
  BY <1>1, <1>2 DEF LoopAt, At, AcceptPipe, NoLoop, Elems, Loop, IsAccept
<1> HIDE DEF h
<1> QED BY <1>1, <1>2, <1>3, <1>4, <1>5, CompletionKeeps

\* The loop is left where it is, and its cleanup is posted.
LEMMA StopKeeps == LoopInv /\ Stop => LoopInv'
<1> SUFFICES ASSUME LoopInv, Stop PROVE LoopInv'
  OBVIOUS
<1>1. PICK x \in Places : LoopAt(x)
  BY DEF LoopInv
<1> DEFINE h == Handler("cleanup", NoPipe, TRUE)
<1>2. /\ running /\ ~running' /\ ready' = Append(ready, h) /\ creating["owner"] = NoPipe
      /\ UNCHANGED <<starts, open, armed, accept_pipe, creating, writes, timers>>
  BY DEF Stop
<1>3. h \in Queued /\ ~Loop(h) /\ ~IsAccept(h) /\ h.do = "cleanup"
  BY DEF Queued, Handlers, Loop, IsAccept
<1> HIDE DEF h
<1>4. ready \in Seq(Queued)
  BY DEF LoopInv, LoopTypes
<1>5. /\ ready' \in Seq(Queued) /\ Elems(ready') = Elems(ready) \cup {h}
      /\ IF x = "ready" THEN OneLoop(ready') ELSE NoLoop(ready')
  BY <1>1, <1>2, <1>3, <1>4, Appended DEF LoopAt, At
<1>6. LoopTypes'
  BY <1>2, <1>5 DEF LoopInv, LoopTypes
<1>7. At(x)'
  BY <1>1, <1>2, <1>5 DEF LoopAt, At
<1>8. AcceptPipe(x)'
  BY <1>1, <1>2, <1>3, <1>5 DEF LoopAt, AcceptPipe
<1>9. Owned'
  <2>1. ASSUME NEW p \in open
        PROVE  \/ p = accept_pipe
               \/ \E w \in writes : w.pipe = p
               \/ \E g \in Elems(ready') :
                    g.do \in {"immediate", "written"} /\ g.pipe = p
    BY <1>1, <1>5 DEF LoopAt, Owned
  <2> QED BY <1>2, <2>1 DEF Owned
<1>10. x # "owner" /\ starts = 1
  BY <1>1, <1>2 DEF LoopAt, At, Stopping
<1>11. Stopping(x)'
  BY <1>2, <1>3, <1>5, <1>10 DEF Stopping
<1> QED BY <1>6, <1>7, <1>8, <1>9, <1>11 DEF LoopInv, LoopAt

LEMMA HandlersKeep == LoopInv /\ (Written \/ Immediate \/ Retry) => LoopInv'
<1> SUFFICES ASSUME LoopInv, Written \/ Immediate \/ Retry PROVE LoopInv'
  OBVIOUS
<1>1. ready # <<>> /\ Loop(Head(ready)) /\ ~IsAccept(Head(ready))
  BY DEF Written, Immediate, Retry, Running, Loop, IsAccept
<1>2. UNCHANGED <<starts, running, armed, writes>>
  BY DEF Written, Immediate, Retry, pipeVars
<1>3. CASE Written \/ Immediate
  BY <1>1, <1>2, <1>3, BeginKeeps DEF Written, Immediate
<1>4. CASE Retry
  BY <1>1, <1>2, <1>4, BeginKeeps DEF Retry, Running
<1> QED BY <1>3, <1>4

LEMMA StepLoop == MaxStarts <= 1 /\ LoopInv /\ [Next]_vars => LoopInv'
<1> SUFFICES ASSUME MaxStarts <= 1, LoopInv, [Next]_vars PROVE LoopInv'
  OBVIOUS
<1>1. CASE Start
  BY <1>1, StartKeeps
<1>2. CASE Stop
  BY <1>2, StopKeeps
<1>3. CASE \E d \in Data : SetData(d)
  BY <1>3, LoopAside DEF SetData, SetStreamData, loopVars
<1>4. CASE \E c \in Clients : Leave(c)
  BY <1>4, LoopAside DEF Leave, Lose
<1>5. CASE \E c \in Clients, p \in Pipes : Open(c, p)
  BY <1>5, OpenKeeps
<1>6. CASE Cleanup \/ AcceptAbandoned
  BY <1>6, CleanupKeeps
<1>7. CASE AcceptComplete
  BY <1>7, CompleteKeeps
<1>8. CASE Written \/ Immediate \/ Retry
  BY <1>8, HandlersKeep
<1>9. CASE Expire
  BY <1>9, ExpireKeeps
<1>10. CASE \E w \in writes : WriteDone(w)
  BY <1>10, WriteKeeps
<1>11. CASE \E t \in Threads : ConnectStep(t)
  BY <1>11, PendingKeeps, ImmediateKeeps, ErrorKeeps DEF ConnectStep
<1>12. CASE UNCHANGED vars
  BY <1>12, LoopAside DEF vars, loopVars, pipeVars
<1> QED BY <1>1, <1>2, <1>3, <1>4, <1>5, <1>6, <1>7, <1>8, <1>9, <1>10, <1>11,
           <1>12 DEF Next, IoNext

LEMMA LoopAlways == MaxStarts <= 1 => (Spec => []LoopInv)
<1> SUFFICES ASSUME MaxStarts <= 1 PROVE Spec => []LoopInv
  OBVIOUS
<1>1. Init => LoopInv
  BY InitLoop
<1>2. LoopInv /\ [Next]_vars => LoopInv'
  BY StepLoop
<1> QED BY <1>1, <1>2, PTL DEF Spec

-----------------------------------------------------------------------------
(* What follows from it.                                                   *)

\* A queue has as many handlers that go on with the loop as its
\* definition says: none, or one.
LEMMA CountedHandlers ==
  ASSUME ready \in Seq(Queued)
  PROVE  LET counted == {i \in 1..Len(ready) :
                           ready[i].do # "cleanup" /\ ready[i].ok}
                          \cup {i \in 1..Len(ready) : ready[i].do = "written"}
         IN  /\ NoLoop(ready) => Cardinality(counted) = 0
             /\ OneLoop(ready) => Cardinality(counted) = 1
<1> DEFINE counted == {i \in 1..Len(ready) :
                         ready[i].do # "cleanup" /\ ready[i].ok}
                        \cup {i \in 1..Len(ready) : ready[i].do = "written"}
<1>1. \A i \in 1..Len(ready) : ready[i] \in Queued
  BY ElementOfSeq
<1>2. \A h \in Queued : Loop(h) <=> (h.do # "cleanup" /\ h.ok) \/ h.do = "written"
  BY DEF Queued, Handlers, Loop
<1>3. counted = {i \in 1..Len(ready) : Loop(ready[i])}
  BY <1>1, <1>2
<1> HIDE DEF counted
<1>4. ASSUME NoLoop(ready) PROVE Cardinality(counted) = 0
  <2>1. counted = {}
    BY <1>3, <1>4 DEF NoLoop
  <2> QED BY <2>1, FS_EmptySet
<1>5. ASSUME OneLoop(ready) PROVE Cardinality(counted) = 1
  <2>1. PICK k \in 1..Len(ready) : counted = {k}
    BY <1>3, <1>5 DEF OneLoop
  <2> QED BY <2>1, FS_Singleton
<1> QED BY <1>4, <1>5 DEF counted

\* A server that is started once has exactly one accept loop while it runs,
\* whatever fails, whoever connects and whenever it is stopped.
THEOREM AcceptLoop == MaxStarts <= 1 => (Spec => []OneAcceptLoop)
<1> SUFFICES ASSUME MaxStarts <= 1 PROVE Spec => []OneAcceptLoop
  OBVIOUS
<1>1. LoopInv => OneAcceptLoop
  <2> SUFFICES ASSUME LoopInv, running PROVE Continuations = 1
    BY DEF OneAcceptLoop
  <2> DEFINE counted == {i \in 1..Len(ready) :
                           ready[i].do # "cleanup" /\ ready[i].ok}
                          \cup {i \in 1..Len(ready) : ready[i].do = "written"}
             calls == {t \in Threads : creating[t] # NoPipe}
  <2>1. PICK x \in Places : LoopAt(x)
    BY DEF LoopInv
  <2>2. x # "nowhere" /\ At(x)
    BY <2>1 DEF LoopAt, Stopping
  <2>3. Cardinality(counted) = IF x = "ready" THEN 1 ELSE 0
    BY <2>2, CountedHandlers DEF LoopInv, LoopTypes, At
  <2> HIDE DEF counted
  <2>4. calls = IF x \in Threads THEN {x} ELSE {}
    BY <2>2 DEF At
  <2>5. Cardinality(calls) = IF x \in Threads THEN 1 ELSE 0
    BY <2>4, FS_EmptySet, FS_Singleton
  <2> HIDE DEF calls
  <2>6. Cardinality(writes) = IF x = "write" THEN 1 ELSE 0
    BY <2>2, FS_EmptySet, FS_Singleton DEF At
  <2>7. /\ timers = (IF x = "timer" THEN 1 ELSE 0)
        /\ (IF armed = NoPipe THEN 0 ELSE 1) = (IF x = "wait" THEN 1 ELSE 0)
    BY <2>2 DEF At
  <2>8. Continuations = Cardinality(calls) + Cardinality(counted)
                        + Cardinality(writes) + timers + IF armed = NoPipe THEN 0 ELSE 1
    BY DEF Continuations, calls, counted
  <2> QED BY <2>2, <2>3, <2>5, <2>6, <2>7, <2>8 DEF Places
<1> QED BY <1>1, LoopAlways, PTL

\* Once it has been stopped, and what was in progress is over, none of its
\* pipes is left open.
THEOREM PipesAreClosed == MaxStarts <= 1 => (Spec => []NothingLeftOpen)
<1> SUFFICES ASSUME MaxStarts <= 1 PROVE Spec => []NothingLeftOpen
  OBVIOUS
<1>1. LoopInv => NothingLeftOpen
  <2> SUFFICES ASSUME LoopInv, ~running, ready = <<>>, writes = {},
                      \A t \in Threads : creating[t] = NoPipe
               PROVE  open = {}
    BY DEF NothingLeftOpen
  <2>1. PICK x \in Places : LoopAt(x)
    BY DEF LoopInv
  <2>2. Elems(ready) = {}
    BY DEF Elems
  <2>3. x \notin Threads \cup {"wait"}
    BY <2>1, <2>2 DEF LoopAt, At, Stopping
  <2>4. accept_pipe = NoPipe
    BY <2>1, <2>2, <2>3 DEF LoopAt, AcceptPipe
  <2> QED BY <2>1, <2>2, <2>4 DEF LoopAt, Owned, LoopInv, LoopTypes
<1> QED BY <1>1, LoopAlways, PTL

-----------------------------------------------------------------------------
(* The service.  PeerInv follows what the client at the other end of a pipe *)
(* has been given at each place of the accept loop.                         *)

\* The data have been taken for the client of p.
Answering(p) == \/ \E w \in writes : w.pipe = p
                \/ \E h \in Elems(ready) : h.do = "written" /\ h.pipe = p

\* A handler is about to serve the client of p.
Taken(p) ==
  \E h \in Elems(ready) : (h.do = "immediate" \/ IsAccept(h)) /\ h.pipe = p

PeerTypes ==
  PipeTypeOK /\ peer \in [Pipes -> Clients \cup {NoClient, Gone}]

\* What the loop holds is open.
HeldOpen ==
  /\ accept_pipe # NoPipe => accept_pipe \in open
  /\ \A w \in writes : w.pipe \in open
  /\ \A h \in Elems(ready) : h.do \in {"immediate", "written"} => h.pipe \in open

\* The client of an open instance is reading once its data were taken, and
\* connected before; an instance is served when a client has come, and one
\* whose client went leaves that client lost.
Peers ==
  /\ \A p \in Pipes \ open : peer[p] = NoClient
  /\ \A p \in open :
       /\ peer[p] \in Clients =>
            client[peer[p]] = IF Answering(p) THEN "reading" ELSE "connected"
       /\ Answering(p) \/ Taken(p) => peer[p] # NoClient
       /\ peer[p] = Gone => \E c \in Clients : client[c] = "lost"

PeerInv == PeerTypes /\ HeldOpen /\ Peers

USE HandleAssumption, DataAssumption DEF Threads, Handler

LEMMA InitPeers == Init => PeerInv
<1> SUFFICES ASSUME Init PROVE PeerInv
  OBVIOUS
<1>1. Elems(ready) = {} /\ writes = {} /\ open = {} /\ accept_pipe = NoPipe
  BY DEF Init, Elems
<1>2. PeerTypes
  BY DEF Init, PipeInit, PeerTypes, PipeTypeOK, Phases
<1> QED BY <1>1, <1>2 DEF PeerInv, HeldOpen, Peers, Init

-----------------------------------------------------------------------------
(* Steps with which no client of an open instance is concerned.            *)

LEMMA PeersAside ==
  ASSUME LoopInv, PeerInv, PipeTypeOK', UNCHANGED <<open, peer, client, accept_pipe, writes>>,
         \A h \in Elems(ready') :
           h \in Elems(ready) \/ h.do \in {"cleanup", "begin"} \/ (h.do = "accept" /\ ~h.ok),
         \A h \in Elems(ready) : h.do = "written" => h \in Elems(ready')
  PROVE  PeerInv'
<1>1. \A p \in Pipes : /\ Answering(p)' <=> Answering(p)
                       /\ Taken(p)' => Taken(p)
  BY DEF Answering, Taken, IsAccept
<1>2. PeerTypes' /\ HeldOpen'
  BY DEF PeerInv, PeerTypes, HeldOpen
<1>3. open \subseteq Pipes
  BY DEF LoopInv, LoopTypes
<1> QED BY <1>1, <1>2, <1>3 DEF PeerInv, Peers

\* Every instance there was is closed, and at most one made.
LEMMA PeersCleared ==
  ASSUME PeerTypes', \A p \in Pipes : peer'[p] = NoClient, writes' = {},
         \A h \in Elems(ready') : ~Loop(h),
         accept_pipe' # NoPipe => accept_pipe' \in open', open' \subseteq Pipes
  PROVE  PeerInv'
<1>1. \A p \in Pipes : ~Answering(p)' /\ ~Taken(p)'
  BY DEF Answering, Taken, IsAccept, Loop
<1>2. HeldOpen'
  BY DEF HeldOpen, Loop
<1> QED BY <1>1, <1>2 DEF PeerInv, Peers

\* A list with one more handler, or with an aborted wait.
LEMMA AddedElems ==
  ASSUME LoopInv, NEW h \in Queued, ready' = Append(ready, h)
  PROVE  Elems(ready') = Elems(ready) \cup {h}
BY Appended DEF LoopInv, LoopTypes

LEMMA AsideKeeps ==
  ASSUME LoopInv, PeerInv,
         \/ Stop \/ (\E d \in Data : SetData(d)) \/ Expire
         \/ (\E t \in Threads : ConnectPending(t)) \/ UNCHANGED vars
  PROVE  PeerInv'
<1>1. PipeTypeOK
  BY DEF PeerInv, PeerTypes
<1>2. CASE Stop
  <2> DEFINE h == Handler("cleanup", NoPipe, TRUE)
  <2>1. h \in Queued /\ h.do = "cleanup"
    BY DEF Queued, Handlers
  <2>2. Elems(ready') = Elems(ready) \cup {h}
    BY <1>2, <2>1, AddedElems DEF Stop
  <2>3. PipeTypeOK'
    BY <1>1, <1>2 DEF Stop, PipeTypeOK
  <2> QED BY <1>2, <2>1, <2>2, <2>3, PeersAside DEF Stop
<1>3. CASE \E d \in Data : SetData(d)
  <2>1. PipeTypeOK'
    BY <1>1, <1>3 DEF SetData, SetStreamData, PipeTypeOK
  <2> QED BY <1>3, <2>1, PeersAside DEF SetData, SetStreamData, loopVars
<1>4. CASE Expire
  <2> DEFINE h == Handler("begin", NoPipe, TRUE)
  <2>1. h \in Queued /\ h.do = "begin"
    BY DEF Queued, Handlers
  <2>2. Elems(ready') = Elems(ready) \cup {h}
    BY <1>4, <2>1, AddedElems DEF Expire
  <2>3. PipeTypeOK'
    BY <1>1, <1>4 DEF Expire, PipeTypeOK, pipeVars
  <2> QED BY <1>4, <2>1, <2>2, <2>3, PeersAside DEF Expire, pipeVars
<1>5. CASE \E t \in Threads : ConnectPending(t)
  <2>1. PICK t \in Threads : ConnectPending(t)
    BY <1>5
  <2>2. Elems(ready') = Elems(ready) \cup (IF armed = NoPipe THEN {} ELSE {Aborted})
    BY <2>1, AbortQueued DEF ConnectPending, LoopInv, LoopTypes
  <2>3. Aborted.do = "accept" /\ ~Aborted.ok
    BY DEF Aborted
  <2>4. PipeTypeOK'
    BY <1>1, <2>1 DEF ConnectPending, PipeTypeOK, pipeVars
  <2> QED BY <2>1, <2>2, <2>3, <2>4, PeersAside DEF ConnectPending, pipeVars
<1>6. CASE UNCHANGED vars
  <2>1. PipeTypeOK'
    BY <1>1, <1>6 DEF vars, PipeTypeOK, pipeVars
  <2> QED BY <1>6, <2>1, PeersAside DEF vars, loopVars, pipeVars
<1> QED BY <1>2, <1>3, <1>4, <1>5, <1>6

-----------------------------------------------------------------------------
(* Steps that close an instance, and begin the next accept.                *)

\* As a step of PipeService: the client that waits there is lost.
LEMMA DropIsLose ==
  ASSUME PeerTypes, NEW p, Drop({p}), open \subseteq Pipes
  PROVE  /\ client' \in [Clients -> Phases]
         /\ \/ UNCHANGED client
            \/ \E c \in Clients : /\ client[c] \in {"connected", "reading"}
                                 /\ client' = [client EXCEPT ![c] = "lost"]
         /\ p \notin open => UNCHANGED client
<1>1. client \in [Clients -> Phases]
  BY DEF PeerTypes, PipeTypeOK
<1>2. Waiting({p}) = {c \in Clients : client[c] \in {"connected", "reading"}
                                      /\ p \in open /\ peer[p] = c}
  BY DEF Waiting
<1>3. CASE Waiting({p}) = {}
  BY <1>1, <1>3, <1>2 DEF Drop
<1>4. CASE Waiting({p}) # {}
  <2>1. PICK c \in Clients : /\ client[c] \in {"connected", "reading"} /\ p \in open
                              /\ Waiting({p}) = {c}
    BY <1>2, <1>4
  <2>2. client' = [client EXCEPT ![c] = "lost"]
    BY <1>1, <2>1 DEF Drop
  <2> QED BY <1>1, <2>1, <2>2 DEF Phases
<1> QED BY <1>3, <1>4

\* While the loop is in BeginAccept or in a wait, it has what is open.
LEMMA OneOpen ==
  ASSUME LoopInv, NEW x \in Threads \cup {"wait"}, LoopAt(x)
  PROVE  accept_pipe \in Pipes /\ \A p \in open : p = accept_pipe
<1>1. NoLoop(ready) /\ writes = {}
  BY DEF LoopAt, At
<1>2. \A h \in Elems(ready) : h.do \notin {"immediate", "written"}
  BY <1>1 DEF NoLoop, Elems, Loop
<1>3. accept_pipe \in Pipes
  BY DEF LoopInv, LoopTypes, LoopAt, At, AcceptPipe
<1> QED BY <1>1, <1>2, <1>3 DEF LoopAt, Owned

LEMMA ErrorPeers ==
  ASSUME LoopInv, PeerInv, NEW t \in Threads, ConnectError(t)
  PROVE  PeerInv' /\ [PipeNext]_pipeVars
<1> DEFINE p == creating[t]
<1>1. PICK x \in Places : LoopAt(x)
  BY DEF LoopInv
<1>2. x = t /\ accept_pipe = p /\ NoLoop(ready) /\ writes = {}
  BY <1>1 DEF ConnectError, LoopAt, At, AcceptPipe
<1>3. p \in Pipes /\ open \subseteq {p} /\ open \subseteq Pipes
  BY <1>1, <1>2, OneOpen DEF LoopInv, LoopTypes
<1>4. /\ open' = open \ {p} /\ Drop({p}) /\ accept_pipe' = NoPipe
      /\ peer' = [q \in Pipes |-> IF q \in {p} THEN NoClient ELSE peer[q]]
      /\ UNCHANGED <<running, current_data, ever, got, ready, writes>>
  BY DEF ConnectError, Close
<1>5. \A q \in Pipes : peer'[q] = NoClient
  BY <1>3, <1>4 DEF PeerInv, Peers
<1>6. /\ client' \in [Clients -> Phases]
      /\ UNCHANGED client \/ \E c \in Clients : /\ client[c] \in {"connected", "reading"}
                                 /\ client' = [client EXCEPT ![c] = "lost"]
  BY <1>3, <1>4, DropIsLose DEF PeerInv
<1>7. PeerTypes'
  BY <1>4, <1>6 DEF PeerInv, PeerTypes, PipeTypeOK
<1>8. \A h \in Elems(ready') : ~Loop(h)
  BY <1>2, <1>4 DEF NoLoop, Elems
<1>9. PeerInv'
  BY <1>2, <1>3, <1>4, <1>5, <1>7, <1>8, PeersCleared
<1>10. [PipeNext]_pipeVars
  BY <1>4, <1>6 DEF PipeNext, Lose, pipeVars
<1> QED BY <1>9, <1>10

LEMMA StartPeers ==
  ASSUME MaxStarts <= 1, LoopInv, PeerInv, Start
  PROVE  PeerInv' /\ [PipeNext]_pipeVars
<1>1. PICK x \in Places : LoopAt(x)
  BY DEF LoopInv
<1>2. starts = 0 /\ x = "nowhere" /\ ready = <<>> /\ open = {}
  BY <1>1 DEF Start, LoopInv, LoopTypes, LoopAt, Stopping
<1>3. writes = {} /\ accept_pipe = NoPipe /\ Elems(ready) = {}
  BY <1>1, <1>2 DEF LoopAt, At, AcceptPipe, Elems
<1>4. /\ ready' = ready /\ writes' = writes /\ running' = TRUE /\ ~running
      /\ UNCHANGED <<current_data, ever, client, got>>
  BY DEF Start, BeginAccept
<1>5. /\ \A p \in Pipes : peer'[p] = NoClient
      /\ peer' \in [Pipes -> Clients \cup {NoClient, Gone}]
      /\ accept_pipe' # NoPipe => accept_pipe' \in open'
      /\ open' \subseteq Pipes
  BY <1>2, <1>3 DEF Start, BeginAccept, Close, PeerInv, PeerTypes, Peers
<1>6. PeerTypes'
  BY <1>4, <1>5 DEF PeerInv, PeerTypes, PipeTypeOK
<1>7. PeerInv'
  BY <1>3, <1>4, <1>5, <1>6, PeersCleared
<1>8. SetRunning(TRUE)
  BY <1>4 DEF SetRunning, PeerInv, PeerTypes, PipeTypeOK
<1> QED BY <1>7, <1>8 DEF PipeNext

\* A handler of the loop that closes its instance and calls BeginAccept; what
\* it tells the client is the step of PipeService.
LEMMA BegunPeers ==
  ASSUME LoopInv, PeerInv, ready # <<>>, Loop(Head(ready)), ~IsAccept(Head(ready)),
         NEW done,
         Head(ready).do \in {"immediate", "written"} => Head(ready).pipe \in done,
         BeginAccept(running, "io", done, Tail(ready)),
         PipeTypeOK', writes' = writes
  PROVE  PeerInv'
<1>1. /\ writes = {} /\ accept_pipe = NoPipe
      /\ \A h \in Elems(Tail(ready)) : ~Loop(h)
      /\ \A p \in open : p \in done
      /\ open \subseteq Pipes
  BY HeadIsLoop DEF LoopInv, LoopTypes
<1>2. ready' = Tail(ready)
  BY DEF BeginAccept
<1>3. peer' = [p \in Pipes |-> IF p \in done THEN NoClient ELSE peer[p]]
  BY DEF BeginAccept, Close
<1>4. /\ accept_pipe' # NoPipe => accept_pipe' \in open'
      /\ open' \subseteq Pipes
  BY <1>1 DEF BeginAccept, Close
<1>5. /\ \A p \in Pipes : peer'[p] = NoClient
      /\ peer' \in [Pipes -> Clients \cup {NoClient, Gone}]
  BY <1>1, <1>3 DEF PeerInv, PeerTypes, Peers
<1>6. PeerTypes'
  BY <1>5 DEF PeerTypes
<1> QED BY <1>1, <1>2, <1>4, <1>5, <1>6, PeersCleared

\* Who waits at the other end of a handler's instance.
LEMMA HeadPeer ==
  ASSUME LoopInv, PeerInv, ready # <<>>, Head(ready).do \in {"immediate", "written"}
  PROVE  LET p == Head(ready).pipe
             phase == IF Head(ready).do = "written" THEN "reading" ELSE "connected"
         IN  \/ \E c \in Clients : client[c] = phase /\ Waiting({p}) = {c}
             \/ Waiting({p}) = {} /\ \E c \in Clients : client[c] = "lost"
<1> DEFINE p == Head(ready).pipe
           phase == IF Head(ready).do = "written" THEN "reading" ELSE "connected"
<1>1. Loop(Head(ready))
  BY DEF Loop
<1>2. /\ writes = {} /\ \A h \in Elems(Tail(ready)) : ~Loop(h)
      /\ Head(ready) \in Queued
  BY <1>1, HeadIsLoop
<1>3. Elems(ready) = Elems(Tail(ready)) \cup {Head(ready)}
  BY Tailed DEF LoopInv, LoopTypes
<1>4. p \in open /\ p \in Pipes
  BY <1>3 DEF PeerInv, HeldOpen, LoopInv, LoopTypes
<1>5. Answering(p) <=> Head(ready).do = "written"
  BY <1>2, <1>3 DEF Answering, Loop
<1>6. Answering(p) \/ Taken(p)
  BY <1>3 DEF Answering, Taken
<1>7. /\ peer[p] \in Clients => client[peer[p]] = phase
      /\ peer[p] \in Clients \cup {Gone}
      /\ peer[p] = Gone => \E c \in Clients : client[c] = "lost"
  BY <1>4, <1>5, <1>6 DEF PeerInv, Peers, PeerTypes
<1>8. Waiting({p}) = {c \in Clients : client[c] \in {"connected", "reading"} /\ peer[p] = c}
  BY <1>4 DEF Waiting
<1>9. CASE peer[p] \in Clients
  BY <1>7, <1>8, <1>9
<1>10. CASE peer[p] = Gone
  BY <1>7, <1>8, <1>10
<1> QED BY <1>7, <1>9, <1>10

LEMMA WrittenPeers ==
  ASSUME LoopInv, PeerInv, Written
  PROVE  PeerInv' /\ [PipeNext]_pipeVars
<1> DEFINE h == Head(ready)
<1>1. ready # <<>> /\ h.do = "written" /\ Loop(h) /\ ~IsAccept(h) /\ h.ok \in BOOLEAN
  <2>1. ready # <<>> /\ h.do = "written" /\ Loop(h) /\ ~IsAccept(h)
    BY DEF Written, Running, Loop, IsAccept
  <2> QED BY <2>1, HeadIsLoop DEF Queued, Handlers
<1>2. /\ ever' = (ever \/ h.ok)
      /\ client' = [c \in Clients |-> IF c \in Waiting({h.pipe})
                                      THEN IF h.ok THEN "answered" ELSE "lost"
                                      ELSE client[c]]
      /\ UNCHANGED <<running, current_data, got>>
      /\ BeginAccept(running, "io", {h.pipe}, Tail(ready)) /\ writes' = writes
  BY DEF Written, Report
<1>3. PipeTypeOK
  BY DEF PeerInv, PeerTypes
<1>4. PipeTypeOK'
  BY <1>1, <1>2, <1>3 DEF PipeTypeOK, Phases
<1>5. PeerInv'
  BY <1>1, <1>2, <1>4, BegunPeers
<1>6. \/ \E c \in Clients : client[c] = "reading" /\ Waiting({h.pipe}) = {c}
      \/ Waiting({h.pipe}) = {} /\ \E c \in Clients : client[c] = "lost"
  BY <1>1, HeadPeer
<1>7. ASSUME NEW c \in Clients, client[c] = "reading", Waiting({h.pipe}) = {c}
      PROVE  PipeNext
  <2>1. client' = [client EXCEPT ![c] = IF h.ok THEN "answered" ELSE "lost"]
    BY <1>2, <1>3, <1>7 DEF PipeTypeOK
  <2>2. CASE h.ok
    BY <1>2, <1>7, <2>1, <2>2 DEF PipeNext, Answer
  <2>3. CASE ~h.ok
    BY <1>2, <1>3, <1>7, <2>1, <2>3 DEF PipeNext, Lose, PipeTypeOK
  <2> QED BY <2>2, <2>3
<1>8. ASSUME Waiting({h.pipe}) = {}, NEW c \in Clients, client[c] = "lost"
      PROVE  [PipeNext]_pipeVars
  <2>1. client' = client
    BY <1>2, <1>3, <1>8 DEF PipeTypeOK
  <2>2. CASE h.ok
    BY <1>2, <1>8, <2>1, <2>2 DEF PipeNext, AnswerNobody
  <2>3. CASE ~h.ok
    BY <1>2, <1>3, <2>1, <2>3 DEF pipeVars, PipeTypeOK
  <2> QED BY <2>2, <2>3
<1> QED BY <1>5, <1>6, <1>7, <1>8

LEMMA ImmediatePeers ==
  ASSUME LoopInv, PeerInv, Immediate
  PROVE  PeerInv' /\ [PipeNext]_pipeVars
<1> DEFINE h == Head(ready)
<1>1. ready # <<>> /\ h.do = "immediate" /\ Loop(h) /\ ~IsAccept(h)
  BY DEF Immediate, Running, Loop, IsAccept
<1>2. /\ ever' = TRUE
      /\ client' = [c \in Clients |-> IF c \in Waiting({h.pipe}) THEN "answered"
                                      ELSE client[c]]
      /\ got' = [c \in Clients |-> IF c \in Waiting({h.pipe}) THEN current_data
                                   ELSE got[c]]
      /\ UNCHANGED <<running, current_data>>
      /\ BeginAccept(running, "io", {h.pipe}, Tail(ready)) /\ writes' = writes
  BY DEF Immediate, Report
<1>3. PipeTypeOK
  BY DEF PeerInv, PeerTypes
<1>4. PipeTypeOK'
  BY <1>1, <1>2, <1>3 DEF PipeTypeOK, Phases
<1>5. PeerInv'
  BY <1>1, <1>2, <1>4, BegunPeers
<1>6. \/ \E c \in Clients : client[c] = "connected" /\ Waiting({h.pipe}) = {c}
      \/ Waiting({h.pipe}) = {} /\ \E c \in Clients : client[c] = "lost"
  BY <1>1, HeadPeer
<1>7. ASSUME NEW c \in Clients, client[c] = "connected", Waiting({h.pipe}) = {c}
      PROVE  PipeNext
  <2>1. /\ client' = [client EXCEPT ![c] = "answered"]
        /\ got' = [got EXCEPT ![c] = current_data]
    BY <1>2, <1>3, <1>7 DEF PipeTypeOK
  <2> QED BY <1>2, <1>7, <2>1 DEF PipeNext, AnswerAtOnce
<1>8. ASSUME Waiting({h.pipe}) = {}, NEW c \in Clients, client[c] = "lost"
      PROVE  PipeNext
  <2>1. client' = client /\ got' = got
    BY <1>2, <1>3, <1>8 DEF PipeTypeOK
  <2> QED BY <1>2, <1>8, <2>1 DEF PipeNext, AnswerNobody
<1> QED BY <1>5, <1>6, <1>7, <1>8

LEMMA RetryPeers ==
  ASSUME LoopInv, PeerInv, Retry
  PROVE  PeerInv' /\ UNCHANGED pipeVars
<1>1. /\ ready # <<>> /\ Head(ready).do = "begin"
      /\ Loop(Head(ready)) /\ ~IsAccept(Head(ready))
  BY DEF Retry, Running, Loop, IsAccept
<1>2. PipeTypeOK'
  BY DEF Retry, pipeVars, PeerInv, PeerTypes, PipeTypeOK
<1> QED BY <1>1, <1>2, BegunPeers DEF Retry

LEMMA ClosePeers ==
  ASSUME LoopInv, PeerInv, Cleanup \/ AcceptAbandoned
  PROVE  PeerInv' /\ [PipeNext]_pipeVars
<1> DEFINE p == accept_pipe
<1>1. /\ ready # <<>> /\ Head(ready).do \in {"cleanup", "accept"}
      /\ ready' = AbortWait(Tail(ready)) /\ open' = open \ {p} /\ Drop({p})
      /\ accept_pipe' = NoPipe
      /\ peer' = [q \in Pipes |-> IF q \in {p} THEN NoClient ELSE peer[q]]
      /\ UNCHANGED <<running, current_data, ever, got, writes>>
  BY DEF Cleanup, AcceptAbandoned, Running, Close
<1>2. /\ Elems(ready) = Elems(Tail(ready)) \cup {Head(ready)}
      /\ Elems(ready') = Elems(Tail(ready))
                            \cup (IF armed = NoPipe THEN {} ELSE {Aborted})
      /\ open \subseteq Pipes
  BY <1>1, Tailed, AbortQueued DEF LoopInv, LoopTypes
<1>3. Aborted.do = "accept" /\ ~Aborted.ok
  BY DEF Aborted
<1>4. /\ client' \in [Clients -> Phases]
      /\ UNCHANGED client \/ \E c \in Clients : /\ client[c] \in {"connected", "reading"}
                                 /\ client' = [client EXCEPT ![c] = "lost"]
      /\ p \notin open => UNCHANGED client
  BY <1>1, <1>2, DropIsLose DEF PeerInv
<1>5. PeerTypes'
  BY <1>1, <1>4 DEF PeerInv, PeerTypes, PipeTypeOK
<1>6. /\ \A w \in writes : w.pipe # p
      /\ \A h \in Elems(ready) : h.do \in {"immediate", "written"} => h.pipe # p
      /\ p \in open => open = {p}
  <2>1. CASE p = NoPipe
    BY <1>2, <2>1 DEF PeerInv, HeldOpen
  <2>2. CASE p # NoPipe
    <3>1. PICK x \in Places : LoopAt(x)
      BY DEF LoopInv
    <3>2. x \in Threads \cup {"wait"} \/ \E h \in Elems(ready) : IsAccept(h)
      BY <2>2, <3>1 DEF LoopAt, AcceptPipe
    <3>3. CASE x \in Threads \cup {"wait"}
      <4>1. NoLoop(ready) /\ writes = {}
        BY <3>1, <3>3 DEF LoopAt, At
      <4>2. \A h \in Elems(ready) : h.do \notin {"immediate", "written"}
        BY <4>1 DEF NoLoop, Elems, Loop
      <4>3. \A q \in open : q = p
        BY <3>1, <3>3, OneOpen
      <4> QED BY <4>1, <4>2, <4>3
    <3>4. CASE \E h \in Elems(ready) : IsAccept(h)
      <4>1. ~NoLoop(ready)
        BY <3>4 DEF NoLoop, Elems, Loop, IsAccept
      <4>2. OneLoop(ready) /\ writes = {}
        BY <3>1, <4>1 DEF LoopAt, At
      <4>3. \A h \in Elems(ready) : h.do \notin {"immediate", "written"}
        BY <3>4, <4>2, OnlyLoop DEF LoopInv, LoopTypes, Loop, IsAccept
      <4>4. \A q \in open : q = p
        BY <3>1, <4>2, <4>3 DEF LoopAt, Owned
      <4> QED BY <4>2, <4>3, <4>4
    <3> QED BY <3>2, <3>3, <3>4
  <2> QED BY <2>1, <2>2
<1>7. HeldOpen'
  BY <1>1, <1>2, <1>3, <1>6 DEF PeerInv, HeldOpen
<1>8. Peers'
  <2>1. \A q \in Pipes \ open' : peer'[q] = NoClient
    BY <1>1 DEF PeerInv, Peers
  <2>2. CASE p \in open
    BY <1>1, <1>6, <2>1, <2>2 DEF Peers
  <2>3. CASE p \notin open
    <3>1. client' = client /\ open' = open
      BY <1>1, <1>4, <2>3
    <3>2. \A q \in open : peer'[q] = peer[q]
      BY <1>1, <1>2, <2>3
    <3>3. \A q \in open : (Answering(q)' <=> Answering(q)) /\ (Taken(q)' => Taken(q))
      BY <1>1, <1>2, <1>3 DEF Answering, Taken, IsAccept
    <3> QED BY <2>1, <3>1, <3>2, <3>3 DEF PeerInv, Peers
  <2> QED BY <2>2, <2>3
<1>9. [PipeNext]_pipeVars
  BY <1>1, <1>4 DEF PipeNext, Lose, pipeVars
<1> QED BY <1>5, <1>7, <1>8, <1>9 DEF PeerInv

-----------------------------------------------------------------------------
(* A client comes, is taken and served, or goes.                           *)

LEMMA OpenPeers ==
  ASSUME LoopInv, PeerInv, NEW c \in Clients, NEW p \in Pipes, Open(c, p)
  PROVE  PeerInv' /\ PipeNext
<1> DEFINE h == Handler("accept", p, TRUE)
<1>1. /\ p \in open /\ peer[p] = NoClient /\ Connect(c)
      /\ peer' = [peer EXCEPT ![p] = c]
      /\ UNCHANGED <<open, accept_pipe, writes>>
  BY DEF Open
<1>2. /\ client' = [client EXCEPT ![c] = "connected"]
      /\ client[c] \in {"away", "lost", "answered"}
      /\ UNCHANGED <<running, current_data, ever, got>>
  BY <1>1 DEF Connect
<1>3. Elems(ready') = Elems(ready) \/ Elems(ready') = Elems(ready) \cup {h}
  <2>1. h \in Queued
    BY DEF Queued, Handlers
  <2> QED BY <2>1, AddedElems DEF Open
<1>4. h.do = "accept" /\ h.pipe = p
  OBVIOUS
<1> HIDE DEF h
<1>5. PeerTypes'
  BY <1>1, <1>2 DEF PeerInv, PeerTypes, PipeTypeOK, Phases
<1>6. HeldOpen'
  BY <1>1, <1>3, <1>4 DEF PeerInv, HeldOpen
<1>7. ~Answering(p)
  BY <1>1 DEF PeerInv, Peers
<1>8. \A q \in Pipes : /\ Answering(q)' <=> Answering(q)
                       /\ q # p => (Taken(q)' => Taken(q))
  BY <1>1, <1>3, <1>4 DEF Answering, Taken
<1>9. open \subseteq Pipes /\ \A q \in open : q = p
  <2>1. PICK x \in Places : LoopAt(x)
    BY DEF LoopInv
  <2>2. ~Taken(p) /\ ~Answering(p)
    BY <1>1 DEF PeerInv, Peers
  <2>3. open \subseteq Pipes
    BY DEF LoopInv, LoopTypes
  <2>4. p = accept_pipe
    BY <1>1, <2>1, <2>2 DEF LoopAt, Owned, Answering, Taken
  <2>5. x \in Threads \cup {"wait"}
    BY <1>1, <2>1, <2>2, <2>3, <2>4 DEF LoopAt, AcceptPipe, Taken, IsAccept
  <2> QED BY <2>1, <2>3, <2>4, <2>5, OneOpen
<1>10. Peers'
  <2>1. \A q \in Pipes \ open' : peer'[q] = NoClient
    BY <1>1 DEF PeerInv, PeerTypes, Peers
  <2>2. peer'[p] = c /\ client'[c] = "connected"
    BY <1>1, <1>2 DEF PeerInv, PeerTypes, PipeTypeOK
  <2>3. \A q \in open' : q = p
    BY <1>1, <1>9
  <2>4. c # NoClient /\ c # Gone /\ ~Answering(p)'
    BY <1>7, <1>8
  <2> QED BY <2>1, <2>2, <2>3, <2>4 DEF Peers
<1> QED BY <1>1, <1>5, <1>6, <1>10 DEF PeerInv, PipeNext

LEMMA LeavePeers ==
  ASSUME LoopInv, PeerInv, NEW c \in Clients, Leave(c)
  PROVE  PeerInv' /\ PipeNext
<1>1. /\ Lose(c) /\ client' = [client EXCEPT ![c] = "lost"]
      /\ peer' = [p \in Pipes |-> IF peer[p] = c THEN Gone ELSE peer[p]]
      /\ UNCHANGED <<running, current_data, ever, got, open, accept_pipe, ready, writes>>
  BY DEF Leave, Lose
<1>2. PeerTypes'
  BY <1>1 DEF PeerInv, PeerTypes, PipeTypeOK, Phases
<1>3. HeldOpen'
  BY <1>1 DEF PeerInv, HeldOpen
<1>4. \A p \in Pipes : (Answering(p)' <=> Answering(p)) /\ (Taken(p)' <=> Taken(p))
  BY <1>1 DEF Answering, Taken
<1>5. client'[c] = "lost" /\ \A d \in Clients \ {c} : client'[d] = client[d]
  BY <1>1 DEF PeerInv, PeerTypes, PipeTypeOK
<1>6. open \subseteq Pipes
  BY DEF LoopInv, LoopTypes
<1>7. Peers'
  <2>1. \A p \in Pipes \ open' : peer'[p] = NoClient
    BY <1>1 DEF PeerInv, Peers
  <2>2. ASSUME NEW p \in open
        PROVE  /\ peer'[p] \in Clients =>
                    client'[peer'[p]] = IF Answering(p)' THEN "reading" ELSE "connected"
               /\ Answering(p)' \/ Taken(p)' => peer'[p] # NoClient
               /\ peer'[p] = Gone => \E d \in Clients : client'[d] = "lost"
    <3>1. CASE peer[p] = c
      BY <1>1, <1>5, <1>6, <3>1
    <3>2. CASE peer[p] # c
      <4>1. peer'[p] = peer[p]
        BY <1>1, <1>6, <3>2
      <4> QED BY <1>4, <1>5, <1>6, <3>2, <4>1 DEF PeerInv, Peers
    <3> QED BY <3>1, <3>2
  <2> QED BY <1>1, <2>1, <2>2 DEF Peers
<1> QED BY <1>1, <1>2, <1>3, <1>7 DEF PeerInv, PipeNext

\* The handler of a write stands for it.
LEMMA WritePeers ==
  ASSUME LoopInv, PeerInv, NEW w \in writes, WriteDone(w)
  PROVE  PeerInv' /\ UNCHANGED pipeVars
<1> DEFINE h == Handler("written", w.pipe, w.empty \/ peer[w.pipe] \in Clients)
<1>1. /\ writes' = writes \ {w} /\ ready' = Append(ready, h)
      /\ UNCHANGED pipeVars /\ UNCHANGED <<open, peer, accept_pipe>>
  BY DEF WriteDone
<1>2. w \in Writes
  BY DEF LoopInv, LoopTypes
<1>3. h \in Queued /\ h.do = "written" /\ h.pipe = w.pipe
  BY <1>2 DEF Writes, Queued, Handlers
<1>4. Elems(ready') = Elems(ready) \cup {h}
  BY <1>1, <1>3, AddedElems
<1> HIDE DEF h
<1>5. PeerTypes'
  BY <1>1 DEF PeerInv, PeerTypes, PipeTypeOK, pipeVars
<1>6. HeldOpen'
  BY <1>1, <1>3, <1>4 DEF PeerInv, HeldOpen
<1>7. \A p \in Pipes : (Answering(p)' <=> Answering(p)) /\ (Taken(p)' <=> Taken(p))
  BY <1>1, <1>3, <1>4 DEF Answering, Taken, IsAccept
<1>8. Peers'
  BY <1>1, <1>7 DEF PeerInv, Peers, pipeVars, LoopInv, LoopTypes
<1> QED BY <1>1, <1>5, <1>6, <1>8 DEF PeerInv

LEMMA ConnectedPeers ==
  ASSUME LoopInv, PeerInv, NEW t \in Threads, ConnectImmediate(t)
  PROVE  PeerInv' /\ UNCHANGED pipeVars
<1> DEFINE p == creating[t]  h == Handler("immediate", p, TRUE)
<1>1. /\ p \in open /\ peer[p] \in Clients /\ ready' = Append(ready, h)
      /\ accept_pipe' = NoPipe /\ UNCHANGED pipeVars /\ UNCHANGED <<open, peer, writes>>
  BY DEF ConnectImmediate
<1>2. open \subseteq Pipes /\ p \in Pipes
  BY <1>1 DEF LoopInv, LoopTypes
<1>3. h \in Queued /\ h.do = "immediate" /\ h.pipe = p
  BY <1>2 DEF Queued, Handlers
<1>4. Elems(ready') = Elems(ready) \cup {h}
  BY <1>1, <1>3, AddedElems
<1> HIDE DEF h
<1>5. PeerTypes'
  BY <1>1 DEF PeerInv, PeerTypes, PipeTypeOK, pipeVars
<1>6. HeldOpen'
  BY <1>1, <1>3, <1>4 DEF PeerInv, HeldOpen
<1>7. \A q \in Pipes : /\ Answering(q)' <=> Answering(q)
                       /\ Taken(q)' => Taken(q) \/ q = p
  BY <1>1, <1>3, <1>4 DEF Answering, Taken, IsAccept
<1>8. Peers'
  BY <1>1, <1>2, <1>7 DEF PeerInv, Peers, pipeVars
<1> QED BY <1>1, <1>5, <1>6, <1>8 DEF PeerInv

\* The data of the moment are taken for whoever opened the instance.
LEMMA CompletePeers ==
  ASSUME LoopInv, PeerInv, AcceptComplete
  PROVE  PeerInv' /\ [PipeNext]_pipeVars
<1>1. ready # <<>> /\ IsAccept(Head(ready)) /\ Loop(Head(ready)) /\ running
  BY DEF AcceptComplete, Running, IsAccept, Loop
<1>0. PICK p \in Pipes : p = accept_pipe /\ p = Head(ready).pipe
  BY <1>1, HeadIsLoop DEF Queued, IsAccept
<1>2. /\ Head(ready) \in Queued /\ \A h \in Elems(Tail(ready)) : ~Loop(h)
      /\ armed = NoPipe /\ writes = {}
      /\ \A q \in open : q = p
      /\ open \subseteq Pipes
  BY <1>0, <1>1, HeadIsLoop DEF IsAccept, LoopInv, LoopTypes
<1>3. p \in open
  BY <1>0 DEF PeerInv, HeldOpen
<1>4. /\ ready' = Tail(ready) /\ accept_pipe' = NoPipe
      /\ UNCHANGED <<open, peer>>
      /\ writes' = {v \in Writes : v.pipe = p /\ v.empty = (current_data = Empty)}
  BY <1>0, <1>2 DEF AcceptComplete, AbortWait
<1>5. Elems(ready) = Elems(Tail(ready)) \cup {Head(ready)}
  BY <1>1, Tailed DEF LoopInv, LoopTypes
<1>6. [pipe |-> p, empty |-> current_data = Empty] \in writes'
  BY <1>3, <1>4 DEF Writes
<1>7. Answering(p)'
  BY <1>6 DEF Answering
<1>8. Taken(p)
  BY <1>0, <1>1, <1>5 DEF Taken
<1>9. peer[p] \in Clients \cup {Gone}
  BY <1>3, <1>8 DEF PeerInv, Peers, PeerTypes
<1>10. HeldOpen'
  BY <1>2, <1>3, <1>4 DEF HeldOpen, Loop
<1>11. \A q \in Pipes \ open' : peer'[q] = NoClient
  BY <1>4 DEF PeerInv, Peers
<1>12. CASE peer[p] \in Clients
  <2>0. PICK c \in Clients : c = peer[p]
    BY <1>12
  <2>1. Take(c)
    BY <1>0, <2>0 DEF AcceptComplete
  <2>2. client' = [client EXCEPT ![c] = "reading"] /\ got' = [got EXCEPT ![c] = current_data]
    BY <2>1 DEF Take
  <2>3. PeerTypes'
    <3>1. PeerTypes /\ UNCHANGED <<running, current_data, ever, peer>>
      BY <1>4, <2>1 DEF Take, PeerInv
    <3> QED BY <2>2, <3>1 DEF PeerTypes, PipeTypeOK, Phases
  <2>4. client'[c] = "reading" /\ c # NoClient /\ c # Gone
    BY <2>2 DEF PeerInv, PeerTypes, PipeTypeOK
  <2>5. Peers'
    BY <1>2, <1>4, <1>7, <1>11, <2>0, <2>4 DEF Peers
  <2> QED BY <1>10, <2>1, <2>3, <2>5 DEF PeerInv, PipeNext
<1>13. CASE peer[p] = Gone
  <2>1. UNCHANGED pipeVars
    BY <1>0, <1>13 DEF AcceptComplete
  <2>2. PeerTypes'
    BY <1>4, <2>1 DEF PeerInv, PeerTypes, PipeTypeOK, pipeVars
  <2>3. \E c \in Clients : client[c] = "lost"
    BY <1>3, <1>13 DEF PeerInv, Peers
  <2>4. Peers'
    BY <1>2, <1>4, <1>11, <1>13, <2>1, <2>3 DEF Peers, pipeVars
  <2> QED BY <1>10, <2>1, <2>2, <2>4 DEF PeerInv
<1> QED BY <1>9, <1>12, <1>13

-----------------------------------------------------------------------------
\* Each step of the server, or of one of its clients, is a step of the
\* service, or none that the service knows of.
LEMMA StepPeers ==
  ASSUME MaxStarts <= 1, LoopInv, PeerInv, [Next]_vars
  PROVE  PeerInv' /\ [PipeNext]_pipeVars
<1>1. CASE Start
  BY <1>1, StartPeers
<1>2. CASE Stop \/ (\E d \in Data : SetData(d)) \/ Expire
             \/ (\E t \in Threads : ConnectPending(t)) \/ UNCHANGED vars
  <2>1. PeerInv'
    BY <1>2, AsideKeeps
  <2>2. CASE Stop
    <3>1. SetRunning(FALSE)
      BY <2>2 DEF Stop, SetRunning, PeerInv, PeerTypes, PipeTypeOK
    <3> QED BY <2>1, <3>1 DEF PipeNext
  <2>3. CASE \E d \in Data : SetData(d)
    BY <2>1, <2>3 DEF SetData, PipeNext
  <2>4. CASE Expire \/ (\E t \in Threads : ConnectPending(t)) \/ UNCHANGED vars
    BY <2>1, <2>4 DEF Expire, ConnectPending, vars
  <2> QED BY <1>2, <2>2, <2>3, <2>4
<1>3. CASE \E c \in Clients : Leave(c)
  BY <1>3, LeavePeers
<1>4. CASE \E c \in Clients, p \in Pipes : Open(c, p)
  BY <1>4, OpenPeers
<1>5. CASE Cleanup \/ AcceptAbandoned
  BY <1>5, ClosePeers
<1>6. CASE AcceptComplete
  BY <1>6, CompletePeers
<1>7. CASE Written
  BY <1>7, WrittenPeers
<1>8. CASE Immediate
  BY <1>8, ImmediatePeers
<1>9. CASE Retry
  BY <1>9, RetryPeers
<1>10. CASE \E w \in writes : WriteDone(w)
  BY <1>10, WritePeers
<1>11. CASE \E t \in Threads : ConnectImmediate(t)
  BY <1>11, ConnectedPeers
<1>12. CASE \E t \in Threads : ConnectError(t)
  BY <1>12, ErrorPeers
<1> QED BY <1>1, <1>2, <1>3, <1>4, <1>5, <1>6, <1>7, <1>8, <1>9, <1>10, <1>11,
           <1>12 DEF Next, IoNext, ConnectStep

\* A server that is started at most once gives each of its clients what
\* PipeService promises, as far as safety goes: the data of one moment after
\* it connected, and its connection recorded, or no answer at all.
THEOREM ImplementsService == MaxStarts <= 1 => (Spec => PipeSafeSpec)
<1> SUFFICES ASSUME MaxStarts <= 1 PROVE Spec => PipeSafeSpec
  OBVIOUS
<1>1. Init => PipeInit /\ PeerInv
  BY InitPeers DEF Init
<1>2. LoopInv /\ PeerInv /\ [Next]_vars => PeerInv' /\ [PipeNext]_pipeVars
  BY StepPeers
<1>3. Spec => []LoopInv
  BY LoopAlways
<1> QED BY <1>1, <1>2, <1>3, PTL DEF Spec, PipeSafeSpec

-----------------------------------------------------------------------------
(* The host's sender. *)

Kinds == {"none", "cpu", "gpu"}

SenderTypes ==
  /\ backend \in {"ndi", "nova"} /\ started \in BOOLEAN /\ gpu_ready \in BOOLEAN
  /\ layers \in [DOMAIN layers -> Kinds]

\* While Start runs, what it has not come to has no context; before and
\* after, there is nothing left to do, and a sender that is not started has
\* no context at all.
Underway ==
  IF pc = "starting"
  THEN /\ ~started /\ DOMAIN layers # {}
       /\ todo = {l \in DOMAIN layers : layers[l] = "none"}
  ELSE /\ todo = {}
       /\ IF started
          THEN DOMAIN layers # {} /\ \A l \in DOMAIN layers : layers[l] # "none"
          ELSE contexts = {}

\* Only NovaNdiSender beside a D3D11 device has contexts on the GPU, and asks
\* for textures if it has one.
OnGpu ==
  /\ \A l \in DOMAIN layers : layers[l] = "gpu" => backend = "nova" /\ gpu = "D3D11"
  /\ gpu_ready <=> started /\ \E l \in DOMAIN layers : layers[l] = "gpu"

SenderInv ==
  SenderTypes /\ contexts = Sender!Owned /\ Underway /\ OnGpu

\* A client is given some value of the data.
DataInv == current_data \in Data /\ got \in [Clients -> Data]

LEMMA DataKept == DataInv /\ [Next]_vars => DataInv'
<1> SUFFICES ASSUME DataInv, [Next]_vars PROVE DataInv'
  OBVIOUS
<1>1. CASE \E d \in Data : SetData(d)
  BY <1>1 DEF SetData, SetStreamData, DataInv
<1>2. CASE AcceptComplete
  BY <1>2 DEF AcceptComplete, Take, pipeVars, DataInv
<1>3. CASE Immediate
  BY <1>3 DEF Immediate, DataInv
<1>4. CASE UNCHANGED <<current_data, got>>
  BY <1>4 DEF DataInv
<1>5. ASSUME Start \/ Stop \/ Cleanup \/ AcceptAbandoned \/ Written \/ Expire \/ Retry
             \/ (\E w \in writes : WriteDone(w)) \/ (\E t \in Threads : ConnectStep(t))
             \/ UNCHANGED vars
      PROVE  UNCHANGED <<current_data, got>>
  BY <1>5 DEF Start, Stop, Cleanup, AcceptAbandoned, Written, Expire, Retry, WriteDone,
     ConnectStep, ConnectPending, ConnectImmediate, ConnectError, vars, pipeVars
<1>6. ASSUME NEW c \in Clients, Leave(c) \/ \E p \in Pipes : Open(c, p)
      PROVE  UNCHANGED <<current_data, got>>
  BY <1>6 DEF Leave, Lose, Open, Connect
<1> QED BY <1>1, <1>2, <1>3, <1>4, <1>5, <1>6 DEF Next, IoNext

LEMMA InitSender == StreamInit => SenderInv
BY DEF StreamInit, Sender!SenderInit, Sender!NoLayers, SenderInv, SenderTypes,
       Underway, OnGpu, Sender!Owned, Sender!OwnedBy

\* The steps that do not concern the sender.
LEMMA SenderAside ==
  ASSUME SenderInv, UNCHANGED senderVars, pc = "starting" <=> pc' = "starting",
         gpu' = gpu \/ \A l \in DOMAIN layers : layers[l] # "gpu"
  PROVE  SenderInv'
<1>1. SenderTypes' /\ contexts' = (Sender!Owned)'
  BY DEF SenderInv, SenderTypes, senderVars, Sender!Owned, Sender!OwnedBy
<1>2. Underway'
  BY DEF SenderInv, Underway, senderVars
<1>3. OnGpu'
  BY DEF SenderInv, OnGpu, senderVars
<1> QED BY <1>1, <1>2, <1>3 DEF SenderInv

\* What a Stop of either kind closes is all there is.
LEMMA ClosesAll ==
  ASSUME SenderInv, pc # "starting"
  PROVE  contexts \ Sender!Closing = {}
BY DEF SenderInv, Underway, Sender!Closing

\* A sender without contexts, whatever layers it has.
LEMMA NothingOpen ==
  ASSUME SenderTypes', contexts' = {}, ~started', ~gpu_ready',
         \A l \in DOMAIN layers' : layers'[l] = "none",
         IF pc' = "starting" THEN DOMAIN layers' # {} /\ todo' = DOMAIN layers'
                             ELSE todo' = {}
  PROVE  SenderInv'
<1>1. contexts' = (Sender!Owned)'
  BY DEF Sender!Owned, Sender!OwnedBy
<1>2. Underway' /\ OnGpu'
  BY DEF Underway, OnGpu
<1> QED BY <1>1, <1>2 DEF SenderInv

LEMMA ShutdownSender ==
  ASSUME SenderInv, Shutdown
  PROVE  SenderInv'
<1>1. pc = "idle" /\ pc' = pc /\ todo = {} /\ todo' = {}
  BY DEF Shutdown, Sender!Stop, SenderInv, Underway
<1>2. contexts' = {} /\ started' = FALSE /\ gpu_ready' = FALSE /\ backend' = backend
  BY <1>1, ClosesAll DEF Shutdown, Sender!Stop
<1>3. \A l \in DOMAIN layers : ~started => layers[l] = "none"
  BY <1>1 DEF SenderInv, SenderTypes, Underway, Sender!Owned, Sender!OwnedBy, Kinds
<1>4. SenderTypes' /\ \A l \in DOMAIN layers' : layers'[l] = "none"
  BY <1>2, <1>3 DEF Shutdown, Sender!Stop, SenderInv, SenderTypes, Sender!NoLayers,
     Sender!Idle, Kinds
<1> QED BY <1>1, <1>2, <1>4, NothingOpen

LEMMA LoadSender ==
  ASSUME DataInv, SenderInv, StreamsLoaded
  PROVE  SenderInv'
<1> DEFINE n == Len(StreamsOf[got[Host]])
<1>1. pc = "reading" /\ n > 0 /\ n \in Nat
  <2>1. StreamsOf[got[Host]] \in Seq(Seq(Nat))
    BY HostAssumption DEF DataInv
  <2> QED BY <2>1 DEF StreamsLoaded
<1>2. todo = {} /\ contexts \ Sender!Closing = {}
  BY <1>1, ClosesAll DEF SenderInv, Underway
<1> HIDE DEF n
<1>3. CASE Sender!Configure(n) /\ pc' = "starting"
  <2>1. /\ contexts' = {} /\ started' = FALSE /\ gpu_ready' = FALSE
        /\ backend' = backend
        /\ layers' = [l \in 0..(n - 1) |-> "none"] /\ todo' = 0..(n - 1)
    BY <1>2, <1>3 DEF Sender!Configure, Sender!Idle
  <2>2. SenderTypes'
    BY <2>1 DEF SenderInv, SenderTypes, Kinds
  <2>3. DOMAIN layers' = 0..(n - 1) /\ \A l \in DOMAIN layers' : layers'[l] = "none"
    BY <2>1
  <2>4. 0 \in 0..(n - 1)
    BY <1>1
  <2> QED BY <1>3, <2>1, <2>2, <2>3, <2>4, NothingOpen
<1>4. CASE Sender!NoLibrary /\ pc' = "answering"
  <2>1. /\ contexts' = {} /\ started' = FALSE /\ gpu_ready' = FALSE
        /\ backend' = backend /\ layers' = [l \in {} |-> "none"] /\ todo' = todo
    BY <1>2, <1>4 DEF Sender!NoLibrary, Sender!NoLayers
  <2>2. SenderTypes' /\ DOMAIN layers' = {}
    BY <2>1 DEF SenderInv, SenderTypes
  <2> QED BY <1>2, <1>4, <2>1, <2>2, NothingOpen
<1> QED BY <1>3, <1>4 DEF StreamsLoaded, n

LEMMA MakeSender ==
  ASSUME SenderInv, NEW l \in todo, pc = "starting", MakeContext(l), UNCHANGED <<pc, gpu>>
  PROVE  SenderInv'
<1>1. PICK kind \in {"cpu", "gpu"} :
        Sender!Make(l, kind) /\ (kind = "gpu" => backend = "nova" /\ gpu = "D3D11")
  BY DEF MakeContext, Sender!MakeGpu, Sender!MakeCpu
<1>2. /\ todo' = todo \ {l} /\ layers' = [layers EXCEPT ![l] = kind]
      /\ contexts' = contexts \cup {<<l, kind>>}
      /\ UNCHANGED <<backend, started, gpu_ready>>
  BY <1>1 DEF Sender!Make
<1>3. /\ ~started /\ ~gpu_ready /\ DOMAIN layers # {} /\ l \in DOMAIN layers
      /\ todo = {k \in DOMAIN layers : layers[k] = "none"} /\ layers[l] = "none"
  BY DEF SenderInv, Underway, OnGpu
<1>4. /\ DOMAIN layers' = DOMAIN layers /\ layers'[l] = kind
      /\ \A k \in DOMAIN layers \ {l} : layers'[k] = layers[k]
  BY <1>2, <1>3 DEF SenderInv, SenderTypes
<1>5. SenderTypes'
  BY <1>2, <1>4 DEF SenderInv, SenderTypes, Kinds
<1>6. contexts' = (Sender!Owned)'
  <2>1. contexts = {<<k, layers[k]>> : k \in {j \in DOMAIN layers : layers[j] # "none"}}
    BY DEF SenderInv, Sender!Owned, Sender!OwnedBy
  <2>2. {j \in DOMAIN layers' : layers'[j] # "none"}
          = {j \in DOMAIN layers : layers[j] # "none"} \cup {l}
    BY <1>3, <1>4
  <2>3. {<<k, layers'[k]>> : k \in {j \in DOMAIN layers' : layers'[j] # "none"}}
          = contexts \cup {<<l, kind>>}
    BY <1>3, <1>4, <2>1, <2>2
  <2> QED BY <1>2, <2>3 DEF Sender!Owned, Sender!OwnedBy
<1>7. Underway'
  BY <1>2, <1>3, <1>4 DEF Underway
<1>8. OnGpu'
  BY <1>1, <1>2, <1>3, <1>4 DEF SenderInv, OnGpu
<1> QED BY <1>5, <1>6, <1>7, <1>8 DEF SenderInv

\* The library refuses a context: those made before it are given back.
LEMMA FailSender ==
  ASSUME SenderInv, NEW l \in todo, pc = "starting", Sender!MakeFails(l), pc' = "answering"
  PROVE  SenderInv'
<1>1. ~started /\ ~gpu_ready /\ todo = {k \in DOMAIN layers : layers[k] = "none"}
  BY DEF SenderInv, Underway, OnGpu
<1>2. Sender!OwnedBy(DOMAIN layers \ todo) = Sender!Owned
  BY <1>1 DEF Sender!Owned, Sender!OwnedBy
<1>3. /\ contexts' = {} /\ todo' = {}
      /\ layers' = IF backend = "nova" THEN [k \in {} |-> "none"]
                                      ELSE [k \in DOMAIN layers |-> "none"]
      /\ UNCHANGED <<backend, started, gpu_ready>>
  BY <1>2 DEF Sender!MakeFails, Sender!NoLayers, Sender!Idle, SenderInv
<1>4. SenderTypes' /\ \A k \in DOMAIN layers' : layers'[k] = "none"
  BY <1>3 DEF SenderInv, SenderTypes, Kinds
<1> QED BY <1>1, <1>3, <1>4, NothingOpen

LEMMA FinishSender ==
  ASSUME SenderInv, pc = "starting", Sender!Finish(gpu = "D3D11"), pc' = "answering", gpu' = gpu
  PROVE  SenderInv'
<1>1. /\ todo = {} /\ todo' = {} /\ started' = TRUE
      /\ gpu_ready' = (gpu = "D3D11" /\ \E l \in DOMAIN layers : layers[l] = "gpu")
      /\ UNCHANGED <<backend, layers, contexts>>
  BY DEF Sender!Finish
<1>2. DOMAIN layers # {} /\ \A l \in DOMAIN layers : layers[l] # "none"
  BY <1>1 DEF SenderInv, Underway
<1>3. SenderTypes' /\ contexts' = (Sender!Owned)'
  BY <1>1 DEF SenderInv, SenderTypes, Sender!Owned, Sender!OwnedBy
<1>4. Underway' /\ OnGpu'
  BY <1>1, <1>2 DEF SenderInv, Underway, OnGpu
<1> QED BY <1>3, <1>4 DEF SenderInv

LEMMA StepServer == [StreamNext]_allVars => [Next]_vars
BY HostAssumption DEF StreamNext, InitialiseGpu, Shutdown, CallAgain, OpenPipe, HostStep,
   StreamsLoaded, LoadFails, StartSender, AnswerSize, FillBuffer, AgentStep, Next, allVars

\* The host is one of the server's clients, and does no more than a client may:
\* the server's accept loop, pipes and answers are in its presence what
\* PipeServerProofs and ImplementsService say of them.
THEOREM IsPipeServer ==
  /\ StreamSpec => Spec
  /\ MaxStarts <= 1 =>
       (StreamSpec => PipeSafeSpec /\ []OneAcceptLoop /\ []NothingLeftOpen)
<1>1. StreamSpec => Spec
  BY StepServer, PTL DEF StreamSpec, StreamInit, Spec
<1>2. ASSUME MaxStarts <= 1
      PROVE  StreamSpec => PipeSafeSpec /\ []OneAcceptLoop /\ []NothingLeftOpen
  BY <1>1, <1>2, ImplementsService, AcceptLoop, PipesAreClosed, PTL
<1> QED BY <1>1, <1>2

LEMMA StepSender ==
  ASSUME DataInv, SenderInv, [StreamNext]_allVars
  PROVE  DataInv' /\ SenderInv'
<1>1. [Next]_vars
  BY StepServer
<1>2. CASE InitialiseGpu
  <2>1. \A l \in DOMAIN layers : layers[l] # "gpu"
    BY <1>2 DEF InitialiseGpu, SenderInv, OnGpu
  <2> QED BY <1>1, <1>2, <2>1, DataKept, SenderAside DEF InitialiseGpu
<1>3. CASE Shutdown
  BY <1>1, <1>3, DataKept, ShutdownSender
<1>4. CASE CallAgain \/ LoadFails \/ AnswerSize \/ FillBuffer \/ (\E p \in Pipes : OpenPipe(p))
  BY <1>1, <1>4, DataKept, SenderAside
     DEF CallAgain, LoadFails, AnswerSize, FillBuffer, OpenPipe
<1>5. CASE StreamsLoaded
  BY <1>1, <1>5, DataKept, LoadSender
<1>6. CASE StartSender
  <2>1. CASE (\E l \in todo : MakeContext(l)) /\ UNCHANGED pc
    BY <1>1, <1>6, <2>1, DataKept, MakeSender DEF StartSender
  <2>2. CASE (\E l \in todo : Sender!MakeFails(l)) /\ pc' = "answering"
    BY <1>1, <1>6, <2>2, DataKept, FailSender DEF StartSender
  <2>3. CASE Sender!Finish(gpu = "D3D11") /\ pc' = "answering"
    BY <1>1, <1>6, <2>3, DataKept, FinishSender DEF StartSender
  <2> QED BY <1>6, <2>1, <2>2, <2>3 DEF StartSender
<1>7. CASE UNCHANGED hostVars
  BY <1>1, <1>7, DataKept, SenderAside DEF hostVars
<1> QED BY <1>2, <1>3, <1>4, <1>5, <1>6, <1>7 DEF StreamNext, HostStep, allVars

LEMMA SenderAlways == StreamSpec => [](DataInv /\ SenderInv)
<1>1. StreamInit => DataInv /\ SenderInv
  BY DataAssumption, InitSender DEF StreamInit, Init, PipeInit, DataInv
<1>2. (DataInv /\ SenderInv) /\ [StreamNext]_allVars => (DataInv /\ SenderInv)'
  BY StepSender
<1> QED BY <1>1, <1>2, PTL DEF StreamSpec

\* Between the host's calls the library has open exactly the contexts of the
\* layers, of all of them if the sender was started and none if not, whatever
\* failed before.
THEOREM OwnsContexts == StreamSpec => []ContextsOwned
<1>1. SenderInv => ContextsOwned
  BY DEF SenderInv, Underway, ContextsOwned, Quiet
<1> QED BY <1>1, SenderAlways, PTL

\* At every step, those in the middle of a Start included, a context on the GPU
\* and a sender that asks for textures have the device of the Converter.
THEOREM ContextsHaveDevice == StreamSpec => []DeviceOfContexts
<1>1. SenderInv => DeviceOfContexts
  <2> SUFFICES ASSUME SenderInv, NEW c \in contexts, c[2] = "gpu"
               PROVE  gpu = "D3D11"
    BY DEF DeviceOfContexts, SenderInv, OnGpu
  <2>1. PICK l \in DOMAIN layers : c = <<l, layers[l]>>
    BY DEF SenderInv, Sender!Owned, Sender!OwnedBy
  <2> QED BY <2>1 DEF SenderInv, OnGpu
<1> QED BY <1>1, SenderAlways, PTL

-----------------------------------------------------------------------------
(* The host's buffer: rs_getStreams adds up, stream by stream, what to_c     *)
(* then writes string by string.                                            *)

AddString(sum, str) == sum + StringBytes(str)
AddStream(sum, s) == sum + FoldLeft(AddString, 0, s)
PlaceString(at, str) == IF str = 0 THEN at ELSE at + str + 1
Join(s, t) == s \o t

Strings == INSTANCE FoldProofs WITH Op <- AddString
Streams == INSTANCE FoldProofs WITH Op <- AddStream
Placed  == INSTANCE FoldProofs WITH Op <- PlaceString
Joined  == INSTANCE FoldProofs WITH Op <- Join

\* FoldLeft of the instances is the FoldLeft of the model.
LEMMA StringsFold ==
  \A base, s : FoldLeft(AddString, base, s)
      = Strings!FoldLeft(AddString, base, s)
BY Zenon DEF FoldLeft, MapThenFoldSet, Max,
             Strings!FoldLeft, Strings!MapThenFoldSet, Strings!Max

LEMMA StreamsFold ==
  \A base, s : FoldLeft(AddStream, base, s)
      = Streams!FoldLeft(AddStream, base, s)
BY Zenon DEF FoldLeft, MapThenFoldSet, Max,
             Streams!FoldLeft, Streams!MapThenFoldSet, Streams!Max

LEMMA PlacedFold ==
  \A base, s : FoldLeft(PlaceString, base, s)
      = Placed!FoldLeft(PlaceString, base, s)
BY Zenon DEF FoldLeft, MapThenFoldSet, Max,
             Placed!FoldLeft, Placed!MapThenFoldSet, Placed!Max

LEMMA JoinedFold ==
  \A base, s : FoldLeft(Join, base, s)
      = Joined!FoldLeft(Join, base, s)
BY Zenon DEF FoldLeft, MapThenFoldSet, Max,
             Joined!FoldLeft, Joined!MapThenFoldSet, Joined!Max

LEMMA JoinedFlatten == \A s : FlattenSeq(s) = Joined!FlattenSeq(s)
BY Zenon DEF FlattenSeq, Joined!FlattenSeq

LEMMA RequiredFold ==
  ASSUME NEW ss
  PROVE  Required(ss) = DescriptionsSize + DescriptionSize * Len(ss)
                          + FoldLeft(AddStream, 0, ss)
BY DEF Required, AddStream, AddString, FoldLeft, MapThenFoldSet

LEMMA WrittenFold ==
  ASSUME NEW ss
  PROVE  WrittenTo(ss) =
           FoldLeft(PlaceString, DescriptionsSize + DescriptionSize * Len(ss),
                    FlattenSeq(ss))
BY DEF WrittenTo, PlaceString, FoldLeft, MapThenFoldSet

\* A stream's strings, placed from at on, end where their sizes say.
LEMMA StringsPlaced ==
  ASSUME NEW s \in Seq(Nat), NEW at \in Nat
  PROVE  /\ FoldLeft(AddString, 0, s) \in Nat
         /\ FoldLeft(PlaceString, at, s) = at + FoldLeft(AddString, 0, s)
<1> DEFINE n == Len(s)
<1>1. n \in Nat /\ DOMAIN s = 1..n /\ \A k \in 1..n : s[k] \in Nat
  OBVIOUS
<1> HIDE DEF n
<1>2. PICK a : Strings!Steps(a, 0, s, n) /\ a[n] = FoldLeft(AddString, 0, s)
  BY <1>1, Strings!FoldSteps, StringsFold
<1>3. PICK p : Placed!Steps(p, at, s, n) /\ p[n] = FoldLeft(PlaceString, at, s)
  BY <1>1, Placed!FoldSteps, PlacedFold
<1> DEFINE Agree == {k \in 0..n : a[k] \in Nat /\ p[k] = at + a[k]}
<1>4. 0 \in Agree
  BY <1>1, <1>2, <1>3 DEF Strings!Steps, Placed!Steps
<1>5. \A k \in 1..n : k - 1 \in Agree => k \in Agree
  <2> SUFFICES ASSUME NEW k \in 1..n, a[k - 1] \in Nat, p[k - 1] = at + a[k - 1]
               PROVE  a[k] \in Nat /\ p[k] = at + a[k]
    BY <1>1
  <2>1. a[k] = AddString(a[k - 1], s[k])
    BY <1>2 DEF Strings!Steps
  <2>2. p[k] = PlaceString(p[k - 1], s[k])
    BY <1>3 DEF Placed!Steps
  <2>3. s[k] \in Nat
    BY <1>1
  <2>4. a[k] = a[k - 1] + StringBytes(s[k]) /\ StringBytes(s[k]) \in Nat
    BY <2>1, <2>3 DEF AddString, StringBytes
  <2>5. p[k] = p[k - 1] + StringBytes(s[k])
    BY <2>2, <2>3 DEF PlaceString, StringBytes
  <2> QED BY <2>4, <2>5
<1> HIDE DEF Agree
<1>6. \A k \in 0..n : k \in Agree
  BY <1>1, <1>4, <1>5, Strings!UpTo
<1>7. n \in Agree
  BY <1>1, <1>6
<1> QED BY <1>2, <1>3, <1>7 DEF Agree

LEMMA PoolFits ==
  ASSUME NEW streams \in Seq(Seq(Nat)), NEW at \in Nat
  PROVE  /\ FoldLeft(AddStream, 0, streams) \in Nat
         /\ FoldLeft(PlaceString, at, FlattenSeq(streams))
              = at + FoldLeft(AddStream, 0, streams)
<1> DEFINE n == Len(streams)
<1>0. n \in Nat /\ DOMAIN streams = 1..n
  OBVIOUS
<1>1. n \in Nat /\ \A k \in 1..n : streams[k] \in Seq(Nat)
  OBVIOUS
<1> HIDE DEF n
<1>2. PICK a : Streams!Steps(a, 0, streams, n) /\ a[n] = FoldLeft(AddStream, 0, streams)
  <2>1. \E a : Streams!Steps(a, 0, streams, n)
               /\ a[n] = Streams!FoldLeft(AddStream, 0, streams)
    BY <1>0, Streams!FoldSteps
  <2> QED BY <2>1, StreamsFold
<1>3. PICK j : Joined!Steps(j, <<>>, streams, n) /\ j[n] = FoldLeft(Join, <<>>, streams)
  BY <1>0, Joined!FoldSteps, JoinedFold
<1>4. j[n] = FlattenSeq(streams)
  <2>1. \A s, t \in Seq(Nat) : Join(s, t) = s \o t
    BY DEF Join
  <2> QED BY <1>3, <2>1, Joined!FlattenIsFold, JoinedFold, JoinedFlatten
<1> DEFINE Fits(k) == /\ a[k] \in Nat /\ j[k] \in Seq(Nat)
                      /\ FoldLeft(PlaceString, at, j[k]) = at + a[k]
           Fit == {k \in 0..n : Fits(k)}
<1>5. Fits(0)
  BY <1>2, <1>3, Placed!FoldNil, PlacedFold DEF Streams!Steps, Joined!Steps
<1>6. \A k \in 1..n : Fits(k - 1) => Fits(k)
  <2> SUFFICES ASSUME NEW k \in 1..n, Fits(k - 1) PROVE Fits(k)
    OBVIOUS
  <2>1. streams[k] \in Seq(Nat) /\ k - 1 \in 0..n
    BY <1>1
  <2>2. a[k] = a[k - 1] + FoldLeft(AddString, 0, streams[k])
    BY <1>2 DEF Streams!Steps, AddStream
  <2>3. j[k] = j[k - 1] \o streams[k]
    BY <1>3 DEF Joined!Steps, Join
  <2>4. FoldLeft(PlaceString, at, j[k])
          = FoldLeft(PlaceString, FoldLeft(PlaceString, at, j[k - 1]), streams[k])
    BY <2>1, <2>3, Placed!FoldConcat, PlacedFold
  <2>5. at + a[k - 1] \in Nat
    OBVIOUS
  <2>6. /\ FoldLeft(AddString, 0, streams[k]) \in Nat
        /\ FoldLeft(PlaceString, at + a[k - 1], streams[k])
             = (at + a[k - 1]) + FoldLeft(AddString, 0, streams[k])
    BY <2>1, <2>5, StringsPlaced
  <2>7. j[k] \in Seq(Nat)
    BY <2>1, <2>3
  <2> QED BY <2>2, <2>4, <2>6, <2>7
<1> HIDE DEF Fits
<1>7. 0 \in Fit /\ \A k \in 1..n : k - 1 \in Fit => k \in Fit
  BY <1>1, <1>5, <1>6
<1> HIDE DEF Fit
<1>8. \A k \in 0..n : k \in Fit
  BY <1>1, <1>7, Strings!UpTo
<1>9. Fits(n)
  BY <1>1, <1>8 DEF Fit
<1> QED BY <1>2, <1>4, <1>9 DEF Fits

\* The host is told how much to_c writes, for any streams.
LEMMA RequiredIsWritten ==
  ASSUME NEW streams \in Seq(Seq(Nat))
  PROVE  Required(streams) \in Nat /\ WrittenTo(streams) = Required(streams)
<1> DEFINE at == DescriptionsSize + DescriptionSize * Len(streams)
<1>1. at \in Nat
  BY DEF DescriptionsSize, DescriptionSize
<1> QED BY <1>1, PoolFits, RequiredFold, WrittenFold

\* Sizes are of the streams that are loaded, which stay what they are once
\* there are any.
SizesInv ==
  /\ loaded \in Data
  /\ pc \in {"starting", "answering"} => loaded # Empty
  /\ pc = "reading" => loaded = Empty
  /\ nBytes \in {0, Required(StreamsOf[loaded])}
  /\ loaded = Empty => nBytes = 0
  /\ filled \in {0, nBytes}

LEMMA StepSizes ==
  ASSUME DataInv, SizesInv, [StreamNext]_allVars
  PROVE  SizesInv'
<1> USE DEF SizesInv
<1>1. CASE InitialiseGpu \/ Shutdown \/ LoadFails
  BY <1>1 DEF InitialiseGpu, Shutdown, LoadFails
<1>2. CASE CallAgain \/ \E p \in Pipes : OpenPipe(p)
  BY <1>2 DEF CallAgain, OpenPipe
<1>3. CASE StreamsLoaded
  <2>1. got[Host] \in Data /\ got[Host] # Empty
    BY <1>3, HostAssumption DEF StreamsLoaded, DataInv
  <2>2. /\ loaded' = got[Host] /\ pc' \in {"starting", "answering"}
        /\ UNCHANGED <<nBytes, filled>> /\ nBytes = 0
    BY <1>3 DEF StreamsLoaded
  <2> QED BY <2>1, <2>2
<1>4. CASE StartSender
  <2>1. pc = "starting" /\ pc' \in {"starting", "answering"}
        /\ UNCHANGED <<loaded, nBytes, filled>>
    BY <1>4 DEF StartSender
  <2> QED BY <2>1
<1>5. CASE AnswerSize
  BY <1>5 DEF AnswerSize
<1>6. CASE FillBuffer
  <2>1. StreamsOf[loaded] \in Seq(Seq(Nat))
    BY HostAssumption
  <2>2. Required(StreamsOf[loaded]) \in Nat
        /\ WrittenTo(StreamsOf[loaded]) = Required(StreamsOf[loaded])
    BY <2>1, RequiredIsWritten
  <2>3. pc' = "idle" /\ UNCHANGED <<loaded, nBytes>>
        /\ filled' = IF nBytes < Required(StreamsOf[loaded]) THEN filled
                     ELSE WrittenTo(StreamsOf[loaded])
    BY <1>6 DEF FillBuffer
  <2> QED BY <2>2, <2>3
<1>7. CASE UNCHANGED hostVars
  BY <1>7 DEF hostVars
<1> QED BY <1>1, <1>2, <1>3, <1>4, <1>5, <1>6, <1>7
        DEF StreamNext, HostStep, allVars

\* What rs_getStreams writes fits the buffer that the host was told to make,
\* for any streams, whatever the agent is given in between: the two walks over
\* the streams agree, and the streams that are measured are those written.
THEOREM DescriptionsFit == StreamSpec => []StreamsFitBuffer
<1>1. StreamInit => SizesInv
  BY DataAssumption DEF StreamInit, SizesInv
<1>2. DataInv /\ SizesInv /\ [StreamNext]_allVars => SizesInv'
  BY StepSizes
<1>3. SizesInv => StreamsFitBuffer
  <2> SUFFICES ASSUME SizesInv PROVE filled <= nBytes
    BY DEF StreamsFitBuffer
  <2>1. StreamsOf[loaded] \in Seq(Seq(Nat))
    BY HostAssumption DEF SizesInv
  <2>2. nBytes \in Nat
    BY <2>1, RequiredIsWritten DEF SizesInv
  <2> QED BY <2>2 DEF SizesInv
<1> QED BY <1>1, <1>2, <1>3, SenderAlways, PTL DEF StreamSpec
=============================================================================
