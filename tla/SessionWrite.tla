---------------------------- MODULE SessionWrite ----------------------------
(***************************************************************************)
(* The outbound side of rs::Session (rs-dll/link.cpp): any thread of the   *)
(* host hands a message to Write; the io thread takes the messages out one *)
(* at a time in DoWrite, whose async_write calls DoWrite again when it is  *)
(* complete.  The flag writing_ says that such a chain exists.             *)
(***************************************************************************)
EXTENDS Naturals, Sequences

CONSTANTS Writers,   \* the threads that call Write
          MaxWrites  \* bound: messages written by all of them

ASSUME MaxWritesAssumption == MaxWrites \in Nat

VARIABLES
  write_queue, writing,   \* guarded by write_mutex_
  pc,                     \* per thread: "post" between the unlock and the post
  posted,                 \* DoWrite handlers waiting in the io context
  inFlight,               \* messages given to async_write, not yet complete
  connected,              \* the socket still works
  accepted,               \* every message pushed, in order
  delivered               \* what async_write completed without an error

vars == <<write_queue, writing, pc, posted, inFlight, connected, accepted,
          delivered>>

Messages == Writers \X (1..MaxWrites)

Init ==
  /\ write_queue = <<>> /\ writing = FALSE
  /\ pc = [w \in Writers |-> "idle"]
  /\ posted = 0 /\ inFlight = <<>> /\ connected = TRUE
  /\ accepted = <<>> /\ delivered = <<>>

WriteM(w) ==  \* posts a DoWrite for every message
  /\ pc[w] = "idle" /\ Len(accepted) < MaxWrites
  /\ LET m == <<w, Len(accepted) + 1>>
     IN  /\ write_queue' = Append(write_queue, m)
         /\ accepted' = Append(accepted, m)
  /\ writing' = TRUE
  /\ pc' = [pc EXCEPT ![w] = "post"]
  /\ UNCHANGED <<posted, inFlight, connected, delivered>>

\* Session::Write up to the end of its critical section.  Messages are told
\* apart by their writer and number.
Write(w) ==
  /\ pc[w] = "idle" /\ Len(accepted) < MaxWrites
  /\ LET m == <<w, Len(accepted) + 1>>
     IN  /\ write_queue' = Append(write_queue, m)
         /\ accepted' = Append(accepted, m)
  /\ writing' = TRUE
  /\ pc' = [pc EXCEPT ![w] = IF writing THEN "idle" ELSE "post"]
  /\ UNCHANGED <<posted, inFlight, connected, delivered>>

\* asio::post of a first DoWrite, outside the critical section.
Post(w) ==
  /\ pc[w] = "post"
  /\ pc' = [pc EXCEPT ![w] = "idle"]
  /\ posted' = posted + 1
  /\ UNCHANGED <<write_queue, writing, inFlight, connected, accepted,
                 delivered>>

DoWriteM(flying) ==  \* stops without clearing the flag
  IF write_queue = <<>>
  THEN inFlight' = flying /\ UNCHANGED <<write_queue, writing>>
  ELSE /\ write_queue' = Tail(write_queue)
       /\ inFlight' = Append(flying, Head(write_queue))
       /\ UNCHANGED writing

\* DoWrite, called while the writes in "flying" have not completed.
DoWrite(flying) ==
  IF write_queue = <<>>
  THEN writing' = FALSE /\ inFlight' = flying /\ UNCHANGED write_queue
  ELSE /\ write_queue' = Tail(write_queue)
       /\ inFlight' = Append(flying, Head(write_queue))
       /\ UNCHANGED writing

RunPosted ==
  /\ posted > 0
  /\ posted' = posted - 1
  /\ DoWrite(inFlight)
  /\ UNCHANGED <<pc, connected, accepted, delivered>>

WriteCompleteM ==  \* clears the flag without a look at the queue
  /\ inFlight # <<>>
  /\ delivered' = IF connected THEN Append(delivered, Head(inFlight))
                  ELSE delivered
  /\ writing' = FALSE /\ inFlight' = Tail(inFlight)
  /\ UNCHANGED <<write_queue, pc, posted, connected, accepted>>

\* The completion handler ignores the error code: a message whose write
\* failed is dropped, and the next one is tried.
WriteComplete ==
  /\ inFlight # <<>>
  /\ delivered' = IF connected THEN Append(delivered, Head(inFlight))
                  ELSE delivered
  /\ DoWrite(Tail(inFlight))
  /\ UNCHANGED <<pc, posted, connected, accepted>>

ConnectionLost ==
  /\ connected /\ connected' = FALSE
  /\ UNCHANGED <<write_queue, writing, pc, posted, inFlight, accepted,
                 delivered>>

Next == \/ \E w \in Writers : Write(w) \/ Post(w)
        \/ RunPosted \/ WriteComplete \/ ConnectionLost

Spec == Init /\ [][Next]_vars

(* A thread that is in Write goes on, the io context runs what is posted to *)
(* it, and every async_write completes.                                     *)
FairSpec == /\ Spec
            /\ \A w \in Writers : WF_vars(Post(w))
            /\ WF_vars(RunPosted) /\ WF_vars(WriteComplete)

-----------------------------------------------------------------------------
(* Properties *)

TypeOK ==
  /\ write_queue \in Seq(Messages) /\ writing \in BOOLEAN
  /\ pc \in [Writers -> {"idle", "post"}]
  /\ posted \in Nat /\ inFlight \in Seq(Messages) /\ connected \in BOOLEAN
  /\ accepted \in Seq(Messages) /\ delivered \in Seq(Messages)

Posting(w) == pc[w] = "post"

\* The socket has at most one async_write at a time, and nothing is about to
\* start a second one: the bytes of two messages never interleave.
OneWriteInFlight ==
  /\ Len(inFlight) + posted <= 1
  /\ \A w \in Writers : Posting(w) => Len(inFlight) + posted = 0
  /\ \A v, w \in Writers : Posting(v) /\ Posting(w) => v = w

\* A message in the queue is never left behind: some thread is about to post
\* DoWrite, or the io thread has it to run.
NothingStranded ==
  write_queue # <<>> =>
    posted > 0 \/ inFlight # <<>> \/ \E w \in Writers : Posting(w)

\* Threads, flag and posted handlers together are an ordered channel: each
\* message is delivered once, in the order of the calls, and is delivered in
\* the end unless the connection is lost.
Channel == INSTANCE OrderedChannel WITH sent <- accepted,
                                        received <- delivered,
                                        broken <- ~connected
IsOrderedChannel == Channel!Spec

-----------------------------------------------------------------------------
(* The inductive invariant. *)

\* writing_ holds exactly while the chain of DoWrite calls exists.
ChainInv ==
  /\ OneWriteInFlight
  /\ writing <=> (posted > 0 \/ inFlight # <<>> \/ \E w \in Writers : Posting(w))
  /\ write_queue # <<>> => writing

\* While the connection holds, what was accepted is what was delivered, then
\* what is in flight, then what is queued.
OrderInv ==
  connected =>
    /\ Len(accepted) = Len(delivered) + Len(inFlight) + Len(write_queue)
    /\ \A i \in 1..Len(inFlight) :
         inFlight[i] = accepted[Len(delivered) + i]
    /\ \A i \in 1..Len(write_queue) :
         write_queue[i] = accepted[Len(delivered) + Len(inFlight) + i]

IInv == TypeOK /\ ChainInv /\ OrderInv
=============================================================================
