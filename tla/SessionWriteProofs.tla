------------------------- MODULE SessionWriteProofs -------------------------
(***************************************************************************)
(* The write chain of SessionWrite, proved for any set of writers and any  *)
(* number of messages: one write at a time, nothing stranded, and the      *)
(* safety part of OrderedChannel.                                          *)
(***************************************************************************)
EXTENDS SessionWrite, SequenceTheorems, TLAPS

(* The lengths of sequences under a name that the provers take as it is,   *)
(* and the facts about them that the proofs use.                           *)
Size(s) == Len(s)

LEMMA SizeFacts ==
  /\ <<>> \in Seq(Messages) /\ Size(<<>>) = 0
  /\ \A s \in Seq(Messages) : Size(s) \in Nat /\ (Size(s) = 0 <=> s = <<>>)
BY EmptySeq, LenProperties DEF Size

LEMMA AppendFacts ==
  ASSUME NEW s \in Seq(Messages), NEW m \in Messages
  PROVE  /\ Append(s, m) \in Seq(Messages)
         /\ Size(Append(s, m)) = Size(s) + 1
         /\ \A i \in 1..Size(s) : Append(s, m)[i] = s[i]
         /\ Append(s, m)[Size(s) + 1] = m
BY AppendProperties DEF Size

LEMMA TailFacts ==
  ASSUME NEW s \in Seq(Messages), s # <<>>
  PROVE  /\ Head(s) = s[1] /\ Head(s) \in Messages
         /\ Tail(s) \in Seq(Messages) /\ Size(Tail(s)) = Size(s) - 1
         /\ \A i \in 1..Size(Tail(s)) : Tail(s)[i] = s[i + 1]
BY HeadTailProperties DEF Size

One ==
  /\ Size(inFlight) + posted <= 1
  /\ \A w \in Writers : Posting(w) => Size(inFlight) + posted = 0
  /\ \A v, w \in Writers : Posting(v) /\ Posting(w) => v = w

Chain ==
  /\ One
  /\ writing <=> \/ posted > 0 \/ Size(inFlight) > 0
                 \/ \E w \in Writers : Posting(w)
  /\ Size(write_queue) > 0 => writing

Order ==
  /\ Size(accepted) = Size(delivered) + Size(inFlight) + Size(write_queue)
  /\ \A i \in 1..Size(inFlight) :
       inFlight[i] = accepted[Size(delivered) + i]
  /\ \A i \in 1..Size(write_queue) :
       write_queue[i] = accepted[Size(delivered) + Size(inFlight) + i]

\* The parts of the invariant, in terms of Size.
LEMMA BySize ==
  /\ OneWriteInFlight <=> One
  /\ TypeOK => (ChainInv <=> Chain)
  /\ OrderInv <=> (connected => Order)
<1>1. OneWriteInFlight <=> One
  BY DEF OneWriteInFlight, One, Size
<1>2. TypeOK => (ChainInv <=> Chain)
  <2> SUFFICES ASSUME TypeOK PROVE ChainInv <=> Chain
    OBVIOUS
  <2>1. /\ Size(inFlight) > 0 <=> inFlight # <<>>
        /\ Size(write_queue) > 0 <=> write_queue # <<>>
    BY SizeFacts DEF TypeOK
  <2> QED BY <1>1, <2>1 DEF ChainInv, Chain
<1>3. OrderInv <=> (connected => Order)
  BY DEF OrderInv, Order, Size
<1> QED BY <1>1, <1>2, <1>3

-----------------------------------------------------------------------------
\* What a DoWrite does when nothing else is in flight, element by element.
Popped ==
  /\ write_queue' \in Seq(Messages) /\ inFlight' \in Seq(Messages)
  /\ \/ /\ Size(write_queue) = 0 /\ Size(write_queue') = 0
        /\ writing' = FALSE /\ Size(inFlight') = 0
     \/ /\ Size(write_queue) > 0 /\ writing' = writing
        /\ Size(write_queue') = Size(write_queue) - 1
        /\ \A i \in 1..Size(write_queue') : write_queue'[i] = write_queue[i + 1]
        /\ Size(inFlight') = 1 /\ inFlight'[1] = write_queue[1]

LEMMA DoWritePops ==
  ASSUME TypeOK, DoWrite(<<>>)
  PROVE  Popped
<1>0. write_queue \in Seq(Messages)
  BY DEF TypeOK
<1>1. CASE write_queue = <<>>
  <2>1. Size(write_queue) = 0 /\ write_queue' = write_queue
        /\ writing' = FALSE /\ inFlight' = <<>>
    BY <1>1, SizeFacts DEF DoWrite
  <2> QED BY <1>0, <2>1, SizeFacts DEF Popped
<1>2. CASE write_queue # <<>>
  <2>1. write_queue' = Tail(write_queue) /\ writing' = writing
        /\ inFlight' = Append(<<>>, Head(write_queue))
    BY <1>2 DEF DoWrite
  <2>2. /\ Head(write_queue) = write_queue[1] /\ Head(write_queue) \in Messages
        /\ Tail(write_queue) \in Seq(Messages)
        /\ Size(Tail(write_queue)) = Size(write_queue) - 1
        /\ \A i \in 1..Size(Tail(write_queue)) :
             Tail(write_queue)[i] = write_queue[i + 1]
    BY <1>0, <1>2, TailFacts
  <2>3. Size(write_queue) > 0
    BY <1>0, <1>2, SizeFacts
  <2>4. /\ inFlight' \in Seq(Messages) /\ Size(inFlight') = Size(<<>>) + 1
        /\ inFlight'[Size(<<>>) + 1] = write_queue[1]
    BY <2>1, <2>2, SizeFacts, AppendFacts
  <2>5. Size(inFlight') = 1 /\ inFlight'[1] = write_queue[1]
    BY <2>4, SizeFacts
  <2> QED BY <2>1, <2>2, <2>3, <2>4, <2>5 DEF Popped
<1> QED BY <1>1, <1>2

\* Both handlers that call DoWrite do so with nothing else in flight.
LEMMA RunPostedPops ==
  ASSUME TypeOK, One, RunPosted
  PROVE  /\ Popped /\ Size(inFlight) = 0 /\ posted = 1 /\ posted' = 0
         /\ accepted' = accepted /\ delivered' = delivered
         /\ pc' = pc /\ connected' = connected
<1>1. inFlight \in Seq(Messages) /\ Size(inFlight) \in Nat /\ posted \in Nat
  BY SizeFacts DEF TypeOK
<1>2. Size(inFlight) = 0 /\ posted = 1 /\ posted' = 0
  BY <1>1 DEF One, RunPosted
<1>3. inFlight = <<>>
  BY <1>1, <1>2, SizeFacts
<1>4. Popped
  BY <1>3, DoWritePops DEF RunPosted
<1> QED BY <1>2, <1>4 DEF RunPosted

LEMMA WriteCompletePops ==
  ASSUME TypeOK, One, WriteComplete
  PROVE  /\ Popped /\ Size(inFlight) = 1 /\ posted = 0 /\ posted' = 0
         /\ Head(inFlight) = inFlight[1]
         /\ delivered' \in Seq(Messages)
         /\ connected => Size(delivered') = Size(delivered) + 1
         /\ accepted' = accepted /\ pc' = pc /\ connected' = connected
<1>1. inFlight \in Seq(Messages) /\ Size(inFlight) \in Nat /\ posted \in Nat
      /\ inFlight # <<>> /\ delivered \in Seq(Messages)
  BY SizeFacts DEF TypeOK, WriteComplete
<1>2. Size(inFlight) = 1 /\ posted = 0
  <2>1. Size(inFlight) # 0
    BY <1>1, SizeFacts
  <2> QED BY <1>1, <2>1 DEF One
<1>3. /\ Tail(inFlight) \in Seq(Messages) /\ Head(inFlight) \in Messages
      /\ Head(inFlight) = inFlight[1]
      /\ Size(Tail(inFlight)) = Size(inFlight) - 1
  BY <1>1, TailFacts
<1>4. Tail(inFlight) = <<>>
  <2>1. Size(Tail(inFlight)) = 0
    BY <1>2, <1>3
  <2> QED BY <1>3, <2>1, SizeFacts
<1>5. Popped
  BY <1>4, DoWritePops DEF WriteComplete
<1>6. /\ delivered' \in Seq(Messages)
      /\ connected => Size(delivered') = Size(delivered) + 1
  BY <1>1, <1>3, AppendFacts DEF WriteComplete
<1> QED BY <1>2, <1>3, <1>5, <1>6 DEF WriteComplete

LEMMA WriteAppends ==
  ASSUME TypeOK, NEW w \in Writers, Write(w)
  PROVE  /\ Len(accepted) + 1 \in 1..MaxWrites
         /\ \E m \in Messages :
              /\ write_queue' = Append(write_queue, m)
              /\ accepted' = Append(accepted, m)
<1> DEFINE m == <<w, Len(accepted) + 1>>
<1>1. Len(accepted) \in Nat
  BY LenProperties DEF TypeOK
<1>2. Len(accepted) + 1 \in 1..MaxWrites
  BY <1>1, MaxWritesAssumption DEF Write
<1>3. m \in Messages
  BY <1>2 DEF Messages
<1> QED BY <1>2, <1>3 DEF Write

-----------------------------------------------------------------------------
LEMMA TypeOKInductive == TypeOK /\ One /\ [Next]_vars => TypeOK'
<1> SUFFICES ASSUME TypeOK, One, [Next]_vars PROVE TypeOK'
  OBVIOUS
<1>1. ASSUME NEW w \in Writers, Write(w) PROVE TypeOK'
  <2>0. PICK m \in Messages : write_queue' = Append(write_queue, m)
                              /\ accepted' = Append(accepted, m)
    BY <1>1, WriteAppends
  <2>1. write_queue' \in Seq(Messages) /\ accepted' \in Seq(Messages)
    BY <2>0, AppendFacts DEF TypeOK
  <2> QED BY <1>1, <2>1 DEF Write, TypeOK
<1>2. ASSUME NEW w \in Writers, Post(w) PROVE TypeOK'
  BY <1>2 DEF Post, TypeOK
<1>3. CASE RunPosted
  <2>1. writing' \in BOOLEAN
    BY <1>3, RunPostedPops DEF Popped, TypeOK
  <2>2. /\ write_queue' \in Seq(Messages) /\ inFlight' \in Seq(Messages)
        /\ posted' = 0 /\ accepted' = accepted /\ delivered' = delivered
        /\ pc' = pc /\ connected' = connected
    BY <1>3, RunPostedPops DEF Popped
  <2> QED BY <2>1, <2>2 DEF TypeOK
<1>4. CASE WriteComplete
  <2>1. writing' \in BOOLEAN
    BY <1>4, WriteCompletePops DEF Popped, TypeOK
  <2> QED BY <1>4, <2>1, WriteCompletePops DEF TypeOK, Popped
<1>5. CASE ConnectionLost
  BY <1>5 DEF ConnectionLost, TypeOK
<1>6. CASE UNCHANGED vars
  BY <1>6 DEF vars, TypeOK
<1> QED BY <1>1, <1>2, <1>3, <1>4, <1>5, <1>6 DEF Next

-----------------------------------------------------------------------------
(* The chain of DoWrite calls exists at most once, and exactly while       *)
(* writing_ is set.                                                        *)
LEMMA ChainInductive == TypeOK /\ Chain /\ [Next]_vars => Chain'
<1> SUFFICES ASSUME TypeOK, Chain, [Next]_vars PROVE Chain'
  OBVIOUS
<1>t. /\ Size(write_queue) \in Nat /\ Size(inFlight) \in Nat /\ posted \in Nat
      /\ pc \in [Writers -> {"idle", "post"}] /\ writing \in BOOLEAN
  BY SizeFacts DEF TypeOK
<1>o. One
  BY DEF Chain
\* After a DoWrite the chain goes on exactly if a message is in flight.
<1>d. ASSUME Popped, posted' = 0, pc' = pc, writing,
             \A w \in Writers : ~Posting(w)
      PROVE  Chain'
  <2>1. Size(inFlight') \in {0, 1} /\ \A w \in Writers : ~Posting(w)'
    BY <1>d DEF Popped, Posting
  <2>2. One'
    BY <1>d, <2>1 DEF One
  <2>3. \/ ~writing' /\ Size(inFlight') = 0 /\ Size(write_queue') = 0
        \/ writing' /\ Size(inFlight') = 1
    BY <1>d DEF Popped
  <2>4. /\ writing' <=> posted' > 0 \/ Size(inFlight') > 0
        /\ Size(write_queue') > 0 => writing'
    BY <1>d, <2>3
  <2> QED BY <2>1, <2>2, <2>4 DEF Chain
<1>1. ASSUME NEW w \in Writers, Write(w) PROVE Chain'
  <2>1. inFlight' = inFlight /\ posted' = posted /\ writing' = TRUE
    BY <1>1 DEF Write
  <2>2. CASE writing
    <3>1. pc' = pc
      BY <1>1, <1>t, <2>2 DEF Write
    <3> QED BY <2>1, <2>2, <3>1 DEF Chain, One, Posting
  <2>3. CASE ~writing
    \* Nobody is posting and nothing is in flight: w starts the chain.
    <3>1. Size(inFlight) + posted = 0 /\ \A v \in Writers : ~Posting(v)
      BY <1>t, <2>3 DEF Chain
    <3>2. \A v \in Writers : Posting(v)' <=> v = w
      BY <1>1, <1>t, <2>3, <3>1 DEF Write, Posting
    <3>3. One'
      BY <2>1, <3>1, <3>2 DEF One
    <3> QED BY <2>1, <3>2, <3>3 DEF Chain
  <2> QED BY <2>2, <2>3
<1>2. ASSUME NEW w \in Writers, Post(w) PROVE Chain'
  <2>1. Size(inFlight) = 0 /\ posted' = 1 /\ inFlight' = inFlight
        /\ writing' = writing /\ writing /\ write_queue' = write_queue
    BY <1>2, <1>t DEF Post, Chain, One, Posting
  <2>2. \A v \in Writers : ~Posting(v)'
    BY <1>2, <1>t DEF Post, Chain, One, Posting
  <2> QED BY <2>1, <2>2 DEF Chain, One
<1>3. CASE RunPosted
  <2>1. Popped /\ Size(inFlight) = 0 /\ posted = 1 /\ posted' = 0 /\ pc' = pc
    BY <1>3, <1>o, RunPostedPops
  <2>2. writing /\ \A w \in Writers : ~Posting(w)
    BY <2>1 DEF Chain, One
  <2> QED BY <1>d, <2>1, <2>2
<1>4. CASE WriteComplete
  <2>1. Popped /\ Size(inFlight) = 1 /\ posted = 0 /\ posted' = 0 /\ pc' = pc
    BY <1>4, <1>o, WriteCompletePops
  <2>2. writing /\ \A w \in Writers : ~Posting(w)
    BY <2>1 DEF Chain, One
  <2> QED BY <1>d, <2>1, <2>2
<1>5. CASE ConnectionLost \/ UNCHANGED vars
  BY <1>5 DEF ConnectionLost, vars, Chain, One, Posting
<1> QED BY <1>1, <1>2, <1>3, <1>4, <1>5 DEF Next

-----------------------------------------------------------------------------
(* A DoWrite that finds the first d of the accepted messages delivered and *)
(* none in flight leaves the rest in order.                                *)
LEMMA PopKeepsOrder ==
  ASSUME TypeOK, TypeOK', Popped, accepted' = accepted,
         Size(accepted) = Size(delivered') + Size(write_queue),
         \A i \in 1..Size(write_queue) :
           write_queue[i] = accepted[Size(delivered') + i]
  PROVE  Order'
<1>1. /\ Size(write_queue) \in Nat /\ Size(write_queue') \in Nat
      /\ Size(delivered') \in Nat /\ Size(inFlight') \in Nat
  BY SizeFacts DEF TypeOK
<1>2. CASE Size(write_queue) = 0
  BY <1>1, <1>2 DEF Popped, Order
<1>3. CASE Size(write_queue) > 0
  <2>1. /\ Size(inFlight') = 1 /\ inFlight'[1] = write_queue[1]
        /\ Size(write_queue') = Size(write_queue) - 1
        /\ \A i \in 1..Size(write_queue') : write_queue'[i] = write_queue[i + 1]
    BY <1>3 DEF Popped
  <2>2. inFlight'[1] = accepted'[Size(delivered') + 1]
    BY <1>1, <1>3, <2>1
  <2>3. ASSUME NEW i \in 1..Size(write_queue')
        PROVE  write_queue'[i]
                 = accepted'[Size(delivered') + Size(inFlight') + i]
    <3>1. i + 1 \in 1..Size(write_queue)
      BY <1>1, <2>1
    <3>2. write_queue'[i] = accepted[Size(delivered') + (i + 1)]
      BY <2>1, <3>1
    <3>3. Size(delivered') + (i + 1) = Size(delivered') + Size(inFlight') + i
      BY <1>1, <2>1
    <3> QED BY <3>2, <3>3
  <2>4. Size(accepted')
          = Size(delivered') + Size(inFlight') + Size(write_queue')
    BY <1>1, <1>3, <2>1
  <2> QED BY <2>1, <2>2, <2>3, <2>4 DEF Order
<1> QED BY <1>1, <1>2, <1>3

(* While the connection holds the messages keep the order of the calls.    *)
LEMMA OrderInductive ==
  TypeOK /\ One /\ (connected => Order) /\ [Next]_vars => (connected => Order)'
<1> SUFFICES ASSUME TypeOK, One, connected => Order, [Next]_vars, connected'
             PROVE  Order'
  OBVIOUS
<1>0. connected /\ Order /\ TypeOK'
  BY TypeOKInductive
     DEF Next, Write, Post, RunPosted, WriteComplete, ConnectionLost, vars
<1>1. /\ Size(write_queue) \in Nat /\ Size(inFlight) \in Nat
      /\ Size(accepted) \in Nat /\ Size(delivered) \in Nat
      /\ write_queue \in Seq(Messages) /\ accepted \in Seq(Messages)
  BY SizeFacts DEF TypeOK
<1>2. ASSUME NEW w \in Writers, Write(w) PROVE Order'
  <2>1. inFlight' = inFlight /\ delivered' = delivered
    BY <1>2 DEF Write
  <2>2. PICK m \in Messages : write_queue' = Append(write_queue, m)
                              /\ accepted' = Append(accepted, m)
    BY <1>2, WriteAppends
  <2>3. /\ Size(write_queue') = Size(write_queue) + 1
        /\ Size(accepted') = Size(accepted) + 1
        /\ \A i \in 1..Size(write_queue) : write_queue'[i] = write_queue[i]
        /\ write_queue'[Size(write_queue) + 1] = m
        /\ \A i \in 1..Size(accepted) : accepted'[i] = accepted[i]
        /\ accepted'[Size(accepted) + 1] = m
    BY <1>1, <2>2, AppendFacts
  <2>4. Size(accepted')
          = Size(delivered') + Size(inFlight') + Size(write_queue')
    BY <1>0, <1>1, <2>1, <2>3 DEF Order
  <2>5. ASSUME NEW i \in 1..Size(inFlight')
        PROVE  inFlight'[i] = accepted'[Size(delivered') + i]
    <3>1. i \in 1..Size(inFlight) /\ Size(delivered) + i \in 1..Size(accepted)
      BY <1>0, <1>1, <2>1 DEF Order
    <3>2. inFlight[i] = accepted[Size(delivered) + i]
      BY <1>0, <3>1 DEF Order
    <3> QED BY <2>1, <2>3, <3>1, <3>2
  <2>6. ASSUME NEW i \in 1..Size(write_queue')
        PROVE  write_queue'[i]
                 = accepted'[Size(delivered') + Size(inFlight') + i]
    <3>1. CASE i \in 1..Size(write_queue)
      <4>1. Size(delivered) + Size(inFlight) + i \in 1..Size(accepted)
        BY <1>0, <1>1, <3>1 DEF Order
      <4>2. write_queue[i] = accepted[Size(delivered) + Size(inFlight) + i]
        BY <1>0, <3>1 DEF Order
      <4> QED BY <2>1, <2>3, <3>1, <4>1, <4>2
    <3>2. CASE i = Size(write_queue) + 1
      BY <1>0, <1>1, <2>1, <2>3, <3>2 DEF Order
    <3> QED BY <1>1, <2>3, <3>1, <3>2
  <2> QED BY <2>4, <2>5, <2>6 DEF Order
<1>3. CASE (\E w \in Writers : Post(w)) \/ UNCHANGED vars
  BY <1>0, <1>3 DEF Post, Order, vars
<1>4. CASE RunPosted
  <2>1. /\ Popped /\ Size(inFlight) = 0
        /\ accepted' = accepted /\ delivered' = delivered
    BY <1>4, RunPostedPops
  <2> QED BY <1>0, <1>1, <2>1, PopKeepsOrder DEF Order
<1>5. CASE WriteComplete
  <2>1. /\ Popped /\ Size(inFlight) = 1 /\ accepted' = accepted
        /\ Size(delivered') = Size(delivered) + 1
    BY <1>0, <1>5, WriteCompletePops
  <2> QED BY <1>0, <1>1, <2>1, PopKeepsOrder DEF Order
<1>6. CASE ConnectionLost
  BY <1>6 DEF ConnectionLost
<1> QED BY <1>2, <1>3, <1>4, <1>5, <1>6 DEF Next

THEOREM Invariance == Spec => []IInv
<1> DEFINE BySizeInv == TypeOK /\ Chain /\ (connected => Order)
<1>1. Init => BySizeInv
  <2> SUFFICES ASSUME Init PROVE BySizeInv
    OBVIOUS
  <2>1. <<>> \in Seq(Messages) /\ Size(<<>>) = 0
    BY SizeFacts
  <2>2. TypeOK
    BY <2>1 DEF Init, TypeOK
  <2>3. Chain /\ Order
    BY <2>1 DEF Init, Chain, One, Order, Posting
  <2> QED BY <2>2, <2>3
<1>2. BySizeInv /\ [Next]_vars => BySizeInv'
  BY TypeOKInductive, ChainInductive, OrderInductive DEF Chain
<1>3. BySizeInv => IInv
  BY BySize DEF IInv
<1> QED BY <1>1, <1>2, <1>3, PTL DEF Spec

-----------------------------------------------------------------------------
(* Two async_write operations are never outstanding on the socket.         *)
THEOREM SingleWrite == Spec => []OneWriteInFlight
<1>1. IInv => OneWriteInFlight
  BY DEF IInv, ChainInv
<1> QED BY <1>1, Invariance, PTL

(* A queued message always has somebody who will take it out.              *)
THEOREM NeverStranded == Spec => []NothingStranded
<1>1. IInv => NothingStranded
  BY DEF IInv, ChainInv, NothingStranded
<1> QED BY <1>1, Invariance, PTL

(* The safety part of the refinement: what the client receives is what was *)
(* accepted, in order, with nothing twice and nothing left out.            *)
THEOREM ImplementsChannel == Spec => Channel!SafeSpec
<1>1. Init => Channel!Init
  BY DEF Init, Channel!Init
<1>2. IInv /\ [Next]_vars => [Channel!Next]_(Channel!chanVars)
  <2> SUFFICES ASSUME IInv, [Next]_vars
               PROVE  [Channel!Next]_(Channel!chanVars)
    OBVIOUS
  <2> USE DEF Channel!chanVars, Channel!Next
  <2>0. TypeOK /\ One /\ (connected => Order)
    BY BySize DEF IInv, ChainInv
  <2>1. ASSUME NEW w \in Writers, Write(w) PROVE Channel!Send
    BY <2>0, <2>1, WriteAppends DEF Write, Channel!Send
  <2>2. CASE WriteComplete /\ connected
    <3>1. Size(inFlight) = 1 /\ Head(inFlight) = inFlight[1]
      BY <2>0, <2>2, WriteCompletePops
    <3>2. Size(accepted) \in Nat /\ Size(delivered) \in Nat
          /\ Size(write_queue) \in Nat
      BY <2>0, SizeFacts DEF TypeOK
    <3>3. Size(delivered) < Size(accepted)
          /\ Head(inFlight) = accepted[Size(delivered) + 1]
      BY <2>0, <2>2, <3>1, <3>2 DEF Order
    <3> QED BY <2>2, <3>3 DEF WriteComplete, Channel!Deliver, Size
  <2>3. CASE WriteComplete /\ ~connected
    BY <2>3 DEF WriteComplete
  <2>4. CASE ConnectionLost
    BY <2>4 DEF ConnectionLost, Channel!Break
  <2>5. CASE RunPosted \/ (\E w \in Writers : Post(w)) \/ UNCHANGED vars
    BY <2>5 DEF RunPosted, Post, vars
  <2> QED BY <2>1, <2>2, <2>3, <2>4, <2>5 DEF Next
<1> QED BY <1>1, <1>2, Invariance, PTL DEF Spec, Channel!SafeSpec
=============================================================================
