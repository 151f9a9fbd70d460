---------------------------- MODULE AgentProofs -----------------------------
(***************************************************************************)
(* What the runs of Agent check on small bounds, proved for any number of  *)
(* launches: the exit the agent reports, in every agent; one session at a  *)
(* time, reading its own streams, in an agent that is started once and     *)
(* whose processes end when they are terminated.                           *)
(***************************************************************************)
EXTENDS Agent, FiniteSetTheorems, TLAPS

(* The steps of the pipe server keep its part of the type invariant.       *)
LEMMA PipeKeepsType ==
  ASSUME Pipe!PipeTypeOK, NEW p \in Pids,
         \/ Pipe!Connect(p) \/ Pipe!Take(p) \/ Pipe!Answer(p)
         \/ Pipe!AnswerAtOnce(p) \/ Pipe!Lose(p) \/ Pipe!AnswerNobody(p)
  PROVE  Pipe!PipeTypeOK'
<1> USE DEF Pipe!PipeTypeOK, Pipe!Phases
<1>1. CASE Pipe!Connect(p) \/ Pipe!Lose(p)
  BY <1>1 DEF Pipe!Connect, Pipe!Lose
<1>2. CASE Pipe!Take(p)
  BY <1>2 DEF Pipe!Take
<1>3. CASE Pipe!Answer(p) \/ Pipe!AnswerNobody(p)
  <2>1. ever' \in BOOLEAN
    BY <1>3, Zenon DEF Pipe!Answer, Pipe!AnswerNobody
  <2> QED BY <1>3, <2>1 DEF Pipe!Answer, Pipe!AnswerNobody
<1>4. CASE Pipe!AnswerAtOnce(p)
  <2>1. ever' \in BOOLEAN
    BY <1>4, Zenon DEF Pipe!AnswerAtOnce
  <2> QED BY <1>4, <2>1 DEF Pipe!AnswerAtOnce
<1> QED BY <1>1, <1>2, <1>3, <1>4

(* A process that ends loses its connection to the pipe, and no other does. *)
LEMMA DeathKeepsClients ==
  ASSUME TypeOK, NEW p \in Pids, Dies(p)
  PROVE  /\ alive' = alive \ {p} /\ client' \in [Pids -> Pipe!Phases]
         /\ \A q \in Pids : q # p => client'[q] = client[q]
         /\ client'[p] \notin {"connected", "reading"}
         /\ client'[p] \in {"reading", "answered"} => client'[p] = client[p]
BY DEF TypeOK, Pipe!PipeTypeOK, Pipe!Phases, Dies

LEMMA TypeOKInit == Init => TypeOK
<1> SUFFICES ASSUME Init PROVE TypeOK
  OBVIOUS
<1> USE BoundsAssumption DEF Init, Pipe!PipeInit
<1>1. Pipe!PipeTypeOK
  <2>1. running \in BOOLEAN /\ ever \in BOOLEAN
    BY Zenon
  <2> QED BY <2>1 DEF Pipe!PipeTypeOK, Pipe!Phases
<1>2. /\ runs \in 0..MaxRuns /\ launched \in 0..MaxLaunches
      /\ session \in 0..MaxLaunches /\ last_exited_pid \in 0..MaxLaunches
  OBVIOUS
<1>3. poll_armed \in BOOLEAN
  BY Zenon
<1> QED BY <1>1, <1>2, <1>3 DEF TypeOK

LEMMA TypeOKInductive == TypeOK /\ [Next]_vars => TypeOK'
<1> SUFFICES ASSUME TypeOK, [Next]_vars PROVE TypeOK'
  OBVIOUS
<1> USE BoundsAssumption DEF TypeOK
<1>1. CASE RunServer
  <2>1. running' \in BOOLEAN /\ ever' \in BOOLEAN /\ poll_armed' \in BOOLEAN
    BY <1>1, Zenon DEF RunServer
  <2> QED BY <1>1, <2>1 DEF RunServer, Pipe!PipeTypeOK, Pids
<1>2. CASE Quit
  <2>1. running' \in BOOLEAN /\ poll_armed' \in BOOLEAN
    BY <1>2, Zenon DEF Quit
  <2> QED BY <1>2, <2>1 DEF Quit, Pipe!PipeTypeOK, Pipe!Phases
<1>3. CASE Launch
  <2>1. launched + 1 \in Pids
    BY <1>3 DEF Launch, Pids
  <2> QED BY <1>3, <2>1 DEF Launch, Pipe!PipeTypeOK, Pids
<1>4. CASE LaunchFailed \/ LaunchThrows
  BY <1>4 DEF LaunchFailed, LaunchThrows, Pipe!PipeTypeOK, agentVars
<1>5. CASE OnPoll
  BY <1>5 DEF OnPoll, Pipe!PipeTypeOK, pipeVars, Pids
<1>6. ASSUME NEW p \in Pids, Kill(p) PROVE TypeOK'
  <2>1. client' \in [Pids -> Pipe!Phases] /\ alive' \in SUBSET Pids
    BY <1>6, DeathKeepsClients DEF Kill, Pipe!PipeTypeOK
  <2> QED BY <1>6, <2>1 DEF Kill, Pipe!PipeTypeOK, Pids
<1>7. ASSUME NEW p \in Pids, Exit(p) PROVE TypeOK'
  <2>1. client' \in [Pids -> Pipe!Phases] /\ alive' \in SUBSET Pids
    BY <1>7, DeathKeepsClients DEF Exit
  <2> QED BY <1>7, <2>1 DEF Exit, Pipe!PipeTypeOK
<1>8. ASSUME NEW p \in Pids, ReadPipe(p) \/ Serve(p) PROVE TypeOK'
  <2>1. Pipe!PipeTypeOK'
    BY <1>8, PipeKeepsType DEF ReadPipe, Serve
  <2> QED BY <1>8, <2>1 DEF ReadPipe, Serve, agentVars
<1>9. CASE UNCHANGED vars
  BY <1>9 DEF vars, pipeVars, agentVars, Pipe!PipeTypeOK
<1> QED BY <1>1, <1>2, <1>3, <1>4, <1>5, <1>6, <1>7, <1>8, <1>9 DEF Next

-----------------------------------------------------------------------------
(* The exit that an idle agent reports, whatever outlives the agent or a   *)
(* kill: the only process tracked is the one launched last.                *)
LEMMA TrackInvInductive ==
  TypeOK /\ TrackInv /\ [Next]_vars => TrackInv'
<1> SUFFICES ASSUME TypeOK, TrackInv, [Next]_vars PROVE TrackInv'
  OBVIOUS
<1> USE BoundsAssumption DEF TypeOK, TrackInv, IdleReportsLastExit, Pids
<1>1. CASE RunServer \/ Quit
  BY <1>1 DEF RunServer, Quit
<1>2. CASE Launch
  BY <1>2 DEF Launch
<1>3. CASE LaunchFailed \/ LaunchThrows
  BY <1>3 DEF LaunchFailed, LaunchThrows, agentVars
<1>4. CASE OnPoll
  <2>1. CASE processes \subseteq alive
    BY <1>4, <2>1 DEF OnPoll, pipeVars
  <2>2. CASE ~(processes \subseteq alive)
    <3>1. last_exited_pid' \in processes \ alive
      BY <1>4, <2>2 DEF OnPoll
    <3>2. processes = {session} /\ processes' = {} /\ session' = session
      BY <1>4, <3>1 DEF OnPoll
    <3> QED BY <1>4, <3>1, <3>2 DEF OnPoll, pipeVars
  <2> QED BY <2>1, <2>2
<1>5. ASSUME NEW p \in Pids, Kill(p) PROVE TrackInv'
  BY <1>5 DEF Kill
<1>6. ASSUME NEW p \in Pids, Exit(p) PROVE TrackInv'
  BY <1>6 DEF Exit
<1>7. ASSUME NEW p \in Pids, ReadPipe(p) \/ Serve(p) PROVE TrackInv'
  <2>1. running' = running
    BY <1>7 DEF ReadPipe, Serve, Pipe!Connect, Pipe!Take, Pipe!Answer,
                Pipe!AnswerAtOnce, Pipe!Lose, Pipe!AnswerNobody
  <2> QED BY <1>7, <2>1 DEF ReadPipe, Serve, agentVars
<1>8. CASE UNCHANGED vars
  BY <1>8 DEF vars, pipeVars, agentVars
<1> QED BY <1>1, <1>2, <1>3, <1>4, <1>5, <1>6, <1>7, <1>8 DEF Next

(* Every agent's state has its type.                                       *)
THEOREM TypeCorrect == Spec => []TypeOK
BY TypeOKInit, TypeOKInductive, PTL DEF Spec

(* An idle agent reports the exit of the process it launched last, however *)
(* that process ended and whatever an earlier agent left running.          *)
THEOREM ReportsLastExit == Spec => []IdleReportsLastExit
<1>1. Init => TrackInv
  BY BoundsAssumption
     DEF Init, TrackInv, IdleReportsLastExit, Pipe!PipeInit
<1>2. TrackInv => IdleReportsLastExit
  BY DEF TrackInv
<1> QED BY <1>1, <1>2, TypeOKInit, TypeOKInductive, TrackInvInductive, PTL
        DEF Spec

-----------------------------------------------------------------------------
(* One agent that is never started again, and a kill that ends what it     *)
(* terminates.                                                             *)
LEMMA SessionInvInit == Init => SessionInv
BY DEF Init, SessionInv, Pids, NoData, Pipe!PipeInit

LEMMA SessionInvInductive ==
  ASSUME ~SlowExit, MaxRuns <= 1
  PROVE  TypeOK /\ TrackInv /\ SessionInv /\ [Next]_vars => SessionInv'
<1> SUFFICES ASSUME TypeOK, TrackInv, SessionInv, [Next]_vars
             PROVE  SessionInv'
  OBVIOUS
<1> USE BoundsAssumption DEF SessionInv
<1>1. CASE RunServer
  <2>1. runs = 0 /\ runs' # 0
    BY <1>1 DEF RunServer, TypeOK
  <2> QED BY <1>1, <2>1 DEF RunServer
<1>2. CASE Quit
  <2>1. \A p \in Pids :
          /\ client'[p] \notin {"connected", "reading"}
          /\ client'[p] = "answered" => client[p] = "answered"
    BY <1>2 DEF Quit
  <2> QED BY <1>2, <2>1 DEF Quit
<1>3. CASE Launch
  <2>1. runs # 0 /\ alive = {}
    BY <1>3 DEF Launch
  <2> QED BY <1>3, <2>1 DEF Launch
<1>4. CASE LaunchFailed \/ LaunchThrows
  <2>1. processes = {} /\ runs # 0
    BY <1>4 DEF LaunchFailed, LaunchThrows
  <2> QED BY <1>4, <2>1 DEF LaunchFailed, LaunchThrows, agentVars
<1>5. CASE OnPoll
  BY <1>5 DEF OnPoll, pipeVars
<1>6. ASSUME NEW p \in Pids, Kill(p) PROVE SessionInv'
  <2>1. Dies(p)
    BY <1>6 DEF Kill
  <2>2. /\ alive' = alive \ {p}
        /\ \A q \in Pids : q # p => client'[q] = client[q]
        /\ client'[p] \notin {"connected", "reading"}
        /\ client'[p] \in {"reading", "answered"} => client'[p] = client[p]
    BY <2>1, DeathKeepsClients
  <2> QED BY <1>6, <2>2 DEF Kill
<1>7. ASSUME NEW p \in Pids, Exit(p) PROVE SessionInv'
  <2>2. /\ alive' = alive \ {p}
        /\ \A q \in Pids : q # p => client'[q] = client[q]
        /\ client'[p] \notin {"connected", "reading"}
        /\ client'[p] \in {"reading", "answered"} => client'[p] = client[p]
    BY <1>7, DeathKeepsClients DEF Exit
  <2> QED BY <1>7, <2>2 DEF Exit
<1>8. ASSUME NEW p \in Pids, ReadPipe(p) \/ Serve(p) PROVE SessionInv'
  <2> USE <1>8 DEF TypeOK, Pipe!PipeTypeOK, agentVars
  <2>1. CASE ReadPipe(p)
    BY <2>1 DEF ReadPipe, Pipe!Connect
  <2>2. CASE Serve(p) /\ (Pipe!Take(p) \/ Pipe!AnswerAtOnce(p))
    <3>1. p \in alive /\ current_data = p
      BY <2>2 DEF Pipe!Take, Pipe!AnswerAtOnce
    <3>2. /\ got' = [got EXCEPT ![p] = p]
          /\ client' \in {[client EXCEPT ![p] = "reading"],
                          [client EXCEPT ![p] = "answered"]}
          /\ UNCHANGED <<running, current_data, agentVars>>
      BY <2>2, <3>1 DEF Serve, Pipe!Take, Pipe!AnswerAtOnce
    <3>3. \A q \in Pids : got'[q] = IF q = p THEN p ELSE got[q]
      BY <3>2
    <3>4. \A q \in Pids : q # p => client'[q] = client[q]
      BY <3>2
    <3> QED BY <3>1, <3>2, <3>3, <3>4
  <2>3. CASE Serve(p) /\ Pipe!Answer(p)
    BY <2>3 DEF Serve, Pipe!Answer
  <2>4. CASE Serve(p) /\ (Pipe!Lose(p) \/ Pipe!AnswerNobody(p))
    BY <2>4 DEF Serve, Pipe!Lose, Pipe!AnswerNobody
  <2> QED BY <2>1, <2>2, <2>3, <2>4 DEF Serve
<1>9. CASE UNCHANGED vars
  BY <1>9 DEF vars, pipeVars, agentVars
<1> QED BY <1>1, <1>2, <1>3, <1>4, <1>5, <1>6, <1>7, <1>8, <1>9 DEF Next

(* Every process reads the streams its own launch request carried.         *)
THEOREM OwnStreams ==
  ASSUME ~SlowExit, MaxRuns <= 1
  PROVE  Spec => []SessionReadsOwnStreams
<1>1. SessionInv => SessionReadsOwnStreams
  BY DEF SessionInv, SessionReadsOwnStreams
<1>2. Init => TrackInv
  BY BoundsAssumption
     DEF Init, TrackInv, IdleReportsLastExit, Pipe!PipeInit
<1> QED BY <1>1, <1>2, TypeOKInit, TypeOKInductive, TrackInvInductive,
           SessionInvInit, SessionInvInductive, PTL DEF Spec

(* The session guard lets at most one process run.                         *)
THEOREM OneSession ==
  ASSUME ~SlowExit, MaxRuns <= 1
  PROVE  Spec => []OneSessionAtATime
<1>1. TypeOK /\ SessionInv => OneSessionAtATime
  <2> SUFFICES ASSUME TypeOK, SessionInv PROVE Cardinality(alive) <= 1
    BY DEF OneSessionAtATime
  <2>1. alive = {} \/ alive = {session}
    BY DEF SessionInv
  <2>2. Cardinality({}) = 0 /\ Cardinality({session}) = 1
    BY FS_EmptySet, FS_Singleton
  <2> QED BY <2>1, <2>2
<1>2. Init => TrackInv
  BY BoundsAssumption
     DEF Init, TrackInv, IdleReportsLastExit, Pipe!PipeInit
<1> QED BY <1>1, <1>2, TypeOKInit, TypeOKInductive, TrackInvInductive,
           SessionInvInit, SessionInvInductive, PTL DEF Spec
=============================================================================
