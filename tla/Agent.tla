------------------------------- MODULE Agent --------------------------------
(***************************************************************************)
(* One rs-agent: the HTTP handlers that launch and kill the engine         *)
(* (rs-agent/http_server.cpp), ProcessManager, and the PipeServer from     *)
(* which the launched process reads the streams it is to render, here as   *)
(* its abstract specification PipeService.  All handlers run on the one io *)
(* thread, so each is one step; the processes run beside it.               *)
(*                                                                         *)
(* The n-th process launched is the number n, which is also the stream     *)
(* data its launch request carries; Orphan is the data of a request that   *)
(* launched nothing.  No process is ever known by a number again.          *)
(***************************************************************************)
EXTENDS Integers, FiniteSets

CONSTANTS MaxLaunches,  \* bound: processes launched
          MaxRuns,      \* bound: times the agent is started
          SlowExit      \* may a terminated process outlive Kill's 5 s wait?

ASSUME BoundsAssumption == MaxLaunches \in Nat /\ MaxRuns \in Nat
ASSUME SlowExitAssumption == SlowExit \in BOOLEAN

Pids    == 1..MaxLaunches
NoData  == 0               \* {"streams":[]}
Orphan  == -1

VARIABLES
  running, current_data, ever, client, got,   \* the PipeServer
  runs,             \* times the agent has been started
  processes,        \* processes_
  alive,            \* processes the operating system still runs
  launched,         \* processes launched, by any run of the agent
  session,          \* the process this run launched last, 0 if none
  last_exited_pid,  \* last_exited_pid_, with the code and time it goes with
  poll_armed        \* poll_timer_ is waiting

Pipe == INSTANCE PipeService WITH Clients <- Pids, Empty <- NoData,
                                  Data <- Pids \cup {NoData, Orphan}

pipeVars  == <<running, current_data, ever, client, got>>
agentVars == <<runs, processes, alive, launched, session, last_exited_pid,
               poll_armed>>
vars      == <<pipeVars, agentVars>>

TypeOK ==
  /\ Pipe!PipeTypeOK
  /\ runs \in 0..MaxRuns
  /\ processes \in SUBSET Pids /\ alive \in SUBSET Pids
  /\ launched \in 0..MaxLaunches /\ session \in 0..MaxLaunches
  /\ last_exited_pid \in 0..MaxLaunches
  /\ poll_armed \in BOOLEAN

Init ==
  /\ Pipe!PipeInit
  /\ runs = 0 /\ processes = {} /\ alive = {} /\ launched = 0 /\ session = 0
  /\ last_exited_pid = 0 /\ poll_armed = FALSE

-----------------------------------------------------------------------------
(* RunServer: nothing is kept from an earlier run, and Quit leaves the     *)
(* processes alone.                                                        *)

RunServer ==
  /\ ~running /\ runs < MaxRuns
  /\ running' = TRUE /\ runs' = runs + 1
  /\ current_data' = NoData /\ ever' = FALSE
  /\ processes' = {} /\ session' = 0 /\ last_exited_pid' = 0
  /\ poll_armed' = TRUE
  /\ UNCHANGED <<client, got, alive, launched>>

Quit ==
  /\ running /\ running' = FALSE
  /\ poll_armed' = FALSE
  /\ client' = [p \in Pids |-> IF client[p] \in {"connected", "reading"}
                               THEN "lost" ELSE client[p]]
  /\ UNCHANGED <<current_data, ever, got, runs, processes, alive, launched,
                 session, last_exited_pid>>

-----------------------------------------------------------------------------
(* POST /api/renderstream/launch.  A request that arrives while a process  *)
(* is tracked is refused and changes nothing.                              *)

LaunchM ==  \* no session guard
  /\ running /\ launched < MaxLaunches
  /\ current_data' = launched + 1
  /\ launched' = launched + 1 /\ session' = launched + 1
  /\ alive' = alive \cup {launched + 1}
  /\ processes' = processes \cup {launched + 1}
  /\ last_exited_pid' = 0
  /\ UNCHANGED <<running, ever, client, got, runs, poll_armed>>

Launch ==
  /\ running /\ processes = {} /\ launched < MaxLaunches
  /\ current_data' = launched + 1
  /\ launched' = launched + 1 /\ session' = launched + 1
  /\ alive' = alive \cup {launched + 1}
  /\ processes' = processes \cup {launched + 1}
  /\ last_exited_pid' = 0
  /\ UNCHANGED <<running, ever, client, got, runs, poll_armed>>

\* CreateProcessW fails, and the pipe data is rolled back.
LaunchFailedM ==  \* the data is set before the session guard
  /\ running
  /\ current_data' = IF processes = {} THEN NoData ELSE Orphan
  /\ UNCHANGED <<running, ever, client, got, agentVars>>

LaunchFailed ==
  /\ running /\ processes = {}
  /\ current_data' = NoData
  /\ UNCHANGED <<running, ever, client, got, agentVars>>

\* Creating the directory of the nDisplay file, or converting its text, throws
\* what the handler does not catch: the pipe data is not rolled back.
LaunchThrows ==
  /\ running /\ processes = {}
  /\ current_data' = Orphan
  /\ UNCHANGED <<running, ever, client, got, agentVars>>

\* The process p ends; whatever connection to the pipe it had is gone.
Dies(p) ==
  /\ alive' = alive \ {p}
  /\ client' = [client EXCEPT ![p] =
                  IF @ \in {"connected", "reading"} THEN "lost" ELSE @]

\* POST /api/unreal/kill.  The result of the wait is not looked at.
KillM(p) ==  \* what exited is not recorded
  /\ running /\ p \in processes
  /\ processes' = processes \ {p}
  /\ Dies(p)
  /\ UNCHANGED <<running, current_data, ever, got, runs, launched, session,
                 last_exited_pid, poll_armed>>

Kill(p) ==
  /\ running /\ p \in processes
  /\ processes' = processes \ {p} /\ last_exited_pid' = p
  /\ Dies(p) \/ (SlowExit /\ UNCHANGED <<alive, client>>)
  /\ UNCHANGED <<running, current_data, ever, got, runs, launched, session,
                 poll_armed>>

\* OnPoll: every process found to have exited is recorded and forgotten.
OnPollM ==  \* the timer is armed again only if something has exited
  /\ running /\ poll_armed
  /\ processes' = processes \cap alive
  /\ last_exited_pid' \in IF processes \subseteq alive THEN {last_exited_pid}
                          ELSE processes \ alive
  /\ poll_armed' = ~(processes \subseteq alive)
  /\ UNCHANGED <<pipeVars, runs, alive, launched, session>>

OnPoll ==
  /\ running /\ poll_armed
  /\ processes' = processes \cap alive
  /\ last_exited_pid' \in IF processes \subseteq alive THEN {last_exited_pid}
                          ELSE processes \ alive
  /\ UNCHANGED <<pipeVars, runs, alive, launched, session, poll_armed>>

-----------------------------------------------------------------------------
(* The processes: one may end at any time, and reads the pipe when it first *)
(* asks for its streams, and again if that failed.                         *)

Exit(p) ==
  /\ p \in alive /\ Dies(p)
  /\ UNCHANGED <<running, current_data, ever, got, runs, processes, launched,
                 session, last_exited_pid, poll_armed>>

ReadPipe(p) ==
  /\ running /\ p \in alive
  /\ Pipe!Connect(p) /\ UNCHANGED agentVars

\* PipeServer at work.  It may find that its client has gone only later.
Serve(p) ==
  /\ running
  /\ \/ Pipe!Take(p) \/ Pipe!Answer(p) \/ Pipe!AnswerAtOnce(p)
     \/ Pipe!Lose(p) \/ Pipe!AnswerNobody(p)
  /\ UNCHANGED agentVars

Next ==
  \/ RunServer \/ Quit \/ Launch \/ LaunchFailed \/ LaunchThrows \/ OnPoll
  \/ \E p \in Pids : Kill(p) \/ Exit(p) \/ ReadPipe(p) \/ Serve(p)

Spec == Init /\ [][Next]_vars

\* The timers of the io thread expire; nobody has to do anything else.
FairSpec == Spec /\ WF_vars(OnPoll)

-----------------------------------------------------------------------------
(* Properties *)

\* What launch promises at http_server.cpp:308, the pipe data is set before
\* the process is launched: no process is ever given the streams of another
\* launch, of a launch that failed, or none.
SessionReadsOwnStreams == \A p \in Pids : got[p] \in {NoData, p}
                            /\ (client[p] = "answered" => got[p] = p)

\* Session guard: only one UE session at a time (http_server.cpp:300).
OneSessionAtATime == Cardinality(alive) <= 1

\* The exit reported while the agent is idle is that of the last process it
\* launched, whether it was killed or ended by itself, and none is reported
\* while a process runs (process_manager.h:57).
IdleReportsLastExit ==
  running => last_exited_pid = IF processes = {} THEN session ELSE 0

\* A process that has ended is noticed, so that the next launch is not
\* refused for ever.
ExitIsNoticed ==
  \A p \in Pids : p \in processes /\ p \notin alive
                    ~> p \notin processes \/ ~running

-----------------------------------------------------------------------------
(* The inductive invariants the safety properties rest on. *)

\* Any agent: at most one process is tracked, the one launched last.
TrackInv ==
  /\ IdleReportsLastExit
  /\ session <= launched
  /\ running => processes \subseteq {session}

\* An agent that is started once and whose processes end when terminated:
\* what runs is tracked, the pipe holds its data, and only what runs reads.
SessionInv ==
  /\ runs = 0 => ~running /\ alive = {} /\ processes = {}
  /\ alive \subseteq processes /\ processes \subseteq {session}
  /\ \A p \in processes : current_data = p
  /\ \A p \in Pids : client[p] \in {"connected", "reading"} => p \in alive
  /\ \A p \in Pids : got[p] \in {NoData, p}
  /\ \A p \in Pids : client[p] \in {"reading", "answered"} => got[p] = p

IInv == TypeOK /\ TrackInv /\ SessionInv
=============================================================================
