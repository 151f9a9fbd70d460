---------------------------- MODULE PipeService -----------------------------
(***************************************************************************)
(* What a PipeServer (rs-agent/pipe_server.h) promises the agent and the   *)
(* processes that open its pipe, without its accept loop: while it runs,   *)
(* each client that connects is given the stream data in force at one      *)
(* moment after it connected, and is then told so by LastConnectTime, or   *)
(* loses the connection.  PipeServer implements this specification; Agent  *)
(* is built on it.                                                         *)
(***************************************************************************)
CONSTANTS Clients,   \* whoever opens the pipe
          Data,      \* values of current_data_
          Empty      \* the value it starts with

ASSUME DataAssumption == Empty \in Data

VARIABLES running,       \* running_
          current_data,  \* current_data_
          ever,          \* last_connect_ms_ > 0
          client,        \* each client's connection
          got            \* the data a client was last given; Empty if none

pipeVars == <<running, current_data, ever, client, got>>

Phases == {"away", "connected", "reading", "answered", "lost"}

PipeTypeOK ==
  /\ running \in BOOLEAN /\ current_data \in Data /\ ever \in BOOLEAN
  /\ client \in [Clients -> Phases] /\ got \in [Clients -> Data]

PipeInit ==
  /\ running = FALSE /\ current_data = Empty /\ ever = FALSE
  /\ client = [c \in Clients |-> "away"] /\ got = [c \in Clients |-> Empty]

SetRunning(r) ==
  running # r /\ running' = r /\ UNCHANGED <<current_data, ever, client, got>>

SetStreamData(d) ==
  current_data' = d /\ UNCHANGED <<running, ever, client, got>>

Connect(c) ==
  /\ client[c] \in {"away", "lost", "answered"}
  /\ client' = [client EXCEPT ![c] = "connected"]
  /\ UNCHANGED <<running, current_data, ever, got>>

Take(c) ==
  /\ client[c] = "connected"
  /\ client' = [client EXCEPT ![c] = "reading"]
  /\ got' = [got EXCEPT ![c] = current_data]
  /\ UNCHANGED <<running, current_data, ever>>

Answer(c) ==
  /\ client[c] = "reading"
  /\ client' = [client EXCEPT ![c] = "answered"] /\ ever' = TRUE
  /\ UNCHANGED <<running, current_data, got>>

AnswerAtOnce(c) ==
  /\ client[c] = "connected"
  /\ client' = [client EXCEPT ![c] = "answered"] /\ ever' = TRUE
  /\ got' = [got EXCEPT ![c] = current_data]
  /\ UNCHANGED <<running, current_data>>

\* The client goes, or the server closes the pipe.
Lose(c) ==
  /\ client[c] \in {"connected", "reading"}
  /\ client' = [client EXCEPT ![c] = "lost"]
  /\ UNCHANGED <<running, current_data, ever, got>>

\* The server finishes with a client that has gone in the meantime.
AnswerNobody(c) ==
  /\ client[c] = "lost"
  /\ ever' = TRUE /\ UNCHANGED <<running, current_data, client, got>>

PipeNext ==
  \/ \E r \in BOOLEAN : SetRunning(r)
  \/ \E d \in Data : SetStreamData(d)
  \/ \E c \in Clients : \/ Connect(c) \/ Take(c) \/ Answer(c)
                        \/ AnswerAtOnce(c) \/ Lose(c) \/ AnswerNobody(c)

\* Whoever is connected is answered or let go.
Served(c) == Take(c) \/ Answer(c) \/ AnswerAtOnce(c) \/ Lose(c)

PipeSafeSpec == PipeInit /\ [][PipeNext]_pipeVars
PipeSpec == PipeSafeSpec /\ \A c \in Clients : WF_pipeVars(Served(c))
=============================================================================
