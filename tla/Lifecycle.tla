----------------------------- MODULE Lifecycle ------------------------------
(***************************************************************************)
(* How the process stops (observa-cli/src/main.rs).  A signal makes the    *)
(* HTTP server drain: it accepts nothing more and returns when every       *)
(* response has ended.  Then main raises the shutdown flag, waits for each *)
(* task in turn with a timeout, and leaves; the runtime drops whatever is  *)
(* still running.                                                          *)
(*                                                                         *)
(* An /events response ends when its client leaves, or when the bus is     *)
(* dropped; but the connection itself holds the router and with it a Bus,  *)
(* so while it is open the bus is not dropped.                             *)
(***************************************************************************)
EXTENDS Naturals, FiniteSets

CONSTANTS
  Requests,   \* ordinary requests
  Streams,    \* requests for /events
  NTasks,     \* tasks, in the order main waits for them
  Optional,   \* the tasks that return at once if they are not configured
  Eager       \* the tasks that do a round before their loop

ASSUME TasksAssumption == NTasks \in Nat \ {0}

\* Task 1 is the collector, task 2 the ingestor, the others are the loops of
\* spawn_background_tasks; among them the notifications, which want a webhook, and
\* the poller, which wants endpoints and begins with a round.
Tasks == 1..NTasks
Ingestor == 2
Clients == Requests \cup Streams

VARIABLES
  server,    \* serve_with_shutdown
  open,      \* responses under way
  served,    \* history: clients that got their whole response, or left
  flag,      \* the shutdown watch channel
  task,      \* task -> where its loop is
  equipped,  \* the tasks that find what they need: configuration, an HTTP client
  joining    \* the task main waits for; 0 before, NTasks + 1 when main is through

vars == <<server, open, served, flag, task, equipped, joining>>

Exited == joining = NTasks + 1

TypeOK ==
  /\ server \in {"starting", "serving", "draining", "stopped"}
  /\ open \subseteq Clients
  /\ served \subseteq Clients \ open
  /\ flag \in BOOLEAN
  /\ task \in [Tasks -> {"starting", "idle", "waiting", "working", "done"}]
  /\ Tasks \ Optional \subseteq equipped /\ equipped \subseteq Tasks
  /\ joining \in 0..NTasks + 1

\* main spawns the tasks before the server.
Init ==
  /\ server = "starting"
  /\ open = {}
  /\ served = {}
  /\ flag = FALSE
  /\ task = [t \in Tasks |-> "starting"]
  /\ equipped \in {e \in SUBSET Tasks : Tasks \ Optional \subseteq e}
  /\ joining = 0

-----------------------------------------------------------------------------
(* The server                                                              *)

\* TcpListener::bind, or a bad address: serve_with_shutdown returns an error.
Bind ==
  /\ server = "starting"
  /\ server' \in {"serving", "stopped"}
  /\ UNCHANGED <<open, served, flag, task, equipped, joining>>

Accept ==
  /\ server = "serving"
  /\ \E c \in Clients \ (open \cup served) : open' = open \cup {c}
  /\ UNCHANGED <<server, served, flag, task, equipped, joining>>

EndResponse(c) ==
  /\ c \in open
  /\ open' = open \ {c}
  /\ served' = served \cup {c}
  /\ UNCHANGED <<server, flag, task, equipped, joining>>

\* A handler answers.  An /events response only ends with its client.
Respond(r) == r \in Requests /\ EndResponse(r)
Leave(c) == EndResponse(c)

\* SIGINT or SIGTERM; a second one changes nothing.
Signal ==
  /\ server = "serving"
  /\ server' = "draining"
  /\ UNCHANGED <<open, served, flag, task, equipped, joining>>

\* Mutant of Drained: the server does not wait for the responses.
StopAtOnce ==
  /\ server = "draining"
  /\ server' = "stopped"
  /\ UNCHANGED <<open, served, flag, task, equipped, joining>>

\* with_graceful_shutdown
Drained ==
  /\ server = "draining"
  /\ open = {}
  /\ server' = "stopped"
  /\ UNCHANGED <<open, served, flag, task, equipped, joining>>

-----------------------------------------------------------------------------
(* The tasks                                                               *)

\* A task goes from one of these places to one of those.
Goes(t, from, to) ==
  /\ ~Exited
  /\ task[t] \in from
  /\ \E place \in to : task' = [task EXCEPT ![t] = place]
  /\ UNCHANGED <<server, open, served, flag, equipped, joining>>

\* What stands before the loop; the poller's first round does not ask for the flag.
Begin(t) ==
  Goes(t, {"starting"}, {IF t \notin equipped THEN "done"
                         ELSE IF t \in Eager THEN "working" ELSE "idle"})

\* The head of every loop looks at the flag: after the tick, but the ingestor before
\* it waits for a line.
Wake(t) ==
  Goes(t, {"idle"}, {IF flag THEN "done" ELSE IF t = Ingestor THEN "waiting" ELSE "working"})

FinishRound(t) == Goes(t, {"working"}, {"idle"})

\* A line comes, or none does before the timeout.
LineComes == Ingestor \in Tasks /\ Goes(Ingestor, {"waiting"}, {"working", "idle"})

\* journalctl is missing or ends, or there is no file, or it ends and is not tailed.
SourceEnds == Ingestor \in Tasks /\ Goes(Ingestor, {"starting", "waiting"}, {"done"})

-----------------------------------------------------------------------------
(* main                                                                    *)

\* Mutant of RaiseFlag: raised with the signal.
RaiseFlagEarly ==
  /\ joining = 0
  /\ server \in {"draining", "stopped"}
  /\ flag' = TRUE
  /\ joining' = 1
  /\ UNCHANGED <<server, open, served, task, equipped>>

RaiseFlag ==
  /\ joining = 0
  /\ server = "stopped"
  /\ flag' = TRUE
  /\ joining' = 1
  /\ UNCHANGED <<server, open, served, task, equipped>>

\* Mutant of Join: no timeout.
JoinWithoutTimeout ==
  /\ joining \in Tasks
  /\ task[joining] = "done"
  /\ joining' = joining + 1
  /\ UNCHANGED <<server, open, served, flag, task, equipped>>

\* timeout(.., handle): the task ends or its time is up.  After the last one
\* the runtime drops the tasks where they are.
Join ==
  /\ joining \in Tasks
  /\ joining' = joining + 1
  /\ UNCHANGED <<server, open, served, flag, task, equipped>>

Next ==
  \/ Bind \/ Accept \/ Signal \/ Drained
  \/ \E c \in Clients : Respond(c) \/ Leave(c)
  \/ \E t \in Tasks : Begin(t) \/ Wake(t) \/ FinishRound(t)
  \/ LineComes \/ SourceEnds
  \/ RaiseFlag \/ Join

Spec == Init /\ [][Next]_vars

\* Handlers answer, the server and main go on.  Nothing is asked of the tasks.
ServerFairness ==
  /\ WF_vars(Bind) /\ WF_vars(Drained)
  /\ \A r \in Requests : WF_vars(Respond(r))
  /\ WF_vars(RaiseFlag) /\ WF_vars(Join)
FairSpec == Spec /\ ServerFairness
\* ... and those who watch /events close their page in the end.
LeavingFairness == ServerFairness /\ \A s \in Streams : WF_vars(Leave(s))

-----------------------------------------------------------------------------
(* Properties                                                              *)

\* The flag goes up behind the drain: while a response is under way that may be
\* waiting for what a task publishes or stores, no task is told to stop, and none that
\* has found what it needs stops by itself but the ingestor.
TasksOutliveResponses ==
  open # {} => ~flag /\ \A t \in equipped \ {Ingestor} : task[t] # "done"

\* The process does not leave an accepted request without its response, however
\* the requests, the signal and the timeouts of main interleave.
NoResponseIsCut == Exited => open = {}

\* The ingestor was waiting for a line, or the poller had not begun, when they last
\* could look at the flag.
Pending(t) ==
  \/ t = Ingestor /\ task[t] = "waiting"
  \/ t \in Eager /\ task[t] = "starting"

\* Once the flag is up a task takes up one more piece of work at most: the line the
\* ingestor was waiting for, the poller's first round.
NoWorkAfterFlag ==
  [][\A t \in Tasks : flag /\ ~Pending(t) =>
       /\ ~Pending(t)'
       /\ task[t] # "working" => task'[t] # "working"]_vars

\* A signal ends the process, with stuck tasks too, once the watchers have left.
StopsOnceClientsLeave == (server = "draining") ~> Exited

\* "serve the dashboard until `shutdown` resolves" (lib.rs:29): once it has, the
\* server returns.  It does not: an open /events response keeps it, and with it the
\* flag and the tasks that hold the bus whose end the response is waiting for.
ServesUntilShutdown == (server = "draining") ~> (server = "stopped")
=============================================================================
