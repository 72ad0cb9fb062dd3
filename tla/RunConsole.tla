----------------------------- MODULE RunConsole -----------------------------
(***************************************************************************)
(* The Run Console of the desktop application (src/src/nativeapp.rs): a    *)
(* form, a routing preview, one execution at a time on the async runtime,  *)
(* a channel that brings its result back to the frame loop, and telemetry  *)
(* that is loaded by a timer, by a button and after every result.          *)
(***************************************************************************)
EXTENDS Integers, Sequences

CONSTANTS
  Requests,    \* what the form may hold: a task with its constraints
  Blank,       \* a form whose task is empty once trimmed
  NoRequest,     \* no preview, no result
  MaxRuns,     \* bound on executions
  MayPanic     \* whether the task of a run may panic instead of returning

ASSUME ConsoleAssumption ==
  Blank \notin Requests /\ NoRequest \notin Requests \union {Blank} /\ MaxRuns \in Nat /\ MayPanic \in BOOLEAN

VARIABLES
  form,        \* task_input and constraints_input
  preview,     \* the request the routing decision on screen is about
  running,
  job,         \* the spawned task: the request it captured, or NoRequest
  channel,     \* run_rx: results not yet received
  lastRun,     \* the request whose result is on screen
  recorded,    \* runs the engine has written to the store
  snapshot,    \* as many of them as the telemetry on screen has seen
  lost         \* a run panicked: its message was never sent

consoleVars == <<form, preview, running, job, channel, lastRun, recorded, snapshot, lost>>

Forms == Requests \union {Blank}

ConsoleInit ==
  /\ form \in Requests
  /\ preview = NoRequest /\ lastRun = NoRequest
  /\ running = FALSE /\ lost = FALSE
  /\ job = NoRequest
  /\ channel = <<>>
  /\ recorded = 0 /\ snapshot = 0

-----------------------------------------------------------------------------
\* Typing, which leaves the preview alone.
Edit ==
  /\ form' \in Forms
  /\ UNCHANGED <<preview, running, job, channel, lastRun, recorded, snapshot, lost>>

\* UseTask of the command deck, and the Example button.
Load ==
  /\ form' \in Requests
  /\ preview' = NoRequest
  /\ UNCHANGED <<running, job, channel, lastRun, recorded, snapshot, lost>>

Clear ==
  /\ form' = Blank
  /\ preview' = NoRequest /\ lastRun' = NoRequest
  /\ UNCHANGED <<running, job, channel, recorded, snapshot, lost>>

RoutePreview ==
  /\ form # Blank
  /\ preview' = form
  /\ UNCHANGED <<form, running, job, channel, lastRun, recorded, snapshot, lost>>

\* Mutant: the handler relies on the button and does not look at running.
FreeAlways == TRUE
Free == ~running

\* The button is disabled while running is set, and execute looks again.
Execute ==
  /\ form # Blank /\ Free
  /\ recorded + Len(channel) + (IF job = NoRequest THEN 0 ELSE 1) < MaxRuns
  /\ running' = TRUE
  /\ job' = form
  /\ UNCHANGED <<form, preview, channel, lastRun, recorded, snapshot, lost>>

\* Engine::run returns, having written its rows, and the task sends the message.
Return ==
  /\ job # NoRequest
  /\ recorded' = recorded + 1
  /\ channel' = Append(channel, job)
  /\ job' = NoRequest
  /\ UNCHANGED <<form, preview, running, lastRun, snapshot, lost>>

\* The task unwinds before its send.  The application keeps a sender, so the channel stays open.
Panic ==
  /\ MayPanic
  /\ job # NoRequest
  /\ job' = NoRequest
  /\ lost' = TRUE
  /\ UNCHANGED <<form, preview, running, channel, lastRun, recorded, snapshot>>

\* poll_run takes one message; each frame takes all there are.
Poll ==
  /\ channel # <<>>
  /\ running' = FALSE
  /\ lastRun' = Head(channel)
  /\ channel' = Tail(channel)
  /\ snapshot' = recorded
  /\ UNCHANGED <<form, preview, job, recorded, lost>>

\* refresh_snapshot by the timer or the button.
Refresh ==
  /\ snapshot' = recorded
  /\ UNCHANGED <<form, preview, running, job, channel, lastRun, recorded, lost>>

ConsoleNext ==
  Edit \/ Load \/ Clear \/ RoutePreview \/ Execute \/ Return \/ Panic \/ Poll \/ Refresh

ConsoleSpec == ConsoleInit /\ [][ConsoleNext]_consoleVars

-----------------------------------------------------------------------------
\* One paid execution at a time: the flag is set exactly while a run is under way, waits to be shown or was
\* lost, and never are there two of these; and telemetry shown beside a result counts that result.
OneRunAtATime ==
  /\ running <=> job # NoRequest \/ channel # <<>> \/ lost
  /\ Len(channel) + (IF job = NoRequest THEN 0 ELSE 1) <= 1
  /\ lastRun # NoRequest /\ ~running => snapshot = recorded
=============================================================================
