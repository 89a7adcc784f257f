-------------------------------- MODULE Program --------------------------------
(***************************************************************************)
(* main() of the server (src/server/main.cpp): the thread that runs the    *)
(* io_context, the thread that exports the metrics every half a minute,    *)
(* and the signal that ends both.  Other threads may use the metrics, as   *)
(* their headers promise they can.                                         *)
(*                                                                         *)
(* Of the server there is one client, which is connected or is not; the    *)
(* accept loop and the sessions are the module Server.                     *)
(***************************************************************************)
EXTENDS Metrics

CONSTANTS
  Main, Exporter   \* the two threads of the program

Callers == Threads \ {Main, Exporter}

ASSUME ProgramAssumption == {Main, Exporter} \subseteq Threads /\ Main # Exporter

VARIABLES
  main,      \* where main() is; "handling": in the handler of the signal
  exporter,  \* where metrics_thread is; "none": metrics_enabled is off
  running,
  client     \* "away", "served", "gone" by itself, "dropped" by the server

threadVars  == <<main, exporter, running, client>>
programVars == <<metricsVars, threadVars>>

ProgramInit ==
  /\ MetricsInit
  /\ main = "starting" /\ exporter = "none" /\ running = TRUE /\ client = "away"

-----------------------------------------------------------------------------
(* The main thread                                                          *)

\* The server is made, the exporter is started if the configuration says so,
\* and ioc.run() is entered.
Start ==
  /\ main = "starting" /\ main' = "serving"
  /\ exporter' \in {"none", "nap"}
  /\ UNCHANGED <<metricsVars, running, client>>

\* The handlers of the server, one after the other, on this thread.
Serving == main = "serving" /\ at[Main] = "idle"

Connect    == client = "away" /\ client' = "served"
Disconnect == client = "served" /\ client' = "gone"

Serve == Serving /\ (Connect \/ Disconnect) /\ UNCHANGED <<metricsVars, main, exporter, running>>

\* A message that does not parse: the error logger main() installs.
ProtocolError ==
  /\ main = "serving" /\ RecordStep(Main)
  /\ UNCHANGED threadVars

\* SIGINT or SIGTERM.
Signal ==
  /\ Serving /\ main' = "handling" /\ running' = FALSE
  /\ UNCHANGED <<metricsVars, exporter, client>>

\* The rest of the handler, which needs export_mutex_ for the uptime, and
\* ioc.stop(): no other handler runs any more.
StopContext ==
  /\ main = "handling" /\ export_lock = None
  /\ main' = "joining"
  /\ UNCHANGED <<metricsVars, exporter, running, client>>

Joinable == exporter \in {"none", "ended"}

\* The thread is joined and main() returns.  Its locals are destroyed; a
\* session that is still there loses its socket: the server's destructor does
\* ask it to close, but there is no io_context left to do so.
Return ==
  /\ main = "joining" /\ Joinable
  /\ main' = "exited"
  /\ client' = IF client = "served" THEN "dropped" ELSE client
  /\ UNCHANGED <<metricsVars, exporter, running>>

MainStep == Start \/ ProtocolError \/ StopContext \/ Return

-----------------------------------------------------------------------------
(* The exporter                                                             *)

\* Mutant: the naps are not cut short and not checked after.
Awake_Exports == "export"

Awake == IF running THEN "export" ELSE "ended"

\* After the naps, each of which ends the loop if running is false.
Wake ==
  /\ exporter = "nap" /\ exporter' = Awake
  /\ UNCHANGED <<metricsVars, main, running, client>>

ExportBegins ==
  /\ exporter = "export" /\ ExportCounters(Exporter)
  /\ exporter' = "exporting" /\ UNCHANGED <<main, running, client>>

ExportEnds ==
  /\ exporter = "exporting" /\ ExportErrors(Exporter)
  /\ exporter' = "nap" /\ UNCHANGED <<main, running, client>>

ExporterStep == Wake \/ ExportBegins \/ ExportEnds

-----------------------------------------------------------------------------
CallerStep(t) ==
  /\ UpdateStep(t) \/ ZeroStep(t) \/ RecordStep(t) \/ ClearStep(t)
  /\ UNCHANGED threadVars

\* The process has ended.
Exited == main = "exited" /\ UNCHANGED programVars

ProgramNext ==
  \/ MainStep \/ Serve \/ Signal \/ ExporterStep \/ Exited
  \/ main # "exited" /\ \E t \in Callers : CallerStep(t)

ProgramSpec == ProgramInit /\ [][ProgramNext]_programVars

\* No thread stops for ever in the middle of a call, the exporter goes on, and
\* the io_context runs the handler of a signal that has come to its end.
ProgramFairness ==
  /\ WF_programVars(StopContext) /\ WF_programVars(Return)
  /\ WF_programVars(ExporterStep)
  /\ \A t \in Callers : WF_programVars(CallerStep(t) /\ at[t] # "idle")

ProgramFairSpec == ProgramSpec /\ ProgramFairness

-----------------------------------------------------------------------------
\* A signal ends the program, whoever is exporting or resetting at that time.
ExitsAfterSignal == (main = "handling") ~> (main = "exited")

\* Story 2-2: graceful shutdown closes a WebSocket with a close frame before
\* its socket is destroyed.
ExitIsGraceful == client # "dropped"
=============================================================================
