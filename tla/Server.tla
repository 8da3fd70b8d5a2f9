------------------------------- MODULE Server -------------------------------
(***************************************************************************)
(* The life of a server process around the requests it handles, here those *)
(* of Catalog: runServer opens the store, listens, and on a signal waits   *)
(* for the handlers for ten seconds before it closes the store.            *)
(*                                                                         *)
(* Of net/http: every request has a handler of its own; Shutdown returns   *)
(* once none is at work, still letting requests in on open connections, or *)
(* when its time is up; handlers end only by themselves or with the        *)
(* process.  A handler may take any time.                                  *)
(***************************************************************************)
EXTENDS Catalog

VARIABLES
  phase,      \* where runServer is, or how the process ended
  signalled,  \* whether SIGINT or SIGTERM was received
  open        \* whether the pool of database connections is open

server == <<phase, signalled, open>>
serverVars == <<vars, server>>

Ends == {"stopped", "failed", "killed"}
Phases == {"starting", "serving", "draining", "closing"} \cup Ends

Running == phase \notin Ends

Goto(to) == phase' = to /\ UNCHANGED <<vars, signalled>>

ServerInit ==
  /\ Init
  /\ phase = "starting" /\ signalled = FALSE /\ open = FALSE

----------------------------------------------------------------------------
(* app.New: the pool is closed again if the database is not reached. *)
OpenStore ==
  /\ phase = "starting"
  /\ \/ Goto("serving") /\ open' = (driver = "postgres")
     \/ driver = "postgres" /\ Goto("failed") /\ UNCHANGED open

(* Listening fails, at once or later: the process ends with its handlers. *)
ListenFailed ==
  /\ phase = "serving"
  /\ Goto("failed") /\ UNCHANGED open

(* Further signals have no effect: nobody takes them out of the channel. *)
Signal ==
  /\ phase = "serving" /\ ~signalled
  /\ signalled' = TRUE
  /\ UNCHANGED <<vars, phase, open>>

BeginShutdown ==
  /\ phase = "serving" /\ signalled
  /\ Goto("draining") /\ UNCHANGED open

AtWork == {r \in Requests : pc[r] \notin {"new", "done"}}

(* Faulty variant of Drained: Shutdown is not waited for. *)
DrainedAtOnce ==
  /\ phase = "draining"
  /\ Goto("closing") /\ UNCHANGED open

(* Shutdown returns without an error. *)
Drained ==
  /\ phase = "draining" /\ AtWork = {}
  /\ Goto("closing") /\ UNCHANGED open

(* Faulty variant of TimeOut: Shutdown has no time limit. *)
WaitOn == phase = "draining" /\ AtWork # {} /\ UNCHANGED serverVars

(* Shutdown returns the error of its context: the process ends with its    *)
(* handlers, and the pool is not closed.                                   *)
TimeOut ==
  /\ phase = "draining" /\ AtWork # {}
  /\ Goto("failed") /\ UNCHANGED open

CloseStore ==
  /\ phase = "closing"
  /\ \/ Goto("stopped")
     \/ driver = "postgres" /\ Goto("failed")
  /\ open' = FALSE

(* The process is killed at any time: what is stored over PostgreSQL stays. *)
Kill ==
  /\ Running
  /\ Goto("killed") /\ UNCHANGED open

(* A request is let in while the server listens or drains, and handled as    *)
(* long as the process runs.  The statements need the pool.                 *)
Handling(r) ==
  /\ Running /\ Work(r)
  /\ pc[r] = "new" => phase \in {"serving", "draining"}
  /\ response'[r] # "internal" /\ driver = "postgres" => open
  /\ UNCHANGED server

Ended == ~Running /\ UNCHANGED serverVars

----------------------------------------------------------------------------
(* The specification *)

RunServer ==
  OpenStore \/ ListenFailed \/ BeginShutdown \/ Drained \/ TimeOut \/ CloseStore

ServerNext ==
  \/ RunServer \/ Signal \/ Kill \/ Ended
  \/ \E r \in Requests : Handling(r)

(* runServer goes on, and Shutdown's timer runs; the handlers may hang. *)
ServerSpec == ServerInit /\ [][ServerNext]_serverVars /\ WF_serverVars(RunServer)

ServerTypeOK ==
  TypeOK /\ phase \in Phases /\ signalled \in BOOLEAN /\ open \in BOOLEAN

----------------------------------------------------------------------------
(* Properties *)

(* The store is closed and the process reports success only when every request *)
(* it let in was answered: of what was written nothing is left unaudited but   *)
(* what was answered with an error.                                            *)
GracefulStop ==
  phase \in {"closing", "stopped"} =>
    \A r \in Requests :
      /\ response[r] = "none" => pc[r] = "new" /\ written[r] = 0
      /\ written[r] # 0 => r \in audit \/ response[r] \in {"internal", "notFound"}

(* A server that was told to stop does stop, though its handlers may hang.     *)
StopsAfterSignal == signalled ~> phase \in Ends
=============================================================================
