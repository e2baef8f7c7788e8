-------------------------- MODULE ServerLifecycle --------------------------
(***************************************************************************)
(* The server process from its start to its exit (main.go): main brings    *)
(* the process up, Serve accepts requests, and on a signal shutdown first  *)
(* closes the activity writer and then the HTTP server, both under one     *)
(* deadline, while requests and the writer go on.                          *)
(*                                                                         *)
(* The writer is any sink that behaves as EventSink, which AccessWriter    *)
(* implements.  net/http is external: Shutdown closes the listener, then   *)
(* polls until no request is under way or its context is done.  A record   *)
(* is identified with the request that produced it.                        *)
(***************************************************************************)
EXTENDS Naturals, Sequences

CONSTANTS
  Requests,  \* requests that may reach the server
  Capacity   \* accessQueueCapacity

ASSUME LifecycleAssumption == Capacity \in Nat \ {0}

VARIABLES
  main,       \* control point of main, serve and shutdown
  stats,      \* an AccessWriter was made
  signalled,  \* the context of signal.NotifyContext is done
  late,       \* the deadline of shutdownTimeout has passed
  writerErr,  \* accessWriter.Close returned an error: its context is cancelled
  accepting,  \* Serve: "no", "yes", "closed" or "failed" (both sent to errCh)
  req,        \* request -> "idle", "active", "served", "answered" or "cut"
  answer, pending, attempted, phase  \* the writer, see EventSink

sink == <<answer, pending, attempted, phase>>

vars == <<main, stats, signalled, late, writerErr, accepting, req, sink>>

Sink == INSTANCE EventSink WITH Events <- Requests

Booting == {"config", "migrate", "open", "writer", "listen"}

Closing == {"close", "drain", "shutdown", "poll", "sleep", "join"}

Ended == {"exit0", "exit1", "killed"}

Alive == main \notin Ended

Busy == {r \in Requests : req[r] \in {"active", "served"}}
-----------------------------------------------------------------------------
Init ==
  /\ main = "config"
  /\ stats = FALSE
  /\ signalled = FALSE
  /\ late = FALSE
  /\ writerErr = FALSE
  /\ accepting = "no"
  /\ req = [r \in Requests |-> "idle"]
  /\ Sink!Init

Goto(from, to) == main = from /\ main' = to

\* The end of the process takes the requests that are under way with it.
Exit(from, code) ==
  /\ Goto(from, code)
  /\ req' = [r \in Requests |-> IF r \in Busy THEN "cut" ELSE req[r]]

(***************************************************************************)
(* Up to "listen" every error is fatal, before anything is served.         *)
(***************************************************************************)
ParseConfig ==
  /\ \E to \in {"migrate", "open", "exit1"} : Goto("config", to)
  /\ UNCHANGED <<stats, signalled, late, writerErr, accepting, req, sink>>

MigrateOnly ==
  /\ \E to \in {"exit0", "exit1"} : Goto("migrate", to)
  /\ UNCHANGED <<stats, signalled, late, writerErr, accepting, req, sink>>

OpenServingDatabase ==
  /\ \E to \in {"writer", "exit1"} : Goto("open", to)
  /\ UNCHANGED <<stats, signalled, late, writerErr, accepting, req, sink>>

\* Without a proxy or a management token there is no writer.
NewWriter ==
  /\ \/ Goto("writer", "listen") /\ stats' \in BOOLEAN
     \/ Goto("writer", "exit1") /\ UNCHANGED stats
  /\ UNCHANGED <<signalled, late, writerErr, accepting, req, sink>>

Listen ==
  /\ \/ Goto("listen", "serve") /\ accepting' = "yes"
     \/ Goto("listen", "exit1") /\ UNCHANGED accepting
  /\ UNCHANGED <<stats, signalled, late, writerErr, req, sink>>

(***************************************************************************)
(* A signal kills the process until NotifyContext catches it.              *)
(***************************************************************************)
Signal ==
  /\ \/ main \in Booting /\ main' = "killed" /\ UNCHANGED signalled
     \/ main = "serve" /\ ~signalled /\ signalled' = TRUE /\ UNCHANGED main
  /\ UNCHANGED <<stats, late, writerErr, accepting, req, sink>>

AcceptFails ==
  /\ Alive
  /\ accepting = "yes"
  /\ accepting' = "failed"
  /\ UNCHANGED <<main, stats, signalled, late, writerErr, req, sink>>
-----------------------------------------------------------------------------
(***************************************************************************)
(* The two cases of serve's select; with both ready, either is taken.      *)
(***************************************************************************)
ServeFails ==
  /\ accepting = "failed"
  /\ Exit("serve", "exit1")
  /\ UNCHANGED <<stats, signalled, late, writerErr, accepting, sink>>

BeginShutdown ==
  /\ signalled
  /\ Goto("serve", "close")
  /\ UNCHANGED <<stats, signalled, late, writerErr, accepting, req, sink>>

Deadline ==
  /\ main \in Closing
  /\ ~late
  /\ late' = TRUE
  /\ UNCHANGED <<main, stats, signalled, writerErr, accepting, req, sink>>

\* Mutant of CloseWriter: the listener is closed before the writer.
CloseListenerFirst ==
  /\ IF stats THEN Goto("close", "drain") /\ Sink!Shut
              ELSE Goto("close", "shutdown") /\ UNCHANGED sink
  /\ accepting' = "closed"
  /\ UNCHANGED <<stats, signalled, late, writerErr, req>>

(***************************************************************************)
(* accessWriter.Close closes the queue, then waits.                        *)
(***************************************************************************)
CloseWriter ==
  /\ IF stats THEN Goto("close", "drain") /\ Sink!Shut
              ELSE Goto("close", "shutdown") /\ UNCHANGED sink
  /\ UNCHANGED <<stats, signalled, late, writerErr, accepting, req>>

WriterDrained ==
  /\ phase = "stopped"
  /\ Goto("drain", "shutdown")
  /\ UNCHANGED <<stats, signalled, late, writerErr, accepting, req, sink>>

\* Mutant of WriterExpires: Close waits for the writer whatever it takes.
WriterAwaited ==
  /\ late /\ phase = "stopped"
  /\ Goto("drain", "shutdown")
  /\ UNCHANGED <<stats, signalled, late, writerErr, accepting, req, sink>>

WriterExpires ==
  /\ late
  /\ Goto("drain", "shutdown")
  /\ writerErr' = TRUE
  /\ UNCHANGED <<stats, signalled, late, accepting, req, sink>>

(***************************************************************************)
(* server.Shutdown: the listener closes and Serve returns ErrServerClosed. *)
(***************************************************************************)
CloseListener ==
  /\ Goto("shutdown", "poll")
  /\ accepting' = IF accepting = "yes" THEN "closed" ELSE accepting
  /\ UNCHANGED <<stats, signalled, late, writerErr, req, sink>>

\* Mutant of Poll: shutdown forgets the error of the writer.
PollServerOnly ==
  /\ Goto("poll", IF Busy # {} THEN "sleep" ELSE "join")
  /\ UNCHANGED <<stats, signalled, late, writerErr, accepting, req, sink>>

\* Shutdown looks at the requests before it looks at its context.
Poll ==
  /\ Goto("poll", IF Busy # {} THEN "sleep"
                  ELSE IF writerErr THEN "exit1" ELSE "join")
  /\ UNCHANGED <<stats, signalled, late, writerErr, accepting, req, sink>>

PollAgain ==
  /\ Goto("sleep", "poll")
  /\ UNCHANGED <<stats, signalled, late, writerErr, accepting, req, sink>>

\* The deadline: server.Close cuts what is left.
ServerExpires ==
  /\ late
  /\ Exit("sleep", "exit1")
  /\ UNCHANGED <<stats, signalled, late, writerErr, accepting, sink>>

\* What Serve returned decides the exit code.
Join ==
  /\ accepting \in {"closed", "failed"}
  /\ Exit("join", IF accepting = "closed" THEN "exit0" ELSE "exit1")
  /\ UNCHANGED <<stats, signalled, late, writerErr, accepting, sink>>
-----------------------------------------------------------------------------
Accept(r) ==
  /\ Alive
  /\ accepting = "yes"
  /\ req[r] = "idle"
  /\ req' = [req EXCEPT ![r] = "active"]
  /\ UNCHANGED <<main, stats, signalled, late, writerErr, accepting, sink>>

\* A redirect or a missed slug is tracked where there is a writer.
Track(r) ==
  /\ Alive
  /\ stats
  /\ req[r] = "active"
  /\ Sink!Accept(r) \/ Sink!Drop(r)
  /\ req' = [req EXCEPT ![r] = "served"]
  /\ UNCHANGED <<main, stats, signalled, late, writerErr, accepting>>

\* Any other request is handled without.
Handle(r) ==
  /\ Alive
  /\ req[r] = "active"
  /\ req' = [req EXCEPT ![r] = "served"]
  /\ UNCHANGED <<main, stats, signalled, late, writerErr, accepting, sink>>

\* The handler returns and net/http sends what it has buffered.
Answer(r) ==
  /\ Alive
  /\ req[r] = "served"
  /\ req' = [req EXCEPT ![r] = "answered"]
  /\ UNCHANGED <<main, stats, signalled, late, writerErr, accepting, sink>>

WriterAttempts ==
  /\ Alive
  /\ Sink!Attempt
  /\ UNCHANGED <<main, stats, signalled, late, writerErr, accepting, req>>

WriterStops ==
  /\ Alive
  /\ pending = << >> \/ writerErr
  /\ Sink!Stop
  /\ UNCHANGED <<main, stats, signalled, late, writerErr, accepting, req>>
-----------------------------------------------------------------------------
Boot == ParseConfig \/ MigrateOnly \/ OpenServingDatabase \/ NewWriter \/ Listen

ShutdownStep ==
  \/ BeginShutdown \/ CloseWriter \/ WriterDrained \/ WriterExpires
  \/ CloseListener \/ Poll \/ PollAgain \/ Join

Next ==
  \/ Boot
  \/ Signal
  \/ AcceptFails
  \/ ServeFails
  \/ ShutdownStep
  \/ Deadline
  \/ ServerExpires
  \/ \E r \in Requests : Accept(r) \/ Track(r) \/ Handle(r) \/ Answer(r)
  \/ WriterAttempts
  \/ WriterStops

(***************************************************************************)
(* main runs and time passes.  Handlers and store calls may hang.  Between *)
(* two polls the select sees the expired context again and again: SF.      *)
(***************************************************************************)
Fairness ==
  /\ WF_vars(ServeFails \/ ShutdownStep)
  /\ WF_vars(Deadline)
  /\ SF_vars(ServerExpires)

Spec == Init /\ [][Next]_vars /\ Fairness
-----------------------------------------------------------------------------
(***************************************************************************)
(* The variables of the process keep their ranges.                         *)
(***************************************************************************)
TypeOK ==
  /\ main \in Booting \cup {"serve"} \cup Closing \cup Ended
  /\ stats \in BOOLEAN /\ signalled \in BOOLEAN
  /\ late \in BOOLEAN /\ writerErr \in BOOLEAN
  /\ accepting \in {"no", "yes", "closed", "failed"}
  /\ req \in [Requests -> {"idle", "active", "served", "answered", "cut"}]
  /\ answer \in [Requests -> {"none", "accepted", "dropped"}]
  /\ pending \in Seq(Requests) /\ attempted \in Seq(Requests)
  /\ phase \in {"open", "closing", "stopped"}

Attempted(r) == \E i \in DOMAIN attempted : attempted[i] = r

(***************************************************************************)
(* A request that was accepted is cut off only if the deadline has passed  *)
(* or the listener failed, and a process that exits with 0 has answered    *)
(* every request it accepted and attempted every record it queued.  (A     *)
(* request served while the writer is being closed is answered, and its    *)
(* record is dropped.)                                                     *)
(***************************************************************************)
GracefulExit ==
  /\ \A r \in Requests : req[r] = "cut" => late \/ accepting = "failed"
  /\ main = "exit0" =>
       \A r \in Requests :
         /\ req[r] \in {"idle", "answered"}
         /\ answer[r] = "accepted" => Attempted(r)

(***************************************************************************)
(* The writer of the primary posts to this very server.  Its port stays    *)
(* open until the writer has stopped, the deadline has passed or the       *)
(* listener has failed (main_test.go: TestShutdownKeepsInternalReceiver-   *)
(* AvailableWhileDraining).                                                *)
(***************************************************************************)
ReceiverOutlivesWriter ==
  pending # << >> /\ phase # "stopped" => accepting \in {"yes", "failed"} \/ late

(***************************************************************************)
(* After a signal the process ends, although handlers and store calls may  *)
(* hang forever.                                                           *)
(***************************************************************************)
SignalEndsProcess == signalled ~> main \in Ended
=============================================================================
