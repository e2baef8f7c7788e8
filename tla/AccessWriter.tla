---------------------------- MODULE AccessWriter ----------------------------
(***************************************************************************)
(* The background writer of aggregate activity (db/stats.go): request      *)
(* goroutines call Track or TrackMiss, which share enqueue; main calls     *)
(* Close with a deadline at shutdown; one goroutine, run, takes records    *)
(* from the bounded channel and calls the store.                           *)
(*                                                                         *)
(* Each lock, test, channel operation and store call is a step of its own. *)
(* A record is identified with the request that tracks it, so every        *)
(* request is made once.  The store is external: a call returns when it    *)
(* likes, and whether it succeeded is not looked at here (an error is only *)
(* logged).                                                                *)
(***************************************************************************)
EXTENDS Integers, Sequences, FiniteSets

CONSTANTS
  Events,     \* records, each with the goroutine that tracks it
  Closers,    \* goroutines that call Close
  Requested,  \* the capacity given to NewAccessWriter
  Nobody      \* the mutex is free

ASSUME WriterAssumption ==
  /\ Requested \in Int
  /\ Events \cap Closers = {}
  /\ Nobody \notin Events \cup Closers

Capacity == IF Requested < 1 THEN 1 ELSE Requested

VARIABLES
  pc,         \* control point of each caller
  mu,         \* the goroutine that holds writer.mu
  closed,     \* writer.closed
  shut,       \* close(writer.queue) has happened
  queue,      \* the buffer of writer.queue
  answer,     \* what enqueue decided: "none", "accepted" or "dropped"
  run,        \* control point of run
  hand,       \* the record run has received, as a sequence of at most one
  cancelled,  \* writer.ctx is cancelled
  attempted,  \* records whose store call returned, in order
  accepted    \* history: records enqueue accepted, in order

vars == <<pc, mu, closed, shut, queue, answer, run, hand, cancelled,
          attempted, accepted>>

callerVars == <<closed, shut, queue, answer, run, hand, cancelled,
                attempted, accepted>>

Callers == Events \cup Closers

ControlPoints == {"idle", "lock", "check", "offer", "unlock", "returned",
                  "wait", "nil", "expired"}
-----------------------------------------------------------------------------
Init ==
  /\ pc = [p \in Callers |-> "idle"]
  /\ mu = Nobody
  /\ closed = FALSE
  /\ shut = FALSE
  /\ queue = << >>
  /\ answer = [e \in Events |-> "none"]
  /\ run = "top"
  /\ hand = << >>
  /\ cancelled = FALSE
  /\ attempted = << >>
  /\ accepted = << >>

Goto(p, point) == pc' = [pc EXCEPT ![p] = point]

(***************************************************************************)
(* A request reaches Track or TrackMiss; main reaches Close.               *)
(***************************************************************************)
Call(p) ==
  /\ pc[p] = "idle"
  /\ Goto(p, "lock")
  /\ UNCHANGED <<mu, callerVars>>

\* Mutant of Lock: writer.mu is not taken.
NoLock(p) ==
  /\ pc[p] = "lock"
  /\ Goto(p, "check")
  /\ UNCHANGED <<mu, callerVars>>

Lock(p) ==
  /\ pc[p] = "lock"
  /\ mu = Nobody
  /\ mu' = p
  /\ Goto(p, "check")
  /\ UNCHANGED callerVars

Unlock(p, point) ==
  /\ pc[p] = "unlock"
  /\ mu' = Nobody
  /\ Goto(p, point)
  /\ UNCHANGED callerVars
-----------------------------------------------------------------------------
(***************************************************************************)
(* enqueue: if writer.closed { return false }.                             *)
(***************************************************************************)
CheckClosed(e) ==
  /\ pc[e] = "check"
  /\ IF closed
     THEN Goto(e, "unlock") /\ answer' = [answer EXCEPT ![e] = "dropped"]
     ELSE Goto(e, "offer") /\ UNCHANGED answer
  /\ UNCHANGED <<mu, closed, shut, queue, run, hand, cancelled, attempted,
                 accepted>>

\* The two cases of the select in enqueue.
Accept(e, buffer) ==
  /\ pc[e] = "offer"
  /\ queue' = Append(buffer, e)
  /\ accepted' = Append(accepted, e)
  /\ answer' = [answer EXCEPT ![e] = "accepted"]
  /\ Goto(e, "unlock")
  /\ UNCHANGED <<mu, closed, shut, run, hand, cancelled, attempted>>

Refuse(e) ==
  /\ pc[e] = "offer"
  /\ answer' = [answer EXCEPT ![e] = "dropped"]
  /\ Goto(e, "unlock")
  /\ UNCHANGED <<mu, closed, shut, queue, run, hand, cancelled, attempted,
                 accepted>>

\* Mutants of Offer: one record more than the buffer holds; the send waits
\* for room; a full queue drops its oldest record to make room.
OverfullOffer(e) == Len(queue) <= Capacity /\ Accept(e, queue)

BlockingOffer(e) == Len(queue) < Capacity /\ Accept(e, queue)

DropOldestOffer(e) ==
  Accept(e, IF Len(queue) < Capacity THEN queue ELSE Tail(queue))

(***************************************************************************)
(* select { case writer.queue <- record: ... default: ... }                *)
(***************************************************************************)
Offer(e) ==
  IF Len(queue) < Capacity THEN Accept(e, queue) ELSE Refuse(e)
-----------------------------------------------------------------------------
\* Mutant of CloseQueue: writer.closed is not set.
CloseQueueOnly(c) ==
  /\ pc[c] = "check"
  /\ shut' = TRUE
  /\ Goto(c, "unlock")
  /\ UNCHANGED <<mu, closed, queue, answer, run, hand, cancelled, attempted,
                 accepted>>

(***************************************************************************)
(* Close: the first caller closes the channel.                             *)
(***************************************************************************)
CloseQueue(c) ==
  /\ pc[c] = "check"
  /\ closed' = TRUE
  /\ shut' = TRUE
  /\ Goto(c, "unlock")
  /\ UNCHANGED <<mu, queue, answer, run, hand, cancelled, attempted, accepted>>

(***************************************************************************)
(* The two cases of Close's select; with both ready, either is taken.      *)
(***************************************************************************)
CloseDrained(c) ==
  /\ pc[c] = "wait"
  /\ run = "done"
  /\ Goto(c, "nil")
  /\ UNCHANGED <<mu, callerVars>>

CloseExpires(c) ==
  /\ pc[c] = "wait"
  /\ cancelled' = TRUE
  /\ Goto(c, "expired")
  /\ UNCHANGED <<mu, closed, shut, queue, answer, run, hand, attempted,
                 accepted>>
-----------------------------------------------------------------------------
runVars == <<pc, mu, closed, shut, answer, accepted>>

(***************************************************************************)
(* The head of the loop: if writer.ctx.Err() != nil { return }.  The       *)
(* deferred function cancels the context and closes writer.done.           *)
(***************************************************************************)
RunTop ==
  /\ run = "top"
  /\ IF cancelled THEN run' = "done" ELSE run' = "select"
  /\ UNCHANGED <<runVars, queue, hand, cancelled, attempted>>

RunCancelled ==
  /\ run = "select"
  /\ cancelled
  /\ run' = "done"
  /\ UNCHANGED <<runVars, queue, hand, cancelled, attempted>>

RunReceive ==
  /\ run = "select"
  /\ queue # << >>
  /\ hand' = <<Head(queue)>>
  /\ queue' = Tail(queue)
  /\ run' = "store"
  /\ UNCHANGED <<runVars, cancelled, attempted>>

\* Mutant of RunFinished: the channel is taken for drained once it is closed.
RunFinishedEarly ==
  /\ run = "select"
  /\ shut
  /\ run' = "done"
  /\ cancelled' = TRUE
  /\ UNCHANGED <<runVars, queue, hand, attempted>>

(***************************************************************************)
(* Receiving from the closed and empty channel: !ok.                       *)
(***************************************************************************)
RunFinished ==
  /\ run = "select"
  /\ shut /\ queue = << >>
  /\ run' = "done"
  /\ cancelled' = TRUE
  /\ UNCHANGED <<runVars, queue, hand, attempted>>

\* Mutants of StoreReturns: run ends after a failed call; a failed call is
\* made again.
FatalStoreReturns ==
  /\ run = "store"
  /\ attempted' = attempted \o hand
  /\ hand' = << >>
  /\ \/ run' = "top" /\ UNCHANGED cancelled
     \/ run' = "done" /\ cancelled' = TRUE
  /\ UNCHANGED <<runVars, queue>>

RetriedStoreReturns ==
  /\ run = "store"
  /\ attempted' = attempted \o hand
  /\ \/ run' = "top" /\ hand' = << >>
     \/ run' = "store" /\ Len(attempted) < Cardinality(Events)
        /\ UNCHANGED hand
  /\ UNCHANGED <<runVars, queue, cancelled>>

(***************************************************************************)
(* The store call returns, with nil or an error: the loop goes on.         *)
(***************************************************************************)
StoreReturns ==
  /\ run = "store"
  /\ attempted' = attempted \o hand
  /\ hand' = << >>
  /\ run' = "top"
  /\ UNCHANGED <<runVars, queue, cancelled>>
-----------------------------------------------------------------------------
TrackStep(e) ==
  Lock(e) \/ CheckClosed(e) \/ Offer(e) \/ Unlock(e, "returned")

CloseStep(c) ==
  Lock(c) \/ CloseQueue(c) \/ Unlock(c, "wait") \/ CloseDrained(c)

RunStep == RunTop \/ RunCancelled \/ RunReceive \/ RunFinished

Next ==
  \/ \E p \in Callers : Call(p)
  \/ \E e \in Events : TrackStep(e)
  \/ \E c \in Closers : CloseStep(c) \/ CloseExpires(c)
  \/ RunStep
  \/ StoreReturns

(***************************************************************************)
(* Goroutines that can run do; a request need not come, a deadline need    *)
(* not strike and, above all, a store call need not return.                *)
(***************************************************************************)
Fairness ==
  /\ \A e \in Events : WF_vars(TrackStep(e))
  /\ \A c \in Closers : WF_vars(CloseStep(c))
  /\ WF_vars(RunStep)

Spec == Init /\ [][Next]_vars /\ Fairness
-----------------------------------------------------------------------------
(***************************************************************************)
(* Every variable of the writer stays in its range; the buffer never       *)
(* exceeds the channel's capacity, which is at least one.                  *)
(***************************************************************************)
TypeOK ==
  /\ pc \in [Callers -> ControlPoints]
  /\ mu \in Callers \cup {Nobody}
  /\ closed \in BOOLEAN /\ shut \in BOOLEAN /\ cancelled \in BOOLEAN
  /\ queue \in Seq(Events) /\ Len(queue) <= Capacity
  /\ answer \in [Events -> {"none", "accepted", "dropped"}]
  /\ run \in {"top", "select", "store", "done"}
  /\ hand \in Seq(Events) /\ Len(hand) <= 1
  /\ attempted \in Seq(Events)
  /\ accepted \in Seq(Events)

(***************************************************************************)
(* No goroutine panics: enqueue never sends on the closed channel, and no  *)
(* Close is about to close it a second time.                               *)
(***************************************************************************)
NoSendOnClosed ==
  /\ \A e \in Events : pc[e] = "offer" => ~shut
  /\ \A c \in Closers : pc[c] = "check" /\ ~closed => ~shut

(***************************************************************************)
(* Nothing accepted is lost, duplicated or reordered on its way: the       *)
(* records attempted, the one in hand and the queue spell what was         *)
(* accepted.                                                               *)
(***************************************************************************)
Accounted == accepted = attempted \o hand \o queue

(***************************************************************************)
(* Once the channel is closed nothing more is accepted, even from a        *)
(* request that was already inside Track when Close began.                 *)
(***************************************************************************)
NothingAcceptedLate == [][shut => accepted' = accepted]_vars

(***************************************************************************)
(* A Close that returns nil has drained the writer, unless the deadline of *)
(* another Close had cancelled it.                                         *)
(***************************************************************************)
NilMeansDrained ==
  (\E c \in Closers : pc[c] = "nil") /\ (\A c \in Closers : pc[c] # "expired")
    => attempted = accepted

(***************************************************************************)
(* Tracking never waits for storage: a request that calls Track returns    *)
(* from it although no store call may ever return.                         *)
(***************************************************************************)
TrackReturns ==
  \A e \in Events : pc[e] = "lock" ~> pc[e] = "returned"

(***************************************************************************)
(* If store calls return, which the 500 ms client timeout ensures, every   *)
(* accepted record is attempted unless the deadline of a Close strikes,    *)
(* and Close returns without the help of its deadline.                     *)
(***************************************************************************)
Drains ==
  WF_vars(StoreReturns) =>
    /\ \A e \in Events :
         answer[e] = "accepted" ~>
           \/ \E c \in Closers : pc[c] = "expired"
           \/ \E i \in DOMAIN attempted : attempted[i] = e
    /\ \A c \in Closers : pc[c] = "wait" ~> pc[c] \in {"nil", "expired"}
-----------------------------------------------------------------------------
(***************************************************************************)
(* The writer is the best-effort sink its comment describes.               *)
(***************************************************************************)
Sink == INSTANCE EventSink WITH
  pending <- hand \o queue,
  phase   <- IF ~shut THEN "open" ELSE IF run = "done" THEN "stopped"
             ELSE "closing"

ImplementsSink == Sink!Spec
=============================================================================
