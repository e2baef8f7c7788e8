----------------------- MODULE ServerLifecycle_proofs -----------------------
(***************************************************************************)
(* Proofs, for any number of requests, that a shutdown is graceful, that   *)
(* the server's port outlives its writer, and that the server uses its     *)
(* writer the way the abstract sink allows.                                *)
(***************************************************************************)
EXTENDS ServerLifecycle, TLAPS

Waiting(r) == \E i \in DOMAIN pending : pending[i] = r

(***************************************************************************)
(* Before the listener is open nothing has happened.                       *)
(***************************************************************************)
Quiet ==
  /\ accepting = "no" => \A r \in Requests : req[r] = "idle" /\ answer[r] = "none"
  /\ accepting = "no" => pending = << >>
  /\ main \in Booting => accepting = "no"
  /\ main = "serve" \/ main \in Closing => accepting # "no"

(***************************************************************************)
(* A queued record is pending until it is attempted, and the writer is     *)
(* idle where there is none.                                               *)
(***************************************************************************)
Queued ==
  /\ \A r \in Requests : answer[r] = "accepted" => Waiting(r) \/ Attempted(r)
  /\ ~stats => pending = << >>

(***************************************************************************)
(* Past Close the writer has stopped unless the deadline struck, and it    *)
(* stops with an empty queue; only past it is the listener closed.         *)
(***************************************************************************)
Ordered ==
  /\ writerErr => late
  /\ phase = "stopped" => pending = << >> \/ writerErr
  /\ accepting = "closed" \/ main \in {"shutdown", "poll", "sleep", "join"}
       => ~stats \/ writerErr \/ phase = "stopped"
  /\ main \in {"poll", "sleep", "join"} => accepting # "yes"

(***************************************************************************)
(* Where Shutdown has seen no request under way none comes up again, and   *)
(* requests are cut by the end of the process only.                        *)
(***************************************************************************)
Settled ==
  /\ main = "join" => Busy = {} /\ ~writerErr
  /\ \A r \in Requests :
       req[r] = "cut" => main = "exit1" /\ (late \/ accepting = "failed")
  /\ main = "exit0" =>
       /\ accepting \in {"no", "closed"} /\ Busy = {}
       /\ pending = << >>

IInv == TypeOK /\ Quiet /\ Queued /\ Ordered /\ Settled
-----------------------------------------------------------------------------
LEMMA InitIInv == Init => IInv
<1>. SUFFICES ASSUME Init PROVE IInv
  OBVIOUS
<1>. USE DEF Init, Sink!Init, Booting, Closing, Ended
<1>1. TypeOK
  <2>1. << >> \in Seq(Requests)
    OBVIOUS
  <2>2. /\ req \in [Requests -> {"idle", "active", "served", "answered", "cut"}]
        /\ answer \in [Requests -> {"none", "accepted", "dropped"}]
    OBVIOUS
  <2>. QED
    BY <2>1, <2>2 DEF TypeOK
<1>2. Quiet
  BY DEF Quiet
<1>3. Queued /\ Ordered /\ Settled
  BY DEF Queued, Ordered, Settled, Busy
<1>. QED
  BY <1>1, <1>2, <1>3 DEF IInv

(***************************************************************************)
(* The steps of main that leave requests and writer alone.                 *)
(***************************************************************************)
LEMMA BootIInv == IInv /\ (Boot \/ Signal \/ AcceptFails) => IInv'
<1>. SUFFICES ASSUME IInv, Boot \/ Signal \/ AcceptFails PROVE IInv'
  OBVIOUS
<1>. USE DEF IInv, TypeOK, Quiet, Queued, Ordered, Settled, Booting, Closing,
             Ended, Busy, Waiting, Attempted, Goto, Alive, sink
<1>1. CASE ParseConfig
  BY <1>1 DEF ParseConfig
<1>2. CASE MigrateOnly
  BY <1>2 DEF MigrateOnly
<1>3. CASE OpenServingDatabase
  BY <1>3 DEF OpenServingDatabase
<1>4. CASE NewWriter
  BY <1>4 DEF NewWriter
<1>5. CASE Listen
  BY <1>5 DEF Listen
<1>6. CASE Signal
  BY <1>6 DEF Signal
<1>7. CASE AcceptFails
  BY <1>7 DEF AcceptFails
<1>. QED
  BY <1>1, <1>2, <1>3, <1>4, <1>5, <1>6, <1>7 DEF Boot

LEMMA ShutdownIInv ==
  IInv /\ (ServeFails \/ ShutdownStep \/ Deadline \/ ServerExpires) => IInv'
<1>. SUFFICES ASSUME IInv, ServeFails \/ ShutdownStep \/ Deadline \/ ServerExpires
              PROVE  IInv'
  OBVIOUS
<1>. USE DEF IInv, TypeOK, Quiet, Queued, Ordered, Settled, Booting, Closing,
             Ended, Busy, Waiting, Attempted, Goto, Exit, Alive, sink
<1>1. CASE ServeFails
  BY <1>1 DEF ServeFails
<1>2. CASE BeginShutdown
  BY <1>2 DEF BeginShutdown
<1>3. CASE CloseWriter
  BY <1>3 DEF CloseWriter, Sink!Shut
<1>4. CASE WriterDrained
  BY <1>4 DEF WriterDrained
<1>5. CASE WriterExpires
  BY <1>5 DEF WriterExpires
<1>6. CASE CloseListener
  BY <1>6 DEF CloseListener
<1>7. CASE Poll
  BY <1>7 DEF Poll
<1>8. CASE PollAgain
  BY <1>8 DEF PollAgain
<1>9. CASE Join
  BY <1>9 DEF Join
<1>10. CASE Deadline
  BY <1>10 DEF Deadline
<1>11. CASE ServerExpires
  BY <1>11 DEF ServerExpires
<1>. QED
  BY <1>1, <1>2, <1>3, <1>4, <1>5, <1>6, <1>7, <1>8, <1>9, <1>10, <1>11
     DEF ShutdownStep

LEMMA RequestIInv ==
  ASSUME IInv, NEW r \in Requests, Accept(r) \/ Track(r) \/ Handle(r) \/ Answer(r)
  PROVE  IInv'
<1>. USE DEF IInv, TypeOK, Quiet, Queued, Ordered, Settled, Booting, Closing,
             Ended, Busy, Waiting, Attempted, Alive, sink
<1>1. CASE Accept(r)
  BY <1>1 DEF Accept
<1>2. CASE Track(r) /\ Sink!Accept(r)
  <2>1. /\ Alive /\ stats /\ req[r] = "active" /\ phase = "open"
        /\ req' = [req EXCEPT ![r] = "served"]
        /\ answer' = [answer EXCEPT ![r] = "accepted"]
        /\ pending' = Append(pending, r)
        /\ UNCHANGED <<main, stats, signalled, late, writerErr, accepting,
                       attempted, phase>>
    BY <1>2 DEF Track, Sink!Accept
  <2>2. TypeOK'
    BY <2>1
  <2>3. Queued'
    <3>1. /\ Len(pending') = Len(pending) + 1 /\ Len(pending) \in Nat
          /\ DOMAIN pending = 1..Len(pending) /\ DOMAIN pending' = 1..Len(pending')
          /\ pending'[Len(pending) + 1] = r
          /\ \A i \in 1..Len(pending) : pending'[i] = pending[i]
      BY <2>1
    <3>2. Waiting(r)' /\ \A s \in Requests : Waiting(s) => Waiting(s)'
      BY <3>1
    <3>. HIDE DEF Waiting
    <3>. QED
      BY <2>1, <3>2
  <2>4. Quiet' /\ Ordered' /\ Settled'
    BY <2>1
  <2>. QED
    BY <2>2, <2>3, <2>4
<1>3. CASE Track(r) /\ Sink!Drop(r)
  BY <1>3 DEF Track, Sink!Drop
<1>4. CASE Handle(r)
  BY <1>4 DEF Handle
<1>5. CASE Answer(r)
  BY <1>5 DEF Answer
<1>. QED
  BY <1>1, <1>2, <1>3, <1>4, <1>5 DEF Track

(***************************************************************************)
(* The record that moves from the queue to storage is still accounted for. *)
(***************************************************************************)
LEMMA AttemptQueued ==
  ASSUME TypeOK, Queued, pending # << >>, UNCHANGED <<stats, answer>>,
         pending' = Tail(pending), attempted' = Append(attempted, Head(pending))
  PROVE  Queued' /\ pending' \in Seq(Requests) /\ attempted' \in Seq(Requests)
<1>1. pending \in Seq(Requests) /\ attempted \in Seq(Requests)
  BY DEF TypeOK
<1>2. pending' \in Seq(Requests) /\ attempted' \in Seq(Requests)
  BY <1>1
<1>3. \A r : Attempted(r) \/ r = Head(pending) => Attempted(r)'
  <2>1. /\ Len(attempted') = Len(attempted) + 1 /\ Len(attempted) \in Nat
        /\ DOMAIN attempted = 1..Len(attempted)
        /\ DOMAIN attempted' = 1..Len(attempted')
        /\ attempted'[Len(attempted) + 1] = Head(pending)
        /\ \A i \in 1..Len(attempted) : attempted'[i] = attempted[i]
    BY <1>1
  <2>. QED
    BY <2>1 DEF Attempted
<1>4. \A r : Waiting(r) => Waiting(r)' \/ r = Head(pending)
  <2>1. SUFFICES ASSUME NEW i \in DOMAIN pending, pending[i] # Head(pending)
                 PROVE  \E j \in DOMAIN pending' : pending'[j] = pending[i]
    BY DEF Waiting
  <2>2. i \in 1..Len(pending) /\ Len(pending) \in Nat /\ i # 1
    BY <1>1, <2>1
  <2>3. DOMAIN Tail(pending) = 1..(Len(pending) - 1)
    <3>1. Tail(pending) \in Seq(Requests) /\ Len(Tail(pending)) = Len(pending) - 1
      BY <1>1
    <3>. QED
      BY <3>1
  <2>4. i - 1 \in DOMAIN Tail(pending) /\ (i - 1) + 1 = i
    BY <2>1, <2>2, <2>3
  <2>5. Tail(pending)[i - 1] = pending[(i - 1) + 1]
    BY <1>1, <2>3, <2>4
  <2>. QED
    BY <2>4, <2>5
<1>. QED
  BY <1>2, <1>3, <1>4 DEF Queued

LEMMA WriterIInv == IInv /\ (WriterAttempts \/ WriterStops) => IInv'
<1>. SUFFICES ASSUME IInv, WriterAttempts \/ WriterStops PROVE IInv'
  OBVIOUS
<1>. USE DEF IInv, TypeOK, Quiet, Queued, Ordered, Settled, Booting, Closing,
             Ended, Busy, Waiting, Attempted, Alive, sink
<1>1. CASE WriterAttempts
  <2>1. /\ pending # << >>
        /\ pending' = Tail(pending) /\ attempted' = Append(attempted, Head(pending))
        /\ UNCHANGED <<main, stats, signalled, late, writerErr, accepting, req,
                       answer, phase>>
    BY <1>1 DEF WriterAttempts, Sink!Attempt
  <2>2. Queued' /\ pending' \in Seq(Requests) /\ attempted' \in Seq(Requests)
    BY <2>1, AttemptQueued
  <2>. HIDE DEF Queued, Waiting, Attempted
  <2>. QED
    BY <2>1, <2>2
<1>2. CASE WriterStops
  BY <1>2 DEF WriterStops, Sink!Stop
<1>. QED
  BY <1>1, <1>2

LEMMA StutterIInv == IInv /\ UNCHANGED vars => IInv'
BY DEF IInv, TypeOK, Quiet, Queued, Ordered, Settled, Busy, Waiting, Attempted,
       vars, sink

LEMMA NextIInv == IInv /\ [Next]_vars => IInv'
BY BootIInv, ShutdownIInv, RequestIInv, WriterIInv, StutterIInv DEF Next

THEOREM ServerInvariant == Spec => []IInv
BY InitIInv, NextIInv, PTL DEF Spec
-----------------------------------------------------------------------------
(***************************************************************************)
(* The variables of the process keep their ranges.                         *)
(***************************************************************************)
THEOREM ServerTypeOK == Spec => []TypeOK
<1>. IInv => TypeOK
  BY DEF IInv
<1>. QED
  BY ServerInvariant, PTL

(***************************************************************************)
(* Requests are cut at the deadline only, and exit code 0 means that all   *)
(* were answered and all queued records attempted.                         *)
(***************************************************************************)
THEOREM ServerGracefulExit == Spec => []GracefulExit
<1>1. IInv => GracefulExit
  <2>1. SUFFICES ASSUME IInv, main = "exit0", NEW r \in Requests
                 PROVE  /\ req[r] \in {"idle", "answered"}
                        /\ answer[r] = "accepted" => Attempted(r)
    BY DEF IInv, Settled, GracefulExit
  <2>2. pending = << >> /\ req[r] # "cut" /\ r \notin Busy
    BY <2>1 DEF IInv, Settled
  <2>3. ~Waiting(r)
    BY <2>2 DEF Waiting
  <2>. QED
    BY <2>1, <2>2, <2>3 DEF IInv, TypeOK, Queued, Busy
<1>. QED
  BY <1>1, ServerInvariant, PTL

(***************************************************************************)
(* The port through which the writer may post outlives it.                 *)
(***************************************************************************)
THEOREM ServerReceiverOutlivesWriter == Spec => []ReceiverOutlivesWriter
<1>1. IInv => ReceiverOutlivesWriter
  BY DEF IInv, TypeOK, Quiet, Queued, Ordered, ReceiverOutlivesWriter
<1>. QED
  BY <1>1, ServerInvariant, PTL
-----------------------------------------------------------------------------
(***************************************************************************)
(* The server and the abstract sink.  The sink's variables are the         *)
(* server's own, so a step of the server is a step of the sink or leaves   *)
(* it alone.                                                               *)
(***************************************************************************)
LEMMA SinkStep == [Next]_vars => [Sink!Next]_Sink!sinkVars
<1>. SUFFICES ASSUME [Next]_vars PROVE [Sink!Next]_Sink!sinkVars
  OBVIOUS
<1>. USE DEF sink, Sink!sinkVars
<1>1. CASE Boot \/ Signal \/ AcceptFails \/ ServeFails \/ Deadline \/ ServerExpires
  BY <1>1 DEF Boot, ParseConfig, MigrateOnly, OpenServingDatabase, NewWriter, Listen,
     Signal, AcceptFails, ServeFails, Deadline, ServerExpires
<1>2. CASE ShutdownStep
  <2>1. CASE CloseWriter
    BY <2>1 DEF CloseWriter, Sink!Next
  <2>2. CASE BeginShutdown \/ WriterDrained \/ WriterExpires \/ CloseListener
    BY <2>2 DEF BeginShutdown, WriterDrained, WriterExpires, CloseListener
  <2>3. CASE Poll \/ PollAgain \/ Join
    BY <2>3 DEF Poll, PollAgain, Join
  <2>. QED
    BY <1>2, <2>1, <2>2, <2>3 DEF ShutdownStep
<1>3. ASSUME NEW r \in Requests, Accept(r) \/ Track(r) \/ Handle(r) \/ Answer(r)
      PROVE  [Sink!Next]_Sink!sinkVars
  <2>1. CASE Track(r)
    BY <2>1 DEF Track, Sink!Next
  <2>2. CASE Accept(r) \/ Handle(r) \/ Answer(r)
    BY <2>2 DEF Accept, Handle, Answer
  <2>. QED
    BY <1>3, <2>1, <2>2
<1>4. CASE WriterAttempts \/ WriterStops
  BY <1>4 DEF WriterAttempts, WriterStops, Sink!Next
<1>5. CASE UNCHANGED vars
  BY <1>5 DEF vars
<1>. QED
  BY <1>1, <1>2, <1>3, <1>4, <1>5 DEF Next

(***************************************************************************)
(* What the server does with its writer, the best-effort sink allows: it   *)
(* answers each record once, closes the sink once and nothing follows.     *)
(* AccessWriter implements the same sink, so each may stand for the other. *)
(***************************************************************************)
THEOREM ServerUsesSink == Spec => Sink!Spec
<1>1. Init => Sink!Init
  BY DEF Init
<1>. QED
  BY <1>1, SinkStep, PTL DEF Spec, Sink!Spec
-----------------------------------------------------------------------------
(***************************************************************************)
(* The records of a sequence were accepted, each once.                     *)
(***************************************************************************)
AcceptedOnce(s) ==
  /\ \A i \in DOMAIN s : answer[s[i]] = "accepted"
  /\ \A i, j \in DOMAIN s : s[i] = s[j] => i = j

Apart(s, t) == \A i \in DOMAIN s, j \in DOMAIN t : s[i] # t[j]

(***************************************************************************)
(* A record is in the queue or in storage, and in neither of them twice.   *)
(***************************************************************************)
Once == AcceptedOnce(pending) /\ AcceptedOnce(attempted) /\ Apart(pending, attempted)

LEMMA AcceptOnce ==
  ASSUME TypeOK, Once, NEW r \in Requests, Sink!Accept(r)
  PROVE  Once'
<1>1. /\ answer[r] = "none" /\ attempted' = attempted
      /\ \A s \in Requests : answer[s] = "accepted" => s # r /\ answer'[s] = "accepted"
      /\ answer'[r] = "accepted"
  BY DEF Sink!Accept, TypeOK
<1>2. /\ Len(pending) \in Nat
      /\ DOMAIN pending = 1..Len(pending) /\ DOMAIN pending' = 1..(Len(pending) + 1)
      /\ pending'[Len(pending) + 1] = r
      /\ \A i \in 1..Len(pending) : pending'[i] = pending[i]
  BY DEF Sink!Accept, TypeOK
<1>3. /\ \A i \in DOMAIN pending : pending[i] \in Requests
      /\ \A i \in DOMAIN attempted : attempted[i] \in Requests
  BY DEF TypeOK
<1>. QED
  BY <1>1, <1>2, <1>3 DEF Once, AcceptedOnce, Apart

LEMMA DropOnce ==
  ASSUME TypeOK, Once, NEW r \in Requests, Sink!Drop(r)
  PROVE  Once'
<1>1. \A s \in Requests : answer[s] = "accepted" => answer'[s] = "accepted"
  BY DEF Sink!Drop, TypeOK
<1>2. /\ \A i \in DOMAIN pending : pending[i] \in Requests
      /\ \A i \in DOMAIN attempted : attempted[i] \in Requests
  BY DEF TypeOK
<1>. QED
  BY <1>1, <1>2 DEF Once, AcceptedOnce, Apart, Sink!Drop

LEMMA AttemptOnce ==
  ASSUME TypeOK, Once, Sink!Attempt
  PROVE  Once'
<1>1. pending \in Seq(Requests) /\ attempted \in Seq(Requests) /\ pending # << >>
  BY DEF Sink!Attempt, TypeOK
<1>2. /\ Len(attempted) \in Nat
      /\ DOMAIN attempted = 1..Len(attempted) /\ DOMAIN attempted' = 1..(Len(attempted) + 1)
      /\ attempted'[Len(attempted) + 1] = pending[1]
      /\ \A i \in 1..Len(attempted) : attempted'[i] = attempted[i]
  BY <1>1 DEF Sink!Attempt
<1>3. /\ Len(pending) \in Nat \ {0} /\ DOMAIN pending = 1..Len(pending)
      /\ pending' = Tail(pending) /\ DOMAIN pending' = 1..(Len(pending) - 1)
  <2>1. Tail(pending) \in Seq(Requests) /\ Len(Tail(pending)) = Len(pending) - 1
    BY <1>1
  <2>2. Len(pending) \in Nat \ {0}
    BY <1>1
  <2>. QED
    BY <1>1, <2>1, <2>2 DEF Sink!Attempt
<1>4. \A i \in 1..(Len(pending) - 1) : pending'[i] = pending[i + 1]
  BY <1>1, <1>3
<1>5. \A i \in 1..(Len(pending) - 1) :
        i + 1 \in DOMAIN pending /\ i + 1 # 1 /\ 1 \in DOMAIN pending
  BY <1>3
<1>6. answer' = answer /\ 1 \in DOMAIN pending
  BY <1>3 DEF Sink!Attempt
<1>7. AcceptedOnce(pending)'
  <2>1. \A i, j \in 1..(Len(pending) - 1) : i + 1 = j + 1 => i = j
    BY <1>3
  <2>. QED
    BY <1>3, <1>4, <1>5, <1>6, <2>1 DEF Once, AcceptedOnce
<1>8. AcceptedOnce(attempted)'
  BY <1>2, <1>6 DEF Once, AcceptedOnce, Apart
<1>9. Apart(pending, attempted)'
  BY <1>2, <1>3, <1>4, <1>5, <1>6 DEF Once, AcceptedOnce, Apart
<1>. QED
  BY <1>7, <1>8, <1>9 DEF Once

LEMMA OnceStep == TypeOK /\ Once /\ [Sink!Next]_Sink!sinkVars => Once'
<1>. SUFFICES ASSUME TypeOK, Once, [Sink!Next]_Sink!sinkVars PROVE Once'
  OBVIOUS
<1>1. CASE Sink!Shut \/ Sink!Stop \/ UNCHANGED Sink!sinkVars
  BY <1>1 DEF Sink!Shut, Sink!Stop, Sink!sinkVars, Once, AcceptedOnce, Apart
<1>. QED
  BY <1>1, AcceptOnce, DropOnce, AttemptOnce DEF Sink!Next

(***************************************************************************)
(* However the shutdown goes, the server attempts no record twice and none *)
(* that it dropped: a record in storage was accepted, and is not pending.  *)
(***************************************************************************)
THEOREM ServerAttemptsOnce == Spec => []Once
<1>1. Init => Once
  BY DEF Init, Sink!Init, Once, AcceptedOnce, Apart
<1>2. IInv => TypeOK
  BY DEF IInv
<1>. QED
  BY <1>1, <1>2, ServerInvariant, SinkStep, OnceStep, PTL DEF Spec
=============================================================================
