----------------------------- MODULE EventSink -----------------------------
(***************************************************************************)
(* What the activity writer promises its callers (the comment on           *)
(* AccessWriter in db/stats.go and docs/operations.md): an event is        *)
(* answered once, accepted or dropped; accepted events are attempted at    *)
(* most once and in order; nothing is accepted once shutdown began; what   *)
(* is still pending when the sink stops is lost, and an event is dropped   *)
(* only because the sink holds Capacity events or is shutting down.        *)
(***************************************************************************)
EXTENDS Naturals, Sequences

CONSTANTS
  Events,   \* the events, one per request that tracks something
  Capacity  \* events the queue holds

VARIABLES
  answer,     \* event -> "none", "accepted" or "dropped"
  pending,    \* accepted events not yet attempted, in order
  attempted,  \* events handed to storage, in order
  phase       \* "open", "closing" or "stopped"

sinkVars == <<answer, pending, attempted, phase>>

Init ==
  /\ answer = [e \in Events |-> "none"]
  /\ pending = << >>
  /\ attempted = << >>
  /\ phase = "open"

(***************************************************************************)
(* Besides the queue, one event can be in the hands of the storage call.   *)
(***************************************************************************)
Accept(e) ==
  /\ answer[e] = "none"
  /\ phase = "open"
  /\ Len(pending) <= Capacity
  /\ answer' = [answer EXCEPT ![e] = "accepted"]
  /\ pending' = Append(pending, e)
  /\ UNCHANGED <<attempted, phase>>

Drop(e) ==
  /\ answer[e] = "none"
  /\ phase # "open" \/ Len(pending) >= Capacity
  /\ answer' = [answer EXCEPT ![e] = "dropped"]
  /\ UNCHANGED <<pending, attempted, phase>>

Attempt ==
  /\ phase # "stopped"
  /\ pending # << >>
  /\ attempted' = Append(attempted, Head(pending))
  /\ pending' = Tail(pending)
  /\ UNCHANGED <<answer, phase>>

Shut ==
  /\ phase = "open"
  /\ phase' = "closing"
  /\ UNCHANGED <<answer, pending, attempted>>

Stop ==
  /\ phase = "closing"
  /\ phase' = "stopped"
  /\ UNCHANGED <<answer, pending, attempted>>

Next ==
  \/ \E e \in Events : Accept(e) \/ Drop(e)
  \/ Attempt
  \/ Shut
  \/ Stop

Spec == Init /\ [][Next]_sinkVars
=============================================================================
