-------------------------- MODULE ActivityTracking --------------------------
(***************************************************************************)
(* Aggregate activity across the cluster: visitors are answered by the     *)
(* RedirectHandler of any node from that node's copy of the database; what *)
(* happened is queued on the node, posted by its writer through the LiteFS *)
(* proxy, and recorded by the primary, while the owner keeps editing       *)
(* links.                                                                  *)
(*                                                                         *)
(* The tables of the primary are RedirectStore's; the queue behaves as     *)
(* EventSink promises, one operation being atomic.  LiteFS replication and *)
(* the network are external: a copy lags but shows a committed state, and  *)
(* a posted record can be late or lost.  A record is identified with the   *)
(* visit that produced it.                                                 *)
(***************************************************************************)
EXTENDS Integers, Sequences, FiniteSets

CONSTANTS
  Slugs, Canonical, Fold, Rank, URLs, Clock, Expirations, LastInstant,
  Resolution, MaxCount, MaxId, MaxMisses, Batches, None,  \* see RedirectStore
  Visits,    \* requests for a link
  Nodes,     \* machines that serve visitors
  Primary,   \* the node whose database takes writes
  Capacity   \* accessQueueCapacity

ASSUME ClusterAssumption ==
  /\ Primary \in Nodes
  /\ Capacity \in Nat \ {0}

VARIABLES
  redirects, lastId, misses,  \* the primary's database
  copy,      \* node -> the redirects table it reads
  visits,    \* visit -> its handler: stage, node, slug asked for, id followed
  queue,     \* node -> records waiting for its writer
  posting,   \* node -> the record its writer is posting, or None
  flight     \* records posted and neither recorded nor lost

store == <<redirects, lastId, misses>>

vars == <<redirects, lastId, misses, copy, visits, queue, posting, flight>>

Store == INSTANCE RedirectStore

ASSUME StoreAssumption ==
  /\ Store!SlugAssumption
  /\ Store!TimeAssumption
  /\ Store!BoundAssumption
  /\ Store!BatchAssumption
-----------------------------------------------------------------------------
Init ==
  /\ Store!Init
  /\ copy = [n \in Nodes |-> redirects]
  /\ visits = [v \in Visits |-> [stage |-> "idle", node |-> Primary,
                                 slug |-> None, id |-> None]]
  /\ queue = [n \in Nodes |-> << >>]
  /\ posting = [n \in Nodes |-> None]
  /\ flight = {}

(***************************************************************************)
(* The table the handler of visit v reads at this moment.                  *)
(***************************************************************************)
Visible(v) == IF visits[v].node = Primary THEN redirects
                                          ELSE copy[visits[v].node]

Advance(v, stage) == visits' = [visits EXCEPT ![v].stage = stage]

ValidSlug(slug) == Fold[slug] \in Canonical

Arrive(v, n, slug) ==
  /\ visits[v].stage = "idle"
  /\ visits' = [visits EXCEPT ![v] = [stage |-> "resolve", node |-> n,
                                      slug |-> slug, id |-> None]]
  /\ UNCHANGED <<store, copy, queue, posting, flight>>

(***************************************************************************)
(* database.ResolveSlug.  An address that cannot be a slug is answered     *)
(* with the missing page at once, an error of the database with a 500.     *)
(***************************************************************************)
Resolve(v, now) ==
  LET found == Store!ResolveSlug(Visible(v), visits[v].slug, now)
  IN  /\ visits[v].stage = "resolve"
      /\ \/ \E id \in found :
              visits' = [visits EXCEPT ![v].stage = "respond", ![v].id = id]
         \/ /\ found = {}
            /\ Advance(v, IF ValidSlug(visits[v].slug) THEN "classify"
                                                       ELSE "missing")
         \/ Advance(v, "failed")
      /\ UNCHANGED <<store, copy, queue, posting, flight>>

(***************************************************************************)
(* database.GetRedirect, a second read of the table: a disabled or expired *)
(* link is not a miss, nor is one whose read fails.                        *)
(***************************************************************************)
Classify(v) ==
  /\ visits[v].stage = "classify"
  /\ \/ /\ Store!Rows(Visible(v), visits[v].slug) = {}
        /\ Advance(v, "trackmiss")
     \/ Advance(v, "missing")
  /\ UNCHANGED <<store, copy, queue, posting, flight>>

\* Mutant of Respond: the answer waits until the copy has caught up.
RespondWhenCurrent(v) ==
  /\ visits[v].stage = "respond"
  /\ Visible(v) = redirects
  /\ Advance(v, "track")
  /\ UNCHANGED <<store, copy, queue, posting, flight>>

(***************************************************************************)
(* http.Redirect writes the 302 before the access is tracked.              *)
(***************************************************************************)
Respond(v) ==
  /\ visits[v].stage = "respond"
  /\ Advance(v, "track")
  /\ UNCHANGED <<store, copy, queue, posting, flight>>

\* Mutant of Track: one record more than the queue holds.
OverfullTrack(v) ==
  LET n == visits[v].node
  IN  /\ visits[v].stage \in {"track", "trackmiss"}
      /\ visits' = [visits EXCEPT ![v].stage =
                      IF @ = "track" THEN "redirected" ELSE "page"]
      /\ queue' = IF Len(queue[n]) <= Capacity
                  THEN [queue EXCEPT ![n] = Append(@, v)] ELSE queue
      /\ UNCHANGED <<store, copy, posting, flight>>

(***************************************************************************)
(* Track and TrackMiss: the record is queued, or dropped when full.  A     *)
(* redirect is over, a missed slug is yet to get its page.                 *)
(***************************************************************************)
Track(v) ==
  LET n == visits[v].node
  IN  /\ visits[v].stage \in {"track", "trackmiss"}
      /\ visits' = [visits EXCEPT ![v].stage =
                      IF @ = "track" THEN "redirected" ELSE "page"]
      /\ queue' = IF Len(queue[n]) < Capacity
                  THEN [queue EXCEPT ![n] = Append(@, v)] ELSE queue
      /\ UNCHANGED <<store, copy, posting, flight>>

(***************************************************************************)
(* MissingPageHandler, after TrackMiss has returned.                       *)
(***************************************************************************)
Render(v) ==
  /\ visits[v].stage = "page"
  /\ Advance(v, "missed")
  /\ UNCHANGED <<store, copy, queue, posting, flight>>
-----------------------------------------------------------------------------
(***************************************************************************)
(* The writer of node n posts the head of its queue (HTTPAccessStore).     *)
(***************************************************************************)
Post(n) ==
  /\ posting[n] = None
  /\ queue[n] # << >>
  /\ posting' = [posting EXCEPT ![n] = Head(queue[n])]
  /\ queue' = [queue EXCEPT ![n] = Tail(queue[n])]
  /\ flight' = flight \cup {Head(queue[n])}
  /\ UNCHANGED <<store, copy, visits>>

(***************************************************************************)
(* The primary's internal handlers record what arrives.  An access whose   *)
(* row is gone is refused and changes nothing.                             *)
(***************************************************************************)
Apply(v, at) ==
  /\ v \in flight
  /\ flight' = flight \ {v}
  /\ IF visits[v].id = None
     THEN Store!RecordSlugMiss(Fold[visits[v].slug], at)
     ELSE \/ Store!RecordRedirectAccess(visits[v].id, at)
          \/ visits[v].id \notin DOMAIN redirects /\ UNCHANGED store
  /\ UNCHANGED <<copy, visits, queue, posting>>

(***************************************************************************)
(* SQLITE_BUSY (the access store never waits for a lock), a lost request   *)
(* or a cancelled one.                                                     *)
(***************************************************************************)
Lose(v) ==
  /\ v \in flight
  /\ flight' = flight \ {v}
  /\ UNCHANGED <<store, copy, visits, queue, posting>>

\* Mutants of GiveUp: a record is posted again when its answer is late; the
\* writer waits for the answer.
PostAgain(n) ==
  /\ posting[n] # None
  /\ posting' = [posting EXCEPT ![n] = None]
  /\ queue' = IF posting[n] \in flight
              THEN [queue EXCEPT ![n] = <<posting[n]>> \o @] ELSE queue
  /\ UNCHANGED <<store, copy, visits, flight>>

AwaitAnswer(n) ==
  /\ posting[n] # None
  /\ posting[n] \notin flight
  /\ posting' = [posting EXCEPT ![n] = None]
  /\ UNCHANGED <<store, copy, visits, queue, flight>>

(***************************************************************************)
(* client.Do returns: with an answer, or after accessRequestTimeout while  *)
(* the record may still arrive.  Nothing is posted again.                  *)
(***************************************************************************)
GiveUp(n) ==
  /\ posting[n] # None
  /\ posting' = [posting EXCEPT ![n] = None]
  /\ UNCHANGED <<store, copy, visits, queue, flight>>
-----------------------------------------------------------------------------
(***************************************************************************)
(* LiteFS brings a replica up to date.                                     *)
(***************************************************************************)
Replicate(n) ==
  /\ n # Primary
  /\ copy[n] # redirects
  /\ copy' = [copy EXCEPT ![n] = redirects]
  /\ UNCHANGED <<store, visits, queue, posting, flight>>

(***************************************************************************)
(* The process of a node dies: its queue and its requests are gone, what   *)
(* it has posted is not.  A miss may be posted and its page never sent.    *)
(***************************************************************************)
Crash(n) ==
  /\ queue' = [queue EXCEPT ![n] = << >>]
  /\ posting' = [posting EXCEPT ![n] = None]
  /\ visits' = [v \in Visits |->
       IF visits[v].node # n THEN visits[v]
       ELSE CASE visits[v].stage \in {"resolve", "classify", "respond", "trackmiss"}
                   -> [visits[v] EXCEPT !.stage = "broken"]
              [] visits[v].stage = "track"
                   -> [visits[v] EXCEPT !.stage = "redirected"]
              [] visits[v].stage = "page"
                   -> [visits[v] EXCEPT !.stage = "unanswered"]
              [] OTHER -> visits[v]]
  /\ UNCHANGED <<store, copy, flight>>

(***************************************************************************)
(* The owner edits the primary's links through the management API.         *)
(***************************************************************************)
Manage ==
  /\ Store!Create \/ Store!Manage \/ Store!Import
  /\ UNCHANGED <<copy, visits, queue, posting, flight>>

VisitStep(v) ==
  \/ \E now \in Clock : Resolve(v, now)
  \/ Classify(v)
  \/ Respond(v)
  \/ Track(v)
  \/ Render(v)

WriterStep(n) == Post(n) \/ GiveUp(n)

Next ==
  \/ \E v \in Visits :
       \/ \E n \in Nodes, slug \in Slugs : Arrive(v, n, slug)
       \/ VisitStep(v)
       \/ \E at \in Clock : Apply(v, at)
       \/ Lose(v)
  \/ \E n \in Nodes : WriterStep(n) \/ Replicate(n) \/ Crash(n)
  \/ Manage

(***************************************************************************)
(* Request goroutines run, and each node's writer runs and is bounded by   *)
(* its client timeout.  Nothing obliges the network or the primary.        *)
(***************************************************************************)
Fairness ==
  /\ \A v \in Visits : WF_vars(VisitStep(v))
  /\ \A n \in Nodes : WF_vars(WriterStep(n))

Spec == Init /\ [][Next]_vars /\ Fairness
-----------------------------------------------------------------------------
(***************************************************************************)
(* The cluster's variables keep their ranges; the queues their capacity.   *)
(***************************************************************************)
TypeOK ==
  /\ Store!TypeOK
  /\ \A n \in Nodes :
       /\ DOMAIN copy[n] \subseteq 1..lastId
       /\ queue[n] \in Seq(Visits) /\ Len(queue[n]) <= Capacity
       /\ posting[n] \in Visits \cup {None}
  /\ visits \in [Visits -> [stage : {"idle", "resolve", "classify", "respond",
                                     "track", "trackmiss", "page",
                                     "redirected", "missed", "unanswered",
                                     "missing", "failed", "broken"},
                            node : Nodes, slug : Slugs \cup {None},
                            id : 1..lastId \cup {None}]]
  /\ flight \subseteq Visits

(***************************************************************************)
(* A late access is never credited to another link: while the id a visitor *)
(* followed names a row of the primary, that row still answers to the slug *)
(* the visitor asked for, however the link was deleted and created again   *)
(* meanwhile and however old the copy that resolved it was.                *)
(***************************************************************************)
CreditsFollowedLink ==
  \A v \in Visits :
    visits[v].id \in DOMAIN redirects =>
      Fold[redirects[visits[v].id].slug] = Fold[visits[v].slug]

Redirected(id) ==
  {v \in Visits : visits[v].id = id /\ visits[v].stage \in {"track", "redirected"}}

\* A miss has been tracked; its page was sent unless the node died first.
TrackedMiss == {"page", "missed", "unanswered"}

Missed(slug) ==
  {v \in Visits : /\ visits[v].stage \in TrackedMiss
                  /\ Fold[visits[v].slug] = slug}

(***************************************************************************)
(* Counters never exceed the visits: a redirect has at most as many clicks *)
(* as 302 answers that were written for it, a miss at most as many as      *)
(* visits that asked for its slug and found no link, although answers are  *)
(* lost, posts time out and nodes die.                                     *)
(***************************************************************************)
NeverOvercounts ==
  /\ \A id \in DOMAIN redirects :
       redirects[id].clicks <= Cardinality(Redirected(id))
  /\ \A slug \in DOMAIN misses :
       misses[slug].count <= Cardinality(Missed(slug))

(***************************************************************************)
(* The report of the primary lists no slug that has a link, although the   *)
(* misses were seen on stale copies and arrive late.                       *)
(***************************************************************************)
LateMissesStayOut == Store!MissesUnresolved

(***************************************************************************)
(* A visitor is answered whatever becomes of the queue, the network and    *)
(* the primary, unless the node's process dies.                            *)
(***************************************************************************)
VisitorsAnswered ==
  \A v \in Visits :
    visits[v].stage = "resolve" ~>
      visits[v].stage \in {"redirected", "missed", "unanswered", "missing",
                           "failed", "broken"}

(***************************************************************************)
(* One record whose answer never comes does not block those behind it.     *)
(***************************************************************************)
QueuesDrain ==
  \A v \in Visits, n \in Nodes :
    (\E i \in DOMAIN queue[n] : queue[n][i] = v) ~>
      ~ \E i \in DOMAIN queue[n] : queue[n][i] = v
=============================================================================
