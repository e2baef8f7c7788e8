----------------------- MODULE ActivityTracking_proofs -----------------------
(***************************************************************************)
(* Proofs, for any number of visits and nodes, any queue capacity and any  *)
(* tables, that late records credit the link that was followed, that late  *)
(* misses stay out of the report and that nothing is counted twice.        *)
(***************************************************************************)
EXTENDS ActivityTracking, FiniteSetTheorems, TLAPS

Tables == INSTANCE RedirectStore_proofs

(***************************************************************************)
(* The tables, as RedirectStore_proofs knows them.                         *)
(***************************************************************************)
LEMMA TablesAssumption ==
  /\ Tables!SlugAssumption
  /\ Tables!TimeAssumption
  /\ Tables!BoundAssumption
  /\ Tables!BatchAssumption
<1>1. Store!SlugAssumption /\ Store!TimeAssumption /\ Store!BoundAssumption
      /\ Store!BatchAssumption
  BY StoreAssumption
<1>2. Tables!SlugAssumption
  BY <1>1 DEF Tables!SlugAssumption, Store!SlugAssumption,
              Tables!IsFiniteSet, Store!IsFiniteSet
<1>3. Tables!TimeAssumption
  BY <1>1 DEF Tables!TimeAssumption, Store!TimeAssumption
<1>4. Tables!BoundAssumption
  BY <1>1 DEF Tables!BoundAssumption, Store!BoundAssumption
<1>5. Store!ImportRow = Tables!ImportRow
  BY DEF Store!ImportRow, Store!Row, Store!Instant,
         Tables!ImportRow, Tables!Row, Tables!Instant
<1>6. Tables!BatchAssumption
  BY <1>1, <1>5 DEF Tables!BatchAssumption, Store!BatchAssumption
<1>. QED
  BY <1>2, <1>3, <1>4, <1>6

LEMMA TablesInit == Store!Init => Tables!IInv
<1>1. Store!Init => Tables!Init
  BY DEF Store!Init, Tables!Init
<1>. QED
  BY <1>1, TablesAssumption, Tables!InitIInv

LEMMA TablesStep ==
  ASSUME Tables!IInv, [Tables!Next]_store PROVE Tables!IInv'
BY TablesAssumption, Tables!NextIInv DEF store, Tables!vars

LEMMA OwnersStep == Store!Create \/ Store!Manage \/ Store!Import => Tables!Next
<1>1. Store!Create => Tables!Create
  BY DEF Store!Create, Store!CreateRedirect, Store!Rows, Store!SameSlug,
         Store!NewRow, Store!WithoutMisses,
         Tables!Create, Tables!CreateRedirect, Tables!Rows, Tables!SameSlug,
         Tables!NewRow, Tables!WithoutMisses
<1>2. Store!Manage => Tables!Manage
  BY DEF Store!Manage, Store!UpdateRedirect, Store!DisableRedirect,
         Store!EnableRedirect, Store!SetRedirectExpiration, Store!DeleteRedirect,
         Store!Rewrite, Store!Rows, Store!SameSlug,
         Tables!Manage, Tables!UpdateRedirect, Tables!DisableRedirect,
         Tables!EnableRedirect, Tables!SetRedirectExpiration,
         Tables!DeleteRedirect, Tables!Rewrite, Tables!Rows, Tables!SameSlug
<1>3. Store!Import => Tables!Import
  BY DEF Store!Import, Store!ImportRedirects, Store!Rows, Store!SameSlug,
         Store!WithoutMisses,
         Tables!Import, Tables!ImportRedirects, Tables!Rows, Tables!SameSlug,
         Tables!WithoutMisses
<1>. QED
  BY <1>1, <1>2, <1>3 DEF Tables!Next

LEMMA AccessStep ==
  ASSUME NEW id \in 1..lastId, NEW at \in Clock, Store!RecordRedirectAccess(id, at)
  PROVE  Tables!Next
<1>1. Tables!RecordRedirectAccess(id, at)
  BY DEF Store!RecordRedirectAccess, Store!Accessed, Store!Increment, Store!Later,
         Store!JulianDay, Tables!RecordRedirectAccess, Tables!Accessed,
         Tables!Increment, Tables!Later, Tables!JulianDay
<1>. QED
  BY <1>1 DEF Tables!Next, Tables!Record

LEMMA PruneSame ==
  ASSUME NEW table PROVE Store!Prune(table) = Tables!Prune(table)
<1>1. \A s, t : Store!Before(table, s, t) = Tables!Before(table, s, t)
  BY DEF Store!Before, Store!Later, Store!JulianDay,
         Tables!Before, Tables!Later, Tables!JulianDay
<1>2. \A s : Store!Ahead(table, s) = Tables!Ahead(table, s)
  BY <1>1 DEF Store!Ahead, Tables!Ahead
<1>2a. \A S : Store!Cardinality(S) = Tables!Cardinality(S)
  BY DEF Store!Cardinality, Tables!Cardinality
<1>3. Store!Kept(table) = Tables!Kept(table)
  BY <1>2, <1>2a DEF Store!Kept, Tables!Kept
<1>. QED
  BY <1>3 DEF Store!Prune, Tables!Prune

LEMMA WithMissSame ==
  ASSUME NEW slug, NEW at PROVE Store!WithMiss(slug, at) = Tables!WithMiss(slug, at)
<1>1. \A miss : Store!Missed(miss, at) = Tables!Missed(miss, at)
  BY DEF Store!Missed, Store!Increment, Store!Later, Store!JulianDay,
         Tables!Missed, Tables!Increment, Tables!Later, Tables!JulianDay
<1>. QED
  BY <1>1 DEF Store!WithMiss, Tables!WithMiss

LEMMA MissStep ==
  ASSUME NEW slug \in Canonical, NEW at \in Clock, Store!RecordSlugMiss(slug, at)
  PROVE  Tables!Next
<1>1. Store!Rows(redirects, slug) = Tables!Rows(redirects, slug)
  BY DEF Store!Rows, Store!SameSlug, Tables!Rows, Tables!SameSlug
<1>2. Tables!RecordSlugMiss(slug, at)
  BY <1>1, PruneSame, WithMissSame DEF Store!RecordSlugMiss, Tables!RecordSlugMiss
<1>. QED
  BY <1>2 DEF Tables!Next, Tables!Record

LEMMA StoreStep == [Store!Next]_store => [Tables!Next]_store
<1>1. Store!Record => Tables!Next
  BY AccessStep, MissStep DEF Store!Record
<1>. QED
  BY <1>1, OwnersStep DEF Store!Next
-----------------------------------------------------------------------------
(***************************************************************************)
(* The parts of the invariant.  An id that is given out names the same     *)
(* slug in every copy and for every visit that followed it.                *)
(***************************************************************************)
Copies ==
  /\ copy = [n \in Nodes |-> copy[n]]
  /\ \A n \in Nodes : \A id \in DOMAIN copy[n] :
       /\ id \in 1..lastId
       /\ id \in DOMAIN redirects => copy[n][id].slug = redirects[id].slug

Stages == {"idle", "resolve", "classify", "respond", "track", "trackmiss",
           "page", "redirected", "missed", "unanswered", "missing", "failed",
           "broken"}

(***************************************************************************)
(* A visit follows an id once it is resolved, and only a valid address is  *)
(* a miss.                                                                 *)
(***************************************************************************)
Visit == [stage : Stages, node : Nodes, slug : Slugs \cup {None},
          id : 1..lastId \cup {None}]

Handled(r) ==
  /\ r \in Visit
  /\ r.stage \in {"respond", "track", "redirected"} => r.id # None
  /\ r.stage \in {"idle", "resolve", "classify", "trackmiss"} \cup TrackedMiss =>
       r.id = None
  /\ r.stage \in {"classify", "trackmiss"} \cup TrackedMiss => ValidSlug(r.slug)

Handlers ==
  /\ visits = [v \in Visits |-> visits[v]]
  /\ \A v \in Visits : Handled(visits[v])

Tracked(v) == visits[v].stage \in {"redirected"} \cup TrackedMiss

In(queues, v) ==
  \E n \in Nodes : \E i \in DOMAIN queues[n] : queues[n][i] = v

Waiting(v) == In(queue, v)

(***************************************************************************)
(* Every record is in one place at most, and its visit was tracked.        *)
(***************************************************************************)
Records ==
  /\ queue \in [Nodes -> Seq(Visits)]
  /\ posting \in [Nodes -> Visits \cup {None}]
  /\ flight \subseteq Visits
  /\ \A n \in Nodes : Len(queue[n]) <= Capacity
  /\ \A m, n \in Nodes : \A i \in DOMAIN queue[m], j \in DOMAIN queue[n] :
       queue[m][i] = queue[n][j] => m = n /\ i = j
  /\ \A v \in flight : ~Waiting(v) /\ Tracked(v)
  /\ \A v \in Visits : Waiting(v) => Tracked(v)

USE DEF TrackedMiss

IInv == Tables!IInv /\ Copies /\ Handlers /\ CreditsFollowedLink /\ Records
-----------------------------------------------------------------------------
(***************************************************************************)
(* What each operation on the tables does to ids: none is given to another *)
(* row and no row changes its slug.                                        *)
(***************************************************************************)
Lineal ==
  /\ lastId <= lastId'
  /\ \A id \in DOMAIN redirects' : id \in 1..lastId =>
       id \in DOMAIN redirects /\ redirects'[id].slug = redirects[id].slug

LEMMA TablesType ==
  ASSUME Tables!IInv
  PROVE  /\ lastId \in Nat
         /\ DOMAIN redirects \subseteq 1..lastId
         /\ \A id \in DOMAIN redirects : redirects[id] \in Tables!Row
         /\ None \notin Int
<1>1. lastId \in Nat
  BY TablesAssumption DEF Tables!IInv, Tables!TypeOK, Tables!BoundAssumption
<1>. QED
  BY <1>1, TablesAssumption DEF Tables!IInv, Tables!TypeOK, Tables!TimeAssumption

LEMMA CreateLineal ==
  ASSUME Tables!IInv, Store!Create PROVE Lineal
<1>1. PICK slug \in Canonical, url \in URLs, expires \in Expirations \cup {None} :
        Store!CreateRedirect(slug, url, expires)
  BY DEF Store!Create
<1>. QED
  BY <1>1, TablesType DEF Store!CreateRedirect, Lineal

LEMMA ImportLineal ==
  ASSUME Tables!IInv, Store!Import PROVE Lineal
<1>1. PICK batch \in Batches : Store!ImportRedirects(batch)
  BY DEF Store!Import
<1>2. Len(batch) \in Nat
  BY TablesAssumption DEF Tables!BatchAssumption
<1>. QED
  BY <1>1, <1>2, TablesType DEF Store!ImportRedirects, Lineal

LEMMA RewriteLineal ==
  ASSUME Tables!IInv, NEW matches, Store!Rewrite(matches),
         \A id \in DOMAIN redirects : id \in DOMAIN matches =>
           matches[id].slug = redirects[id].slug
  PROVE  Lineal
BY TablesType DEF Store!Rewrite, Lineal

LEMMA ManageLineal ==
  ASSUME Tables!IInv, Store!Manage PROVE Lineal
<1>1. PICK slug \in Slugs :
        \/ \E url \in URLs : Store!UpdateRedirect(slug, url)
        \/ Store!DisableRedirect(slug)
        \/ Store!EnableRedirect(slug)
        \/ \E expires \in Expirations \cup {None} :
             Store!SetRedirectExpiration(slug, expires)
        \/ Store!DeleteRedirect(slug)
  BY DEF Store!Manage
<1>2. \A id \in DOMAIN redirects :
        /\ \A x : [redirects[id] EXCEPT !.url = x].slug = redirects[id].slug
        /\ \A x : [redirects[id] EXCEPT !.disabled = x].slug = redirects[id].slug
        /\ \A x : [redirects[id] EXCEPT !.expires = x].slug = redirects[id].slug
  BY TablesType DEF Tables!Row
<1>3. ASSUME NEW url \in URLs, Store!UpdateRedirect(slug, url) PROVE Lineal
  BY <1>2, <1>3, RewriteLineal DEF Store!UpdateRedirect
<1>4. CASE Store!DisableRedirect(slug)
  BY <1>2, <1>4, RewriteLineal DEF Store!DisableRedirect
<1>5. CASE Store!EnableRedirect(slug)
  BY <1>2, <1>5, RewriteLineal DEF Store!EnableRedirect
<1>6. ASSUME NEW expires \in Expirations \cup {None},
             Store!SetRedirectExpiration(slug, expires)
      PROVE  Lineal
  BY <1>2, <1>6, RewriteLineal DEF Store!SetRedirectExpiration
<1>7. CASE Store!DeleteRedirect(slug)
  BY <1>7, TablesType DEF Store!DeleteRedirect, Lineal
<1>. QED
  BY <1>1, <1>3, <1>4, <1>5, <1>6, <1>7

LEMMA AccessLineal ==
  ASSUME Tables!IInv, NEW id, NEW at \in Clock, Store!RecordRedirectAccess(id, at)
  PROVE  Lineal
<1>1. Store!Accessed(redirects[id], at).slug = redirects[id].slug
  BY TablesType DEF Store!RecordRedirectAccess, Store!Accessed, Tables!Row
<1>. QED
  BY <1>1, TablesType DEF Store!RecordRedirectAccess, Lineal

LEMMA SameLineal ==
  ASSUME Tables!IInv, UNCHANGED <<redirects, lastId>> PROVE Lineal
BY TablesType DEF Lineal
-----------------------------------------------------------------------------
(***************************************************************************)
(* A step is that of a visit, of a writer, of the network, of a replica or *)
(* of the owner.                                                           *)
(***************************************************************************)
LEMMA StepCases ==
  ASSUME [Next]_vars
  PROVE  \/ \E v \in Visits, n \in Nodes, slug \in Slugs : Arrive(v, n, slug)
         \/ \E v \in Visits, now \in Clock : Resolve(v, now)
         \/ \E v \in Visits : Classify(v) \/ Respond(v)
         \/ \E v \in Visits : Track(v)
         \/ \E v \in Visits : Render(v)
         \/ \E v \in Visits, at \in Clock : Apply(v, at)
         \/ \E v \in Visits : Lose(v)
         \/ \E n \in Nodes : Post(n)
         \/ \E n \in Nodes : GiveUp(n)
         \/ \E n \in Nodes : Replicate(n)
         \/ \E n \in Nodes : Crash(n)
         \/ Manage
         \/ UNCHANGED vars
BY DEF Next, VisitStep, WriterStep

LEMMA RecordLeaves ==
  ASSUME IInv, NEW v \in Visits, NEW at \in Clock, Apply(v, at)
  PROVE  [Store!Next]_store /\ Lineal
<1>1. v \in flight /\ Tracked(v)
  BY DEF Apply, IInv, Records
<1>2. CASE visits[v].id = None
  <2>1. Fold[visits[v].slug] \in Canonical
    BY <1>1, <1>2 DEF IInv, Handlers, Handled, Visit, Tracked, ValidSlug
  <2>2. Store!RecordSlugMiss(Fold[visits[v].slug], at)
    BY <1>2 DEF Apply
  <2>3. Store!Next
    BY <2>1, <2>2 DEF Store!Next, Store!Record
  <2>4. UNCHANGED <<redirects, lastId>>
    BY <2>2 DEF Store!RecordSlugMiss
  <2>. QED
    BY <2>3, <2>4, SameLineal DEF IInv
<1>3. CASE visits[v].id # None /\ Store!RecordRedirectAccess(visits[v].id, at)
  <2>1. visits[v].id \in 1..lastId
    BY <1>3 DEF IInv, Handlers, Handled, Visit
  <2>2. Store!Next
    BY <1>3, <2>1 DEF Store!Next, Store!Record
  <2>. QED
    BY <1>3, <2>1, <2>2, AccessLineal DEF IInv
<1>4. CASE UNCHANGED store
  BY <1>4, SameLineal DEF IInv, store
<1>. QED
  BY <1>2, <1>3, <1>4 DEF Apply

(***************************************************************************)
(* Whatever the cluster does to the tables is an operation of package db.  *)
(***************************************************************************)
LEMMA TablesOperation ==
  ASSUME IInv, [Next]_vars PROVE [Store!Next]_store /\ Lineal
<1>1. CASE UNCHANGED store
  BY <1>1, SameLineal DEF IInv, store
<1>2. CASE Manage
  <2>1. Store!Next
    BY <1>2 DEF Manage, Store!Next
  <2>2. Lineal
    BY <1>2, CreateLineal, ManageLineal, ImportLineal DEF IInv, Manage
  <2>. QED
    BY <2>1, <2>2
<1>3. ASSUME NEW v \in Visits, NEW at \in Clock, Apply(v, at)
      PROVE  [Store!Next]_store /\ Lineal
  BY <1>3, RecordLeaves
<1>4. ASSUME NEW v \in Visits, NEW n \in Nodes, NEW slug \in Slugs,
             Arrive(v, n, slug)
      PROVE  UNCHANGED store
  BY <1>4 DEF Arrive, store
<1>5. ASSUME NEW v \in Visits, NEW now \in Clock, Resolve(v, now)
      PROVE  UNCHANGED store
  BY <1>5 DEF Resolve, store
<1>6. ASSUME NEW v \in Visits,
             Classify(v) \/ Respond(v) \/ Track(v) \/ Render(v) \/ Lose(v)
      PROVE  UNCHANGED store
  BY <1>6 DEF Classify, Respond, Track, Render, Advance, Lose, store
<1>7. ASSUME NEW n \in Nodes, Post(n) \/ GiveUp(n) \/ Replicate(n) \/ Crash(n)
      PROVE  UNCHANGED store
  BY <1>7 DEF Post, GiveUp, Replicate, Crash, store
<1>8. CASE UNCHANGED vars
  BY <1>1, <1>8 DEF vars, store
<1>. QED
  BY <1>1, <1>2, <1>3, <1>4, <1>5, <1>6, <1>7, <1>8, StepCases

LEMMA TablesPart ==
  ASSUME IInv, [Next]_vars PROVE Tables!IInv' /\ Lineal
BY TablesOperation, StoreStep, TablesStep DEF IInv

(***************************************************************************)
(* A copy stays behind or becomes the table of the primary.                *)
(***************************************************************************)
LEMMA CopiesPart ==
  ASSUME IInv, [Next]_vars PROVE Copies'
<1>. USE DEF IInv, Copies
<1>1. Tables!IInv' /\ Lineal /\ lastId \in Nat
  BY TablesPart, TablesType
<1>1a. lastId' \in Nat
  BY <1>1, TablesAssumption DEF Tables!IInv, Tables!TypeOK, Tables!BoundAssumption
<1>2. CASE copy' = copy
  BY <1>1, <1>1a, <1>2 DEF Lineal
<1>3. ASSUME NEW n \in Nodes, Replicate(n) PROVE Copies'
  <2>1. DOMAIN redirects \subseteq 1..lastId
    BY TablesType
  <2>2. copy' = [m \in Nodes |-> IF m = n THEN redirects ELSE copy[m]]
    BY <1>3 DEF Replicate
  <2>. QED
    BY <1>3, <2>1, <2>2 DEF Replicate, store
<1>4. ASSUME NEW v \in Visits,
             \/ \E n \in Nodes, slug \in Slugs : Arrive(v, n, slug)
             \/ \E now \in Clock : Resolve(v, now)
             \/ Classify(v) \/ Respond(v) \/ Track(v) \/ Render(v) \/ Lose(v)
             \/ \E at \in Clock : Apply(v, at)
      PROVE  copy' = copy
  BY <1>4 DEF Arrive, Resolve, Classify, Respond, Track, Render, Lose, Apply
<1>5. ASSUME NEW n \in Nodes, Post(n) \/ GiveUp(n) \/ Crash(n)
      PROVE  copy' = copy
  BY <1>5 DEF Post, GiveUp, Crash
<1>6. Manage \/ UNCHANGED vars => copy' = copy
  BY DEF Manage, vars
<1>. QED
  BY <1>2, <1>3, <1>4, <1>5, <1>6, StepCases
-----------------------------------------------------------------------------
(***************************************************************************)
(* A table that a visit can see, and what it resolves to.                  *)
(***************************************************************************)
LEMMA Found ==
  ASSUME IInv, NEW v \in Visits, NEW now \in Clock,
         NEW id \in Store!ResolveSlug(Visible(v), visits[v].slug, now)
  PROVE  /\ id \in 1..lastId
         /\ id \in DOMAIN redirects =>
              Fold[redirects[id].slug] = Fold[visits[v].slug]
<1>1. id \in DOMAIN Visible(v) /\ Fold[Visible(v)[id].slug] = Fold[visits[v].slug]
  BY DEF Store!ResolveSlug, Store!Rows, Store!SameSlug
<1>2. visits[v].node \in Nodes
  BY DEF IInv, Handlers, Handled, Visit
<1>. QED
  BY <1>1, <1>2, TablesType DEF Visible, IInv, Copies

(***************************************************************************)
(* One handler moves on: its visit is as it should be, and it credits no   *)
(* other link.                                                             *)
(***************************************************************************)
LEMMA OneHandler ==
  ASSUME IInv, NEW v \in Visits, NEW r,
         visits' = [visits EXCEPT ![v] = r], UNCHANGED store,
         Handled(r),
         r.id \in DOMAIN redirects => Fold[redirects[r.id].slug] = Fold[r.slug]
  PROVE  Handlers' /\ CreditsFollowedLink'
<1>1. redirects' = redirects /\ lastId' = lastId
  BY DEF store
<1>2. \A w \in Visits : visits'[w] = IF w = v THEN r ELSE visits[w]
  BY DEF IInv, Handlers, Handled, Visit
<1>3. \A w \in Visits : Handled(visits'[w])
  BY <1>2 DEF IInv, Handlers
<1>4. \A w \in Visits : Handled(visits[w])'
  BY <1>1, <1>3 DEF Handled, Visit
<1>5. visits' = [w \in Visits |-> visits'[w]]
  BY DEF IInv, Handlers, Handled, Visit
<1>6. CreditsFollowedLink'
  BY <1>1, <1>2 DEF IInv, CreditsFollowedLink
<1>. QED
  BY <1>4, <1>5, <1>6 DEF Handlers

LEMMA AdvanceHandler ==
  ASSUME IInv, NEW v \in Visits, NEW stage \in Stages, Advance(v, stage),
         UNCHANGED store, Handled([visits[v] EXCEPT !.stage = stage])
  PROVE  Handlers' /\ CreditsFollowedLink'
<1>1. visits[v] \in Visit
  BY DEF IInv, Handlers, Handled, Visit
<1>. DEFINE r == [visits[v] EXCEPT !.stage = stage]
<1>2. r.id = visits[v].id /\ r.slug = visits[v].slug
  BY <1>1 DEF Visit
<1>3. visits' = [visits EXCEPT ![v] = r]
  BY DEF Advance
<1>4. r.id \in DOMAIN redirects => Fold[redirects[r.id].slug] = Fold[r.slug]
  BY <1>2 DEF IInv, CreditsFollowedLink
<1>. HIDE DEF r
<1>5. Handled(r)
  BY DEF r
<1>. QED
  BY <1>3, <1>4, <1>5, OneHandler

LEMMA ResolveHandler ==
  ASSUME IInv, NEW v \in Visits, NEW now \in Clock, Resolve(v, now)
  PROVE  Handlers' /\ CreditsFollowedLink'
<1>1. visits[v] \in Visit /\ visits[v].stage = "resolve" /\ visits[v].id = None
  BY DEF IInv, Handlers, Handled, Visit, Resolve
<1>2. UNCHANGED store
  BY DEF Resolve, store
<1>3. ASSUME NEW id \in Store!ResolveSlug(Visible(v), visits[v].slug, now),
             visits' = [visits EXCEPT ![v].stage = "respond", ![v].id = id]
      PROVE  Handlers' /\ CreditsFollowedLink'
  <2>. DEFINE r == [visits[v] EXCEPT !.stage = "respond", !.id = id]
  <2>1. visits' = [visits EXCEPT ![v] = r]
    BY <1>3
  <2>2. id \in 1..lastId
    BY Found
  <2>3. id # None
    BY <2>2, TablesType DEF IInv
  <2>4. r \in Visit
    BY <1>1, <2>2 DEF Visit, Stages
  <2>5. r.stage = "respond" /\ r.id = id /\ r.slug = visits[v].slug
    BY <1>1 DEF Visit
  <2>6. Handled(r)
    BY <2>3, <2>4, <2>5 DEF Handled
  <2>7. r.id \in DOMAIN redirects => Fold[redirects[r.id].slug] = Fold[r.slug]
    BY <2>5, Found
  <2>. HIDE DEF r
  <2>. QED
    BY <1>2, <2>1, <2>6, <2>7, OneHandler
<1>4. ASSUME NEW stage \in {"classify", "missing", "failed"},
             stage = "classify" => ValidSlug(visits[v].slug)
      PROVE  Handled([visits[v] EXCEPT !.stage = stage])
  BY <1>1, <1>4 DEF Handled, Visit, Stages
<1>5. CASE Advance(v, IF ValidSlug(visits[v].slug) THEN "classify" ELSE "missing")
  <2>1. CASE ValidSlug(visits[v].slug)
    BY <1>2, <1>4, <1>5, <2>1, AdvanceHandler DEF Stages
  <2>2. CASE ~ValidSlug(visits[v].slug)
    BY <1>2, <1>4, <1>5, <2>2, AdvanceHandler DEF Stages
  <2>. QED
    BY <2>1, <2>2
<1>6. CASE Advance(v, "failed")
  BY <1>2, <1>4, <1>6, AdvanceHandler DEF Stages
<1>. QED
  BY <1>3, <1>5, <1>6 DEF Resolve

LEMMA CrashHandler ==
  ASSUME IInv, NEW n \in Nodes, Crash(n)
  PROVE  Handlers' /\ CreditsFollowedLink'
<1>1. redirects' = redirects /\ lastId' = lastId
  BY DEF Crash, store
<1>2. ASSUME NEW v \in Visits
      PROVE  /\ Handled(visits'[v])
             /\ visits'[v].id = visits[v].id /\ visits'[v].slug = visits[v].slug
  <2>1. Handled(visits[v]) /\ visits[v] \in Visit
    BY DEF IInv, Handlers, Handled
  <2>2. \/ visits'[v] = visits[v]
        \/ visits'[v] = [visits[v] EXCEPT !.stage = "broken"]
        \/ /\ visits[v].stage = "track"
           /\ visits'[v] = [visits[v] EXCEPT !.stage = "redirected"]
        \/ /\ visits[v].stage = "page"
           /\ visits'[v] = [visits[v] EXCEPT !.stage = "unanswered"]
    BY DEF Crash
  <2>. QED
    BY <2>1, <2>2 DEF Handled, Visit, Stages
<1>3. \A v \in Visits : Handled(visits[v])'
  BY <1>1, <1>2 DEF Handled, Visit
<1>4. visits' = [v \in Visits |-> visits'[v]]
  BY DEF Crash
<1>5. CreditsFollowedLink'
  BY <1>1, <1>2 DEF IInv, CreditsFollowedLink
<1>. QED
  BY <1>3, <1>4, <1>5 DEF Handlers

(***************************************************************************)
(* Where no handler moves, its id keeps its slug or is gone for good.      *)
(***************************************************************************)
LEMMA IdleHandlers ==
  ASSUME IInv, Lineal, Tables!IInv', visits' = visits
  PROVE  Handlers' /\ CreditsFollowedLink'
<1>1. lastId \in Nat /\ lastId <= lastId' /\ None \notin Int
  BY TablesType DEF IInv, Lineal
<1>1a. lastId' \in Nat
  BY TablesAssumption DEF Tables!IInv, Tables!TypeOK, Tables!BoundAssumption
<1>1b. DOMAIN redirects' \subseteq 1..lastId'
  BY DEF Tables!IInv, Tables!TypeOK
<1>2. 1..lastId \subseteq 1..lastId'
  BY <1>1, <1>1a
<1>3. Handlers'
  BY <1>2 DEF IInv, Handlers, Handled, Visit
<1>4. ASSUME NEW v \in Visits, visits[v].id \in DOMAIN redirects'
      PROVE  Fold[redirects'[visits[v].id].slug] = Fold[visits[v].slug]
  <2>1. visits[v].id \in 1..lastId
    BY <1>1, <1>1a, <1>1b, <1>4 DEF IInv, Handlers, Handled, Visit
  <2>. QED
    BY <1>4, <2>1 DEF IInv, CreditsFollowedLink, Lineal
<1>. QED
  BY <1>3, <1>4 DEF CreditsFollowedLink

LEMMA HandlersPart ==
  ASSUME IInv, [Next]_vars PROVE Handlers' /\ CreditsFollowedLink'
<1>1. CASE visits' = visits
  BY <1>1, TablesPart, IdleHandlers
<1>2. ASSUME NEW v \in Visits, NEW n \in Nodes, NEW slug \in Slugs,
             Arrive(v, n, slug)
      PROVE  Handlers' /\ CreditsFollowedLink'
  <2>. DEFINE r == [stage |-> "resolve", node |-> n, slug |-> slug, id |-> None]
  <2>1. visits' = [visits EXCEPT ![v] = r] /\ UNCHANGED store
    BY <1>2 DEF Arrive, store
  <2>2. Handled(r)
    BY DEF Handled, Visit, Stages
  <2>3. r.id \notin DOMAIN redirects
    BY TablesType DEF IInv
  <2>. HIDE DEF r
  <2>. QED
    BY <2>1, <2>2, <2>3, OneHandler
<1>3. ASSUME NEW v \in Visits, NEW now \in Clock, Resolve(v, now)
      PROVE  Handlers' /\ CreditsFollowedLink'
  BY <1>3, ResolveHandler
<1>4. ASSUME NEW v \in Visits, Classify(v) \/ Respond(v)
      PROVE  Handlers' /\ CreditsFollowedLink'
  <2>1. Handled(visits[v]) /\ visits[v] \in Visit /\ UNCHANGED store
    BY <1>4 DEF IInv, Handlers, Handled, Classify, Respond, store
  <2>2. CASE Classify(v)
    <3>1. \A stage \in {"trackmiss", "missing"} :
            Handled([visits[v] EXCEPT !.stage = stage])
      BY <2>1, <2>2 DEF Classify, Handled, Visit, Stages
    <3>2. Advance(v, "trackmiss") \/ Advance(v, "missing")
      BY <2>2 DEF Classify
    <3>. QED
      BY <2>1, <3>1, <3>2, AdvanceHandler DEF Stages
  <2>3. CASE Respond(v)
    <3>1. Handled([visits[v] EXCEPT !.stage = "track"]) /\ Advance(v, "track")
      BY <2>1, <2>3 DEF Respond, Handled, Visit, Stages
    <3>. QED
      BY <2>1, <3>1, AdvanceHandler DEF Stages
  <2>. QED
    BY <1>4, <2>2, <2>3
<1>5. ASSUME NEW v \in Visits, Track(v)
      PROVE  Handlers' /\ CreditsFollowedLink'
  <2>1. Handled(visits[v]) /\ visits[v] \in Visit /\ UNCHANGED store
    BY <1>5 DEF IInv, Handlers, Handled, Track, store
  <2>2. CASE visits[v].stage = "track"
    <3>1. Handled([visits[v] EXCEPT !.stage = "redirected"])
      BY <2>1, <2>2 DEF Handled, Visit, Stages
    <3>2. Advance(v, "redirected")
      BY <1>5, <2>2 DEF Track, Advance
    <3>. QED
      BY <2>1, <3>1, <3>2, AdvanceHandler DEF Stages
  <2>3. CASE visits[v].stage = "trackmiss"
    <3>1. Handled([visits[v] EXCEPT !.stage = "page"])
      BY <2>1, <2>3 DEF Handled, Visit, Stages
    <3>2. Advance(v, "page")
      BY <1>5, <2>3 DEF Track, Advance
    <3>. QED
      BY <2>1, <3>1, <3>2, AdvanceHandler DEF Stages
  <2>. QED
    BY <1>5, <2>2, <2>3 DEF Track
<1>6. ASSUME NEW v \in Visits, Lose(v) \/ \E at \in Clock : Apply(v, at)
      PROVE  visits' = visits
  BY <1>6 DEF Lose, Apply
<1>7. ASSUME NEW n \in Nodes, Post(n) \/ GiveUp(n) \/ Replicate(n)
      PROVE  visits' = visits
  BY <1>7 DEF Post, GiveUp, Replicate
<1>8. Manage \/ UNCHANGED vars => visits' = visits
  BY DEF Manage, vars
<1>9. ASSUME NEW n \in Nodes, Crash(n)
      PROVE  Handlers' /\ CreditsFollowedLink'
  BY <1>9, CrashHandler
<1>10. ASSUME NEW v \in Visits, Render(v)
       PROVE  Handlers' /\ CreditsFollowedLink'
  <2>1. /\ Handled(visits[v]) /\ visits[v] \in Visit /\ visits[v].stage = "page"
        /\ Advance(v, "missed") /\ UNCHANGED store
    BY <1>10 DEF IInv, Handlers, Handled, Render, store
  <2>2. Handled([visits[v] EXCEPT !.stage = "missed"])
    BY <2>1 DEF Handled, Visit, Stages
  <2>. QED
    BY <2>1, <2>2, AdvanceHandler DEF Stages
<1>. QED
  BY <1>1, <1>2, <1>3, <1>4, <1>5, <1>6, <1>7, <1>8, <1>9, <1>10, StepCases
-----------------------------------------------------------------------------
(***************************************************************************)
(* A visit that was tracked stays tracked, for the same link or miss, and  *)
(* its record does not come back.                                          *)
(***************************************************************************)
Settled(v) ==
  /\ Tracked(v)'
  /\ visits'[v].id = visits[v].id
  /\ visits'[v].slug = visits[v].slug
  /\ visits[v].stage = "redirected" <=> visits'[v].stage = "redirected"

Forward ==
  \A v \in Visits : Tracked(v) =>
    /\ Settled(v)
    /\ Waiting(v)' => Waiting(v)
    /\ v \in flight' => Waiting(v) \/ v \in flight

LEMMA RecordsIdle ==
  ASSUME IInv, UNCHANGED <<queue, posting, flight>>,
         \A v \in Visits : Tracked(v) => Settled(v)
  PROVE  Records' /\ Forward
<1>1. \A v \in Visits : Waiting(v)' <=> Waiting(v)
  BY DEF Waiting, In
<1>. QED
  BY <1>1 DEF IInv, Records, Forward, Settled

LEMMA RecordsTrack ==
  ASSUME IInv, NEW v \in Visits, Track(v)
  PROVE  Records' /\ Forward
<1>. DEFINE n == visits[v].node
<1>1. n \in Nodes /\ ~Tracked(v) /\ visits[v].stage \in {"track", "trackmiss"}
  BY DEF IInv, Handlers, Handled, Visit, Track, Tracked
<1>2. ~Waiting(v) /\ v \notin flight
  BY <1>1 DEF IInv, Records
<1>3. \A w \in Visits \ {v} : visits'[w] = visits[w]
  BY DEF IInv, Handlers, Handled, Visit, Track
<1>4. visits'[v].stage \in {"redirected", "page"}
  BY <1>1 DEF IInv, Handlers, Handled, Visit, Track
<1>5. posting' = posting /\ flight' = flight
  BY DEF Track
<1>6. CASE queue' = queue
  <2>1. \A w \in Visits : Waiting(w)' <=> Waiting(w)
    BY <1>6 DEF Waiting, In
  <2>2. \A w \in Visits : Tracked(w) => Settled(w) /\ Tracked(w)'
    BY <1>1, <1>3 DEF Settled, Tracked
  <2>3. Forward
    BY <1>5, <2>1, <2>2 DEF Forward
  <2>. QED
    BY <1>5, <1>6, <2>1, <2>2, <2>3 DEF IInv, Records
<1>7. CASE Len(queue[n]) < Capacity /\ queue' = [queue EXCEPT ![n] = Append(@, v)]
  <2>1. queue[n] \in Seq(Visits) /\ queue \in [Nodes -> Seq(Visits)]
    BY <1>1 DEF IInv, Records
  <2>2. /\ Append(queue[n], v) \in Seq(Visits)
        /\ Len(Append(queue[n], v)) = Len(queue[n]) + 1
        /\ DOMAIN Append(queue[n], v) = 1..Len(queue[n]) + 1
        /\ DOMAIN queue[n] = 1..Len(queue[n]) /\ Len(queue[n]) \in Nat
        /\ \A i \in DOMAIN queue[n] : Append(queue[n], v)[i] = queue[n][i]
        /\ Append(queue[n], v)[Len(queue[n]) + 1] = v
    BY <2>1
  <2>3. \A m \in Nodes : queue'[m] = IF m = n THEN Append(queue[n], v) ELSE queue[m]
    BY <1>1, <1>7, <2>1
  <2>4. queue' \in [Nodes -> Seq(Visits)]
    BY <1>1, <1>7, <2>1, <2>2
  <2>5. \A m \in Nodes : Len(queue'[m]) <= Capacity
    BY <1>7, <2>2, <2>3, ClusterAssumption DEF IInv, Records
  <2>6. \A m \in Nodes : \A i \in DOMAIN queue'[m] :
          \/ i \in DOMAIN queue[m] /\ queue'[m][i] = queue[m][i]
          \/ m = n /\ i = Len(queue[n]) + 1 /\ queue'[m][i] = v
    <3>. SUFFICES ASSUME NEW m \in Nodes, NEW i \in DOMAIN queue'[m]
                  PROVE  \/ i \in DOMAIN queue[m] /\ queue'[m][i] = queue[m][i]
                         \/ m = n /\ i = Len(queue[n]) + 1 /\ queue'[m][i] = v
      OBVIOUS
    <3>1. CASE m # n
      BY <2>3, <3>1
    <3>2. CASE m = n
      <4>1. queue'[m] = Append(queue[n], v)
        BY <2>3, <3>2
      <4>. HIDE DEF n
      <4>. QED
        BY <2>2, <3>2, <4>1
    <3>. QED
      BY <3>1, <3>2
  <2>7. \A w \in Visits : Waiting(w)' => Waiting(w) \/ w = v
    BY <2>6 DEF Waiting, In
  <2>8. \A k, m \in Nodes : \A i \in DOMAIN queue'[k], j \in DOMAIN queue'[m] :
          queue'[k][i] = queue'[m][j] => k = m /\ i = j
    <3>. SUFFICES ASSUME NEW k \in Nodes, NEW m \in Nodes,
                         NEW i \in DOMAIN queue'[k], NEW j \in DOMAIN queue'[m],
                         queue'[k][i] = queue'[m][j]
                  PROVE  k = m /\ i = j
      OBVIOUS
    <3>1. \A p \in Nodes : \A l \in DOMAIN queue[p] : queue[p][l] # v
      BY <1>2 DEF Waiting, In
    <3>2. CASE queue'[k][i] = v
      BY <2>6, <3>1, <3>2
    <3>3. CASE queue'[k][i] # v
      <4>1. i \in DOMAIN queue[k] /\ j \in DOMAIN queue[m]
            /\ queue[k][i] = queue[m][j]
        BY <2>6, <3>3
      <4>. QED
        BY <4>1 DEF IInv, Records
    <3>. QED
      BY <3>2, <3>3
  <2>9. \A w \in flight' : ~Waiting(w)' /\ Tracked(w)'
    BY <1>2, <1>3, <1>5, <2>7 DEF IInv, Records, Tracked
  <2>10. \A w \in Visits : Waiting(w)' => Tracked(w)'
    BY <1>3, <1>4, <2>7 DEF IInv, Records, Tracked
  <2>. QED
    BY <1>1, <1>3, <1>5, <2>4, <2>5, <2>7, <2>8, <2>9, <2>10
    DEF IInv, Records, Forward, Settled, Tracked
<1>. QED
  BY <1>6, <1>7 DEF Track

LEMMA RecordsPost ==
  ASSUME IInv, NEW n \in Nodes, Post(n)
  PROVE  Records' /\ Forward
<1>1. /\ queue \in [Nodes -> Seq(Visits)] /\ queue[n] \in Seq(Visits)
      /\ queue[n] # << >> /\ visits' = visits
  BY DEF IInv, Records, Post
<1>. DEFINE w == Head(queue[n])
<1>2. /\ Tail(queue[n]) \in Seq(Visits)
      /\ Len(Tail(queue[n])) = Len(queue[n]) - 1
      /\ DOMAIN Tail(queue[n]) = 1..Len(queue[n]) - 1
      /\ DOMAIN queue[n] = 1..Len(queue[n]) /\ Len(queue[n]) \in Nat \ {0}
      /\ \A i \in 1..Len(queue[n]) - 1 : Tail(queue[n])[i] = queue[n][i + 1]
      /\ w = queue[n][1] /\ w \in Visits
  BY <1>1
<1>3. \A m \in Nodes : queue'[m] = IF m = n THEN Tail(queue[n]) ELSE queue[m]
  BY <1>1 DEF Post
<1>4. queue' \in [Nodes -> Seq(Visits)]
  BY <1>1, <1>2 DEF Post
<1>5. Waiting(w)
  BY <1>2 DEF Waiting, In
<1>6. /\ posting' \in [Nodes -> Visits \cup {None}]
      /\ flight' = flight \cup {w} /\ flight' \subseteq Visits
  BY <1>2 DEF IInv, Records, Post
<1>7. \A m \in Nodes : Len(queue'[m]) <= Capacity
  <2>1. \A m \in Nodes : Len(queue[m]) <= Capacity
    BY DEF IInv, Records
  <2>2. Len(Tail(queue[n])) <= Capacity
    BY <1>2, <2>1, ClusterAssumption
  <2>. QED
    BY <1>3, <2>1, <2>2
<1>8. \A m \in Nodes : \A i \in DOMAIN queue'[m] :
        IF m = n THEN i + 1 \in DOMAIN queue[n] /\ queue'[m][i] = queue[n][i + 1]
                      /\ i \in Nat \ {0}
                 ELSE i \in DOMAIN queue[m] /\ queue'[m][i] = queue[m][i]
  <2>1. \A i \in DOMAIN Tail(queue[n]) :
          /\ i + 1 \in DOMAIN queue[n] /\ Tail(queue[n])[i] = queue[n][i + 1]
          /\ i \in Nat \ {0}
    BY <1>2
  <2>. QED
    BY <1>3, <2>1
<1>9. \A k, m \in Nodes : \A i \in DOMAIN queue'[k], j \in DOMAIN queue'[m] :
        queue'[k][i] = queue'[m][j] => k = m /\ i = j
  <2>. SUFFICES ASSUME NEW k \in Nodes, NEW m \in Nodes,
                       NEW i \in DOMAIN queue'[k], NEW j \in DOMAIN queue'[m],
                       queue'[k][i] = queue'[m][j]
                PROVE  k = m /\ i = j
    OBVIOUS
  <2>1. PICK p \in DOMAIN queue[k] :
          queue[k][p] = queue'[k][i] /\ p = IF k = n THEN i + 1 ELSE i
    BY <1>8
  <2>2. PICK q \in DOMAIN queue[m] :
          queue[m][q] = queue'[m][j] /\ q = IF m = n THEN j + 1 ELSE j
    BY <1>8
  <2>3. k = m /\ p = q
    BY <2>1, <2>2 DEF IInv, Records
  <2>. QED
    BY <1>8, <2>1, <2>2, <2>3
<1>10. \A v \in Visits : Waiting(v)' => Waiting(v)
  BY <1>8 DEF Waiting, In
<1>11. ~In(queue', w)
  <2>. SUFFICES ASSUME NEW m \in Nodes, NEW i \in DOMAIN queue'[m], queue'[m][i] = w
                PROVE  FALSE
    BY DEF In
  <2>1. 1 \in DOMAIN queue[n] /\ queue[n][1] = w
    BY <1>2
  <2>2. CASE m = n
    <3>1. i + 1 \in DOMAIN queue[n] /\ queue[n][i + 1] = w /\ i \in Nat \ {0}
      BY <1>8, <2>2
    <3>2. i + 1 = 1
      BY <2>1, <3>1 DEF IInv, Records
    <3>. QED
      BY <3>1, <3>2
  <2>3. CASE m # n
    <3>1. i \in DOMAIN queue[m] /\ queue[m][i] = w
      BY <1>8, <2>3
    <3>. QED
      BY <2>1, <2>3, <3>1 DEF IInv, Records
  <2>. QED
    BY <2>2, <2>3
<1>12. \A v \in flight' : ~Waiting(v)' /\ Tracked(v)'
  <2>1. Tracked(w) /\ \A v \in flight : Tracked(v) /\ ~Waiting(v)
    BY <1>2, <1>5 DEF IInv, Records
  <2>2. \A v \in flight' : v = w \/ v \in flight
    BY <1>6
  <2>3. \A v \in flight' : Tracked(v)
    BY <2>1, <2>2
  <2>4. \A v \in flight' : ~In(queue', v)
    BY <1>6, <1>10, <1>11, <2>1, <2>2 DEF Waiting
  <2>. QED
    BY <1>1, <2>3, <2>4 DEF Waiting, Tracked
<1>13. \A v \in Visits : Waiting(v)' => Tracked(v)'
  BY <1>1, <1>10 DEF IInv, Records, Tracked
<1>14. Forward
  BY <1>1, <1>5, <1>6, <1>10 DEF Forward, Settled, Tracked
<1>. QED
  BY <1>4, <1>6, <1>7, <1>9, <1>12, <1>13, <1>14 DEF Records

LEMMA RecordsFlight ==
  ASSUME IInv, NEW v \in Visits, flight' = flight \ {v},
         UNCHANGED <<visits, queue, posting>>
  PROVE  Records' /\ Forward
BY DEF IInv, Records, Forward, Settled, Waiting, In, Tracked

LEMMA RecordsGiveUp ==
  ASSUME IInv, NEW n \in Nodes, GiveUp(n)
  PROVE  Records' /\ Forward
BY DEF GiveUp, IInv, Records, Forward, Settled, Waiting, In, Tracked

LEMMA RecordsCrash ==
  ASSUME IInv, NEW n \in Nodes, Crash(n)
  PROVE  Records' /\ Forward
<1>1. \A v \in Visits : Tracked(v) => Settled(v) /\ Tracked(v)'
  <2>. SUFFICES ASSUME NEW v \in Visits, Tracked(v) PROVE Settled(v)
    BY DEF Settled
  <2>1. visits[v] \in Visit
    BY DEF IInv, Handlers, Handled
  <2>2. \/ visits'[v] = visits[v]
        \/ /\ visits[v].stage = "page"
           /\ visits'[v] = [visits[v] EXCEPT !.stage = "unanswered"]
    BY DEF Crash, Tracked
  <2>. QED
    BY <2>1, <2>2 DEF Settled, Tracked, Visit
<1>2. \A m \in Nodes : queue'[m] = IF m = n THEN << >> ELSE queue[m]
  BY DEF IInv, Records, Crash
<1>3. queue' \in [Nodes -> Seq(Visits)]
  BY DEF IInv, Records, Crash
<1>4. posting' \in [Nodes -> Visits \cup {None}] /\ flight' = flight
  BY DEF IInv, Records, Crash
<1>5. \A m \in Nodes : Len(queue'[m]) <= Capacity
  BY <1>2, ClusterAssumption DEF IInv, Records
<1>6. \A m \in Nodes : \A i \in DOMAIN queue'[m] :
        i \in DOMAIN queue[m] /\ queue'[m][i] = queue[m][i]
  BY <1>2
<1>7. \A v \in Visits : Waiting(v)' => Waiting(v)
  BY <1>6 DEF Waiting, In
<1>8. \A k, m \in Nodes : \A i \in DOMAIN queue'[k], j \in DOMAIN queue'[m] :
        queue'[k][i] = queue'[m][j] => k = m /\ i = j
  BY <1>6 DEF IInv, Records
<1>9. \A v \in flight' : ~Waiting(v)' /\ Tracked(v)'
  BY <1>1, <1>4, <1>7 DEF IInv, Records
<1>10. \A v \in Visits : Waiting(v)' => Tracked(v)'
  BY <1>1, <1>7 DEF IInv, Records
<1>. QED
  BY <1>1, <1>3, <1>4, <1>5, <1>7, <1>8, <1>9, <1>10 DEF IInv, Records, Forward

LEMMA RecordsPart ==
  ASSUME IInv, [Next]_vars PROVE Records' /\ Forward
<1>1. ASSUME NEW v \in Visits,
             \/ \E n \in Nodes, slug \in Slugs : Arrive(v, n, slug)
             \/ \E now \in Clock : Resolve(v, now)
             \/ Classify(v) \/ Respond(v)
      PROVE  Records' /\ Forward
  <2>1. ~Tracked(v) /\ UNCHANGED <<queue, posting, flight>>
    BY <1>1 DEF Arrive, Resolve, Classify, Respond, Tracked
  <2>2. \E r : visits' = [visits EXCEPT ![v] = r]
    BY <1>1 DEF Arrive, Resolve, Classify, Respond, Advance
  <2>3. \A w \in Visits : Tracked(w) => visits'[w] = visits[w]
    BY <2>1, <2>2 DEF IInv, Handlers, Handled, Visit
  <2>4. \A w \in Visits : Tracked(w) => Settled(w)
    BY <2>3 DEF Settled, Tracked
  <2>. QED
    BY <2>1, <2>4, RecordsIdle
<1>2. ASSUME NEW v \in Visits, Track(v) PROVE Records' /\ Forward
  BY <1>2, RecordsTrack
<1>3. ASSUME NEW v \in Visits, Lose(v) \/ \E at \in Clock : Apply(v, at)
      PROVE  Records' /\ Forward
  BY <1>3, RecordsFlight DEF Lose, Apply
<1>4. ASSUME NEW n \in Nodes, Post(n) PROVE Records' /\ Forward
  BY <1>4, RecordsPost
<1>5. ASSUME NEW n \in Nodes, GiveUp(n) PROVE Records' /\ Forward
  BY <1>5, RecordsGiveUp
<1>6. ASSUME NEW n \in Nodes, Replicate(n) PROVE Records' /\ Forward
  BY <1>6, RecordsIdle DEF Replicate, Settled, Tracked
<1>7. ASSUME NEW n \in Nodes, Crash(n) PROVE Records' /\ Forward
  BY <1>7, RecordsCrash
<1>8. Manage \/ UNCHANGED vars => Records' /\ Forward
  BY RecordsIdle DEF Manage, vars, Settled, Tracked
<1>9. ASSUME NEW v \in Visits, Render(v) PROVE Records' /\ Forward
  <2>1. /\ visits[v] \in Visit /\ visits[v].stage = "page"
        /\ UNCHANGED <<queue, posting, flight>>
    BY <1>9 DEF IInv, Handlers, Handled, Render
  <2>2. \A w \in Visits : visits'[w] = IF w = v
                                      THEN [visits[v] EXCEPT !.stage = "missed"]
                                      ELSE visits[w]
    BY <1>9 DEF IInv, Handlers, Handled, Visit, Render, Advance
  <2>3. \A w \in Visits : Tracked(w) => Settled(w)
    BY <2>1, <2>2 DEF Settled, Tracked, Visit
  <2>. QED
    BY <2>1, <2>3, RecordsIdle
<1>. QED
  BY <1>1, <1>2, <1>3, <1>4, <1>5, <1>6, <1>7, <1>8, <1>9, StepCases
-----------------------------------------------------------------------------
LEMMA InitIInv == Init => IInv
<1>. SUFFICES ASSUME Init PROVE IInv
  OBVIOUS
<1>1. Tables!IInv
  BY TablesInit DEF Init
<1>2. DOMAIN redirects = {} /\ lastId = 0
  BY DEF Init, Store!Init
<1>3. Copies
  BY <1>2 DEF Init, Copies
<1>4. Handlers /\ CreditsFollowedLink
  BY <1>2, ClusterAssumption
  DEF Init, Handlers, Handled, Visit, Stages, CreditsFollowedLink
<1>5. << >> \in Seq(Visits) /\ DOMAIN << >> = {} /\ Len(<< >>) = 0
  OBVIOUS
<1>6. Records
  BY <1>5, ClusterAssumption DEF Init, Records, Waiting, In
<1>. QED
  BY <1>1, <1>3, <1>4, <1>6 DEF IInv

LEMMA NextIInv == IInv /\ [Next]_vars => IInv'
BY TablesPart, CopiesPart, HandlersPart, RecordsPart DEF IInv

THEOREM ActivityInvariant == Spec => []IInv
BY InitIInv, NextIInv, PTL DEF Spec

LEMMA TablesProperties ==
  /\ Tables!TypeOK => Store!TypeOK
  /\ Tables!SlugsUnique => Store!SlugsUnique
  /\ Tables!MissesUnresolved => Store!MissesUnresolved
  /\ Tables!MissRetention => Store!MissRetention
  /\ Tables!UsageConsistent => Store!UsageConsistent
<1>1. Tables!Row = Store!Row /\ Tables!Miss = Store!Miss
  BY DEF Tables!Row, Tables!Instant, Tables!Miss,
         Store!Row, Store!Instant, Store!Miss
<1>2. \A S : Store!Cardinality(S) = Tables!Cardinality(S)
  BY DEF Store!Cardinality, Tables!Cardinality
<1>. QED
  BY <1>1, <1>2 DEF Tables!TypeOK, Store!TypeOK,
              Tables!SlugsUnique, Store!SlugsUnique,
              Tables!MissesUnresolved, Store!MissesUnresolved,
              Tables!MissRetention, Store!MissRetention,
              Tables!UsageConsistent, Store!UsageConsistent

(***************************************************************************)
(* On every node the queue keeps its capacity and every copy lags behind   *)
(* the ids of the primary, whatever crashes, is lost or comes late.        *)
(***************************************************************************)
THEOREM ActivityTypeCorrect == Spec => []TypeOK
<1>1. IInv => TypeOK
  BY TablesProperties
  DEF IInv, Tables!IInv, Copies, Handlers, Handled, Visit, Stages, Records, TypeOK
<1>. QED
  BY <1>1, ActivityInvariant, PTL

(***************************************************************************)
(* A record that arrives late, from however old a copy, is credited to the *)
(* link the visitor followed or to none.                                   *)
(***************************************************************************)
THEOREM ActivityCreditsFollowedLink == Spec => []CreditsFollowedLink
<1>1. IInv => CreditsFollowedLink
  BY DEF IInv
<1>. QED
  BY <1>1, ActivityInvariant, PTL

(***************************************************************************)
(* No slug that has a link is reported missing, whatever stale copies saw. *)
(***************************************************************************)
THEOREM ActivityLateMissesStayOut == Spec => []LateMissesStayOut
<1>1. IInv => LateMissesStayOut
  BY TablesProperties DEF IInv, Tables!IInv, LateMissesStayOut
<1>. QED
  BY <1>1, ActivityInvariant, PTL
-----------------------------------------------------------------------------
(***************************************************************************)
(* Composition: handlers, queues, posts and replicas together use the      *)
(* tables as package db allows, so what RedirectStore says of every one of *)
(* its behaviours holds in the cluster.                                    *)
(***************************************************************************)
THEOREM ActivityImplementsTables == Spec => Store!Spec
<1>1. Init => Store!Init
  BY DEF Init
<1>2. IInv /\ [Next]_vars => [Store!Next]_(Store!vars)
  BY TablesOperation DEF store, Store!vars
<1>. QED
  BY <1>1, <1>2, ActivityInvariant, PTL DEF Spec, Store!Spec

LEMMA TablesSpec == Store!Spec => Tables!Spec
<1>1. Store!Init => Tables!Init
  BY DEF Store!Init, Tables!Init
<1>2. [Store!Next]_(Store!vars) => [Tables!Next]_(Tables!vars)
  BY StoreStep DEF store, Store!vars, Tables!vars
<1>. QED
  BY <1>1, <1>2, PTL DEF Store!Spec, Tables!Spec

(***************************************************************************)
(* The rows of the primary keep their unique slugs and consistent usage,   *)
(* and its missed slugs their bound.                                       *)
(***************************************************************************)
THEOREM ActivityTablesConsistent ==
  Spec => [](Store!SlugsUnique /\ Store!UsageConsistent /\ Store!MissRetention)
<1>1. IInv => Store!SlugsUnique /\ Store!UsageConsistent /\ Store!MissRetention
  BY TablesProperties DEF IInv, Tables!IInv
<1>. QED
  BY <1>1, ActivityInvariant, PTL

(***************************************************************************)
(* Records that arrive late or out of order, of whatever node, never take  *)
(* usage back.                                                             *)
(***************************************************************************)
THEOREM ActivityUsageGrows == Spec => Store!UsageGrows
<1>1. Tables!Spec => Tables!UsageGrows
  BY TablesAssumption, Tables!StoreUsageGrows
<1>2. Tables!UsageGrows => Store!UsageGrows
  BY DEF Tables!UsageGrows, Store!UsageGrows, Tables!JulianDay, Store!JulianDay,
         Tables!vars, Store!vars
<1>. QED
  BY <1>1, <1>2, ActivityImplementsTables, TablesSpec, PTL

(***************************************************************************)
(* A late miss pushes out only a slug missed no later than those that stay.*)
(***************************************************************************)
THEOREM ActivityOnlyOldestPruned == Spec => Store!OnlyOldestPruned
<1>1. Tables!Spec => Tables!OnlyOldestPruned
  BY TablesAssumption, Tables!StoreOnlyOldestPruned
<1>2. Tables!OnlyOldestPruned => Store!OnlyOldestPruned
  BY DEF Tables!OnlyOldestPruned, Store!OnlyOldestPruned, Tables!Later, Store!Later,
         Tables!JulianDay, Store!JulianDay, Tables!vars, Store!vars,
         Tables!Cardinality, Store!Cardinality
<1>. QED
  BY <1>1, <1>2, ActivityImplementsTables, TablesSpec, PTL
-----------------------------------------------------------------------------
(***************************************************************************)
(* Counting.  A visit is spent once its record is neither queued nor under *)
(* way; every click and every miss that was recorded has a spent visit of  *)
(* its own.  Imports bring clicks of their own unless they are fresh.      *)
(***************************************************************************)
NoImportedUsage ==
  \A batch \in Batches : \A i \in DOMAIN batch : batch[i].clicks = 0

Spent(v) == Tracked(v) /\ ~Waiting(v) /\ v \notin flight

Credited(id) ==
  {v \in Visits : Spent(v) /\ visits[v].id = id /\ visits[v].stage = "redirected"}

Reported(slug) ==
  {v \in Visits : /\ Spent(v) /\ visits[v].stage \in TrackedMiss
                  /\ Fold[visits[v].slug] = slug}

Begun == {v \in Visits : visits[v].stage # "idle"}

Counts ==
  /\ IsFiniteSet(Begun)
  /\ \A id \in DOMAIN redirects :
       redirects[id].clicks <= Cardinality(Credited(id))
  /\ \A slug \in DOMAIN misses :
       misses[slug].count <= Cardinality(Reported(slug))

LEMMA BegunPart ==
  ASSUME IInv, IsFiniteSet(Begun), [Next]_vars PROVE IsFiniteSet(Begun)'
<1>1. ASSUME NEW v, Begun' \subseteq Begun \cup {v} PROVE IsFiniteSet(Begun)'
  <2>1. IsFiniteSet(Begun \cup {v})
    BY FS_AddElement
  <2>. QED
    BY <1>1, <2>1, FS_Subset
<1>2. ASSUME NEW v \in Visits,
             \/ \E n \in Nodes, slug \in Slugs : Arrive(v, n, slug)
             \/ \E now \in Clock : Resolve(v, now)
             \/ Classify(v) \/ Respond(v) \/ Track(v) \/ Render(v) \/ Lose(v)
             \/ \E at \in Clock : Apply(v, at)
      PROVE  IsFiniteSet(Begun)'
  <2>1. visits' = visits \/ \E r : visits' = [visits EXCEPT ![v] = r]
    BY <1>2 DEF Arrive, Resolve, Classify, Respond, Advance, Track, Render, Lose, Apply
  <2>2. Begun' \subseteq Begun \cup {v}
    BY <2>1 DEF Begun, IInv, Handlers, Handled, Visit
  <2>. QED
    BY <1>1, <2>2
<1>3. ASSUME NEW n \in Nodes, Crash(n) PROVE IsFiniteSet(Begun)'
  <2>1. Begun' \subseteq Begun
    BY <1>3 DEF Begun, Crash
  <2>. QED
    BY <2>1, FS_Subset
<1>4. ASSUME NEW n \in Nodes, Post(n) \/ GiveUp(n) \/ Replicate(n)
      PROVE  visits' = visits
  BY <1>4 DEF Post, GiveUp, Replicate
<1>5. Manage \/ UNCHANGED vars => visits' = visits
  BY DEF Manage, vars
<1>6. CASE visits' = visits
  <2>1. Begun' = Begun
    BY <1>6 DEF Begun
  <2>. QED
    BY <2>1
<1>. QED
  BY <1>2, <1>3, <1>4, <1>5, <1>6, StepCases

LEMMA SpentGrows ==
  ASSUME Forward, IsFiniteSet(Begun)'
  PROVE  /\ \A id : /\ IsFiniteSet(Credited(id)) /\ IsFiniteSet(Credited(id)')
                    /\ Credited(id) \subseteq Credited(id)'
         /\ \A slug : /\ IsFiniteSet(Reported(slug)) /\ IsFiniteSet(Reported(slug)')
                      /\ Reported(slug) \subseteq Reported(slug)'
<1>1. \A v \in Visits : Spent(v) => Spent(v)' /\ Settled(v)
  BY DEF Forward, Settled, Spent
<1>1a. \A v \in Visits : /\ Spent(v) => visits[v].stage # "idle"
                         /\ Spent(v)' => visits'[v].stage # "idle"
  BY DEF Spent, Tracked
<1>2. \A id : Credited(id) \subseteq Credited(id)' /\ Credited(id)' \subseteq Begun'
  BY <1>1, <1>1a DEF Credited, Settled, Begun
<1>3. \A slug : /\ Reported(slug) \subseteq Reported(slug)'
                /\ Reported(slug)' \subseteq Begun'
  <2>. SUFFICES ASSUME NEW slug
                PROVE  /\ Reported(slug) \subseteq Reported(slug)'
                       /\ Reported(slug)' \subseteq Begun'
    OBVIOUS
  <2>1. ASSUME NEW v \in Reported(slug) PROVE v \in Reported(slug)'
    <3>1. /\ v \in Visits /\ Spent(v) /\ visits[v].stage \in TrackedMiss
          /\ Fold[visits[v].slug] = slug
      BY <2>1 DEF Reported
    <3>2. Spent(v)' /\ visits'[v].slug = visits[v].slug
      BY <1>1, <3>1 DEF Settled
    <3>3. visits'[v].stage \in TrackedMiss
      BY <1>1, <3>1 DEF Settled, Spent, Tracked
    <3>. QED
      BY <3>1, <3>2, <3>3 DEF Reported
  <2>2. Reported(slug)' \subseteq Begun'
    BY <1>1a DEF Reported, Begun
  <2>. QED
    BY <2>1, <2>2
<1>. QED
  BY <1>2, <1>3, FS_Subset

(***************************************************************************)
(* The owner's operations bring no clicks and no misses.                   *)
(***************************************************************************)
Frugal ==
  /\ \A id \in DOMAIN redirects' :
       redirects'[id].clicks =
         IF id \in DOMAIN redirects THEN redirects[id].clicks ELSE 0
  /\ \A slug \in DOMAIN misses' :
       slug \in DOMAIN misses /\ misses'[slug] = misses[slug]

LEMMA RewriteFrugal ==
  ASSUME NEW matches, Store!Rewrite(matches),
         \A id \in DOMAIN redirects : id \in DOMAIN matches =>
           matches[id].clicks = redirects[id].clicks
  PROVE  Frugal
BY DEF Store!Rewrite, Frugal

LEMMA ManageFrugal ==
  ASSUME Tables!IInv, Store!Manage PROVE Frugal
<1>1. PICK slug \in Slugs :
        \/ \E url \in URLs : Store!UpdateRedirect(slug, url)
        \/ Store!DisableRedirect(slug)
        \/ Store!EnableRedirect(slug)
        \/ \E expires \in Expirations \cup {None} :
             Store!SetRedirectExpiration(slug, expires)
        \/ Store!DeleteRedirect(slug)
  BY DEF Store!Manage
<1>2. \A id \in DOMAIN redirects :
        /\ \A x : [redirects[id] EXCEPT !.url = x].clicks = redirects[id].clicks
        /\ \A x : [redirects[id] EXCEPT !.disabled = x].clicks = redirects[id].clicks
        /\ \A x : [redirects[id] EXCEPT !.expires = x].clicks = redirects[id].clicks
  BY TablesType DEF Tables!Row
<1>3. ASSUME NEW url \in URLs, Store!UpdateRedirect(slug, url) PROVE Frugal
  BY <1>2, <1>3, RewriteFrugal DEF Store!UpdateRedirect
<1>4. CASE Store!DisableRedirect(slug)
  BY <1>2, <1>4, RewriteFrugal DEF Store!DisableRedirect
<1>5. CASE Store!EnableRedirect(slug)
  BY <1>2, <1>5, RewriteFrugal DEF Store!EnableRedirect
<1>6. ASSUME NEW expires \in Expirations \cup {None},
             Store!SetRedirectExpiration(slug, expires)
      PROVE  Frugal
  BY <1>2, <1>6, RewriteFrugal DEF Store!SetRedirectExpiration
<1>7. CASE Store!DeleteRedirect(slug)
  BY <1>7 DEF Store!DeleteRedirect, Frugal
<1>. QED
  BY <1>1, <1>3, <1>4, <1>5, <1>6, <1>7

LEMMA CreateFrugal ==
  ASSUME Tables!IInv, Store!Create PROVE Frugal
<1>1. PICK slug \in Canonical, url \in URLs, expires \in Expirations \cup {None} :
        Store!CreateRedirect(slug, url, expires)
  BY DEF Store!Create
<1>2. lastId + 1 \notin DOMAIN redirects
  BY TablesType
<1>. QED
  BY <1>1, <1>2
  DEF Store!CreateRedirect, Store!NewRow, Store!WithoutMisses, Frugal

LEMMA ImportFrugal ==
  ASSUME Tables!IInv, NoImportedUsage, Store!Import PROVE Frugal
<1>1. PICK batch \in Batches : Store!ImportRedirects(batch)
  BY DEF Store!Import
<1>2. batch \in Seq(Tables!ImportRow)
  BY TablesAssumption DEF Tables!BatchAssumption
<1>3. Len(batch) \in Nat /\ DOMAIN batch = 1..Len(batch)
  BY <1>2
<1>4. \A id \in lastId + 1 .. lastId + Len(batch) :
        id \notin DOMAIN redirects /\ batch[id - lastId].clicks = 0
  BY <1>3, TablesType DEF NoImportedUsage
<1>. QED
  BY <1>1, <1>4 DEF Store!ImportRedirects, Store!WithoutMisses, Frugal

LEMMA Enough ==
  ASSUME NEW S, NEW T, IsFiniteSet(T), S \subseteq T, NEW n \in Nat,
         n <= Cardinality(S)
  PROVE  /\ n <= Cardinality(T)
         /\ \A x \in T \ S : n + 1 <= Cardinality(T)
<1>1. IsFiniteSet(S) /\ Cardinality(S) <= Cardinality(T)
  BY FS_Subset
<1>2. Cardinality(S) \in Nat /\ Cardinality(T) \in Nat
  BY <1>1, FS_CardinalityType
<1>3. ASSUME NEW x \in T \ S PROVE Cardinality(S) + 1 <= Cardinality(T)
  <2>1. Cardinality(S \cup {x}) = Cardinality(S) + 1
    BY <1>1, <1>3, FS_AddElement
  <2>2. Cardinality(S \cup {x}) <= Cardinality(T)
    BY <1>3, FS_Subset
  <2>. QED
    BY <2>1, <2>2
<1>. QED
  BY <1>1, <1>2, <1>3

LEMMA CountersType ==
  ASSUME Tables!IInv
  PROVE  /\ \A id \in DOMAIN redirects : redirects[id].clicks \in Nat
         /\ \A slug \in DOMAIN misses : misses[slug].count \in Nat
<1>1. 0..MaxCount \subseteq Nat /\ 1..MaxCount \subseteq Nat
  BY TablesAssumption DEF Tables!BoundAssumption
<1>. QED
  BY <1>1, TablesType DEF Tables!IInv, Tables!TypeOK, Tables!Row, Tables!Miss

LEMMA CountsKept ==
  ASSUME Tables!IInv, Counts, Forward, Frugal, IsFiniteSet(Begun)'
  PROVE  Counts'
<1>1. ASSUME NEW id \in DOMAIN redirects'
      PROVE  redirects'[id].clicks <= Cardinality(Credited(id)')
  <2>1. CASE id \in DOMAIN redirects
    BY <1>1, <2>1, SpentGrows, Enough, CountersType DEF Counts, Frugal
  <2>2. CASE id \notin DOMAIN redirects
    <3>1. Cardinality(Credited(id)') \in Nat
      BY SpentGrows, FS_CardinalityType
    <3>. QED
      BY <1>1, <2>2, <3>1 DEF Frugal
  <2>. QED
    BY <2>1, <2>2
<1>2. ASSUME NEW slug \in DOMAIN misses'
      PROVE  misses'[slug].count <= Cardinality(Reported(slug)')
  BY <1>2, SpentGrows, Enough, CountersType DEF Counts, Frugal
<1>. QED
  BY <1>1, <1>2 DEF Counts

(***************************************************************************)
(* An access that is recorded spends its own visit.                        *)
(***************************************************************************)
LEMMA AccessCounted ==
  ASSUME IInv, Counts, Forward, IsFiniteSet(Begun)',
         NEW v \in Visits, NEW at \in Clock, Apply(v, at),
         visits[v].id # None, Store!RecordRedirectAccess(visits[v].id, at)
  PROVE  Counts'
<1>1. v \in flight /\ visits[v].stage = "redirected" /\ visits'[v] = visits[v]
  BY DEF IInv, Records, Handlers, Handled, Visit, Tracked, Apply
<1>2. v \notin flight' /\ ~Waiting(v)'
  BY <1>1 DEF IInv, Records, Waiting, Apply
<1>3. /\ misses' = misses /\ DOMAIN redirects' = DOMAIN redirects
      /\ \A id \in DOMAIN redirects : id # visits[v].id =>
           redirects'[id] = redirects[id]
      /\ visits[v].id \in DOMAIN redirects =>
           redirects'[visits[v].id] = Store!Accessed(redirects[visits[v].id], at)
  BY DEF Store!RecordRedirectAccess
<1>4. ASSUME NEW id \in DOMAIN redirects
      PROVE  redirects'[id].clicks <= Cardinality(Credited(id)')
  <2>1. /\ redirects[id].clicks \in Nat
        /\ redirects[id].clicks <= Cardinality(Credited(id))
    BY CountersType DEF IInv, Counts
  <2>2. CASE id # visits[v].id
    BY <1>3, <2>1, <2>2, SpentGrows, Enough
  <2>3. CASE id = visits[v].id
    <3>1. v \in Credited(id)' \ Credited(id)
      BY <1>1, <1>2, <2>3 DEF Credited, Spent, Tracked
    <3>2. redirects[id].clicks + 1 <= Cardinality(Credited(id)')
      BY <2>1, <3>1, SpentGrows, Enough
    <3>3. redirects'[id].clicks = Store!Increment(redirects[id].clicks)
      BY <1>3, <2>3, TablesType DEF IInv, Tables!Row, Store!Accessed
    <3>4. Cardinality(Credited(id)') \in Nat
      BY SpentGrows, FS_CardinalityType
    <3>. QED
      BY <2>1, <3>2, <3>3, <3>4 DEF Store!Increment
  <2>. QED
    BY <2>2, <2>3
<1>5. ASSUME NEW slug \in DOMAIN misses
      PROVE  misses[slug].count <= Cardinality(Reported(slug)')
  BY SpentGrows, Enough, CountersType DEF IInv, Counts
<1>. QED
  BY <1>3, <1>4, <1>5 DEF Counts

(***************************************************************************)
(* So does a miss; pruning only forgets.                                   *)
(***************************************************************************)
LEMMA MissCounted ==
  ASSUME IInv, Counts, Forward, IsFiniteSet(Begun)',
         NEW v \in Visits, NEW at \in Clock, Apply(v, at),
         visits[v].id = None, Store!RecordSlugMiss(Fold[visits[v].slug], at)
  PROVE  Counts'
<1>. DEFINE missed == Fold[visits[v].slug]
<1>1. v \in flight /\ visits[v].stage \in TrackedMiss /\ visits'[v] = visits[v]
  BY DEF IInv, Records, Handlers, Handled, Visit, Tracked, Apply
<1>2. v \notin flight' /\ ~Waiting(v)'
  BY <1>1 DEF IInv, Records, Waiting, Apply
<1>3. /\ redirects' = redirects
      /\ \A slug \in DOMAIN misses' :
           \/ slug \in DOMAIN misses /\ misses'[slug] = misses[slug]
           \/ /\ slug = missed /\ slug \in DOMAIN misses
              /\ misses'[slug].count = Store!Increment(misses[slug].count)
           \/ slug = missed /\ misses'[slug].count = 1
  <2>. DEFINE table == IF Store!Rows(redirects, missed) = {}
                       THEN Store!WithMiss(missed, at) ELSE misses
  <2>1. redirects' = redirects /\ misses' = Store!Prune(table)
    BY DEF Store!RecordSlugMiss
  <2>2. \A slug \in DOMAIN misses' : slug \in DOMAIN table /\ misses'[slug] = table[slug]
    BY <2>1 DEF Store!Prune, Store!Kept
  <2>3. \A slug \in DOMAIN table :
           \/ slug \in DOMAIN misses /\ table[slug] = misses[slug]
           \/ /\ slug = missed /\ slug \in DOMAIN misses
              /\ table[slug].count = Store!Increment(misses[slug].count)
           \/ slug = missed /\ table[slug].count = 1
    BY DEF Store!WithMiss, Store!Missed
  <2>. HIDE DEF table
  <2>. QED
    BY <2>1, <2>2, <2>3
<1>4. ASSUME NEW id \in DOMAIN redirects
      PROVE  redirects[id].clicks <= Cardinality(Credited(id)')
  BY SpentGrows, Enough, CountersType DEF IInv, Counts
<1>5. ASSUME NEW slug \in DOMAIN misses'
      PROVE  misses'[slug].count <= Cardinality(Reported(slug)')
  <2>0. Cardinality(Reported(slug)') \in Nat
    BY SpentGrows, FS_CardinalityType
  <2>1. slug = missed => v \in Reported(slug)' \ Reported(slug)
    BY <1>1, <1>2 DEF Reported, Spent, Tracked
  <2>2. CASE slug \in DOMAIN misses /\ misses'[slug] = misses[slug]
    BY <2>2, SpentGrows, Enough, CountersType DEF IInv, Counts
  <2>3. CASE /\ slug = missed /\ slug \in DOMAIN misses
             /\ misses'[slug].count = Store!Increment(misses[slug].count)
    <3>1. /\ misses[slug].count \in Nat
          /\ misses[slug].count <= Cardinality(Reported(slug))
      BY <2>3, CountersType DEF IInv, Counts
    <3>2. misses[slug].count + 1 <= Cardinality(Reported(slug)')
      BY <2>1, <2>3, <3>1, SpentGrows, Enough
    <3>. QED
      BY <2>0, <2>3, <3>1, <3>2 DEF Store!Increment
  <2>4. CASE slug = missed /\ misses'[slug].count = 1
    <3>1. Cardinality(Reported(slug)') # 0
      BY <2>1, <2>4, SpentGrows, FS_EmptySet
    <3>. QED
      BY <2>0, <2>4, <3>1
  <2>. QED
    BY <1>3, <2>2, <2>3, <2>4
<1>. QED
  BY <1>3, <1>4, <1>5 DEF Counts

LEMMA CountsPart ==
  ASSUME NoImportedUsage, IInv, Counts, [Next]_vars PROVE Counts'
<1>1. Forward /\ IsFiniteSet(Begun)'
  BY RecordsPart, BegunPart DEF Counts
<1>2. Tables!IInv
  BY DEF IInv
<1>3. CASE UNCHANGED <<redirects, misses>>
  <2>1. Frugal
    BY <1>3 DEF Frugal
  <2>. QED
    BY <1>1, <1>2, <2>1, CountsKept
<1>4. CASE Manage
  <2>1. Frugal
    BY <1>2, <1>4, CreateFrugal, ManageFrugal, ImportFrugal DEF Manage
  <2>. QED
    BY <1>1, <1>2, <2>1, CountsKept
<1>5. ASSUME NEW v \in Visits, NEW at \in Clock, Apply(v, at) PROVE Counts'
  <2>1. CASE UNCHANGED store
    BY <1>3, <2>1 DEF store
  <2>2. CASE visits[v].id # None /\ Store!RecordRedirectAccess(visits[v].id, at)
    BY <1>1, <1>5, <2>2, AccessCounted
  <2>3. CASE visits[v].id = None /\ Store!RecordSlugMiss(Fold[visits[v].slug], at)
    BY <1>1, <1>5, <2>3, MissCounted
  <2>. QED
    BY <1>5, <2>1, <2>2, <2>3 DEF Apply
<1>6. ASSUME NEW v \in Visits, NEW n \in Nodes, NEW slug \in Slugs,
             Arrive(v, n, slug)
      PROVE  UNCHANGED <<redirects, misses>>
  BY <1>6 DEF Arrive, store
<1>7. ASSUME NEW v \in Visits, NEW now \in Clock, Resolve(v, now)
      PROVE  UNCHANGED <<redirects, misses>>
  BY <1>7 DEF Resolve, store
<1>8. ASSUME NEW v \in Visits,
             Classify(v) \/ Respond(v) \/ Track(v) \/ Render(v) \/ Lose(v)
      PROVE  UNCHANGED <<redirects, misses>>
  BY <1>8 DEF Classify, Respond, Track, Render, Advance, Lose, store
<1>9. ASSUME NEW n \in Nodes, Post(n) \/ GiveUp(n) \/ Replicate(n) \/ Crash(n)
      PROVE  UNCHANGED <<redirects, misses>>
  BY <1>9 DEF Post, GiveUp, Replicate, Crash, store
<1>10. CASE UNCHANGED vars
  BY <1>3, <1>10 DEF vars
<1>. QED
  BY <1>3, <1>4, <1>5, <1>6, <1>7, <1>8, <1>9, <1>10, StepCases

(***************************************************************************)
(* Where imports bring no usage, no link has more clicks than redirects    *)
(* that were sent for it and no slug more misses than visits that missed.  *)
(***************************************************************************)
THEOREM ActivityNeverOvercounts ==
  ASSUME NoImportedUsage PROVE Spec => []NeverOvercounts
<1>1. Init => Counts
  <2>1. ASSUME Init PROVE Begun = {}
    BY <2>1 DEF Init, Begun
  <2>. QED
    BY <2>1, FS_EmptySet DEF Init, Store!Init, Counts
<1>2. IInv /\ Counts /\ [Next]_vars => Counts'
  BY CountsPart
<1>3. IInv /\ Counts => NeverOvercounts
  <2>. SUFFICES ASSUME IInv, Counts PROVE NeverOvercounts
    OBVIOUS
  <2>1. \A id : Credited(id) \subseteq Redirected(id) /\ Redirected(id) \subseteq Begun
    BY DEF Credited, Redirected, Begun
  <2>2. \A slug : Reported(slug) \subseteq Missed(slug) /\ Missed(slug) \subseteq Begun
    BY DEF Reported, Missed, Begun
  <2>3. ASSUME NEW id \in DOMAIN redirects
        PROVE  redirects[id].clicks <= Cardinality(Redirected(id))
    <3>1. IsFiniteSet(Redirected(id))
      BY <2>1, FS_Subset DEF Counts
    <3>. QED
      BY <2>1, <3>1, Enough, CountersType DEF IInv, Counts
  <2>4. ASSUME NEW slug \in DOMAIN misses
        PROVE  misses[slug].count <= Cardinality(Missed(slug))
    <3>1. IsFiniteSet(Missed(slug))
      BY <2>2, FS_Subset DEF Counts
    <3>. QED
      BY <2>2, <3>1, Enough, CountersType DEF IInv, Counts
  <2>. QED
    BY <2>3, <2>4 DEF NeverOvercounts
<1>. QED
  BY <1>1, <1>2, <1>3, ActivityInvariant, PTL DEF Spec
=============================================================================
