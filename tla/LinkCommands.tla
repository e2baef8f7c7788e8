---------------------------- MODULE LinkCommands ----------------------------
(***************************************************************************)
(* What the management commands promise their owner, whatever happens to   *)
(* the requests behind them: a command takes effect at most once and at    *)
(* one moment, and the way it ends says what is known of that.             *)
(*                                                                         *)
(*   ok       it took effect, with the result that is shown (exit 0)       *)
(*   refused  it did not and will not: the server said no (exit 1)         *)
(*   unsent   it did not and will not: nothing was sent (exit 1 or 2)      *)
(*   unknown  it may have, or may still, take effect (exit 1)              *)
(*                                                                         *)
(* A dry run is the exception: it never takes effect, and ends as it may.  *)
(***************************************************************************)
EXTENDS SlugRules, Integers, FiniteSets

CONSTANTS
  Commands,  \* invocations of the command line client
  Jobs,      \* what an invocation may be asked to do
  Rank, URLs, Clock, Expirations, LastInstant, Resolution,
  MaxCount, MaxId, MaxMisses, Batches, None  \* see RedirectStore

VARIABLES
  redirects, lastId, misses,  \* the tables
  job,                        \* command -> its job, or None
  taken,                      \* the commands that have taken effect
  result,                     \* command -> the rows its result shows
  end                         \* command -> "idle", "asking", "running" or its end

vars == <<redirects, lastId, misses, job, taken, result, end>>

Store == INSTANCE RedirectStore
           WITH Slugs <- Words, Canonical <- CanonicalSlugs,
                Fold <- [word \in Words |-> NoCase(word)]

\* A job that deletes a link has to be confirmed, unless it is forced.
MustAsk(j) == j.name = "delete" /\ ~j.force

DryRun(j) == j.name = "import" /\ ~j.apply

SlugsOf(j) ==
  IF j.slug = None THEN Generated ELSE {NoCase(j.slug)} \cap CanonicalSlugs

All(rows) == {rows[id] : id \in DOMAIN rows}

Holders(slug) == Store!Rows(redirects, slug)

At(rows, slug) == {rows[id] : id \in Store!Rows(rows, slug)}

Show(c, rows) == result' = [result EXCEPT ![c] = rows]

(***************************************************************************)
(* The one statement or transaction a job stands for, and what is shown.   *)
(***************************************************************************)
Create(c, slug) ==
  /\ job[c].name = "create"
  /\ Store!CreateRedirect(slug, job[c].url, job[c].expires)
  /\ Show(c, At(redirects', slug))

Change(c) ==
  /\ \/ job[c].name = "update" /\ Store!UpdateRedirect(job[c].slug, job[c].url)
     \/ job[c].name = "disable" /\ Store!DisableRedirect(job[c].slug)
     \/ /\ job[c].name = "expire"
        /\ Store!SetRedirectExpiration(job[c].slug, job[c].expires)
     \/ job[c].name = "delete" /\ Store!DeleteRedirect(job[c].slug)
  /\ Show(c, At(redirects', job[c].slug))

Import(c) ==
  /\ job[c].name = "import" /\ job[c].apply
  /\ Store!ImportRedirects(job[c].batch)
  /\ Show(c, {})

Inspect(c) ==
  /\ \/ job[c].name \in {"list", "export"} /\ Show(c, All(redirects))
     \/ /\ job[c].name = "get"
        /\ Holders(job[c].slug) # {}
        /\ Show(c, At(redirects, job[c].slug))
  /\ UNCHANGED <<redirects, lastId, misses>>

Statement(c) ==
  \/ \E slug \in SlugsOf(job[c]) : Create(c, slug)
  \/ Change(c)
  \/ Import(c)
  \/ Inspect(c)
-----------------------------------------------------------------------------
Init ==
  /\ \E batch \in Batches :
       /\ redirects = [id \in DOMAIN batch |-> batch[id]]
       /\ lastId = Len(batch)
  /\ misses = [s \in {} |-> None]
  /\ job = [c \in Commands |-> None]
  /\ taken = {}
  /\ result = [c \in Commands |-> {}]
  /\ end = [c \in Commands |-> "idle"]

Issue(c) ==
  /\ end[c] = "idle"
  /\ \E j \in Jobs :
       /\ job' = [job EXCEPT ![c] = j]
       /\ \E to \in {"unsent", IF MustAsk(j) THEN "asking" ELSE "running"} :
            end' = [end EXCEPT ![c] = to]
  /\ UNCHANGED <<redirects, lastId, misses, taken, result>>

Confirm(c) ==
  /\ end[c] = "asking"
  /\ end' = [end EXCEPT ![c] = "running"]
  /\ UNCHANGED <<redirects, lastId, misses, job, taken, result>>

TakeEffect(c) ==
  /\ end[c] \in {"running", "unknown"}
  /\ c \notin taken
  /\ Statement(c)
  /\ taken' = taken \cup {c}
  /\ UNCHANGED <<job, end>>

Finish(c) ==
  /\ end[c] \in {"asking", "running"}
  /\ \E how \in {"ok", "refused", "unsent", "unknown"} :
       /\ how = "ok" => c \in taken \/ DryRun(job[c])
       /\ how \in {"refused", "unsent"} => c \notin taken
       /\ end' = [end EXCEPT ![c] = how]
  /\ UNCHANGED <<redirects, lastId, misses, job, taken, result>>

Next == \E c \in Commands : Issue(c) \/ Confirm(c) \/ TakeEffect(c) \/ Finish(c)

Spec == Init /\ [][Next]_vars
=============================================================================
