----------------------------- MODULE Management -----------------------------
(***************************************************************************)
(* The management commands as the programs carry them out: the command     *)
(* line client (cmd/gottem) asks, sends one request and judges its answer; *)
(* the server (handlers/management.go, handlers/auth.go) authorizes,       *)
(* validates and runs the statement, a request for a generated slug up to  *)
(* maxGeneratedSlugAttempts times, a dry run slug by slug.  Requests and   *)
(* answers may be lost, and the client may stop waiting at any moment.     *)
(*                                                                         *)
(* Of a status only what the client compares is kept: the expected one     *)
(* ("success"), one of the others below 500 ("refused") or above ("error").*)
(***************************************************************************)
EXTENDS SlugRules, Integers, FiniteSets

CONSTANTS
  Commands,                  \* invocations of the client
  Jobs,                      \* their arguments and environment
  Tokens,                    \* values of the two token variables
  Destinations,              \* what ValidateDestination accepts
  MaxGeneratedSlugAttempts,
  Rank, URLs, Clock, Expirations, LastInstant, Resolution,
  MaxCount, MaxId, MaxMisses, Batches, None  \* see RedirectStore

(***************************************************************************)
(* The rows of an import have passed backup.Decode and nothing else: their *)
(* slugs are any words but the empty one, legacy ones and capitals         *)
(* included, their destinations were never validated, no two slugs are     *)
(* equal under NOCASE, and usage is whole.  The first tables are such rows *)
(* as well.  A generated slug is seven plain characters, longer than a     *)
(* reserved one; parseCommand insists on the slug that a command is about. *)
(***************************************************************************)
ASSUME CommandAssumption ==
  /\ MaxGeneratedSlugAttempts \in Nat
  /\ Generated \subseteq CanonicalSlugs
  /\ Destinations \subseteq URLs
  /\ Batches \subseteq Seq([slug : Words \ {<< >>}, url : URLs, disabled : BOOLEAN,
                           expires : Expirations \cup {None}, clicks : 0..MaxCount,
                           last : Expirations \cup Clock \cup {None}])
  /\ \A batch \in Batches :
       /\ Len(batch) <= MaxId
       /\ \A i \in DOMAIN batch : batch[i].clicks = 0 <=> batch[i].last = None
       /\ \A i, j \in DOMAIN batch :
            NoCase(batch[i].slug) = NoCase(batch[j].slug) => i = j
  /\ \A j \in Jobs :
       /\ j.batch \in Batches /\ j.slug \in Words \cup {None}
       /\ j.slug = None => j.name \in {"create", "list", "export", "import"}

VARIABLES
  redirects, lastId, misses,  \* the tables
  tokens,    \* the server's configuration: its two tokens, None if unset
  job,       \* command -> its job, or None
  client,    \* command -> where the client is
  request,   \* command -> "none", "sent", "trying", "checking", "answered"
  progress,  \* command -> attempts made, or rows of the dry run checked
  conflict,  \* command -> the dry run has found a conflict
  status,    \* command -> the status of the answer
  result     \* command -> the rows in the answer

tables == <<redirects, lastId, misses>>

server == <<request, progress, conflict, status, result>>

vars == <<tables, tokens, job, client, server>>

DryRun(j) == j.name = "import" /\ ~j.apply

Effective == {c \in Commands : status[c] = "success" /\ ~DryRun(job[c])}

Promise == INSTANCE LinkCommands
  WITH taken <- Effective,
       end <- [c \in Commands |-> IF client[c] \in {"ready", "waiting"}
                                  THEN "running" ELSE client[c]]

ASSUME TableAssumption ==
  /\ IsFiniteSet(CanonicalSlugs)
  /\ Rank \in [CanonicalSlugs -> Nat]
  /\ \A s, t \in CanonicalSlugs : Rank[s] = Rank[t] => s = t
  /\ Promise!Store!TimeAssumption
  /\ Promise!Store!BoundAssumption
-----------------------------------------------------------------------------
\* Mutant of ParseConfig: one token for everything.
ParseConfigLoosely(t) == TRUE

\* The start is refused if the two tokens are one.
ParseConfig(t) == t.management = None \/ t.management # t.backup

Init ==
  /\ \E batch \in Batches :
       /\ redirects = [id \in DOMAIN batch |-> batch[id]]
       /\ lastId = Len(batch)
  /\ misses = [s \in {} |-> None]
  /\ tokens \in {t \in [management : Tokens \cup {None},
                        backup : Tokens \cup {None}] : ParseConfig(t)}
  /\ job = [c \in Commands |-> None]
  /\ client = [c \in Commands |-> "idle"]
  /\ request = [c \in Commands |-> "none"]
  /\ progress = [c \in Commands |-> 0]
  /\ conflict = [c \in Commands |-> FALSE]
  /\ status = [c \in Commands |-> "none"]
  /\ result = [c \in Commands |-> {}]

Moves(c, from, to) == client[c] = from /\ client' = [client EXCEPT ![c] = to]

(***************************************************************************)
(* The client: parseCommand and run.  Wrong arguments, an empty slug, a    *)
(* bad base URL or a missing token end it before anything is sent.         *)
(***************************************************************************)
Parse(c) ==
  /\ \E j \in Jobs :
       /\ job' = [job EXCEPT ![c] = j]
       /\ \/ Moves(c, "idle", "unsent")
          \/ /\ j.slug # << >> /\ j.token # None
             /\ Moves(c, "idle", IF j.name = "delete" /\ ~j.force
                                 THEN "asking" ELSE "ready")
  /\ UNCHANGED <<tables, tokens, server>>

Confirm(c) ==
  /\ Moves(c, "asking", "ready")
  /\ UNCHANGED <<tables, tokens, job, server>>

\* No, an unreadable answer or no terminal to ask on.
Cancel(c) ==
  /\ Moves(c, "asking", "unsent")
  /\ UNCHANGED <<tables, tokens, job, server>>

\* The file of an import cannot be opened or decoded.
ReadFails(c) ==
  /\ client[c] = "ready" /\ job[c].name = "import"
  /\ Moves(c, "ready", "unsent")
  /\ UNCHANGED <<tables, tokens, job, server>>

Send(c) ==
  /\ Moves(c, "ready", "waiting")
  /\ request' = [request EXCEPT ![c] = "sent"]
  /\ UNCHANGED <<tables, tokens, job, progress, conflict, status, result>>

\* Mutant of Receive: the status of the answer is not compared.
ReceiveAny(c) ==
  /\ request[c] = "answered"
  /\ Moves(c, "waiting", "ok")
  /\ UNCHANGED <<tables, tokens, job, server>>

Receive(c) ==
  /\ request[c] = "answered"
  /\ Moves(c, "waiting", CASE status[c] = "success" -> "ok"
                           [] status[c] = "refused" -> "refused"
                           [] OTHER -> "unknown")
  /\ UNCHANGED <<tables, tokens, job, server>>

(***************************************************************************)
(* No answer within defaultHTTPTimeout, a broken or oversized one, or the  *)
(* output of a result fails.                                               *)
(***************************************************************************)
GiveUp(c) ==
  /\ Moves(c, "waiting", "unknown")
  /\ UNCHANGED <<tables, tokens, job, server>>

Lose(c) ==
  /\ request[c] = "sent"
  /\ request' = [request EXCEPT ![c] = "none"]
  /\ UNCHANGED <<tables, tokens, job, client, progress, conflict, status, result>>
-----------------------------------------------------------------------------
(***************************************************************************)
(* The server: the export takes either token, everything else only the     *)
(* token for management, without which the routes do not exist.            *)
(***************************************************************************)
Authorized(j) ==
  j.token \in (IF j.name = "export" THEN {tokens.management, tokens.backup}
                                    ELSE {tokens.management}) \ {None}

ValidRequest(j) ==
  /\ j.name \in {"create", "update"} => j.url \in Destinations
  /\ j.name \in {"create", "expire"} => j.expires \in Expirations \cup {None}
  /\ j.name = "create" /\ j.slug # None => ValidSlug(j.slug)

GeneratesSlug(j) == j.name = "create" /\ j.slug = None

Accepted(c) ==
  request[c] = "sent" /\ Authorized(job[c]) /\ ValidRequest(job[c])

Answer(c, code) ==
  /\ request' = [request EXCEPT ![c] = "answered"]
  /\ status' = [status EXCEPT ![c] = code]

AnswerOnly(c, code) ==
  /\ Answer(c, code)
  /\ UNCHANGED <<tables, tokens, job, client, progress, conflict, result>>

RefuseRequest(c) ==
  /\ request[c] = "sent"
  /\ ~(Authorized(job[c]) /\ ValidRequest(job[c]))
  /\ AnswerOnly(c, "refused")

\* The statement finds what it must not, or does not find what it needs.
Unsuitable(j) ==
  LET free == Promise!Holders(j.slug) = {}
  IN  CASE j.name = "create" -> ~free
        [] j.name = "import" ->
             \E i \in DOMAIN j.batch :
               Promise!Holders(j.batch[i].slug) # {}
        [] j.name = "list" -> FALSE
        [] j.name = "export" -> TRUE  \* a row that is not portable: any time
        [] OTHER -> free

Execute(c) ==
  /\ Accepted(c) /\ ~GeneratesSlug(job[c]) /\ ~DryRun(job[c])
  /\ \/ /\ Promise!Statement(c)
        /\ Answer(c, "success")
        /\ UNCHANGED <<tokens, job, client, progress, conflict>>
     \/ Unsuitable(job[c]) /\ AnswerOnly(c, "refused")
     \/ AnswerOnly(c, "error")

Begin(c) ==
  /\ Accepted(c)
  /\ \/ GeneratesSlug(job[c]) /\ request' = [request EXCEPT ![c] = "trying"]
     \/ DryRun(job[c]) /\ request' = [request EXCEPT ![c] = "checking"]
  /\ UNCHANGED <<tables, tokens, job, client, progress, conflict, status, result>>

\* Mutant of Created: the loop goes on after a link was made.
CreatedAgain(c, slug) ==
  /\ Promise!Create(c, slug)
  /\ progress' = [progress EXCEPT ![c] = @ + 1]
  /\ UNCHANGED <<request, status>>

Created(c, slug) ==
  /\ Promise!Create(c, slug)
  /\ Answer(c, "success")
  /\ UNCHANGED progress

Attempt(c) ==
  /\ request[c] = "trying"
  /\ progress[c] < MaxGeneratedSlugAttempts
  /\ \/ /\ \E slug \in Generated :
             \/ Created(c, slug)
             \/ /\ Promise!Holders(slug) # {}
                /\ progress' = [progress EXCEPT ![c] = @ + 1]
                /\ UNCHANGED <<tables, request, status, result>>
        /\ UNCHANGED <<tokens, job, client, conflict>>
     \/ AnswerOnly(c, "error")

Exhausted(c) ==
  /\ request[c] = "trying"
  /\ progress[c] = MaxGeneratedSlugAttempts
  /\ AnswerOnly(c, "refused")

CheckRow(c) ==
  /\ request[c] = "checking"
  /\ progress[c] < Len(job[c].batch)
  /\ \/ LET row == job[c].batch[progress[c] + 1]
        IN  /\ progress' = [progress EXCEPT ![c] = @ + 1]
            /\ conflict' = [conflict EXCEPT
                              ![c] = @ \/ Promise!Holders(row.slug) # {}]
            /\ UNCHANGED <<tables, tokens, job, client, request, status, result>>
     \/ AnswerOnly(c, "error")

ReportCheck(c) ==
  /\ request[c] = "checking"
  /\ progress[c] = Len(job[c].batch)
  /\ AnswerOnly(c, IF conflict[c] THEN "refused" ELSE "success")
-----------------------------------------------------------------------------
ClientStep(c) ==
  Parse(c) \/ Confirm(c) \/ Cancel(c) \/ ReadFails(c) \/ Send(c) \/ Receive(c)
  \/ GiveUp(c)

ServerStep(c) ==
  RefuseRequest(c) \/ Execute(c) \/ Begin(c) \/ Attempt(c) \/ Exhausted(c)
  \/ CheckRow(c) \/ ReportCheck(c)

Next == \E c \in Commands : ClientStep(c) \/ ServerStep(c) \/ Lose(c)

Spec == Init /\ [][Next]_vars
-----------------------------------------------------------------------------
(***************************************************************************)
(* The control variables keep their ranges, and the server's work follows  *)
(* the client's request.                                                   *)
(***************************************************************************)
TypeOK ==
  /\ job \in [Commands -> Jobs \cup {None}]
  /\ client \in [Commands -> {"idle", "asking", "ready", "waiting",
                              "ok", "refused", "unsent", "unknown"}]
  /\ request \in [Commands -> {"none", "sent", "trying", "checking", "answered"}]
  /\ progress \in [Commands -> Nat]
  /\ conflict \in [Commands -> BOOLEAN]
  /\ status \in [Commands -> {"none", "success", "refused", "error"}]
  /\ \A c \in Commands :
       /\ request[c] = "answered" <=> status[c] # "none"
       /\ request[c] = "trying" => progress[c] <= MaxGeneratedSlugAttempts
       /\ request[c] # "none" => client[c] \in {"waiting", "ok", "refused", "unknown"}

(***************************************************************************)
(* Whatever is lost, repeated or late, the commands keep the promises of   *)
(* LinkCommands: exit 0 means that the command took effect exactly once    *)
(* and shows that result, a refusal or a cancelled delete that it never    *)
(* will, and a dry run changes nothing (README: import "dry-runs by        *)
(* default, and writes only with --apply", delete "prompts for             *)
(* confirmation unless --force is supplied").                              *)
(***************************************************************************)
KeepsPromise == Promise!Spec

(***************************************************************************)
(* A link made by a create has a slug as docs/operations.md describes it,  *)
(* and while it lives every spelling of its address leads a visitor to it, *)
(* past the router, the handler's ToLower and the NOCASE comparison.       *)
(***************************************************************************)
Documented(slug) ==
  /\ Len(slug) \in 1..MaxSlugLength
  /\ slug \notin {Api, Admin} /\ ~HasPrefix(slug, WellKnown)
  /\ \E letters \in SUBSET DOMAIN slug :
       /\ {1, Len(slug)} \subseteq letters
       /\ \A i \in letters : slug[i] \in Plain
       /\ \A i \in DOMAIN slug \ letters :
            slug[i] = Hyphen /\ {i - 1, i + 1} \subseteq letters

CreatedReachable ==
  \A c \in Effective : job[c].name = "create" =>
    \A row \in result[c] :
      /\ Documented(row.slug)
      /\ \A word \in Words : NoCase(word) = row.slug =>
           /\ Route(word) = "redirect"
           /\ Promise!Holders(ToLower(word))
                = {id \in DOMAIN redirects : NoCase(redirects[id].slug) = row.slug}

(***************************************************************************)
(* The backup token "cannot access redirect management, imports": a        *)
(* command that carries it succeeds only if it is an export.               *)
(***************************************************************************)
BackupTokenOnlyExports ==
  \A c \in Commands :
    status[c] = "success" /\ job[c].token = tokens.backup =>
      job[c].name = "export"
=============================================================================
