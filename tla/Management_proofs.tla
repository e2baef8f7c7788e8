------------------------- MODULE Management_proofs -------------------------
(***************************************************************************)
(* Proofs, for any alphabet, any jobs and any number of commands, that the *)
(* programs keep the promise of LinkCommands, that the backup token only   *)
(* exports, and that a created link is reachable: what a valid slug is and *)
(* which spellings lead to it comes first.                                 *)
(***************************************************************************)
EXTENDS Management, FiniteSetTheorems, TLAPS
-----------------------------------------------------------------------------
(***************************************************************************)
(* docs/operations.md: letters, digits and single hyphens between them,    *)
(* and not reserved.                                                       *)
(***************************************************************************)
Regular(slug) ==
  /\ slug \in Words
  /\ Len(slug) \in 1..MaxSlugLength
  /\ ~Reserved(slug)
  /\ \A i \in DOMAIN slug :
       \/ slug[i] \in Plain
       \/ slug[i] = Hyphen /\ i > 1 /\ i < Len(slug) /\ slug[i - 1] # Hyphen

LEMMA NoCaseWord ==
  ASSUME NEW word \in Words
  PROVE  /\ word \in Seq(Characters) /\ NoCase(word) \in Words
         /\ Len(NoCase(word)) = Len(word) /\ DOMAIN NoCase(word) = 1..Len(word)
         /\ \A i \in 1..Len(word) :
              NoCase(word)[i] = IF word[i] \in Capitals THEN Lower[word[i]] ELSE word[i]
<1>1. word \in Seq(Characters)
  BY WordAssumption
<1>2. NoCase(word) \in Words /\ NoCase(word) \in Seq(Characters)
  BY WordAssumption DEF NoCase
<1>3. DOMAIN NoCase(word) = DOMAIN word
  BY DEF NoCase
<1>4. DOMAIN word = 1..Len(word) /\ Len(word) \in Nat /\ Len(NoCase(word)) \in Nat
      /\ DOMAIN NoCase(word) = 1..Len(NoCase(word))
  BY <1>1, <1>2
<1>5. Len(NoCase(word)) = Len(word)
  BY <1>3, <1>4
<1>6. \A i \in 1..Len(word) :
        NoCase(word)[i] = IF word[i] \in Capitals THEN Lower[word[i]] ELSE word[i]
  BY <1>4 DEF NoCase
<1>. QED
  BY <1>1, <1>2, <1>3, <1>4, <1>5, <1>6

(***************************************************************************)
(* Folding twice is folding once.                                          *)
(***************************************************************************)
LEMMA NoCaseIdempotent ==
  ASSUME NEW word \in Words PROVE NoCase(NoCase(word)) = NoCase(word)
<1>1. \A i \in 1..Len(word) : NoCase(word)[i] \notin Capitals
  BY NoCaseWord, CharacterAssumption
<1>2. NoCase(NoCase(word)) = [i \in DOMAIN NoCase(word) |-> NoCase(word)[i]]
  BY <1>1, NoCaseWord DEF NoCase
<1>3. NoCase(word) = [i \in DOMAIN NoCase(word) |-> NoCase(word)[i]]
  BY DEF NoCase
<1>. QED
  BY <1>2, <1>3

(***************************************************************************)
(* On spelled words, lower-casing like Unicode is folding like ASCII.      *)
(***************************************************************************)
LEMMA SpelledLower ==
  ASSUME NEW word \in Words,
         \A i \in 1..Len(word) : word[i] \in Plain \cup Capitals \cup {Hyphen}
  PROVE  ToLower(word) = NoCase(word)
<1>1. DOMAIN word = 1..Len(word)
  BY NoCaseWord
<1>2. \A i \in DOMAIN word :
        Lower[word[i]] = IF word[i] \in Capitals THEN Lower[word[i]] ELSE word[i]
  BY <1>1, CharacterAssumption
<1>. QED
  BY <1>2 DEF ToLower, NoCase

(***************************************************************************)
(* What ValidateSlug returns is regular.                                   *)
(***************************************************************************)
THEOREM CanonicalRegular ==
  ASSUME NEW slug \in CanonicalSlugs PROVE Regular(slug)
<1>1. PICK word \in Words : ValidSlug(word) /\ slug = NoCase(word)
  BY DEF CanonicalSlugs
<1>2. DOMAIN word = 1..Len(word) /\ Len(word) \in 1..MaxSlugLength
  BY <1>1, NoCaseWord DEF ValidSlug
<1>3. \A i \in 1..Len(word) :
        \/ word[i] \in Plain \cup Capitals
        \/ word[i] = Hyphen /\ i > 1 /\ i < Len(word) /\ word[i - 1] # Hyphen
  BY <1>1, <1>2 DEF ValidSlug, Spelled
<1>4. ~Reserved(slug)
  BY <1>1, <1>3, SpelledLower DEF ValidSlug
<1>5. \A i \in 1..Len(word) :
        \/ slug[i] \in Plain
        \/ slug[i] = Hyphen /\ i > 1 /\ i < Len(slug) /\ slug[i - 1] # Hyphen
  <2>. SUFFICES ASSUME NEW i \in 1..Len(word), slug[i] \notin Plain
                PROVE  slug[i] = Hyphen /\ i > 1 /\ i < Len(slug) /\ slug[i - 1] # Hyphen
    OBVIOUS
  <2>1. word[i] \notin Plain \cup Capitals
    BY <1>1, NoCaseWord, CharacterAssumption
  <2>2. word[i] = Hyphen /\ i > 1 /\ i < Len(word) /\ word[i - 1] # Hyphen
    BY <1>3, <2>1
  <2>3. i - 1 \in 1..Len(word)
    BY <2>2, <1>2
  <2>4. slug[i] = Hyphen /\ slug[i - 1] # Hyphen
    BY <1>1, <2>1, <2>2, <2>3, NoCaseWord, CharacterAssumption
  <2>. QED
    BY <1>1, <2>2, <2>4, NoCaseWord
<1>. QED
  BY <1>1, <1>2, <1>4, <1>5, NoCaseWord DEF Regular

(***************************************************************************)
(* Every spelling of a regular slug reaches the redirect handler, which    *)
(* folds it to the slug that the tables hold.                              *)
(***************************************************************************)
THEOREM SpellingsLead ==
  ASSUME NEW slug, Regular(slug), NEW word \in Words, NoCase(word) = slug
  PROVE  Route(word) = "redirect" /\ ToLower(word) = slug
<1>1. Len(word) = Len(slug) /\ DOMAIN slug = 1..Len(slug) /\ Len(slug) \in Nat \ {0}
  BY NoCaseWord, WordAssumption DEF Regular
<1>2. \A i \in 1..Len(word) : word[i] \in Plain \cup Capitals \cup {Hyphen}
  BY <1>1, NoCaseWord DEF Regular
<1>3. ToLower(word) = slug
  BY <1>2, SpelledLower
<1>4. word # << >>
  BY <1>1
<1>5. ASSUME word = Admin PROVE FALSE
  <2>1. \A i \in DOMAIN word : word[i] \in Plain
    BY <1>5, WordAssumption
  <2>2. ToLower(word) = word
    <3>1. word = [i \in DOMAIN word |-> word[i]]
      BY NoCaseWord
    <3>2. \A i \in DOMAIN word : Lower[word[i]] = word[i]
      BY <2>1, CharacterAssumption
    <3>. QED
      BY <3>1, <3>2 DEF ToLower
  <2>. QED
    BY <1>3, <1>5, <2>2 DEF Regular, Reserved
<1>. QED
  BY <1>3, <1>4, <1>5 DEF Route
-----------------------------------------------------------------------------

(***************************************************************************)
(* The server works on a request only while its client waits or has given  *)
(* up, on attempts only for a generated slug and row by row only for a dry *)
(* run, starting from none, and never for a command without the token it   *)
(* needs.                                                                  *)
(***************************************************************************)
Working == {"sent", "trying", "checking"}

Tracks ==
  /\ ParseConfig(tokens)
  /\ \A c \in Commands :
       /\ request[c] \in Working => client[c] \in {"waiting", "unknown"}
       /\ client[c] # "idle" => job[c] \in Jobs
       /\ request[c] \in {"none", "sent"} => progress[c] = 0
       /\ request[c] = "trying" => GeneratesSlug(job[c])
       /\ request[c] = "checking" => DryRun(job[c])
       /\ request[c] \in {"trying", "checking"} => ValidRequest(job[c])
       /\ request[c] \in {"trying", "checking"} \/ status[c] = "success" =>
            Authorized(job[c])

Control == TypeOK /\ Tracks
-----------------------------------------------------------------------------
LEMMA InitControl == Init => Control
BY DEF Init, Control, TypeOK, Tracks, Working

LEMMA ClientControl ==
  ASSUME Control, NEW c \in Commands, ClientStep(c) \/ Lose(c) PROVE Control'
<1>. USE DEF Control, TypeOK, Tracks, Working, Moves
<1>. USE DEF tables, server
<1>1. CASE Parse(c)
  <2>1. client[c] = "idle" /\ request[c] = "none" /\ status[c] = "none"
    BY <1>1 DEF Parse
  <2>2. PICK j \in Jobs, to \in {"unsent", "asking", "ready"} :
          job' = [job EXCEPT ![c] = j] /\ client' = [client EXCEPT ![c] = to]
    <3>1. PICK j \in Jobs :
            /\ job' = [job EXCEPT ![c] = j]
            /\ \/ client' = [client EXCEPT ![c] = "unsent"]
               \/ client' = [client EXCEPT ![c] =
                    IF j.name = "delete" /\ ~j.force THEN "asking" ELSE "ready"]
      BY <1>1 DEF Parse
    <3>. QED
      BY <3>1
  <2>3. UNCHANGED <<tokens, request, progress, conflict, status>>
    BY <1>1 DEF Parse
  <2>4. TypeOK'
    BY <2>1, <2>2, <2>3
  <2>5. Tracks'
    BY <2>1, <2>2, <2>3 DEF Authorized
  <2>. QED
    BY <2>4, <2>5
<1>2. CASE Confirm(c)
  BY <1>2 DEF Confirm, Authorized
<1>3. CASE Cancel(c)
  BY <1>3 DEF Cancel, Authorized
<1>4. CASE ReadFails(c)
  BY <1>4 DEF ReadFails, Authorized
<1>5. CASE Send(c)
  BY <1>5 DEF Send, Authorized
<1>6. CASE Receive(c)
  BY <1>6 DEF Receive, Authorized
<1>7. CASE GiveUp(c)
  BY <1>7 DEF GiveUp, Authorized
<1>8. CASE Lose(c)
  BY <1>8 DEF Lose, Authorized
<1>. QED
  BY <1>1, <1>2, <1>3, <1>4, <1>5, <1>6, <1>7, <1>8 DEF ClientStep

LEMMA AttemptsType == MaxGeneratedSlugAttempts \in Nat
BY CommandAssumption

LEMMA ServerControl ==
  ASSUME Control, NEW c \in Commands, ServerStep(c) PROVE Control'
<1>. USE DEF Control, TypeOK, Tracks, Working, Answer, AnswerOnly, Authorized
<1>1. CASE RefuseRequest(c)
  BY <1>1 DEF RefuseRequest
<1>2. CASE Execute(c)
  <2>1. request[c] = "sent" /\ request[c] \in Working /\ Authorized(job[c])
    BY <1>2 DEF Execute, Accepted
  <2>2. PICK code \in {"success", "refused", "error"} :
          /\ request' = [request EXCEPT ![c] = "answered"]
          /\ status' = [status EXCEPT ![c] = code]
          /\ UNCHANGED <<tokens, job, client, progress, conflict>>
    BY <1>2 DEF Execute
  <2>3. TypeOK'
    BY <2>1, <2>2
  <2>4. Tracks'
    BY <2>1, <2>2
  <2>. HIDE DEF TypeOK, Tracks
  <2>. QED
    BY <2>3, <2>4
<1>3. CASE Begin(c)
  <2>1. /\ request[c] = "sent" /\ progress[c] = 0
        /\ Authorized(job[c]) /\ ValidRequest(job[c])
    BY <1>3 DEF Begin, Accepted
  <2>2. /\ \/ request' = [request EXCEPT ![c] = "trying"] /\ GeneratesSlug(job[c])
           \/ request' = [request EXCEPT ![c] = "checking"] /\ DryRun(job[c])
        /\ UNCHANGED <<tokens, job, client, progress, conflict, status>>
    BY <1>3 DEF Begin
  <2>3. TypeOK'
    BY <2>1, <2>2, AttemptsType
  <2>4. Tracks'
    BY <2>1, <2>2 DEF GeneratesSlug, DryRun
  <2>. HIDE DEF TypeOK, Tracks
  <2>. QED
    BY <2>3, <2>4
<1>4. CASE Attempt(c)
  <2>1. CASE AnswerOnly(c, "error")
    BY <1>4, <2>1 DEF Attempt
  <2>2. CASE Answer(c, "success") /\ UNCHANGED <<tokens, job, client, progress, conflict>>
    BY <1>4, <2>2 DEF Attempt
  <2>3. CASE /\ progress' = [progress EXCEPT ![c] = @ + 1]
             /\ UNCHANGED <<tokens, job, client, conflict, request, status>>
    BY <1>4, <2>3, AttemptsType DEF Attempt
  <2>. QED
    BY <1>4, <2>1, <2>2, <2>3 DEF Attempt, Created
<1>5. CASE Exhausted(c)
  BY <1>5 DEF Exhausted
<1>6. CASE CheckRow(c)
  <2>1. CASE AnswerOnly(c, "error")
    BY <1>6, <2>1 DEF CheckRow
  <2>2. CASE ~AnswerOnly(c, "error")
    <3>1. PICK found \in BOOLEAN :
            /\ progress' = [progress EXCEPT ![c] = @ + 1]
            /\ conflict' = [conflict EXCEPT ![c] = @ \/ found]
            /\ UNCHANGED <<tokens, job, client, request, status>>
      BY <1>6, <2>2 DEF CheckRow
    <3>2. conflict' \in [Commands -> BOOLEAN]
      BY <3>1
    <3>. QED
      BY <1>6, <3>1, <3>2 DEF CheckRow
  <2>. QED
    BY <2>1, <2>2
<1>7. CASE ReportCheck(c)
  BY <1>7 DEF ReportCheck
<1>. QED
  BY <1>1, <1>2, <1>3, <1>4, <1>5, <1>6, <1>7 DEF ServerStep

LEMMA NextControl == Control /\ [Next]_vars => Control'
<1>. SUFFICES ASSUME Control, [Next]_vars PROVE Control'
  OBVIOUS
<1>1. CASE UNCHANGED vars
  BY <1>1 DEF Control, TypeOK, Tracks, Authorized, vars, server
<1>. QED
  BY <1>1, ClientControl, ServerControl DEF Next
-----------------------------------------------------------------------------
(***************************************************************************)
(* The refinement: where a command is in its promise, and what is left of  *)
(* it by the steps that take no effect.                                    *)
(***************************************************************************)
EndOf(where) == IF where \in {"ready", "waiting"} THEN "running" ELSE where

Ends == [c \in Commands |-> EndOf(client[c])]

promised == <<tables, job, Effective, result, Ends>>

LEMMA ClientMoves ==
  ASSUME Control, NEW c \in Commands, NEW to, client' = [client EXCEPT ![c] = to]
  PROVE  Ends' = [Ends EXCEPT ![c] = EndOf(to)]
BY DEF Control, TypeOK, Ends

LEMMA ClientRests ==
  UNCHANGED client => UNCHANGED Ends
BY DEF Ends

LEMMA EffectRests ==
  ASSUME Control, UNCHANGED <<job, status>>
  PROVE  Effective' = Effective
BY DEF Effective

LEMMA NoEffect ==
  ASSUME Control, NEW c \in Commands, client[c] \in {"idle", "asking", "ready", "unsent"}
  PROVE  c \notin Effective /\ status[c] = "none"
BY DEF Control, TypeOK, Effective

LEMMA InitPromise == Init => Promise!Init
<1>. SUFFICES ASSUME Init PROVE Promise!Init
  OBVIOUS
<1>1. Effective = {}
  BY DEF Init, Effective
<1>2. [c \in Commands |-> IF client[c] \in {"ready", "waiting"}
                          THEN "running" ELSE client[c]]
        = [c \in Commands |-> "idle"]
  BY DEF Init
<1>. QED
  BY <1>1, <1>2 DEF Init, Promise!Init

LEMMA ParseIssues ==
  ASSUME Control, NEW c \in Commands, Parse(c)
  PROVE  Promise!Issue(c)
<1>1. client[c] = "idle" /\ c \notin Effective /\ status[c] = "none"
  BY NoEffect DEF Parse, Moves
<1>2. PICK j \in Jobs :
        /\ job' = [job EXCEPT ![c] = j]
        /\ \/ client' = [client EXCEPT ![c] = "unsent"]
           \/ client' = [client EXCEPT ![c] =
                IF j.name = "delete" /\ ~j.force THEN "asking" ELSE "ready"]
  BY DEF Parse, Moves
<1>3. PICK to \in {"unsent", IF Promise!MustAsk(j) THEN "asking" ELSE "running"} :
        Ends' = [Ends EXCEPT ![c] = to]
  <2>1. EndOf("unsent") = "unsent" /\ EndOf("asking") = "asking"
        /\ EndOf("ready") = "running"
    BY DEF EndOf
  <2>2. CASE client' = [client EXCEPT ![c] = "unsent"]
    BY <2>1, <2>2, ClientMoves
  <2>3. CASE client' = [client EXCEPT ![c] =
                 IF Promise!MustAsk(j) THEN "asking" ELSE "ready"]
    BY <2>1, <2>3, ClientMoves
  <2>. QED
    BY <1>2, <2>2, <2>3 DEF Promise!MustAsk
<1>4. Effective' = Effective
  <2>1. status' = status /\ \A d \in Commands : d # c => job'[d] = job[d]
    BY <1>2 DEF Parse, server, Control, TypeOK
  <2>. QED
    BY <1>1, <2>1 DEF Effective
<1>5. Ends[c] = "idle"
  BY <1>1 DEF Ends, EndOf
<1>6. UNCHANGED <<redirects, lastId, misses, result>>
  BY DEF Parse, tables, server
<1>. QED
  BY <1>2, <1>3, <1>4, <1>5, <1>6 DEF Promise!Issue, Ends, EndOf

LEMMA ClientFinishes ==
  ASSUME Control, NEW c \in Commands, NEW how \in {"ok", "refused", "unsent", "unknown"},
         Ends[c] \in {"asking", "running"},
         client' = [client EXCEPT ![c] = how],
         how = "ok" => c \in Effective \/ DryRun(job[c]),
         how \in {"refused", "unsent"} => c \notin Effective,
         UNCHANGED <<tables, tokens, job, server>>
  PROVE  Promise!Finish(c)
<1>1. Ends' = [Ends EXCEPT ![c] = how]
  BY ClientMoves DEF EndOf
<1>2. Effective' = Effective
  BY EffectRests DEF server
<1>3. UNCHANGED <<redirects, lastId, misses, job, result>>
  BY DEF tables, server
<1>4. DryRun(job[c]) <=> Promise!DryRun(job[c])
  BY DEF DryRun, Promise!DryRun
<1>. QED
  BY <1>1, <1>2, <1>3, <1>4 DEF Promise!Finish, Ends, EndOf

LEMMA ClientPromise ==
  ASSUME Control, NEW c \in Commands, ClientStep(c) \/ Lose(c)
  PROVE  Promise!Next \/ UNCHANGED promised
<1>. USE DEF Moves
<1>1. CASE Parse(c)
  BY <1>1, ParseIssues DEF Promise!Next
<1>2. CASE Confirm(c)
  <2>1. Ends[c] = "asking" /\ Ends' = [Ends EXCEPT ![c] = "running"]
    BY <1>2, ClientMoves DEF Confirm, Ends, EndOf
  <2>2. Effective' = Effective
    BY <1>2, EffectRests DEF Confirm, server
  <2>3. UNCHANGED <<redirects, lastId, misses, job, result>>
    BY <1>2 DEF Confirm, tables, server
  <2>4. Promise!Confirm(c)
    BY <2>1, <2>2, <2>3 DEF Promise!Confirm, Ends, EndOf
  <2>. QED
    BY <2>4 DEF Promise!Next
<1>3. CASE Cancel(c)
  <2>1. Ends[c] = "asking" /\ c \notin Effective
    BY <1>3, NoEffect DEF Cancel, Ends, EndOf
  <2>2. Promise!Finish(c)
    BY <1>3, <2>1, ClientFinishes DEF Cancel
  <2>. QED
    BY <2>2 DEF Promise!Next
<1>4. CASE ReadFails(c)
  <2>1. Ends[c] = "running" /\ c \notin Effective
    BY <1>4, NoEffect DEF ReadFails, Ends, EndOf
  <2>2. Promise!Finish(c)
    BY <1>4, <2>1, ClientFinishes DEF ReadFails
  <2>. QED
    BY <2>2 DEF Promise!Next
<1>5. CASE Send(c)
  <2>1. client[c] = "ready" /\ client' = [client EXCEPT ![c] = "waiting"]
    BY <1>5 DEF Send
  <2>2. Ends' = Ends
    BY <2>1 DEF Ends, EndOf, Control, TypeOK
  <2>3. Effective' = Effective
    BY <1>5, EffectRests DEF Send
  <2>. QED
    BY <1>5, <2>2, <2>3 DEF Send, promised
<1>6. CASE Receive(c)
  <2>1. Ends[c] = "running" /\ status[c] \in {"success", "refused", "error"}
    BY <1>6 DEF Receive, Ends, EndOf, Control, TypeOK
  <2>2. client' = [client EXCEPT ![c] = IF status[c] = "success" THEN "ok" ELSE
                     IF status[c] = "refused" THEN "refused" ELSE "unknown"]
    BY <1>6, <2>1 DEF Receive
  <2>3. /\ status[c] = "success" => c \in Effective \/ DryRun(job[c])
        /\ status[c] # "success" => c \notin Effective
    BY DEF Effective
  <2>4. UNCHANGED <<tables, tokens, job, server>>
    BY <1>6 DEF Receive
  <2>5. Promise!Finish(c)
    BY <2>1, <2>2, <2>3, <2>4, ClientFinishes
  <2>. QED
    BY <2>5 DEF Promise!Next
<1>7. CASE GiveUp(c)
  <2>1. Ends[c] = "running"
    BY <1>7 DEF GiveUp, Ends, EndOf
  <2>2. Promise!Finish(c)
    BY <1>7, <2>1, ClientFinishes DEF GiveUp
  <2>. QED
    BY <2>2 DEF Promise!Next
<1>8. CASE Lose(c)
  BY <1>8, ClientRests, EffectRests DEF Lose, promised
<1>. QED
  BY <1>1, <1>2, <1>3, <1>4, <1>5, <1>6, <1>7, <1>8 DEF ClientStep

(***************************************************************************)
(* The statement of a request is the moment at which its command takes     *)
(* effect; every other step of the server leaves the promise as it is.     *)
(***************************************************************************)
LEMMA StatementTakesEffect ==
  ASSUME Control, NEW c \in Commands, request[c] \in Working, ~DryRun(job[c]),
         Promise!Statement(c), status' = [status EXCEPT ![c] = "success"],
         UNCHANGED <<job, client>>
  PROVE  Promise!TakeEffect(c)
<1>1. Ends[c] \in {"running", "unknown"}
  BY DEF Control, Tracks, Ends, EndOf
<1>2. status[c] = "none" /\ c \notin Effective
  BY DEF Control, TypeOK, Effective, Working
<1>3. Effective' = Effective \cup {c}
  BY <1>2 DEF Effective, Control, TypeOK
<1>4. Ends' = Ends /\ job' = job
  BY ClientRests
<1>. QED
  BY <1>1, <1>2, <1>3, <1>4 DEF Promise!TakeEffect, Ends, EndOf

LEMMA AnswerRests ==
  ASSUME Control, NEW c \in Commands, request[c] \in Working, NEW code,
         code = "success" => DryRun(job[c]),
         status' = [status EXCEPT ![c] = code],
         UNCHANGED <<tables, job, client, result>>
  PROVE  UNCHANGED promised
<1>1. status[c] = "none"
  BY DEF Control, TypeOK, Working
<1>2. Effective' = Effective
  BY <1>1 DEF Effective, Control, TypeOK
<1>. QED
  BY <1>2, ClientRests DEF promised

LEMMA ServerPromise ==
  ASSUME Control, NEW c \in Commands, ServerStep(c)
  PROVE  Promise!Next \/ UNCHANGED promised
<1>1. CASE RefuseRequest(c)
  BY <1>1, AnswerRests DEF RefuseRequest, AnswerOnly, Answer, tables, Working
<1>2. CASE Execute(c)
  <2>1. request[c] = "sent" /\ ~DryRun(job[c])
    BY <1>2 DEF Execute, Accepted
  <2>2. CASE /\ Promise!Statement(c) /\ Answer(c, "success")
             /\ UNCHANGED <<tokens, job, client, progress, conflict>>
    <3>1. Promise!TakeEffect(c)
      BY <2>1, <2>2, StatementTakesEffect DEF Answer, Working
    <3>. QED
      BY <3>1 DEF Promise!Next
  <2>3. CASE AnswerOnly(c, "refused") \/ AnswerOnly(c, "error")
    BY <2>1, <2>3, AnswerRests DEF AnswerOnly, Answer, tables, Working
  <2>. QED
    BY <1>2, <2>2, <2>3 DEF Execute
<1>3. CASE Begin(c)
  <2>1. UNCHANGED <<tables, job, client, status, result>>
    BY <1>3 DEF Begin
  <2>2. UNCHANGED Effective /\ UNCHANGED Ends
    BY <2>1, EffectRests, ClientRests
  <2>. QED
    BY <2>1, <2>2 DEF promised
<1>4. CASE Attempt(c)
  <2>1. request[c] = "trying" /\ GeneratesSlug(job[c]) /\ request[c] \in Working
    BY <1>4 DEF Attempt, Control, Tracks, Working
  <2>2. CASE AnswerOnly(c, "error")
    BY <2>1, <2>2, AnswerRests DEF AnswerOnly, Answer, tables
  <2>3. CASE \E slug \in Generated : Created(c, slug) /\ UNCHANGED <<job, client>>
    <3>1. PICK slug \in Generated : Created(c, slug)
      BY <2>3
    <3>2. Promise!Statement(c)
      BY <2>1, <3>1 DEF Created, GeneratesSlug, Promise!Statement, Promise!SlugsOf
    <3>3. ~DryRun(job[c])
      BY <2>1 DEF DryRun, GeneratesSlug
    <3>4. Promise!TakeEffect(c)
      BY <2>1, <2>3, <3>1, <3>2, <3>3, StatementTakesEffect DEF Created, Answer
    <3>. QED
      BY <3>4 DEF Promise!Next
  <2>4. CASE UNCHANGED <<tables, job, client, status, result>>
    BY <2>4, EffectRests, ClientRests DEF promised
  <2>. QED
    BY <1>4, <2>2, <2>3, <2>4 DEF Attempt
<1>5. CASE Exhausted(c)
  BY <1>5, AnswerRests DEF Exhausted, AnswerOnly, Answer, tables, Working
<1>6. CASE CheckRow(c)
  <2>1. CASE AnswerOnly(c, "error")
    BY <1>6, <2>1, AnswerRests DEF CheckRow, AnswerOnly, Answer, tables, Working
  <2>2. CASE UNCHANGED <<tables, job, client, status, result>>
    BY <2>2, EffectRests, ClientRests DEF promised
  <2>. QED
    BY <1>6, <2>1, <2>2 DEF CheckRow, server
<1>7. CASE ReportCheck(c)
  <2>1. DryRun(job[c]) /\ request[c] \in Working
    BY <1>7 DEF ReportCheck, Control, Tracks, Working
  <2>. QED
    BY <1>7, <2>1, AnswerRests DEF ReportCheck, AnswerOnly, Answer, tables
<1>. QED
  BY <1>1, <1>2, <1>3, <1>4, <1>5, <1>6, <1>7 DEF ServerStep

LEMMA NextPromise == Control /\ [Next]_vars => [Promise!Next]_(Promise!vars)
<1>. SUFFICES ASSUME Control, [Next]_vars PROVE [Promise!Next]_(Promise!vars)
  OBVIOUS
<1>1. UNCHANGED promised => UNCHANGED Promise!vars
  BY DEF promised, tables, Promise!vars, Ends, EndOf
<1>2. CASE UNCHANGED vars
  <2>1. UNCHANGED promised
    BY <1>2, EffectRests, ClientRests DEF vars, server, promised
  <2>. QED
    BY <1>1, <2>1
<1>. QED
  BY <1>1, <1>2, ClientPromise, ServerPromise DEF Next
-----------------------------------------------------------------------------
(***************************************************************************)
(* Where a command is, its request and its tokens agree in every run.      *)
(***************************************************************************)
THEOREM ManagementControl == Spec => []Control
BY InitControl, NextControl, PTL DEF Spec

(***************************************************************************)
(* The control variables keep their ranges.                                *)
(***************************************************************************)
THEOREM ManagementTypeOK == Spec => []TypeOK
<1>1. Control => TypeOK
  BY DEF Control
<1>. QED
  BY <1>1, ManagementControl, PTL

(***************************************************************************)
(* The client and the server carry out LinkCommands, whatever is lost,     *)
(* late or given up.                                                       *)
(***************************************************************************)
THEOREM ManagementKeepsPromise == Spec => KeepsPromise
BY InitPromise, NextPromise, ManagementControl, PTL
   DEF Spec, KeepsPromise, Promise!Spec

(***************************************************************************)
(* With the backup token only an export succeeds.                          *)
(***************************************************************************)
THEOREM ManagementBackupToken == Spec => []BackupTokenOnlyExports
<1>1. Control => BackupTokenOnlyExports
  BY DEF Control, TypeOK, Tracks, ParseConfig, Authorized, BackupTokenOnlyExports
<1>. QED
  BY <1>1, ManagementControl, PTL
-----------------------------------------------------------------------------
(***************************************************************************)
(* Reachability.  The tables hold slugs of any kind, which imports bring,  *)
(* the results of creations canonical ones only.                           *)
(***************************************************************************)
IsRow(row) ==
  /\ row.slug \in Words
  /\ row = [slug |-> row.slug, url |-> row.url, disabled |-> row.disabled,
            expires |-> row.expires, clicks |-> row.clicks, last |-> row.last]

Reach ==
  /\ lastId \in Nat
  /\ \A id \in DOMAIN redirects : IsRow(redirects[id])
  /\ result = [c \in Commands |-> result[c]]
  /\ \A c \in Effective : job[c].name = "create" =>
       \A row \in result[c] : row.slug \in CanonicalSlugs

LEMMA PromiseSlugs ==
  /\ \A word : Promise!NoCase(word) = NoCase(word)
  /\ Promise!CanonicalSlugs = CanonicalSlugs
<1>1. \A word : Promise!NoCase(word) = NoCase(word)
  BY DEF NoCase, Promise!NoCase
<1>2. \A word : Promise!ToLower(word) = ToLower(word)
  BY DEF ToLower, Promise!ToLower
<1>3. \A word : Promise!Reserved(word) <=> Reserved(word)
  BY DEF Reserved, Promise!Reserved, HasPrefix, Promise!HasPrefix
<1>4. \A word : Promise!Spelled(word) <=> Spelled(word)
  BY DEF Spelled, Promise!Spelled
<1>5. \A word : Promise!ValidSlug(word) <=> ValidSlug(word)
  BY <1>2, <1>3, <1>4 DEF ValidSlug, Promise!ValidSlug
<1>. QED
  BY <1>1, <1>5 DEF CanonicalSlugs, Promise!CanonicalSlugs

LEMMA CanonicalWord ==
  ASSUME NEW slug \in CanonicalSlugs PROVE slug \in Words /\ NoCase(slug) = slug
BY NoCaseWord, NoCaseIdempotent DEF CanonicalSlugs

LEMMA RowParts ==
  ASSUME NEW slug \in Words, NEW url, NEW disabled, NEW expires,
         NEW clicks, NEW last
  PROVE  IsRow([slug |-> slug, url |-> url, disabled |-> disabled,
                expires |-> expires, clicks |-> clicks, last |-> last])
BY DEF IsRow

LEMMA RowRewritten ==
  ASSUME NEW row, IsRow(row), NEW value
  PROVE  /\ IsRow([row EXCEPT !.url = value])
         /\ IsRow([row EXCEPT !.disabled = value])
         /\ IsRow([row EXCEPT !.expires = value])
<1>1. PICK slug, url, disabled, expires, clicks, last :
        /\ slug \in Words
        /\ row = [slug |-> slug, url |-> url, disabled |-> disabled,
                  expires |-> expires, clicks |-> clicks, last |-> last]
  BY DEF IsRow
<1>2. [row EXCEPT !.url = value]
        = [slug |-> slug, url |-> value, disabled |-> disabled,
           expires |-> expires, clicks |-> clicks, last |-> last]
  BY <1>1
<1>3. [row EXCEPT !.disabled = value]
        = [slug |-> slug, url |-> url, disabled |-> value,
           expires |-> expires, clicks |-> clicks, last |-> last]
  BY <1>1
<1>4. [row EXCEPT !.expires = value]
        = [slug |-> slug, url |-> url, disabled |-> disabled,
           expires |-> value, clicks |-> clicks, last |-> last]
  BY <1>1
<1>. QED
  BY <1>1, <1>2, <1>3, <1>4, RowParts

LEMMA BatchType == \A batch \in Batches : Len(batch) \in Nat /\ DOMAIN batch = 1..Len(batch)
BY CommandAssumption

LEMMA BatchRow ==
  ASSUME NEW batch \in Batches, NEW i \in DOMAIN batch PROVE IsRow(batch[i])
<1> DEFINE Rows == [slug : Words \ {<< >>}, url : URLs, disabled : BOOLEAN,
                    expires : Expirations \cup {None},
                    clicks : 0..MaxCount, last : Expirations \cup Clock \cup {None}]
<1>1. Batches \subseteq Seq(Rows)
  BY CommandAssumption
<1>2. \A row \in Rows : IsRow(row)
  BY DEF IsRow
<1> HIDE DEF Rows
<1>3. batch \in Seq(Rows)
  BY <1>1
<1>. QED
  BY <1>2, <1>3

LEMMA InitReach == Init => Reach
<1>. SUFFICES ASSUME Init PROVE Reach
  OBVIOUS
<1>1. \A id \in DOMAIN redirects : IsRow(redirects[id])
  BY BatchRow DEF Init
<1>2. result = [c \in Commands |-> result[c]] /\ Effective = {} /\ lastId \in Nat
  BY BatchType DEF Init, Effective
<1>. QED
  BY <1>1, <1>2 DEF Reach

LEMMA CreateReach ==
  ASSUME Reach, NEW c \in Commands, NEW slug \in CanonicalSlugs, Promise!Create(c, slug)
  PROVE  /\ lastId' \in Nat
         /\ \A id \in DOMAIN redirects' : IsRow(redirects'[id])
         /\ \A row \in result'[c] : row.slug \in CanonicalSlugs
<1>1. redirects' = [id \in DOMAIN redirects \cup {lastId'} |->
         IF id = lastId' THEN [slug |-> slug, url |-> job[c].url, disabled |-> FALSE,
                               expires |-> job[c].expires, clicks |-> 0, last |-> None]
                         ELSE redirects[id]]
  BY DEF Promise!Create, Promise!Store!CreateRedirect, Promise!Store!NewRow
<1>2. \A id \in DOMAIN redirects' : IsRow(redirects'[id])
  <2>1. slug \in Words
    BY CanonicalWord
  <2>. QED
    BY <1>1, <2>1 DEF Reach, IsRow
<1>3. result'[c] = {redirects'[id] : id \in Promise!Store!Rows(redirects', slug)}
  BY DEF Promise!Create, Promise!Show, Promise!At, Reach
<1>4. Promise!Store!Rows(redirects', slug) \subseteq {lastId'}
  <2>1. Promise!Store!Rows(redirects, slug) = {}
    BY DEF Promise!Create, Promise!Store!CreateRedirect
  <2>2. \A id \in DOMAIN redirects' : id # lastId' =>
          id \in DOMAIN redirects /\ redirects'[id] = redirects[id]
    BY <1>1
  <2>. QED
    BY <2>1, <2>2 DEF Promise!Store!Rows
<1>4a. lastId' \in DOMAIN redirects' /\ redirects'[lastId'].slug = slug
  BY <1>1
<1>5. lastId' \in Nat
  BY DEF Promise!Create, Promise!Store!CreateRedirect, Reach
<1>. QED
  BY <1>2, <1>3, <1>4, <1>4a, <1>5

LEMMA StatementReach ==
  ASSUME Control, Reach, NEW c \in Commands, client[c] # "idle", Promise!Statement(c)
  PROVE  /\ lastId' \in Nat
         /\ \A id \in DOMAIN redirects' : IsRow(redirects'[id])
         /\ result' = [d \in Commands |-> result'[d]]
         /\ \A d \in Commands : d # c => result'[d] = result[d]
         /\ job[c].name = "create" =>
              \A row \in result'[c] : row.slug \in CanonicalSlugs
<1>1. \E rows : result' = [result EXCEPT ![c] = rows]
  BY DEF Promise!Statement, Promise!Create, Promise!Change, Promise!Import,
         Promise!Inspect, Promise!Show
<1>2. /\ result' = [d \in Commands |-> result'[d]]
      /\ \A d \in Commands : d # c => result'[d] = result[d]
  BY <1>1 DEF Reach
<1>3. CASE \E slug \in Promise!SlugsOf(job[c]) : Promise!Create(c, slug)
  <2>1. PICK slug \in Promise!SlugsOf(job[c]) : Promise!Create(c, slug)
    BY <1>3
  <2>2. slug \in CanonicalSlugs
    <3>1. Generated \subseteq CanonicalSlugs
      BY CommandAssumption
    <3>. QED
      BY <3>1, PromiseSlugs DEF Promise!SlugsOf
  <2>. QED
    BY <1>2, <2>1, <2>2, CreateReach
<1>4. CASE Promise!Change(c)
  <2>1. job[c].name # "create"
    BY <1>4 DEF Promise!Change
  <2>2. ASSUME NEW matches, Promise!Store!Rewrite(matches),
               \A id \in DOMAIN matches : IsRow(matches[id])
        PROVE  lastId' \in Nat /\ \A id \in DOMAIN redirects' : IsRow(redirects'[id])
    BY <2>2 DEF Promise!Store!Rewrite, Reach
  <2> DEFINE found == Promise!Store!Rows(redirects, job[c].slug)
  <2>3. found \subseteq DOMAIN redirects
    BY DEF Promise!Store!Rows
  <2>4. \A id \in found : IsRow(redirects[id])
    BY <2>3 DEF Reach
  <2> HIDE DEF found
  <2>5. CASE Promise!Store!UpdateRedirect(job[c].slug, job[c].url)
    <3> DEFINE matches == [id \in found |-> [redirects[id] EXCEPT !.url = job[c].url]]
    <3>1. Promise!Store!Rewrite(matches)
      BY <2>5 DEF Promise!Store!UpdateRedirect, found
    <3>2. \A id \in DOMAIN matches : IsRow(matches[id])
      BY <2>4, RowRewritten
    <3> HIDE DEF matches
    <3>. QED
      BY <1>2, <2>1, <2>2, <3>1, <3>2
  <2>6. CASE Promise!Store!DisableRedirect(job[c].slug)
    <3> DEFINE matches == [id \in found |-> [redirects[id] EXCEPT !.disabled = TRUE]]
    <3>1. Promise!Store!Rewrite(matches)
      BY <2>6 DEF Promise!Store!DisableRedirect, found
    <3>2. \A id \in DOMAIN matches : IsRow(matches[id])
      BY <2>4, RowRewritten
    <3> HIDE DEF matches
    <3>. QED
      BY <1>2, <2>1, <2>2, <3>1, <3>2
  <2>7. CASE Promise!Store!SetRedirectExpiration(job[c].slug, job[c].expires)
    <3> DEFINE matches ==
          [id \in found |-> [redirects[id] EXCEPT !.expires = job[c].expires]]
    <3>1. Promise!Store!Rewrite(matches)
      BY <2>7 DEF Promise!Store!SetRedirectExpiration, found
    <3>2. \A id \in DOMAIN matches : IsRow(matches[id])
      BY <2>4, RowRewritten
    <3> HIDE DEF matches
    <3>. QED
      BY <1>2, <2>1, <2>2, <3>1, <3>2
  <2>8. CASE Promise!Store!DeleteRedirect(job[c].slug)
    BY <1>2, <2>1, <2>8 DEF Promise!Store!DeleteRedirect, Reach
  <2>. QED
    BY <1>4, <2>5, <2>6, <2>7, <2>8 DEF Promise!Change
<1>5. CASE Promise!Import(c)
  <2>1. job[c].name # "create" /\ job[c].batch \in Batches
    BY <1>5, CommandAssumption DEF Promise!Import, Control, Tracks
  <2>2. \A i \in DOMAIN job[c].batch : IsRow(job[c].batch[i])
    BY <2>1, BatchRow
  <2> DEFINE batch == job[c].batch
             ids == lastId + 1 .. lastId + Len(batch)
  <2>3. redirects' = [id \in DOMAIN redirects \cup ids |->
                        IF id \in ids THEN batch[id - lastId] ELSE redirects[id]]
    BY <1>5 DEF Promise!Import, Promise!Store!ImportRedirects
  <2>4. lastId' \in Nat /\ lastId \in Nat
    BY <1>5, <2>1, BatchType DEF Promise!Import, Promise!Store!ImportRedirects, Reach
  <2>5. \A id \in ids : id - lastId \in DOMAIN batch
    BY <2>1, <2>4, BatchType
  <2>6. \A id \in DOMAIN redirects' : IsRow(redirects'[id])
    BY <2>2, <2>3, <2>5 DEF Reach
  <2>. QED
    BY <1>2, <2>1, <2>4, <2>6
<1>6. CASE Promise!Inspect(c)
  <2>1. job[c].name # "create" /\ redirects' = redirects /\ lastId' = lastId
    BY <1>6 DEF Promise!Inspect
  <2>. QED
    BY <1>2, <2>1 DEF Reach
<1>. QED
  BY <1>3, <1>4, <1>5, <1>6 DEF Promise!Statement

(***************************************************************************)
(* Reach is kept by the steps of the promise, and so by those of the       *)
(* programs.                                                               *)
(***************************************************************************)
LEMMA NextReach == Control /\ Reach /\ [Next]_vars => Reach'
<1>. SUFFICES ASSUME Control, Reach, [Next]_vars PROVE Reach'
  OBVIOUS
<1>1. ASSUME UNCHANGED <<redirects, lastId, result, Effective>>,
             \A d \in Effective : job'[d] = job[d]
      PROVE  Reach'
  BY <1>1 DEF Reach
<1>2. CASE UNCHANGED Promise!vars
  BY <1>1, <1>2 DEF Promise!vars
<1>3. ASSUME NEW c \in Commands, Promise!Issue(c) PROVE Reach'
  <2>1. client[c] = "idle"
    BY <1>3 DEF Promise!Issue
  <2>2. c \notin Effective
    BY <2>1, NoEffect
  <2>3. PICK j \in Jobs : job' = [job EXCEPT ![c] = j]
    BY <1>3 DEF Promise!Issue
  <2>4. \A d \in Effective : d \in Commands /\ job'[d] = job[d]
    BY <2>2, <2>3 DEF Effective, Control, TypeOK
  <2>. QED
    BY <1>1, <1>3, <2>4 DEF Promise!Issue
<1>4. ASSUME NEW c \in Commands, Promise!Confirm(c) \/ Promise!Finish(c) PROVE Reach'
  BY <1>1, <1>4 DEF Promise!Confirm, Promise!Finish
<1>5. ASSUME NEW c \in Commands, Promise!TakeEffect(c) PROVE Reach'
  <2>1. client[c] # "idle" /\ Promise!Statement(c)
    BY <1>5 DEF Promise!TakeEffect
  <2>2. Effective' = Effective \cup {c} /\ job' = job
    BY <1>5 DEF Promise!TakeEffect
  <2>3. Effective \subseteq Commands
    BY DEF Effective
  <2>. QED
    BY <2>1, <2>2, <2>3, StatementReach DEF Reach
<1>. QED
  BY <1>2, <1>3, <1>4, <1>5, NextPromise DEF Promise!Next

LEMMA RegularDocumented ==
  ASSUME NEW slug, Regular(slug) PROVE Documented(slug)
<1> DEFINE letters == {i \in DOMAIN slug : slug[i] \in Plain}
<1>1. DOMAIN slug = 1..Len(slug) /\ Len(slug) \in Nat \ {0}
  BY NoCaseWord, WordAssumption DEF Regular
<1>2. /\ letters \in SUBSET DOMAIN slug
      /\ {1, Len(slug)} \subseteq letters
      /\ \A i \in letters : slug[i] \in Plain
  BY <1>1 DEF Regular
<1>3. ASSUME NEW i \in DOMAIN slug \ letters
      PROVE  slug[i] = Hyphen /\ {i - 1, i + 1} \subseteq letters
  <2>1. slug[i] = Hyphen /\ i > 1 /\ i < Len(slug) /\ slug[i - 1] # Hyphen
    BY <1>3 DEF Regular
  <2>2. i - 1 \in DOMAIN slug /\ i + 1 \in DOMAIN slug /\ (i + 1) - 1 = i
    BY <1>1, <2>1
  <2>3. slug[i - 1] \in Plain /\ slug[i + 1] \in Plain
    BY <2>1, <2>2 DEF Regular
  <2>. QED
    BY <2>1, <2>2, <2>3
<1> HIDE DEF letters
<1>. QED
  BY <1>2, <1>3 DEF Documented, Regular, Reserved

(***************************************************************************)
(* A created link has a slug as documented, and every spelling of its      *)
(* address leads to it.                                                    *)
(***************************************************************************)
THEOREM ManagementReachable == Spec => []CreatedReachable
<1>1. Control /\ Reach => CreatedReachable
  <2>. SUFFICES ASSUME Control, Reach, NEW c \in Effective, job[c].name = "create",
                       NEW row \in result[c]
                PROVE  /\ Documented(row.slug)
                       /\ \A word \in Words : NoCase(word) = row.slug =>
                            /\ Route(word) = "redirect"
                            /\ Promise!Holders(ToLower(word))
                                 = {id \in DOMAIN redirects :
                                      NoCase(redirects[id].slug) = row.slug}
    BY DEF CreatedReachable
  <2>1. row.slug \in CanonicalSlugs
    BY DEF Reach
  <2>2. Regular(row.slug) /\ row.slug \in Words /\ NoCase(row.slug) = row.slug
    BY <2>1, CanonicalRegular, CanonicalWord
  <2>3. ASSUME NEW word \in Words, NoCase(word) = row.slug
        PROVE  /\ Route(word) = "redirect"
               /\ Promise!Holders(ToLower(word))
                    = {id \in DOMAIN redirects :
                         NoCase(redirects[id].slug) = row.slug}
    <3>1. Route(word) = "redirect" /\ ToLower(word) = row.slug
      BY <2>2, <2>3, SpellingsLead
    <3>2. \A id \in DOMAIN redirects : redirects[id].slug \in Words
      BY CanonicalWord DEF Reach, IsRow
    <3>3. \A id \in DOMAIN redirects :
            Promise!Store!SameSlug(redirects[id].slug, row.slug)
              <=> NoCase(redirects[id].slug) = row.slug
      BY <2>2, <3>2, PromiseSlugs DEF Promise!Store!SameSlug
    <3>. QED
      BY <3>1, <3>3 DEF Promise!Holders, Promise!Store!Rows
  <2>. QED
    BY <2>2, <2>3, RegularDocumented
<1>. QED
  BY <1>1, InitReach, NextReach, ManagementControl, PTL DEF Spec
-----------------------------------------------------------------------------
(***************************************************************************)
(* The shapes of a step of command c.  The client moves on, and ends with  *)
(* ok or refused only on such a status; the server answers, and does so    *)
(* with the statement or without; the rest touches neither.                *)
(***************************************************************************)
Open == {"idle", "asking", "ready", "waiting"}

ClientShape(c) ==
  /\ client[c] \in Open
  /\ \E to \in {"asking", "ready", "waiting", "ok", "refused", "unsent", "unknown"} :
       /\ client' = [client EXCEPT ![c] = to]
       /\ to = "ok" => status[c] = "success"
       /\ to = "refused" => status[c] = "refused"
  /\ UNCHANGED <<tables, status, result>>
  /\ \/ UNCHANGED job
     \/ client[c] = "idle" /\ \E j \in Jobs : job' = [job EXCEPT ![c] = j]

AnswerShape(c) ==
  /\ request[c] \in Working
  /\ UNCHANGED <<client, job>>
  /\ \E code \in {"success", "refused", "error"} :
       /\ status' = [status EXCEPT ![c] = code]
       /\ \/ /\ code = "success" /\ ~DryRun(job[c])
             /\ ValidRequest(job[c]) /\ Promise!Statement(c)
          \/ (code = "success" => DryRun(job[c])) /\ UNCHANGED <<tables, result>>

RestShape == UNCHANGED <<tables, client, job, status, result>>

LEMMA ClientShapes ==
  ASSUME Control, NEW c \in Commands, ClientStep(c) \/ Lose(c)
  PROVE  ClientShape(c) \/ RestShape
<1>. USE DEF tables, server
<1>1. CASE Parse(c)
  BY <1>1 DEF Parse, Moves, ClientShape, Open
<1>2. CASE Confirm(c) \/ Cancel(c) \/ ReadFails(c) \/ Send(c) \/ GiveUp(c)
  BY <1>2 DEF Confirm, Cancel, ReadFails, Send, GiveUp, Moves, ClientShape, Open
<1>3. CASE Receive(c)
  <2>. DEFINE to == CASE status[c] = "success" -> "ok"
                      [] status[c] = "refused" -> "refused"
                      [] OTHER -> "unknown"
  <2>1. /\ client[c] = "waiting" /\ client' = [client EXCEPT ![c] = to]
        /\ UNCHANGED <<tables, job, status, result>>
    BY <1>3 DEF Receive, Moves
  <2>2. /\ to \in {"ok", "refused", "unknown"}
        /\ to = "ok" => status[c] = "success"
        /\ to = "refused" => status[c] = "refused"
    OBVIOUS
  <2>. QED
    BY <2>1, <2>2 DEF ClientShape, Open
<1>4. CASE Lose(c)
  BY <1>4 DEF Lose, RestShape
<1>. QED
  BY <1>1, <1>2, <1>3, <1>4 DEF ClientStep

LEMMA ServerShapes ==
  ASSUME Control, NEW c \in Commands, ServerStep(c)
  PROVE  AnswerShape(c) \/ RestShape
<1>1. ASSUME NEW code \in {"success", "refused", "error"}, AnswerOnly(c, code),
             request[c] \in Working, code = "success" => DryRun(job[c])
      PROVE  AnswerShape(c)
  BY <1>1 DEF AnswerOnly, Answer, AnswerShape
<1>2. CASE RefuseRequest(c)
  BY <1>1, <1>2 DEF RefuseRequest, Working
<1>3. CASE Execute(c)
  <2>1. /\ request[c] = "sent" /\ request[c] \in Working
        /\ ~DryRun(job[c]) /\ ValidRequest(job[c])
    BY <1>3 DEF Execute, Accepted, Working
  <2>2. CASE /\ Promise!Statement(c) /\ Answer(c, "success")
             /\ UNCHANGED <<tokens, job, client, progress, conflict>>
    BY <2>1, <2>2 DEF Answer, AnswerShape
  <2>3. CASE AnswerOnly(c, "refused") \/ AnswerOnly(c, "error")
    BY <1>1, <2>1, <2>3
  <2>. QED
    BY <1>3, <2>2, <2>3 DEF Execute
<1>4. CASE Begin(c)
  BY <1>4 DEF Begin, RestShape
<1>5. CASE Attempt(c)
  <2>1. /\ request[c] = "trying" /\ request[c] \in Working
        /\ GeneratesSlug(job[c]) /\ ValidRequest(job[c])
    BY <1>5 DEF Attempt, Control, Tracks, Working
  <2>2. CASE AnswerOnly(c, "error")
    BY <1>1, <2>1, <2>2
  <2>3. CASE \E slug \in Generated : Created(c, slug) /\ UNCHANGED <<job, client>>
    <3>1. PICK slug \in Generated : Created(c, slug)
      BY <2>3
    <3>2. Promise!Statement(c)
      BY <2>1, <3>1 DEF Created, GeneratesSlug, Promise!Statement, Promise!SlugsOf
    <3>3. ~DryRun(job[c])
      BY <2>1 DEF DryRun, GeneratesSlug
    <3>. QED
      BY <2>1, <2>3, <3>1, <3>2, <3>3 DEF Created, Answer, AnswerShape
  <2>4. CASE UNCHANGED <<tables, job, client, status, result>>
    BY <2>4 DEF RestShape
  <2>. QED
    BY <1>5, <2>2, <2>3, <2>4 DEF Attempt
<1>6. CASE Exhausted(c)
  BY <1>1, <1>6 DEF Exhausted, Working
<1>7. CASE CheckRow(c)
  BY <1>1, <1>7 DEF CheckRow, Working, RestShape
<1>8. CASE ReportCheck(c)
  <2>1. DryRun(job[c]) /\ request[c] \in Working
    BY <1>8 DEF ReportCheck, Control, Tracks, Working
  <2>. QED
    BY <1>1, <1>8, <2>1 DEF ReportCheck
<1>. QED
  BY <1>2, <1>3, <1>4, <1>5, <1>6, <1>7, <1>8 DEF ServerStep

LEMMA StepShapes ==
  ASSUME Control, [Next]_vars
  PROVE  RestShape \/ \E c \in Commands : ClientShape(c) \/ AnswerShape(c)
<1>1. CASE UNCHANGED vars
  BY <1>1 DEF vars, server, RestShape
<1>. QED
  BY <1>1, ClientShapes, ServerShapes DEF Next

(***************************************************************************)
(* What the exit of the client rests on: ok on a success, refused on a     *)
(* refusal of the server.                                                  *)
(***************************************************************************)
Told ==
  \A c \in Commands :
    /\ client[c] = "ok" => status[c] = "success"
    /\ client[c] = "refused" => status[c] = "refused"

LEMMA ToldStep == Control /\ Told /\ [Next]_vars => Told'
<1>. SUFFICES ASSUME Control, Told, [Next]_vars PROVE Told'
  OBVIOUS
<1>1. ASSUME NEW c \in Commands, ClientShape(c) PROVE Told'
  BY <1>1 DEF ClientShape, Told, Control, TypeOK
<1>2. ASSUME NEW c \in Commands, AnswerShape(c) PROVE Told'
  <2>1. status[c] = "none" /\ client' = client
    BY <1>2 DEF AnswerShape, Control, TypeOK, Working
  <2>2. client[c] # "ok" /\ client[c] # "refused"
    BY <2>1 DEF Told
  <2>. QED
    BY <1>2, <2>1, <2>2 DEF AnswerShape, Told, Control, TypeOK
<1>3. CASE RestShape
  BY <1>3 DEF RestShape, Told
<1>. QED
  BY <1>1, <1>2, <1>3, StepShapes

(***************************************************************************)
(* The exit of the client is the truth about the tables: a command that    *)
(* ended with ok took effect (or was a dry run, which never does), and one *)
(* that was refused or never sent did not, although requests and answers   *)
(* are lost and the client may have stopped waiting.                       *)
(***************************************************************************)
TruthfulEnds ==
  \A c \in Commands :
    /\ client[c] = "ok" => c \in Effective \/ DryRun(job[c])
    /\ client[c] \in {"refused", "unsent"} => c \notin Effective

THEOREM ManagementTruthful == Spec => []TruthfulEnds
<1>1. Init => Told
  BY DEF Init, Told
<1>2. Control /\ Told => TruthfulEnds
  BY DEF Control, TypeOK, Told, TruthfulEnds, Effective
<1>. QED
  BY <1>1, <1>2, ManagementControl, ToldStep, PTL DEF Spec

(***************************************************************************)
(* The tables change only by the statement of one command that had had no  *)
(* effect before, and it has had its effect then: however often slugs are  *)
(* tried and rows checked, no command changes the tables a second time.    *)
(***************************************************************************)
EffectOnce ==
  \E c \in Commands :
    c \notin Effective /\ Effective' = Effective \cup {c} /\ Promise!Statement(c)

THEOREM ManagementEffectsOnce == Spec => [][UNCHANGED tables \/ EffectOnce]_vars
<1>1. Control /\ [Next]_vars => [UNCHANGED tables \/ EffectOnce]_vars
  <2>. SUFFICES ASSUME Control, [Next]_vars, ~UNCHANGED tables PROVE EffectOnce
    OBVIOUS
  <2>1. PICK c \in Commands : AnswerShape(c)
    BY StepShapes DEF RestShape, ClientShape
  <2>2. /\ request[c] \in Working /\ UNCHANGED <<client, job>>
        /\ ~DryRun(job[c]) /\ Promise!Statement(c)
        /\ status' = [status EXCEPT ![c] = "success"]
    BY <2>1 DEF AnswerShape
  <2>3. status[c] = "none" /\ c \notin Effective
    BY <2>2 DEF Control, TypeOK, Effective, Working
  <2>4. Effective' = Effective \cup {c}
    BY <2>2, <2>3 DEF Effective, Control, TypeOK
  <2>. QED
    BY <2>2, <2>3, <2>4 DEF EffectOnce
<1>. QED
  BY <1>1, ManagementControl, PTL DEF Spec

(***************************************************************************)
(* An end that states something is final: after ok, a refusal or a request *)
(* that was not sent the server does no more for the command, and what it  *)
(* was told stands.  (After "unknown" it still may.)                       *)
(***************************************************************************)
EndStands ==
  \A c \in Commands : client[c] \in {"ok", "refused", "unsent"} =>
    client'[c] = client[c] /\ status'[c] = status[c] /\ job'[c] = job[c]

THEOREM ManagementEndsStand == Spec => [][EndStands]_vars
<1>1. Control /\ Told /\ [Next]_vars => [EndStands]_vars
  <2>. SUFFICES ASSUME Control, Told, [Next]_vars,
                       NEW d \in Commands, client[d] \in {"ok", "refused", "unsent"}
                PROVE  client'[d] = client[d] /\ status'[d] = status[d] /\ job'[d] = job[d]
    BY DEF EndStands
  <2>1. ASSUME NEW c \in Commands, ClientShape(c)
        PROVE  client'[d] = client[d] /\ status'[d] = status[d] /\ job'[d] = job[d]
    <3>1. c # d
      BY <2>1 DEF ClientShape, Open
    <3>. QED
      BY <2>1, <3>1 DEF ClientShape, Control, TypeOK
  <2>2. ASSUME NEW c \in Commands, AnswerShape(c)
        PROVE  client'[d] = client[d] /\ status'[d] = status[d] /\ job'[d] = job[d]
    <3>1. c # d
      BY <2>2 DEF AnswerShape, Control, TypeOK, Tracks, Working
    <3>. QED
      BY <2>2, <3>1 DEF AnswerShape, Control, TypeOK
  <2>. QED
    BY <2>1, <2>2, StepShapes DEF RestShape
<1>2. Init => Told
  BY DEF Init, Told
<1>. QED
  BY <1>1, <1>2, ManagementControl, ToldStep, PTL DEF Spec
-----------------------------------------------------------------------------
(***************************************************************************)
(* The tables, as RedirectStore_proofs knows them.                         *)
(***************************************************************************)
Tables == INSTANCE RedirectStore_proofs
  WITH Slugs <- Words, Canonical <- Promise!CanonicalSlugs,
       Fold <- [word \in Words |-> Promise!NoCase(word)]

LEMMA TablesAssumption ==
  /\ Tables!SlugAssumption
  /\ Tables!TimeAssumption
  /\ Tables!BoundAssumption
  /\ Tables!BatchAssumption
<1>1. Tables!SlugAssumption
  <2>1. Promise!CanonicalSlugs \subseteq Words
    BY CanonicalWord, PromiseSlugs
  <2>2. [word \in Words |-> Promise!NoCase(word)] \in [Words -> Words]
    BY NoCaseWord, PromiseSlugs
  <2>3. \A word \in Words : Promise!NoCase(Promise!NoCase(word)) = Promise!NoCase(word)
    BY NoCaseIdempotent, PromiseSlugs
  <2>4. \A word \in Promise!CanonicalSlugs : Promise!NoCase(word) = word
    BY CanonicalWord, PromiseSlugs
  <2>5. \A word \in Words : Promise!NoCase(word) \in Words
    BY NoCaseWord, PromiseSlugs
  <2>6. Tables!IsFiniteSet(Promise!CanonicalSlugs)
    BY TableAssumption, PromiseSlugs DEF Tables!IsFiniteSet, IsFiniteSet
  <2>7. /\ Rank \in [Promise!CanonicalSlugs -> Nat]
        /\ \A s, t \in Promise!CanonicalSlugs : Rank[s] = Rank[t] => s = t
    BY TableAssumption, PromiseSlugs
  <2>. QED
    BY <2>1, <2>2, <2>3, <2>4, <2>5, <2>6, <2>7 DEF Tables!SlugAssumption
<1>2. Tables!TimeAssumption /\ Tables!BoundAssumption
  BY TableAssumption DEF Tables!TimeAssumption, Tables!BoundAssumption,
     Promise!Store!TimeAssumption, Promise!Store!BoundAssumption
<1>3. Tables!BatchAssumption
  <2> DEFINE Rows == [slug : Words \ {<< >>}, url : URLs, disabled : BOOLEAN,
                      expires : Expirations \cup {None},
                      clicks : 0..MaxCount,
                      last : Expirations \cup Clock \cup {None}]
  <2>1. Rows \subseteq Tables!Row
    BY DEF Tables!Row, Tables!Instant
  <2>2. Batches \subseteq Seq(Rows)
    BY CommandAssumption
  <2>. HIDE DEF Rows
  <2>3. ASSUME NEW batch \in Batches PROVE batch \in Seq(Tables!ImportRow)
    <3>1. batch \in Seq(Rows) /\ Len(batch) \in Nat /\ DOMAIN batch = 1..Len(batch)
      BY <2>2
    <3>2. \A i \in 1..Len(batch) : batch[i] \in Tables!ImportRow
      BY <2>1, <3>1, CommandAssumption DEF Tables!ImportRow
    <3>3. batch = [i \in 1..Len(batch) |-> batch[i]]
      BY <3>1
    <3>. QED
      BY <3>1, <3>2, <3>3
  <2>. QED
    BY <2>3 DEF Tables!BatchAssumption
<1>. QED
  BY <1>1, <1>2, <1>3

LEMMA FirstTables == Init => Tables!IInv
<1>. SUFFICES ASSUME Init PROVE Tables!IInv
  OBVIOUS
<1>1. PICK batch \in Batches :
        redirects = [id \in DOMAIN batch |-> batch[id]] /\ lastId = Len(batch)
  BY DEF Init
<1>2. /\ Len(batch) \in Nat /\ DOMAIN batch = 1..Len(batch) /\ Len(batch) <= MaxId
      /\ \A i \in DOMAIN batch : batch[i] \in Tables!ImportRow
      /\ DOMAIN misses = {}
  BY <1>1, TablesAssumption, CommandAssumption DEF Tables!BatchAssumption, Init
<1>3. DOMAIN redirects = 1..Len(batch) /\ \A i \in DOMAIN redirects : redirects[i] = batch[i]
  BY <1>1, <1>2
<1>4. Tables!TypeOK
  <2>1. redirects \in [DOMAIN redirects -> Tables!Row]
    BY <1>1, <1>2, <1>3 DEF Tables!ImportRow
  <2>2. misses \in [DOMAIN misses -> Tables!Miss] /\ DOMAIN misses \subseteq CanonicalSlugs
    BY DEF Init
  <2>3. lastId \in 0..MaxId
    BY <1>1, <1>2, TablesAssumption DEF Tables!BoundAssumption
  <2>. QED
    BY <1>1, <1>2, <1>3, <2>1, <2>2, <2>3 DEF Tables!TypeOK
<1>5. Tables!SlugsUnique
  <2>1. \A i \in DOMAIN batch : batch[i].slug \in Words
    BY BatchRow DEF IsRow
  <2>2. \A i \in DOMAIN batch :
          [word \in Words |-> Promise!NoCase(word)][batch[i].slug]
            = NoCase(batch[i].slug)
    BY <2>1, PromiseSlugs
  <2>. QED
    BY <1>2, <1>3, <2>2, CommandAssumption DEF Tables!SlugsUnique
<1>6. Tables!MissesUnresolved /\ Tables!UsageConsistent
  BY <1>2, <1>3 DEF Tables!MissesUnresolved, Tables!UsageConsistent, Tables!ImportRow
<1>7. Tables!MissRetention
  <2>1. Tables!Cardinality({}) = 0
    BY FS_EmptySet DEF Tables!Cardinality, Cardinality
  <2>. QED
    BY <1>2, <2>1, TablesAssumption DEF Tables!MissRetention, Tables!BoundAssumption
<1>. QED
  BY <1>4, <1>5, <1>6, <1>7 DEF Tables!IInv

(***************************************************************************)
(* What the commands may ask of package db: links are made with canonical  *)
(* slugs, destinations and expirations that were validated, and imports    *)
(* bring what backup.Decode let through.                                   *)
(***************************************************************************)
CreatesValid ==
  \E slug \in CanonicalSlugs, url \in Destinations,
     expires \in Expirations \cup {None} :
    Promise!Store!CreateRedirect(slug, url, expires)

ChangesValid ==
  \E slug \in Words :
    \/ \E url \in Destinations : Promise!Store!UpdateRedirect(slug, url)
    \/ Promise!Store!DisableRedirect(slug)
    \/ \E expires \in Expirations \cup {None} :
         Promise!Store!SetRedirectExpiration(slug, expires)
    \/ Promise!Store!DeleteRedirect(slug)

Operates == CreatesValid \/ ChangesValid \/ Promise!Store!Import

LEMMA StatementOperates ==
  ASSUME NEW c \in Commands, job[c] \in Jobs, ValidRequest(job[c]), Promise!Statement(c)
  PROVE  Operates \/ UNCHANGED tables
<1>1. CASE \E slug \in Promise!SlugsOf(job[c]) : Promise!Create(c, slug)
  <2>1. PICK slug \in Promise!SlugsOf(job[c]) : Promise!Create(c, slug)
    BY <1>1
  <2>2. slug \in CanonicalSlugs
    <3>1. Generated \subseteq CanonicalSlugs
      BY CommandAssumption
    <3>. QED
      BY <3>1, PromiseSlugs DEF Promise!SlugsOf
  <2>3. job[c].url \in Destinations /\ job[c].expires \in Expirations \cup {None}
    BY <2>1 DEF ValidRequest, Promise!Create
  <2>4. CreatesValid
    BY <2>1, <2>2, <2>3 DEF Promise!Create, CreatesValid
  <2>. QED
    BY <2>4 DEF Operates
<1>2. CASE Promise!Change(c)
  <2>1. job[c].name \in {"update", "disable", "expire", "delete"}
    BY <1>2 DEF Promise!Change
  <2>2. job[c].slug \in Words
    BY <2>1, CommandAssumption
  <2>3. /\ job[c].name = "update" => job[c].url \in Destinations
        /\ job[c].name = "expire" => job[c].expires \in Expirations \cup {None}
    BY DEF ValidRequest
  <2>4. ChangesValid
    BY <1>2, <2>2, <2>3 DEF Promise!Change, ChangesValid
  <2>. QED
    BY <2>4 DEF Operates
<1>3. CASE Promise!Import(c)
  <2>1. job[c].batch \in Batches
    BY CommandAssumption
  <2>2. Promise!Store!Import
    BY <1>3, <2>1 DEF Promise!Import, Promise!Store!Import
  <2>. QED
    BY <2>2 DEF Operates
<1>4. CASE Promise!Inspect(c)
  BY <1>4 DEF Promise!Inspect, tables
<1>. QED
  BY <1>1, <1>2, <1>3, <1>4 DEF Promise!Statement

LEMMA StepOperates == Control /\ [Next]_vars => [Operates]_tables
<1>. SUFFICES ASSUME Control, [Next]_vars, ~UNCHANGED tables PROVE Operates
  OBVIOUS
<1>1. PICK c \in Commands : AnswerShape(c)
  BY StepShapes DEF RestShape, ClientShape
<1>2. ValidRequest(job[c]) /\ Promise!Statement(c) /\ request[c] \in Working
  BY <1>1 DEF AnswerShape
<1>3. job[c] \in Jobs
  BY <1>2 DEF Control, Tracks, Working
<1>. QED
  BY <1>2, <1>3, StatementOperates

LEMMA OperationsSame == [Operates]_tables => [Tables!Next]_(Tables!vars)
<1>0. Destinations \subseteq URLs /\ CanonicalSlugs = Promise!CanonicalSlugs
  BY CommandAssumption, PromiseSlugs
<1>1. CreatesValid => Tables!Create
  BY <1>0 DEF CreatesValid, Promise!Store!CreateRedirect, Promise!Store!Rows,
     Promise!Store!SameSlug, Promise!Store!NewRow, Promise!Store!WithoutMisses,
     Tables!Create, Tables!CreateRedirect, Tables!Rows, Tables!SameSlug,
     Tables!NewRow, Tables!WithoutMisses
<1>2. ChangesValid => Tables!Manage
  BY <1>0 DEF ChangesValid, Promise!Store!UpdateRedirect,
     Promise!Store!DisableRedirect, Promise!Store!SetRedirectExpiration,
     Promise!Store!DeleteRedirect, Promise!Store!Rewrite, Promise!Store!Rows,
     Promise!Store!SameSlug, Tables!Manage, Tables!UpdateRedirect,
     Tables!DisableRedirect, Tables!SetRedirectExpiration,
     Tables!DeleteRedirect, Tables!Rewrite, Tables!Rows, Tables!SameSlug
<1>3. Promise!Store!Import => Tables!Import
  BY DEF Promise!Store!Import, Promise!Store!ImportRedirects, Promise!Store!Rows,
     Promise!Store!SameSlug, Promise!Store!WithoutMisses,
     Tables!Import, Tables!ImportRedirects, Tables!Rows, Tables!SameSlug,
     Tables!WithoutMisses
<1>. QED
  BY <1>1, <1>2, <1>3 DEF Operates, Tables!Next, tables, Tables!vars

LEMMA TablesStep == Control /\ Tables!IInv /\ [Next]_vars => Tables!IInv'
BY StepOperates, OperationsSame, TablesAssumption, Tables!NextIInv

LEMMA TablesProperties ==
  /\ Tables!TypeOK => Promise!Store!TypeOK
  /\ Tables!SlugsUnique => Promise!Store!SlugsUnique
  /\ Tables!MissesUnresolved => Promise!Store!MissesUnresolved
  /\ Tables!UsageConsistent => Promise!Store!UsageConsistent
<1>1. Tables!Row = Promise!Store!Row /\ Tables!Miss = Promise!Store!Miss
  BY DEF Tables!Row, Tables!Instant, Tables!Miss,
         Promise!Store!Row, Promise!Store!Instant, Promise!Store!Miss
<1>. QED
  BY <1>1 DEF Tables!TypeOK, Promise!Store!TypeOK,
              Tables!SlugsUnique, Promise!Store!SlugsUnique,
              Tables!MissesUnresolved, Promise!Store!MissesUnresolved,
              Tables!UsageConsistent, Promise!Store!UsageConsistent

(***************************************************************************)
(* All that authorization, validation, retries and dry runs do to the      *)
(* tables is to create, to change and to import as package db does: every  *)
(* slug that is created or generated, every destination and every          *)
(* expiration that a request sets has been validated, whatever the jobs    *)
(* ask for; rows that were not come from imports alone.                    *)
(***************************************************************************)
THEOREM ManagementOperates == Spec => [][Operates]_tables
<1>1. Control /\ [Next]_vars => [Operates]_tables
  BY StepOperates
<1>. QED
  BY <1>1, ManagementControl, PTL DEF Spec

(***************************************************************************)
(* So any number of commands side by side, with imports of legacy slugs in *)
(* any case, keep the tables as their schema and the backup want them:     *)
(* typed rows, one row for each address however it is spelled, no miss for *)
(* an address that has one, and a last access exactly where there are      *)
(* clicks.                                                                 *)
(***************************************************************************)
THEOREM ManagementTablesConsistent ==
  Spec => [](Promise!Store!TypeOK /\ Promise!Store!SlugsUnique
             /\ Promise!Store!MissesUnresolved /\ Promise!Store!UsageConsistent)
<1>1. Tables!IInv => Promise!Store!TypeOK /\ Promise!Store!SlugsUnique
                     /\ Promise!Store!MissesUnresolved /\ Promise!Store!UsageConsistent
  BY TablesProperties DEF Tables!IInv
<1>. QED
  BY <1>1, FirstTables, TablesStep, ManagementControl, PTL DEF Spec
=============================================================================
