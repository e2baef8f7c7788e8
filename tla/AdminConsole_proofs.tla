------------------------ MODULE AdminConsole_proofs ------------------------
(***************************************************************************)
(* Proofs, for any number of links, requests under way and tokens, of what *)
(* the console's dialogs and its sessions promise.                         *)
(***************************************************************************)
EXTENDS AdminConsole, TLAPS

(***************************************************************************)
(* Only the latest request for an image is current, and only while its     *)
(* link is the one in the title.                                           *)
(***************************************************************************)
Images ==
  /\ qr.image # None => qr.image = qr.named
  /\ \A c \in Calls : call[c] # None /\ call[c].current =>
       call[c].for = "qr" /\ call[c].arg = qr.named

(***************************************************************************)
(* An open dialog has no close event under way, its pending link is the    *)
(* one it names, and only a confirmation lets a deletion through.          *)
(***************************************************************************)
Expiry == expiry.open => expiry.pending = expiry.named /\ "expiry" \notin closing

Removal ==
  /\ removal.open => /\ removal.pending = removal.named
                     /\ removal.value = "cancel"
                     /\ "removal" \notin closing
  /\ "removal" \in closing /\ removal.value = "confirm" =>
       approved = removal.pending

(***************************************************************************)
(* A cookie outlives the last login with its token by Lifetime at most.    *)
(***************************************************************************)
Granted(ls, k) ==
  \E login \in ls : login.token = k.token /\ k.until <= login.at + Lifetime

Sessions ==
  /\ \A login \in logins : login.at <= now
  /\ cookie # None => Granted(logins, cookie)
  /\ \A c \in Calls : call[c] # None =>
       /\ call[c].cookie # None => Granted(logins, call[c].cookie)
       /\ call[c].reload => call[c].for # "logout"

(***************************************************************************)
(* The parts of the type invariant.                                        *)
(***************************************************************************)
PageType ==
  /\ view \in {"login", "admin"} /\ listed \in BOOLEAN
  /\ qr \in [open : BOOLEAN, named : Links \cup {None}, image : Links \cup {None}]
  /\ expiry \in [open : BOOLEAN,
                named : Links \cup {None}, pending : Links \cup {None}]
  /\ removal \in [open : BOOLEAN, named : Links \cup {None},
                 pending : Links \cup {None}, value : {"", "cancel", "confirm"}]
  /\ closing \subseteq {"qr", "expiry", "removal"}
  /\ approved \in Links \cup {None}

SessionType ==
  /\ token \in Tokens /\ now \in Nat
  /\ logins \subseteq [token : Tokens, at : Nat]
  /\ cookie \in Cookies \cup {None}

CallType == call \in [Calls -> Requests \cup {None}]

LEMMA TypeParts ==
  /\ TypeOK <=> PageType /\ SessionType /\ CallType
  /\ TypeOK' <=> PageType' /\ SessionType' /\ CallType'
BY DEF TypeOK, PageType, SessionType, CallType

LEMMA PageSame == PageType /\ page' = page => PageType'
BY DEF page, PageType

LEMMA SessionSame ==
  SessionType /\ session' = session /\ cookie' = cookie => SessionType'
BY DEF session, SessionType
-----------------------------------------------------------------------------
(***************************************************************************)
(* What becomes of the chains of requests in a step.                       *)
(***************************************************************************)
LEMMA RequestType ==
  ASSUME TypeOK, NEW purpose \in Purposes, NEW arg \in Links \cup Tokens \cup {None}
  PROVE  Request(purpose, arg) \in Requests
BY DEF TypeOK, Request, Requests

LEMMA RequestCurrent ==
  ASSUME NEW purpose, NEW arg, purpose # "qr"
  PROVE  ~Request(purpose, arg).current
<1>1. Request(purpose, arg).current = (purpose = "qr")
  BY DEF Request
<1>2. (purpose = "qr") = FALSE
  OBVIOUS
<1>. QED
  BY <1>1, <1>2

LEMMA StartType ==
  ASSUME TypeOK, NEW c \in Calls, NEW purpose \in Purposes,
         NEW arg \in Links \cup Tokens \cup {None}, Start(c, purpose, arg)
  PROVE  CallType'
BY RequestType DEF TypeOK, CallType, Start

LEMMA OutdatedType ==
  ASSUME NEW calls \in [Calls -> Requests \cup {None}]
  PROVE  Outdated(calls) \in [Calls -> Requests \cup {None}]
BY DEF Outdated, Requests

LEMMA DoneType ==
  ASSUME TypeOK, NEW c \in Calls
  PROVE  Done(c) \in [Calls -> Requests \cup {None}]
BY DEF TypeOK, Done

LEMMA ReloadingType ==
  ASSUME TypeOK, NEW c \in Calls, call[c] # None
  PROVE  Reloading(c) \in [Calls -> Requests \cup {None}]
<1>1. call[c].for \in Purposes
  BY DEF TypeOK, Requests
<1>2. Request(call[c].for, None) \in Requests
  BY <1>1, RequestType
<1>3. [Request(call[c].for, None) EXCEPT !.reload = TRUE, !.current = FALSE]
        \in Requests
  BY <1>2 DEF Requests
<1>. QED
  BY <1>3 DEF TypeOK, Reloading

LEMMA ReplyType ==
  ASSUME TypeOK, NEW c \in Calls, call[c] # None,
         NEW status \in {"ok", "anonymous", "unauthorized", "failed"},
         Reply(c, status)
  PROVE  CallType'
<1>1. call[c] \in Requests
  BY DEF TypeOK
<1>2. [call[c] EXCEPT !.status = status, !.cookie = None] \in Requests
  BY <1>1 DEF Requests
<1>3. call' = [call EXCEPT ![c] = [call[c] EXCEPT !.status = status, !.cookie = None]]
  BY DEF TypeOK, Reply
<1>. QED
  BY <1>2, <1>3 DEF TypeOK, CallType

(***************************************************************************)
(* The same, chain by chain.                                               *)
(***************************************************************************)
LEMMA StartCall ==
  ASSUME TypeOK, NEW c \in Calls, NEW purpose, NEW arg, Start(c, purpose, arg),
         NEW d \in Calls
  PROVE  /\ call[c] = None
         /\ call'[d] = IF d = c THEN Request(purpose, arg) ELSE call[d]
BY DEF TypeOK, Start

LEMMA OutdatedCall ==
  ASSUME NEW calls \in [Calls -> Requests \cup {None}], NEW d \in Calls
  PROVE  /\ calls[d] = None => Outdated(calls)[d] = None
         /\ calls[d] # None =>
              /\ Outdated(calls)[d] # None
              /\ ~Outdated(calls)[d].current
              /\ Outdated(calls)[d].for = calls[d].for
              /\ Outdated(calls)[d].reload = calls[d].reload
              /\ Outdated(calls)[d].status = calls[d].status
              /\ Outdated(calls)[d].cookie = calls[d].cookie
<1>1. calls[d] # None => calls[d] \in Requests
  OBVIOUS
<1>2. Outdated(calls)[d] = IF calls[d] = None THEN None
                           ELSE [calls[d] EXCEPT !.current = FALSE]
  BY DEF Outdated
<1>3. calls[d] # None => [calls[d] EXCEPT !.current = FALSE] \in Requests
  BY <1>1 DEF Requests
<1>. QED
  BY <1>1, <1>2, <1>3, ConsoleAssumption DEF Requests

LEMMA ReplyCall ==
  ASSUME TypeOK, NEW c \in Calls, call[c] # None, NEW status, Reply(c, status),
         NEW d \in Calls
  PROVE  /\ d # c => call'[d] = call[d]
         /\ call'[c].for = call[c].for /\ call'[c].arg = call[c].arg
         /\ call'[c].reload = call[c].reload
         /\ call'[c].current = call[c].current
         /\ call'[c].status = status /\ call'[c].cookie = None
<1>1. call[c] \in Requests
  BY DEF TypeOK
<1>2. call' = [call EXCEPT ![c] = [call[c] EXCEPT !.status = status, !.cookie = None]]
  BY DEF TypeOK, Reply
<1>3. /\ call'[c] = [call[c] EXCEPT !.status = status, !.cookie = None]
      /\ d # c => call'[d] = call[d]
  BY <1>2 DEF TypeOK
<1>. QED
  BY <1>1, <1>3 DEF Requests

LEMMA DoneCall ==
  ASSUME TypeOK, NEW c \in Calls, NEW d \in Calls
  PROVE  Done(c)[d] = IF d = c THEN None ELSE call[d]
BY DEF TypeOK, Done

LEMMA ReloadingCall ==
  ASSUME TypeOK, NEW c \in Calls, NEW d \in Calls
  PROVE  /\ d # c => Reloading(c)[d] = call[d]
         /\ Reloading(c)[c].for = call[c].for /\ Reloading(c)[c].reload
         /\ ~Reloading(c)[c].current /\ Reloading(c)[c].cookie = cookie
         /\ Reloading(c)[c].status = "sent"
<1>1. Reloading(c)[c]
        = [Request(call[c].for, None) EXCEPT !.reload = TRUE, !.current = FALSE]
  BY DEF TypeOK, Reloading
<1>2. d # c => Reloading(c)[d] = call[d]
  BY DEF TypeOK, Reloading
<1>. QED
  BY <1>1, <1>2 DEF Request
-----------------------------------------------------------------------------
LEMMA InitTypeOK == Init => TypeOK
<1>. SUFFICES ASSUME Init PROVE TypeOK
  OBVIOUS
<1>1. cookie \in Cookies \cup {None}
  <2>1. cookie \in {None, [token |-> token, until |-> Lifetime]} /\ token \in Tokens
    BY DEF Init
  <2>. QED
    BY <2>1, ConsoleAssumption DEF Cookies
<1>2. Request("start", None) \in Requests
  BY <1>1 DEF Request, Requests, Purposes
<1>3. call \in [Calls -> Requests \cup {None}]
  BY <1>2 DEF Init
<1>4. logins \subseteq [token : Tokens, at : Nat]
  <2>1. logins = {[token |-> token, at |-> 0]} /\ token \in Tokens
    BY DEF Init
  <2>. QED
    BY <2>1
<1>. QED
  BY <1>1, <1>3, <1>4 DEF Init, TypeOK

(***************************************************************************)
(* The steps that may leave the chains of requests as they are.            *)
(***************************************************************************)
LEMMA OwnerTypeOK ==
  TypeOK /\ (\E c \in Calls : Owner(c) \/ DeleteClosed(c)) => TypeOK'
<1>. SUFFICES ASSUME TypeOK, NEW c \in Calls, Owner(c) \/ DeleteClosed(c)
              PROVE  TypeOK'
  OBVIOUS
<1>1. CASE Login(c)
  <2>1. CallType'
    BY <1>1, StartType DEF Login, Purposes
  <2>. QED
    BY <1>1, <2>1, TypeParts, PageSame, SessionSame DEF Login
<1>2. CASE Logout(c) \/ WriteLink(c)
  <2>1. CallType'
    BY <1>2, StartType DEF Logout, WriteLink, Purposes
  <2>. QED
    BY <1>2, <2>1, TypeParts, PageSame, SessionSame DEF Logout, WriteLink
<1>3. CASE OpenQRCodeDialog(c)
  <2>1. PICK link \in Links :
          /\ qr' = [open |-> TRUE, named |-> link, image |-> None]
          /\ call' = [Outdated(call) EXCEPT ![c] = Request("qr", link)]
    BY <1>3 DEF OpenQRCodeDialog
  <2>2. Request("qr", link) \in Requests
    BY RequestType DEF Purposes
  <2>3. Outdated(call) \in [Calls -> Requests \cup {None}]
    BY OutdatedType DEF TypeOK
  <2>4. CallType'
    BY <2>1, <2>2, <2>3 DEF CallType
  <2>5. PageType'
    BY <1>3, <2>1, TypeParts DEF OpenQRCodeDialog, PageType
  <2>. QED
    BY <1>3, <2>4, <2>5, TypeParts, SessionSame DEF OpenQRCodeDialog
<1>4. CASE SaveExpiration(c)
  <2>1. expiry.pending \in Links \cup {None}
    BY DEF TypeOK
  <2>2. CallType'
    BY <1>4, <2>1, StartType DEF SaveExpiration, Purposes
  <2>. QED
    BY <1>4, <2>2, TypeParts, PageSame, SessionSame DEF SaveExpiration
<1>5. CASE DeleteClosed(c)
  <2>1. removal.pending \in Links \cup {None}
    BY DEF TypeOK
  <2>2. CallType'
    <3>1. CASE UNCHANGED call
      BY <3>1, TypeParts DEF CallType
    <3>2. CASE Start(c, "delete", removal.pending)
      BY <3>2, <2>1, StartType DEF Purposes
    <3>. QED
      BY <1>5, <3>1, <3>2 DEF DeleteClosed
  <2>3. PageType'
    BY <1>5, TypeParts DEF DeleteClosed, PageType
  <2>. QED
    BY <1>5, <2>2, <2>3, TypeParts, SessionSame DEF DeleteClosed
<1>. QED
  BY <1>1, <1>2, <1>3, <1>4, <1>5 DEF Owner

LEMMA DialogTypeOK ==
  /\ TypeOK
  /\ \/ OpenExpirationDialog \/ OpenDeleteDialog \/ Dismiss \/ ConfirmDelete
     \/ QRClosed \/ ExpirationClosed
  => TypeOK'
<1>. SUFFICES ASSUME TypeOK,
                     \/ OpenExpirationDialog \/ OpenDeleteDialog
                     \/ Dismiss \/ ConfirmDelete
                     \/ QRClosed \/ ExpirationClosed
              PROVE  TypeOK'
  OBVIOUS
<1>1. PageType /\ SessionType /\ CallType
  BY TypeParts
<1>2. PageType'
  <2>1. CASE OpenExpirationDialog
    <3>1. PICK link \in Links :
            expiry' = [open |-> TRUE, named |-> link, pending |-> link]
      BY <2>1 DEF OpenExpirationDialog
    <3>2. UNCHANGED <<view, listed, qr, removal, closing, approved>>
      BY <2>1 DEF OpenExpirationDialog
    <3>. QED
      BY <1>1, <3>1, <3>2 DEF PageType
  <2>5. CASE OpenDeleteDialog
    <3>1. PICK link \in Links :
            removal' = [open |-> TRUE, named |-> link, pending |-> link,
                        value |-> "cancel"]
      BY <2>5 DEF OpenDeleteDialog
    <3>2. UNCHANGED <<view, listed, qr, expiry, closing, approved>>
      BY <2>5 DEF OpenDeleteDialog
    <3>. QED
      BY <1>1, <3>1, <3>2 DEF PageType
  <2>2. CASE Dismiss
    <3>1. qr' \in {qr, [qr EXCEPT !.open = FALSE]}
          /\ expiry' \in {expiry, [expiry EXCEPT !.open = FALSE]}
          /\ closing' \in {closing \cup {d} : d \in {"qr", "expiry", "removal"}}
      BY <2>2 DEF Dismiss
    <3>2. \/ removal' = removal
          \/ \E value \in {"cancel", removal.value} :
               removal' = [removal EXCEPT !.open = FALSE, !.value = value]
      BY <2>2 DEF Dismiss
    <3>3. removal' \in [open : BOOLEAN, named : Links \cup {None},
                       pending : Links \cup {None},
                       value : {"", "cancel", "confirm"}]
      BY <1>1, <3>2 DEF PageType
    <3>. QED
      BY <1>1, <2>2, <3>1, <3>3 DEF Dismiss, PageType
  <2>3. CASE ConfirmDelete
    BY <1>1, <2>3 DEF ConfirmDelete, PageType
  <2>4. CASE QRClosed \/ ExpirationClosed
    BY <1>1, <2>4 DEF QRClosed, ExpirationClosed, PageType, NoQR
  <2>. QED
    BY <2>1, <2>2, <2>3, <2>4, <2>5
<1>3. SessionType'
  BY <1>1, SessionSame DEF OpenExpirationDialog, OpenDeleteDialog, Dismiss,
     ConfirmDelete, QRClosed, ExpirationClosed
<1>4. CallType'
  <2>1. call' = call \/ call' = Outdated(call)
    BY DEF OpenExpirationDialog, OpenDeleteDialog, Dismiss, ConfirmDelete,
           QRClosed, ExpirationClosed
  <2>. QED
    BY <1>1, <2>1, OutdatedType DEF CallType
<1>. QED
  BY <1>2, <1>3, <1>4, TypeParts

LEMMA ServerTypeOK ==
  TypeOK /\ ((\E c \in Calls : Server(c)) \/ Tick \/ Rotate) => TypeOK'
<1>. SUFFICES ASSUME TypeOK, (\E c \in Calls : Server(c)) \/ Tick \/ Rotate
              PROVE  TypeOK'
  OBVIOUS
<1>. USE DEF Serve, ServeSession, ServeLogin, ServeLogout, Fail
<1>1. PageType /\ SessionType /\ CallType
  BY TypeParts
<1>2. PageType'
  <2>1. page' = page
    BY DEF Server, Tick, Rotate
  <2>. QED
    BY <1>1, <2>1, PageSame
<1>3. ASSUME NEW c \in Calls, Server(c) PROVE TypeOK'
  <2>1. CallType'
    <3>1. /\ call[c] # None
          /\ \E status \in {"ok", "anonymous", "unauthorized", "failed"} :
               Reply(c, status)
      BY <1>3 DEF Server, Sent
    <3>. QED
      BY <3>1, ReplyType
  <2>2. SessionType'
    <3>1. CASE session' = session /\ cookie' \in {cookie, None}
      BY <1>1, <3>1 DEF session, SessionType
    <3>2. CASE /\ UNCHANGED <<token, now>>
               /\ cookie' = [token |-> token, until |-> now + Lifetime]
               /\ logins' = {login \in logins : login.token # token}
                            \cup {[token |-> token, at |-> now]}
      <4>1. [token |-> token, until |-> now + Lifetime] \in Cookies
        BY <1>1, ConsoleAssumption DEF SessionType, Cookies
      <4>2. [token |-> token, at |-> now] \in [token : Tokens, at : Nat]
        BY <1>1 DEF SessionType
      <4>. QED
        BY <1>1, <3>2, <4>1, <4>2 DEF SessionType
    <3>. QED
      BY <1>3, <3>1, <3>2 DEF Server, session
  <2>. QED
    BY <1>2, <2>1, <2>2, TypeParts
<1>4. CASE Tick \/ Rotate
  <2>1. SessionType'
    BY <1>1, <1>4 DEF Tick, Rotate, SessionType
  <2>2. CallType'
    BY <1>1, <1>4 DEF Tick, Rotate, CallType
  <2>. QED
    BY <1>2, <2>1, <2>2, TypeParts
<1>. QED
  BY <1>3, <1>4

(***************************************************************************)
(* The continuations.                                                      *)
(***************************************************************************)
LEMMA ShowLoginType ==
  ASSUME PageType, NEW calls \in [Calls -> Requests \cup {None}],
         NEW others \in {{}, {"expiry", "removal"}},
         ShowLogin(calls, others), UNCHANGED approved, listed' \in BOOLEAN
  PROVE  PageType' /\ CallType'
<1>1. CallType'
  BY OutdatedType DEF ShowLogin, CallType
<1>2. closing' \subseteq {"qr", "expiry", "removal"}
  BY DEF ShowLogin, PageType
<1>3. /\ expiry' = expiry \/ expiry' = [expiry EXCEPT !.open = FALSE]
      /\ removal' = removal \/ removal' = [removal EXCEPT !.open = FALSE]
      /\ view' = "login" /\ qr' = NoQR
  BY DEF ShowLogin
<1>. QED
  BY <1>1, <1>2, <1>3 DEF NoQR, PageType

LEMMA ContinueTypeOK ==
  TypeOK /\ Images /\ (\E c \in Calls : Continue(c)) => TypeOK'
<1>. SUFFICES ASSUME TypeOK, Images, NEW c \in Calls, Continue(c) PROVE TypeOK'
  OBVIOUS
<1>. USE DEF SessionEnded, CallFailed, Anonymous, Listed, LoggedIn, LoggedOut,
             Written, ExpirationSaved, QRArrived, Answered, First
<1>1. PageType /\ SessionType /\ CallType
  BY TypeParts
<1>2. SessionType'
  <2>1. session' = session /\ cookie' = cookie
    BY DEF Continue
  <2>. QED
    BY <1>1, <2>1, SessionSame
<1>3. call[c] # None
  BY DEF Continue
<1>4. /\ Done(c) \in [Calls -> Requests \cup {None}]
      /\ Reloading(c) \in [Calls -> Requests \cup {None}]
  BY <1>3, DoneType, ReloadingType
<1>5. PageType' /\ CallType'
  <2>1. CASE \/ ShowLogin(Done(c), {})
             \/ ShowLogin(Done(c), {"expiry", "removal"})
    <3>1. UNCHANGED approved /\ listed' \in BOOLEAN
      BY <1>1, <2>1 DEF Continue, page, PageType
    <3>. QED
      BY <1>1, <1>4, <2>1, <3>1, ShowLoginType
  <2>2. CASE Listed(c) \/ LoggedIn(c) \/ Written(c)
    BY <1>1, <1>4, <2>2 DEF PageType, CallType, page
  <2>3. CASE ExpirationSaved(c)
    BY <1>1, <1>4, <2>3 DEF PageType, CallType
  <2>4. CASE QRArrived(c)
    <3>1. call[c].current => call[c].arg \in Links \cup {None}
      BY <1>1, <1>3 DEF Images, PageType
    <3>2. qr' = qr \/ (call[c].current /\ qr' = [qr EXCEPT !.image = call[c].arg])
      BY <2>4
    <3>3. qr' \in [open : BOOLEAN, named : Links \cup {None},
                  image : Links \cup {None}]
      BY <1>1, <3>1, <3>2 DEF PageType
    <3>. QED
      BY <1>1, <1>4, <2>4, <3>3 DEF PageType, CallType
  <2>5. CASE CallFailed(c) /\ ~ShowLogin(Done(c), {})
    BY <1>1, <1>4, <2>5 DEF PageType, CallType
  <2>. QED
    BY <2>1, <2>2, <2>3, <2>4, <2>5 DEF Continue
<1>. QED
  BY <1>2, <1>5, TypeParts

-----------------------------------------------------------------------------
(***************************************************************************)
(* Invariance of the rest, part by part.                                   *)
(***************************************************************************)
LEMMA InitIInv == Init => TypeOK /\ Images /\ Expiry /\ Removal /\ Sessions
<1>. SUFFICES ASSUME Init PROVE TypeOK /\ Images /\ Expiry /\ Removal /\ Sessions
  OBVIOUS
<1>1. TypeOK
  BY InitTypeOK
<1>2. \A c \in Calls : call[c] # None => call[c] = Request("start", None)
  BY DEF Init
<1>3. Images
  <2>1. qr.image = None
    BY DEF Init
  <2>2. \A c \in Calls : call[c] # None => ~call[c].current
    BY <1>2, RequestCurrent
  <2>. QED
    BY <2>1, <2>2 DEF Images
<1>4. Expiry /\ Removal
  BY DEF Init, Expiry, Removal
<1>5. cookie # None => Granted(logins, cookie)
  <2>1. /\ cookie \in {None, [token |-> token, until |-> Lifetime]}
        /\ logins = {[token |-> token, at |-> 0]}
    BY DEF Init
  <2>. QED
    BY <2>1, ConsoleAssumption DEF Granted
<1>6. \A login \in logins : login.at <= now
  <2>1. logins = {[token |-> token, at |-> 0]} /\ now = 0
    BY DEF Init
  <2>. QED
    BY <2>1
<1>7. Sessions
  BY <1>2, <1>5, <1>6 DEF Sessions, Request
<1>. QED
  BY <1>1, <1>3, <1>4, <1>7

(***************************************************************************)
(* What a continuation does to its chain and to the QR dialog.             *)
(***************************************************************************)
LEMMA Continuations ==
  ASSUME TypeOK, NEW c \in Calls, Continue(c)
  PROVE  /\ call[c] # None
         /\ \/ \E others \in {{}, {"expiry", "removal"}} : ShowLogin(Done(c), others)
            \/ /\ call' = Done(c)
               /\ \/ qr' = qr
                  \/ call[c].current /\ qr' = [qr EXCEPT !.image = call[c].arg]
            \/ /\ call' = Reloading(c) /\ qr' = qr
               /\ call[c].for # "logout"
<1>. USE DEF SessionEnded, CallFailed, Anonymous, Listed, LoggedIn, LoggedOut,
             Written, ExpirationSaved, QRArrived, Answered, First, page
<1>1. CASE SessionEnded(c)
  BY <1>1
<1>2. CASE CallFailed(c)
  BY <1>2
<1>3. CASE Anonymous(c) \/ LoggedOut(c)
  BY <1>3
<1>4. CASE Listed(c)
  BY <1>4
<1>5. CASE LoggedIn(c) \/ Written(c)
  BY <1>5
<1>6. CASE ExpirationSaved(c)
  BY <1>6
<1>7. CASE QRArrived(c)
  BY <1>7
<1>. QED
  BY <1>1, <1>2, <1>3, <1>4, <1>5, <1>6, <1>7 DEF Continue

LEMMA Replies ==
  ASSUME TypeOK, NEW c \in Calls, Server(c)
  PROVE  /\ call[c] # None /\ UNCHANGED page
         /\ \E status : Reply(c, status)
BY DEF Server, Serve, ServeSession, ServeLogin, ServeLogout, Fail, Sent

LEMMA Starts ==
  ASSUME TypeOK, NEW c \in Calls, Owner(c) \/ DeleteClosed(c), ~OpenQRCodeDialog(c)
  PROVE  /\ qr' = qr
         /\ \/ call' = call
            \/ \E purpose \in Purposes \ {"qr"} : \E arg : Start(c, purpose, arg)
BY DEF Owner, Login, Logout, WriteLink, SaveExpiration, DeleteClosed, page, Purposes

LEMMA NextImages == TypeOK /\ Images /\ [Next]_vars => Images'
<1>. SUFFICES ASSUME TypeOK, Images, [Next]_vars PROVE Images'
  OBVIOUS
<1>1. /\ call \in [Calls -> Requests \cup {None}]
      /\ qr \in [open : BOOLEAN, named : Links \cup {None},
                 image : Links \cup {None}]
  BY DEF TypeOK
<1>2. ASSUME NEW calls \in [Calls -> Requests \cup {None}], NEW others,
             ShowLogin(calls, others)
      PROVE  Images'
  <2>1. call' = Outdated(calls) /\ qr'.image = None
    BY <1>2 DEF ShowLogin, NoQR
  <2>. QED
    BY <2>1, OutdatedCall DEF Images
<1>3. ASSUME NEW c \in Calls, Owner(c) \/ DeleteClosed(c) PROVE Images'
  <2>1. CASE OpenQRCodeDialog(c)
    <3>1. PICK link \in Links :
            /\ qr' = [open |-> TRUE, named |-> link, image |-> None]
            /\ call' = [Outdated(call) EXCEPT ![c] = Request("qr", link)]
      BY <2>1 DEF OpenQRCodeDialog
    <3>2. Outdated(call) \in [Calls -> Requests \cup {None}]
      BY <1>1, OutdatedType
    <3>3. /\ call'[c].for = "qr" /\ call'[c].arg = link
          /\ \A d \in Calls : d # c => call'[d] = Outdated(call)[d]
      BY <3>1, <3>2 DEF Request
    <3>. QED
      BY <1>1, <3>1, <3>3, OutdatedCall DEF Images
  <2>2. CASE ~OpenQRCodeDialog(c)
    <3>1. CASE call' = call
      BY <1>3, <2>2, <3>1, Starts DEF Images
    <3>2. CASE \E purpose \in Purposes \ {"qr"} : \E arg : Start(c, purpose, arg)
      <4>1. PICK purpose, arg : purpose \in Purposes \ {"qr"} /\ Start(c, purpose, arg)
        BY <3>2
      <4>2. ~call'[c].current /\ \A d \in Calls : d # c => call'[d] = call[d]
        BY <4>1, StartCall, RequestCurrent
      <4>. QED
        BY <1>3, <2>2, <4>2, Starts DEF Images
    <3>. QED
      BY <1>3, <2>2, <3>1, <3>2, Starts
  <2>. QED
    BY <2>1, <2>2
<1>4. ASSUME NEW c \in Calls, Server(c) PROVE Images'
  <2>1. qr' = qr /\ call[c] # None
    BY <1>4, Replies DEF page
  <2>2. \A d \in Calls : call'[d] = call[d] \/
          /\ d = c
          /\ call'[d].for = call[d].for /\ call'[d].arg = call[d].arg
          /\ call'[d].current = call[d].current
    BY <1>4, Replies, ReplyCall
  <2>. QED
    BY <2>1, <2>2 DEF Images
<1>5. ASSUME NEW c \in Calls, Continue(c) PROVE Images'
  <2>1. CASE \E others \in {{}, {"expiry", "removal"}} : ShowLogin(Done(c), others)
    BY <1>2, <2>1, DoneType
  <2>2. CASE /\ call' = Done(c)
             /\ \/ qr' = qr
                \/ call[c].current /\ qr' = [qr EXCEPT !.image = call[c].arg]
    <3>1. /\ qr'.named = qr.named
          /\ qr'.image = qr.image \/ qr'.image = qr.named
      BY <1>1, <1>5, <2>2, Continuations DEF Images
    <3>2. \A d \in Calls : call'[d] = None \/ call'[d] = call[d]
      BY <2>2, DoneCall
    <3>. QED
      BY <3>1, <3>2 DEF Images
  <2>3. CASE call' = Reloading(c) /\ qr' = qr
    <3>1. \A d \in Calls : ~call'[d].current \/ call'[d] = call[d]
      BY <2>3, ReloadingCall
    <3>. QED
      BY <2>3, <3>1 DEF Images
  <2>. QED
    BY <1>5, <2>1, <2>2, <2>3, Continuations
<1>6. CASE QRClosed
  <2>1. call' = Outdated(call) /\ qr'.image = None
    BY <1>6 DEF QRClosed, NoQR
  <2>. QED
    BY <1>1, <2>1, OutdatedCall DEF Images
<1>7. CASE \/ OpenExpirationDialog \/ OpenDeleteDialog \/ Dismiss \/ ConfirmDelete
           \/ ExpirationClosed \/ Tick \/ Rotate \/ UNCHANGED vars
  <2>1. call' = call /\ qr' \in {qr, [qr EXCEPT !.open = FALSE]}
    BY <1>7 DEF OpenExpirationDialog, OpenDeleteDialog, Dismiss, ConfirmDelete,
                ExpirationClosed, Tick, Rotate, vars, page
  <2>2. qr'.named = qr.named /\ qr'.image = qr.image
    BY <1>1, <2>1
  <2>. QED
    BY <2>1, <2>2 DEF Images
<1>. QED
  BY <1>3, <1>4, <1>5, <1>6, <1>7 DEF Next

(***************************************************************************)
(* Steps that leave both of the other dialogs alone.                       *)
(***************************************************************************)
LEMMA Idle ==
  ASSUME TypeOK, [Next]_vars,
         ~ \/ OpenExpirationDialog \/ OpenDeleteDialog \/ Dismiss \/ ConfirmDelete
           \/ QRClosed \/ ExpirationClosed,
         ~ \E c \in Calls : DeleteClosed(c) \/ Continue(c)
  PROVE  UNCHANGED <<expiry, removal, closing, approved>>
<1>1. ASSUME NEW c \in Calls, Owner(c)
      PROVE  UNCHANGED <<expiry, removal, closing, approved>>
  BY <1>1 DEF Owner, Login, Logout, WriteLink, OpenQRCodeDialog, SaveExpiration, page
<1>2. ASSUME NEW c \in Calls, Server(c)
      PROVE  UNCHANGED <<expiry, removal, closing, approved>>
  BY <1>2, Replies DEF page
<1>3. CASE Tick \/ Rotate \/ UNCHANGED vars
  BY <1>3 DEF Tick, Rotate, vars, page
<1>. QED
  BY <1>1, <1>2, <1>3 DEF Next

LEMMA Continued ==
  ASSUME TypeOK, NEW c \in Calls, Continue(c)
  PROVE  /\ approved' = approved
         /\ \/ \E others : ShowLogin(Done(c), others)
            \/ UNCHANGED <<expiry, removal, closing>>
            \/ /\ expiry' = [expiry EXCEPT !.open = FALSE, !.pending = None]
               /\ UNCHANGED removal
               /\ closing' \in {closing, closing \cup {"expiry"}}
<1>1. CASE ExpirationSaved(c)
  BY <1>1 DEF ExpirationSaved
<1>2. CASE ~ExpirationSaved(c)
  BY <1>2 DEF Continue, SessionEnded, CallFailed, Anonymous, Listed, LoggedIn,
              LoggedOut, Written, QRArrived, page
<1>. QED
  BY <1>1, <1>2

LEMMA NextExpiry == TypeOK /\ Expiry /\ [Next]_vars => Expiry'
<1>. SUFFICES ASSUME TypeOK, Expiry, [Next]_vars PROVE Expiry'
  OBVIOUS
<1>. USE DEF Expiry
<1>1. expiry \in [open : BOOLEAN,
                 named : Links \cup {None}, pending : Links \cup {None}]
  BY DEF TypeOK
<1>2. CASE OpenExpirationDialog
  BY <1>2 DEF OpenExpirationDialog, Listens
<1>3. CASE OpenDeleteDialog
  BY <1>3 DEF OpenDeleteDialog
<1>4. CASE Dismiss
  <2>1. \/ expiry' = expiry /\ closing' \in {closing \cup {"qr"}, closing \cup {"removal"}}
        \/ expiry' = [expiry EXCEPT !.open = FALSE]
    BY <1>4 DEF Dismiss
  <2>. QED
    BY <1>1, <2>1
<1>5. CASE ConfirmDelete
  BY <1>5 DEF ConfirmDelete
<1>6. CASE QRClosed
  BY <1>6 DEF QRClosed
<1>7. CASE ExpirationClosed
  <2>1. ~expiry.open /\ expiry' = [expiry EXCEPT !.pending = None]
    BY <1>7 DEF ExpirationClosed
  <2>. QED
    BY <1>1, <2>1
<1>8. ASSUME NEW c \in Calls, DeleteClosed(c) PROVE Expiry'
  BY <1>8 DEF DeleteClosed
<1>9. ASSUME NEW c \in Calls, Continue(c) PROVE Expiry'
  <2>1. CASE \E others : ShowLogin(Done(c), others)
    <3>1. PICK others : ShowLogin(Done(c), others)
      BY <2>1
    <3>2. CASE "expiry" \in others
      BY <1>1, <3>1, <3>2 DEF ShowLogin
    <3>3. CASE "expiry" \notin others
      BY <1>1, <3>1, <3>3 DEF ShowLogin
    <3>. QED
      BY <3>2, <3>3
  <2>2. CASE expiry' = [expiry EXCEPT !.open = FALSE, !.pending = None]
    BY <1>1, <2>2
  <2>. QED
    BY <1>9, <2>1, <2>2, Continued
<1>. QED
  BY <1>2, <1>3, <1>4, <1>5, <1>6, <1>7, <1>8, <1>9, Idle

LEMMA NextRemoval == TypeOK /\ Removal /\ [Next]_vars => Removal'
<1>. SUFFICES ASSUME TypeOK, Removal, [Next]_vars PROVE Removal'
  OBVIOUS
<1>. USE DEF Removal
<1>1. removal \in [open : BOOLEAN, named : Links \cup {None},
                  pending : Links \cup {None}, value : {"", "cancel", "confirm"}]
  BY DEF TypeOK
<1>2. CASE OpenExpirationDialog
  BY <1>2 DEF OpenExpirationDialog
<1>3. CASE OpenDeleteDialog
  BY <1>3 DEF OpenDeleteDialog, Listens
<1>4. CASE Dismiss
  <2>1. \/ /\ removal' = removal /\ approved' = approved
           /\ closing' \in {closing \cup {"qr"}, closing \cup {"expiry"}}
        \/ /\ removal.open
           /\ \E value \in {"cancel", removal.value} :
                removal' = [removal EXCEPT !.open = FALSE, !.value = value]
    BY <1>4 DEF Dismiss
  <2>2. CASE removal' = removal
    BY <2>1, <2>2, <1>1
  <2>3. CASE /\ removal.open
             /\ \E value \in {"cancel", removal.value} :
                  removal' = [removal EXCEPT !.open = FALSE, !.value = value]
    <3>1. ~removal'.open /\ removal'.value = "cancel"
      BY <1>1, <2>3
    <3>. QED
      BY <3>1
  <2>. QED
    BY <2>1, <2>2, <2>3
<1>5. CASE ConfirmDelete
  <2>1. /\ removal.open /\ approved' = removal.named
        /\ removal' = [removal EXCEPT !.open = FALSE, !.value = "confirm"]
    BY <1>5 DEF ConfirmDelete
  <2>. QED
    BY <1>1, <2>1
<1>6. CASE QRClosed
  BY <1>6 DEF QRClosed
<1>7. CASE ExpirationClosed
  BY <1>7 DEF ExpirationClosed
<1>8. ASSUME NEW c \in Calls, DeleteClosed(c) PROVE Removal'
  <2>1. /\ ~removal.open /\ removal' = [removal EXCEPT !.pending = None]
        /\ "removal" \notin closing'
    BY <1>8 DEF DeleteClosed
  <2>. QED
    BY <1>1, <2>1
<1>9. ASSUME NEW c \in Calls, Continue(c) PROVE Removal'
  <2>1. CASE \E others : ShowLogin(Done(c), others)
    <3>1. PICK others : ShowLogin(Done(c), others)
      BY <2>1
    <3>2. CASE "removal" \in others
      BY <1>1, <1>9, <3>1, <3>2, Continued DEF ShowLogin
    <3>3. CASE "removal" \notin others
      BY <1>1, <1>9, <3>1, <3>3, Continued DEF ShowLogin
    <3>. QED
      BY <3>2, <3>3
  <2>. QED
    BY <1>9, <2>1, Continued
<1>. QED
  BY <1>2, <1>3, <1>4, <1>5, <1>6, <1>7, <1>8, <1>9, Idle

(***************************************************************************)
(* A cookie stays granted.                                                 *)
(***************************************************************************)
LEMMA StaysGranted ==
  TypeOK /\ Sessions /\ [Next]_vars =>
    /\ \A login \in logins' : login.at <= now'
    /\ \A k \in Cookies : Granted(logins, k) => Granted(logins', k)
    /\ cookie' # None => cookie' = cookie \/ Granted(logins', cookie')
<1>. SUFFICES ASSUME TypeOK, Sessions, [Next]_vars
              PROVE  /\ \A login \in logins' : login.at <= now'
                     /\ \A k \in Cookies : Granted(logins, k) => Granted(logins', k)
                     /\ cookie' # None => cookie' = cookie \/ Granted(logins', cookie')
  OBVIOUS
<1>1. /\ now \in Nat /\ logins \subseteq [token : Tokens, at : Nat]
      /\ \A login \in logins : login.at <= now
  BY DEF TypeOK, Sessions
<1>2. CASE /\ now' = now
           /\ cookie' = [token |-> token, until |-> now + Lifetime]
           /\ logins' = {login \in logins : login.token # token}
                        \cup {[token |-> token, at |-> now]}
  <2>1. \A login \in logins' : login.at <= now'
    BY <1>1, <1>2
  <2> DEFINE latest == [token |-> token, at |-> now]
  <2>4. latest \in logins' /\ latest.token = token /\ latest.at = now
    BY <1>2
  <2>5. /\ cookie'.token = token /\ cookie'.until = now + Lifetime
        /\ now + Lifetime <= now + Lifetime
    BY <1>1, <1>2, ConsoleAssumption
  <2> HIDE DEF latest
  <2>2. Granted(logins', cookie')
    BY <2>4, <2>5 DEF Granted
  <2>3. ASSUME NEW k \in Cookies, Granted(logins, k) PROVE Granted(logins', k)
    <3>1. PICK login \in logins :
            login.token = k.token /\ k.until <= login.at + Lifetime
      BY <2>3 DEF Granted
    <3>2. CASE login.token = token
      <4>1. k.until <= now + Lifetime /\ k.token = token
        <5>1. k.until \in Nat /\ login.at \in Nat /\ login.at <= now
          BY <1>1 DEF Cookies
        <5>. QED
          BY <1>1, <3>1, <3>2, <5>1, ConsoleAssumption
      <4>. QED
        BY <2>4, <4>1 DEF Granted
    <3>3. CASE login.token # token
      BY <1>2, <3>1, <3>3 DEF Granted
    <3>. QED
      BY <3>2, <3>3
  <2>. QED
    BY <2>1, <2>2, <2>3
<1>3. CASE logins' = logins /\ now' \in {now, now + 1} /\ cookie' \in {cookie, None}
  BY <1>1, <1>3
<1>4. ASSUME NEW c \in Calls, Server(c)
      PROVE  \/ /\ now' = now
                /\ cookie' = [token |-> token, until |-> now + Lifetime]
                /\ logins' = {login \in logins : login.token # token}
                             \cup {[token |-> token, at |-> now]}
             \/ logins' = logins /\ now' = now /\ cookie' \in {cookie, None}
  BY <1>4 DEF Server, Serve, ServeSession, ServeLogin, ServeLogout, Fail, session
<1>5. ASSUME NEW c \in Calls, Owner(c) \/ DeleteClosed(c)
      PROVE  UNCHANGED <<session, cookie>>
  BY <1>5 DEF Owner, Login, Logout, WriteLink, OpenQRCodeDialog, SaveExpiration,
              DeleteClosed
<1>6. ASSUME NEW c \in Calls, Continue(c) PROVE UNCHANGED <<session, cookie>>
  BY <1>6 DEF Continue, SessionEnded, CallFailed, Anonymous, Listed, LoggedIn,
              LoggedOut, Written, ExpirationSaved, QRArrived
<1>7. CASE \/ OpenExpirationDialog \/ OpenDeleteDialog \/ Dismiss \/ ConfirmDelete
           \/ QRClosed \/ ExpirationClosed \/ Rotate \/ Tick \/ UNCHANGED vars
  <2>1. logins' = logins /\ now' \in {now, now + 1} /\ cookie' = cookie
    BY <1>7 DEF OpenExpirationDialog, OpenDeleteDialog, Dismiss, ConfirmDelete,
                QRClosed, ExpirationClosed, Rotate, Tick, vars, session
  <2>. QED
    BY <1>3, <2>1
<1>. QED
  BY <1>2, <1>3, <1>4, <1>5, <1>6, <1>7 DEF Next, session

(***************************************************************************)
(* Where the cookie of a request comes from.                               *)
(***************************************************************************)
LEMMA CookieOrigin ==
  TypeOK /\ [Next]_vars =>
    \A d \in Calls : call'[d] # None =>
      /\ \/ call'[d].cookie = None
         \/ call'[d].cookie = cookie
         \/ call[d] # None /\ call'[d].cookie = call[d].cookie
      /\ call'[d].reload => /\ call[d] # None /\ call'[d].for = call[d].for
                            /\ call[d].reload \/ call'[d].for # "logout"
<1>. SUFFICES ASSUME TypeOK, [Next]_vars, NEW d \in Calls, call'[d] # None
              PROVE  /\ \/ call'[d].cookie = None
                        \/ call'[d].cookie = cookie
                        \/ call[d] # None /\ call'[d].cookie = call[d].cookie
                     /\ call'[d].reload =>
                          /\ call[d] # None /\ call'[d].for = call[d].for
                          /\ call[d].reload \/ call'[d].for # "logout"
  OBVIOUS
<1>1. CASE call'[d] = call[d]
  BY <1>1
<1>2. ASSUME NEW purpose, NEW arg, call'[d] = Request(purpose, arg)
      PROVE  ~call'[d].reload /\ call'[d].cookie = cookie
  BY <1>2 DEF Request
<1>3. call \in [Calls -> Requests \cup {None}]
  BY DEF TypeOK
<1>4. CASE call'[d] = Outdated(call)[d]
  BY <1>3, <1>4, OutdatedCall
<1>5. ASSUME NEW c \in Calls, OpenQRCodeDialog(c)
      PROVE  \/ call'[d] = Outdated(call)[d]
             \/ \E link \in Links : call'[d] = Request("qr", link)
  <2>1. PICK link \in Links : call' = [Outdated(call) EXCEPT ![c] = Request("qr", link)]
    BY <1>5 DEF OpenQRCodeDialog
  <2>2. Outdated(call) \in [Calls -> Requests \cup {None}]
    BY <1>3, OutdatedType
  <2>. QED
    BY <2>1, <2>2
<1>6. ASSUME NEW c \in Calls, Owner(c) \/ DeleteClosed(c), ~OpenQRCodeDialog(c)
      PROVE  call'[d] = call[d] \/ \E purpose, arg : call'[d] = Request(purpose, arg)
  BY <1>6, Starts, StartCall
<1>7. CASE \E c \in Calls : Server(c)
  <2>1. PICK c \in Calls : Server(c)
    BY <1>7
  <2>2. \/ call'[d] = call[d]
        \/ /\ d = c /\ call'[c].cookie = None
           /\ call'[c].reload = call[c].reload /\ call'[c].for = call[c].for
    BY <2>1, Replies, ReplyCall
  <2>3. call[c] # None
    BY <2>1, Replies
  <2>. QED
    BY <1>1, <2>2, <2>3
<1>8. CASE \E c \in Calls : Continue(c)
  <2>1. PICK c \in Calls : Continue(c)
    BY <1>8
  <2>2. CASE \E others : ShowLogin(Done(c), others)
    <3>1. call' = Outdated(Done(c))
      BY <2>2 DEF ShowLogin
    <3>2. Done(c) \in [Calls -> Requests \cup {None}]
      BY DoneType
    <3>3. Done(c)[d] = call[d] /\ call[d] # None
      BY <3>1, <3>2, OutdatedCall, DoneCall
    <3>. QED
      BY <3>1, <3>2, <3>3, OutdatedCall
  <2>3. CASE call' = Done(c)
    BY <1>1, <2>3, DoneCall
  <2>4. CASE call' = Reloading(c) /\ call[c].for # "logout"
    BY <1>1, <2>1, <2>4, ReloadingCall, Continuations
  <2>. QED
    BY <2>1, <2>2, <2>3, <2>4, Continuations
<1>9. CASE \/ OpenExpirationDialog \/ OpenDeleteDialog \/ Dismiss \/ ConfirmDelete
           \/ QRClosed \/ ExpirationClosed \/ Rotate \/ Tick \/ UNCHANGED vars
  <2>1. call' = call \/ call' = Outdated(call)
    BY <1>9 DEF OpenExpirationDialog, OpenDeleteDialog, Dismiss, ConfirmDelete,
                QRClosed, ExpirationClosed, Rotate, Tick, vars
  <2>. QED
    BY <1>1, <1>4, <2>1
<1>. QED
  BY <1>1, <1>2, <1>4, <1>5, <1>6, <1>7, <1>8, <1>9 DEF Next

LEMMA NextSessions == TypeOK /\ Sessions /\ [Next]_vars => Sessions'
<1>. SUFFICES ASSUME TypeOK, Sessions, [Next]_vars PROVE Sessions'
  OBVIOUS
<1>1. /\ \A login \in logins' : login.at <= now'
      /\ \A k \in Cookies : Granted(logins, k) => Granted(logins', k)
      /\ cookie' # None => cookie' = cookie \/ Granted(logins', cookie')
  BY StaysGranted
<1>2. /\ cookie # None => cookie \in Cookies /\ Granted(logins, cookie)
      /\ \A c \in Calls : call[c] # None /\ call[c].cookie # None =>
           call[c].cookie \in Cookies /\ Granted(logins, call[c].cookie)
  BY DEF TypeOK, Requests, Sessions
<1>3. cookie' # None => Granted(logins', cookie')
  BY <1>1, <1>2
<1>4. ASSUME NEW c \in Calls, call'[c] # None
      PROVE  /\ call'[c].cookie # None => Granted(logins', call'[c].cookie)
             /\ call'[c].reload => call'[c].for # "logout"
  <2>1. call'[c].cookie # None => Granted(logins', call'[c].cookie)
    BY <1>1, <1>2, <1>4, CookieOrigin
  <2>2. call'[c].reload => call'[c].for # "logout"
    BY <1>4, CookieOrigin DEF Sessions
  <2>. QED
    BY <2>1, <2>2
<1>. QED
  BY <1>1, <1>3, <1>4 DEF Sessions
-----------------------------------------------------------------------------
(***************************************************************************)
(* The theorems.                                                           *)
(***************************************************************************)
IInv == TypeOK /\ Images /\ Expiry /\ Removal /\ Sessions

LEMMA NextIInv == IInv /\ [Next]_vars => IInv'
<1>. SUFFICES ASSUME IInv, [Next]_vars PROVE IInv'
  OBVIOUS
<1>1. TypeOK'
  <2>1. CASE \E c \in Calls : Owner(c) \/ DeleteClosed(c)
    BY <2>1, OwnerTypeOK DEF IInv
  <2>2. CASE (\E c \in Calls : Server(c)) \/ Tick \/ Rotate
    BY <2>2, ServerTypeOK DEF IInv
  <2>3. CASE \E c \in Calls : Continue(c)
    BY <2>3, ContinueTypeOK DEF IInv
  <2>4. CASE \/ OpenExpirationDialog \/ OpenDeleteDialog \/ Dismiss \/ ConfirmDelete
             \/ QRClosed \/ ExpirationClosed
    BY <2>4, DialogTypeOK DEF IInv
  <2>5. CASE UNCHANGED vars
    <3>1. page' = page /\ session' = session /\ cookie' = cookie /\ call' = call
      BY <2>5 DEF vars, page, session
    <3>2. CallType'
      BY <3>1, TypeParts DEF IInv, CallType
    <3>. QED
      BY <3>1, <3>2, TypeParts, PageSame, SessionSame DEF IInv
  <2>. QED
    BY <2>1, <2>2, <2>3, <2>4, <2>5 DEF Next
<1>2. Images' /\ Expiry' /\ Removal' /\ Sessions'
  BY NextImages, NextExpiry, NextRemoval, NextSessions DEF IInv
<1>. QED
  BY <1>1, <1>2 DEF IInv

(***************************************************************************)
(* The inductive invariant holds of every run.                             *)
(***************************************************************************)
THEOREM ConsoleInvariant == Spec => []IInv
<1>1. Init => IInv
  BY InitIInv DEF IInv
<1>. QED
  BY <1>1, NextIInv, PTL DEF Spec

(***************************************************************************)
(* The state of the page and its requests keeps its shape.                 *)
(***************************************************************************)
THEOREM ConsoleTypeOK == Spec => []TypeOK
<1>1. IInv => TypeOK
  BY DEF IInv
<1>. QED
  BY <1>1, ConsoleInvariant, PTL

(***************************************************************************)
(* The QR dialog never shows the image of another link.                    *)
(***************************************************************************)
THEOREM ConsoleQRCode == Spec => []QRCodeNamesItsLink
<1>1. IInv => QRCodeNamesItsLink
  BY DEF IInv, Images, QRCodeNamesItsLink
<1>. QED
  BY <1>1, ConsoleInvariant, PTL

(***************************************************************************)
(* An open expiration dialog saves the expiration of the link it names.    *)
(***************************************************************************)
THEOREM ConsoleExpiration == Spec => []ExpirationNamesItsLink
<1>1. IInv => ExpirationNamesItsLink
  BY DEF IInv, Expiry, ExpirationNamesItsLink
<1>. QED
  BY <1>1, ConsoleInvariant, PTL

(***************************************************************************)
(* Only a confirmed deletion is sent, for the link that was confirmed, and *)
(* once.                                                                   *)
(***************************************************************************)
THEOREM ConsoleDeletes == Spec => OnlyConfirmedDeleted
<1>1. ASSUME IInv, [Next]_vars, NEW c \in Calls,
             call[c] = None, call'[c] # None, call'[c].for = "delete"
      PROVE  approved # None /\ call'[c].arg = approved /\ approved' = None
  <2>. TypeOK /\ call \in [Calls -> Requests \cup {None}]
    BY <1>1 DEF IInv, TypeOK
  <2>1. ASSUME NEW d \in Calls, DeleteClosed(d)
        PROVE  approved # None /\ call'[c].arg = approved /\ approved' = None
    <3>1. Start(d, "delete", removal.pending)
      BY <1>1, <2>1 DEF DeleteClosed
    <3>2. call'[c].arg = removal.pending
      <4>1. call'[c] = Request("delete", removal.pending)
        BY <1>1, <3>1, StartCall
      <4>. QED
        BY <4>1 DEF Request
    <3>3. /\ removal.pending # None /\ removal.value = "confirm"
          /\ "removal" \in closing /\ approved' = None
      BY <1>1, <2>1, <3>1, StartCall DEF DeleteClosed
    <3>. QED
      BY <1>1, <3>2, <3>3 DEF IInv, Removal
  <2>2. ASSUME NEW d \in Calls, Owner(d) PROVE FALSE
    <3>1. CASE OpenQRCodeDialog(d)
      <4>1. PICK link \in Links :
              call' = [Outdated(call) EXCEPT ![d] = Request("qr", link)]
        BY <3>1 DEF OpenQRCodeDialog
      <4>2. Outdated(call) \in [Calls -> Requests \cup {None}]
        BY OutdatedType
      <4>3. Request("qr", link).for # "delete"
        BY DEF Request
      <4>. QED
        BY <1>1, <4>1, <4>2, <4>3, OutdatedCall
    <3>2. CASE ~OpenQRCodeDialog(d)
      <4>1. PICK purpose, arg : /\ purpose \in Purposes \ {"delete"}
                             /\ Start(d, purpose, arg)
        BY <1>1, <2>2, <3>2 DEF Owner, Login, Logout, WriteLink, SaveExpiration,
                                Purposes
      <4>2. call'[c] = Request(purpose, arg)
        BY <1>1, <4>1, StartCall
      <4>. QED
        BY <1>1, <4>1, <4>2 DEF Request
    <3>. QED
      BY <3>1, <3>2
  <2>3. ASSUME NEW d \in Calls, Server(d) PROVE FALSE
    BY <1>1, <2>3, Replies, ReplyCall
  <2>4. ASSUME NEW d \in Calls, Continue(d) PROVE FALSE
    <3>1. \/ call' = Outdated(Done(d)) \/ call' = Done(d) \/ call' = Reloading(d)
      BY <2>4, Continuations DEF ShowLogin
    <3>2. Done(d) \in [Calls -> Requests \cup {None}] /\ call[d] # None
      BY <2>4, DoneType, Continuations
    <3>. QED
      BY <1>1, <3>1, <3>2, DoneCall, OutdatedCall, ReloadingCall
  <2>5. CASE \/ OpenExpirationDialog \/ OpenDeleteDialog \/ Dismiss \/ ConfirmDelete
             \/ QRClosed \/ ExpirationClosed \/ Rotate \/ Tick \/ UNCHANGED vars
    <3>1. call' = call \/ call' = Outdated(call)
      BY <2>5 DEF OpenExpirationDialog, OpenDeleteDialog, Dismiss, ConfirmDelete,
                  QRClosed, ExpirationClosed, Rotate, Tick, vars
    <3>. QED
      BY <1>1, <3>1, OutdatedCall
  <2>. QED
    BY <1>1, <2>1, <2>2, <2>3, <2>4, <2>5 DEF Next
<1>2. IInv /\ [Next]_vars =>
        [\A c \in Calls :
           call[c] = None /\ call'[c] # None /\ call'[c].for = "delete" =>
             approved # None /\ call'[c].arg = approved /\ approved' = None]_vars
  BY <1>1
<1>. QED
  BY <1>2, ConsoleInvariant, PTL DEF Spec, OnlyConfirmedDeleted

(***************************************************************************)
(* A request that needs a session succeeds within its lifetime after a     *)
(* login with the token of the server.                                     *)
(***************************************************************************)
THEOREM ConsoleSessions == Spec => SessionsEnd
<1>1. ASSUME IInv, [Next]_vars, NEW c \in Calls, call[c] # None, call'[c] # None,
             call[c].status = "sent", call'[c].status = "ok",
             call[c].reload \/ call[c].for \notin {"login", "logout"}
      PROVE  \E login \in logins : login.token = token /\ now < login.at + Lifetime
  <2>. /\ TypeOK /\ call \in [Calls -> Requests \cup {None}]
       /\ now \in Nat /\ logins \subseteq [token : Tokens, at : Nat]
    BY <1>1 DEF IInv, TypeOK
  <2>1. ASSUME HasValidSession(call[c].cookie)
        PROVE  \E login \in logins : login.token = token /\ now < login.at + Lifetime
    <3>1. /\ call[c].cookie # None /\ now < call[c].cookie.until
          /\ call[c].cookie.token = token
      BY <2>1 DEF HasValidSession
    <3>2. call[c].cookie \in Cookies
      BY <1>1, <3>1 DEF Requests
    <3>3. PICK login \in logins : /\ login.token = token
                                  /\ call[c].cookie.until <= login.at + Lifetime
      BY <1>1, <3>1 DEF IInv, Sessions, Granted
    <3>4. login.at \in Nat /\ call[c].cookie.until \in Nat
      BY <3>2 DEF Cookies
    <3>. QED
      BY <3>1, <3>3, <3>4, ConsoleAssumption
  <2>2. CASE call'[c].status = call[c].status
    BY <1>1, <2>2
  <2>3. ASSUME NEW d \in Calls, Server(d)
        PROVE  HasValidSession(call[c].cookie)
    <3>1. d = c
      BY <1>1, <2>2, <2>3, Replies, ReplyCall
    <3>2. ASSUME NEW status, Reply(c, status) PROVE status = "ok"
      BY <1>1, <3>2, ReplyCall
    <3>3. ~ServeLogout(c)
      BY <1>1 DEF ServeLogout, IInv, Sessions
    <3>4. ~ServeLogin(c)
      BY <1>1 DEF ServeLogin
    <3>5. ~Fail(c)
      BY <3>2 DEF Fail
    <3>6. CASE Serve(c)
      BY <3>2, <3>6 DEF Serve
    <3>7. CASE ServeSession(c)
      BY <3>2, <3>7 DEF ServeSession
    <3>. QED
      BY <2>3, <3>1, <3>3, <3>4, <3>5, <3>6, <3>7 DEF Server
  <2>4. ASSUME NEW d \in Calls, Owner(d) \/ DeleteClosed(d) PROVE FALSE
    <3>1. CASE OpenQRCodeDialog(d)
      <4>1. /\ call[d] = None
            /\ \E link \in Links :
                 call' = [Outdated(call) EXCEPT ![d] = Request("qr", link)]
        BY <3>1 DEF OpenQRCodeDialog
      <4>2. Outdated(call) \in [Calls -> Requests \cup {None}]
        BY OutdatedType
      <4>3. call'[c] = Outdated(call)[c]
        BY <1>1, <4>1, <4>2
      <4>. QED
        BY <1>1, <4>3, OutdatedCall
    <3>2. CASE ~OpenQRCodeDialog(d)
      BY <1>1, <2>4, <3>2, Starts, StartCall
    <3>. QED
      BY <3>1, <3>2
  <2>5. ASSUME NEW d \in Calls, Continue(d) PROVE FALSE
    <3>1. \/ call' = Outdated(Done(d)) \/ call' = Done(d) \/ call' = Reloading(d)
      BY <2>5, Continuations DEF ShowLogin
    <3>2. Done(d) \in [Calls -> Requests \cup {None}]
      BY DoneType
    <3>. QED
      BY <1>1, <3>1, <3>2, DoneCall, OutdatedCall, ReloadingCall
  <2>6. CASE \/ OpenExpirationDialog \/ OpenDeleteDialog \/ Dismiss \/ ConfirmDelete
             \/ QRClosed \/ ExpirationClosed \/ Rotate \/ Tick \/ UNCHANGED vars
    <3>1. call' = call \/ call' = Outdated(call)
      BY <2>6 DEF OpenExpirationDialog, OpenDeleteDialog, Dismiss, ConfirmDelete,
                  QRClosed, ExpirationClosed, Rotate, Tick, vars
    <3>. QED
      BY <1>1, <3>1, OutdatedCall
  <2>. QED
    BY <1>1, <2>1, <2>3, <2>4, <2>5, <2>6 DEF Next
<1>2. IInv /\ [Next]_vars =>
        [\A c \in Calls :
           /\ call[c] # None /\ call'[c] # None
           /\ call[c].status = "sent" /\ call'[c].status = "ok"
           /\ call[c].reload \/ call[c].for \notin {"login", "logout"}
           => \E login \in logins :
                login.token = token /\ now < login.at + Lifetime]_vars
  BY <1>1
<1>. QED
  BY <1>2, ConsoleInvariant, PTL DEF Spec, SessionsEnd
=============================================================================
