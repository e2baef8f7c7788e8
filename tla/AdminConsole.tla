---------------------------- MODULE AdminConsole ----------------------------
(***************************************************************************)
(* The page of the admin console (handlers/admin/admin.js) in one browser  *)
(* tab, and the sessions it depends on (handlers/session.go).  The page    *)
(* runs one task at a time: an input of the owner, the close event of a    *)
(* dialog or the continuation of a fetch.  Fetches are answered in any     *)
(* order or fail.                                                          *)
(*                                                                         *)
(* The close event of a dialog and the owner's inputs come from one task   *)
(* source, in order; a modal dialog keeps inputs away from the rest of the *)
(* page.  What the database holds is left out: the list may be out of date *)
(* whenever it is used, so any link may have a card once a list was        *)
(* loaded.  The missed slugs, loaded next to it, decide nothing and are    *)
(* left out, as are notices, search, clipboard and status badges.          *)
(***************************************************************************)
EXTENDS Naturals, FiniteSets

CONSTANTS
  Links,     \* slugs of links
  Calls,     \* bound on chains of requests under way at a time
  Tokens,    \* values of GOTTEM_MANAGEMENT_TOKEN, over restarts
  Lifetime,  \* sessionLifetime
  MaxTime,   \* bound on the clock
  None

VARIABLES
  token,     \* the token of the running server
  now,       \* its clock
  logins,    \* history: the last successful login with each token, and its time
  cookie,    \* the browser's session cookie, or None
  view,      \* "login" or "admin", the section that is not hidden
  listed,    \* the variable redirects is not empty: the list has cards
  qr,        \* the QR dialog: open, link named in its title, link of its image
  expiry,    \* the expiration dialog: open, link it names, pendingExpiration
  removal,   \* the delete dialog: open, link it names, pendingDelete, returnValue
  closing,   \* dialogs whose close event is queued
  approved,  \* history: the link whose deletion the owner has just confirmed
  call       \* chain -> its request, or None

session == <<token, now, logins>>

page == <<view, listed, qr, expiry, removal, closing, approved>>

vars == <<session, cookie, page, call>>

(***************************************************************************)
(* What a click or the start of the page sets going: a first request, and  *)
(* for most, when that succeeded, a request for the list.  The button of a *)
(* login and that of a deletion are disabled meanwhile; that the form of a *)
(* creation is too is left out.                                            *)
(***************************************************************************)
Purposes == {"start", "login", "logout", "qr", "write", "expire", "delete"}

Cookies == [token : Tokens, until : Nat]

Requests ==
  [for : Purposes, reload : BOOLEAN, arg : Links \cup Tokens \cup {None},
   cookie : Cookies \cup {None}, current : BOOLEAN,
   status : {"sent", "ok", "anonymous", "unauthorized", "failed"}]

ASSUME ConsoleAssumption ==
  /\ None \notin Links /\ None \notin Requests
  /\ Lifetime \in Nat /\ MaxTime \in Nat

Free == {c \in Calls : call[c] = None}

Underway(purpose) == \E c \in Calls \ Free : call[c].for = purpose

Request(purpose, arg) ==
  [for |-> purpose, reload |-> FALSE, arg |-> arg, cookie |-> cookie,
   status |-> "sent",
   current |-> purpose = "qr"]  \* requestGeneration === qrRequestGeneration

Start(c, purpose, arg) ==
  /\ call[c] = None
  /\ call' = [call EXCEPT ![c] = Request(purpose, arg)]

Init ==
  /\ token \in Tokens
  /\ now = 0
  /\ logins = {[token |-> token, at |-> 0]}
  /\ cookie \in {None, [token |-> token, until |-> Lifetime]}
  /\ view = "login"
  /\ listed = FALSE
  /\ qr = [open |-> FALSE, named |-> None, image |-> None]
  /\ expiry = [open |-> FALSE, named |-> None, pending |-> None]
  /\ removal = [open |-> FALSE, named |-> None, pending |-> None, value |-> ""]
  /\ closing = {}
  /\ approved = None
  /\ \E c \in Calls :
       call = [d \in Calls |-> IF d = c THEN Request("start", None) ELSE None]
-----------------------------------------------------------------------------
(***************************************************************************)
(* The owner.  Inputs wait for close events queued before them.            *)
(***************************************************************************)
Listens == closing = {} /\ ~qr.open /\ ~expiry.open /\ ~removal.open

Login(c) ==
  /\ Listens /\ view = "login" /\ ~Underway("login")
  /\ \E typed \in Tokens : Start(c, "login", typed)
  /\ UNCHANGED <<session, cookie, page>>

Logout(c) ==
  /\ Listens /\ view = "admin"
  /\ Start(c, "logout", None)
  /\ UNCHANGED <<session, cookie, page>>

\* The create form, editRedirect and toggleRedirect.
WriteLink(c) ==
  /\ Listens /\ view = "admin"
  /\ Start(c, "write", None)
  /\ UNCHANGED <<session, cookie, page>>

\* A new generation: no earlier request is current any more.
Outdated(calls) ==
  [c \in Calls |-> IF calls[c] = None THEN None
                   ELSE [calls[c] EXCEPT !.current = FALSE]]

OpenQRCodeDialog(c) ==
  /\ Listens /\ view = "admin"
  /\ call[c] = None /\ listed
  /\ \E link \in Links :
       /\ qr' = [open |-> TRUE, named |-> link, image |-> None]
       /\ call' = [Outdated(call) EXCEPT ![c] = Request("qr", link)]
  /\ UNCHANGED <<session, cookie,
                 view, listed, expiry, removal, closing, approved>>

OpenExpirationDialog ==
  /\ Listens /\ view = "admin" /\ listed
  /\ \E link \in Links :
       expiry' = [open |-> TRUE, named |-> link, pending |-> link]
  /\ UNCHANGED <<session, cookie, call,
                 view, listed, qr, removal, closing, approved>>

\* Mutant of OpenDeleteDialog: returnValue is not reset.
OpenDeleteDialogAsItWas ==
  /\ Listens /\ view = "admin" /\ listed
  /\ \E link \in Links :
       removal' = [removal EXCEPT !.open = TRUE, !.named = link, !.pending = link]
  /\ UNCHANGED <<session, cookie, call,
                 view, listed, qr, expiry, closing, approved>>

OpenDeleteDialog ==
  /\ Listens /\ view = "admin" /\ listed
  /\ \E link \in Links :
       removal' = [open |-> TRUE, named |-> link, pending |-> link,
                   value |-> "cancel"]
  /\ UNCHANGED <<session, cookie, call,
                 view, listed, qr, expiry, closing, approved>>

(***************************************************************************)
(* Save and Clear of the expiration dialog, which stays open.              *)
(***************************************************************************)
SaveExpiration(c) ==
  /\ expiry.open
  /\ expiry.pending # None
  /\ Start(c, "expire", expiry.pending)
  /\ UNCHANGED <<session, cookie, page>>

\* The Close and Cancel buttons and the Escape key.
Dismiss ==
  /\ \/ /\ qr.open
        /\ qr' = [qr EXCEPT !.open = FALSE]
        /\ closing' = closing \cup {"qr"}
        /\ UNCHANGED <<expiry, removal>>
     \/ /\ expiry.open
        /\ expiry' = [expiry EXCEPT !.open = FALSE]
        /\ closing' = closing \cup {"expiry"}
        /\ UNCHANGED <<qr, removal>>
     \/ /\ removal.open
        /\ \E value \in {"cancel", removal.value} :
             removal' = [removal EXCEPT !.open = FALSE, !.value = value]
        /\ closing' = closing \cup {"removal"}
        /\ UNCHANGED <<qr, expiry>>
  /\ UNCHANGED <<session, cookie, call, view, listed, approved>>

ConfirmDelete ==
  /\ removal.open /\ ~Underway("delete")
  /\ removal' = [removal EXCEPT !.open = FALSE, !.value = "confirm"]
  /\ closing' = closing \cup {"removal"}
  /\ approved' = removal.named
  /\ UNCHANGED <<session, cookie, call, view, listed, qr, expiry>>
-----------------------------------------------------------------------------
(***************************************************************************)
(* The close events.                                                       *)
(***************************************************************************)
NoQR == [open |-> FALSE, named |-> None, image |-> None]

QRClosed ==
  /\ "qr" \in closing
  /\ closing' = closing \ {"qr"}
  /\ qr' = [NoQR EXCEPT !.open = qr.open]
  /\ call' = Outdated(call)
  /\ UNCHANGED <<session, cookie,
                 view, listed, expiry, removal, approved>>

ExpirationClosed ==
  /\ "expiry" \in closing
  /\ closing' = closing \ {"expiry"}
  /\ expiry' = [expiry EXCEPT !.pending = None]
  /\ UNCHANGED <<session, cookie, call,
                 view, listed, qr, removal, approved>>

DeleteClosed(c) ==
  /\ "removal" \in closing
  /\ closing' = closing \ {"removal"}
  /\ removal' = [removal EXCEPT !.pending = None]
  /\ approved' = None
  /\ IF removal.value = "confirm" /\ removal.pending # None
     THEN Start(c, "delete", removal.pending)
     ELSE UNCHANGED call
  /\ UNCHANGED <<session, cookie, view, listed, qr, expiry>>
-----------------------------------------------------------------------------
(***************************************************************************)
(* The server.                                                             *)
(***************************************************************************)
\* Mutant of HasValidSession: the fingerprint is not compared.
HasUnexpiredSession(sent) == sent # None /\ now < sent.until

HasValidSession(sent) ==
  sent # None /\ now < sent.until /\ sent.token = token

Reply(c, status) ==
  call' = [call EXCEPT ![c].status = status, ![c].cookie = None]

Sent(c) == call[c] # None /\ call[c].status = "sent"

\* BrowserOrBearerAuth and the handler behind it, which may refuse.
Serve(c) ==
  /\ Sent(c)
  /\ call[c].reload \/ call[c].for \notin {"start", "login", "logout"}
  /\ IF HasValidSession(call[c].cookie)
     THEN Reply(c, "ok") \/ Reply(c, "failed")
     ELSE Reply(c, "unauthorized")
  /\ UNCHANGED <<session, cookie, page>>

ServeSession(c) ==
  /\ Sent(c) /\ call[c].for = "start" /\ ~call[c].reload
  /\ Reply(c, IF HasValidSession(call[c].cookie) THEN "ok" ELSE "anonymous")
  /\ UNCHANGED <<session, cookie, page>>

ServeLogout(c) ==
  /\ Sent(c) /\ call[c].for = "logout"
  /\ Reply(c, "ok")
  /\ cookie' = None
  /\ UNCHANGED <<session, page>>

ServeLogin(c) ==
  /\ Sent(c) /\ call[c].for = "login" /\ ~call[c].reload
  /\ IF call[c].arg = token
     THEN /\ Reply(c, "ok")
          /\ cookie' = [token |-> token, until |-> now + Lifetime]
          /\ logins' = {login \in logins : login.token # token}
                       \cup {[token |-> token, at |-> now]}
     ELSE Reply(c, "unauthorized") /\ UNCHANGED <<cookie, logins>>
  /\ UNCHANGED <<token, now, page>>

\* The network or the server fails, before or after the request took effect.
Fail(c) ==
  /\ call[c] # None /\ call[c].status # "failed"
  /\ Reply(c, "failed")
  /\ UNCHANGED <<session, cookie, page>>

Tick ==
  /\ now < MaxTime
  /\ now' = now + 1
  /\ UNCHANGED <<token, logins, cookie, page, call>>

\* A restart with another token; the session secret is kept.
Rotate ==
  /\ token' \in Tokens
  /\ UNCHANGED <<now, logins, cookie, page, call>>
-----------------------------------------------------------------------------
(***************************************************************************)
(* The continuations of a fetch.                                           *)
(***************************************************************************)
Answered(c, status) == call[c] # None /\ call[c].status = status

\* setAuthenticated(false), with further dialogs that are closed before.
ShowLogin(calls, others) ==
  /\ view' = "login"
  /\ qr' = NoQR
  /\ expiry' = IF "expiry" \in others THEN [expiry EXCEPT !.open = FALSE] ELSE expiry
  /\ removal' = IF "removal" \in others THEN [removal EXCEPT !.open = FALSE] ELSE removal
  /\ closing' = closing \cup {d \in {"qr"} : qr.open}
                        \cup {d \in {"expiry"} \cap others : expiry.open}
                        \cup {d \in {"removal"} \cap others : removal.open}
  /\ call' = Outdated(calls)

Done(c) == [call EXCEPT ![c] = None]

\* Back to the list: loadRedirects.
Reloading(c) ==
  [call EXCEPT ![c] = [Request(call[c].for, None) EXCEPT !.reload = TRUE,
                                                         !.current = FALSE]]

SessionEnded(c) ==
  /\ Answered(c, "unauthorized")
  /\ ShowLogin(Done(c), {"expiry", "removal"})
  /\ UNCHANGED <<session, cookie, listed, approved>>

\* The catch clauses: a notice, and for the first request the login.
CallFailed(c) ==
  /\ Answered(c, "failed")
  /\ IF call[c].for = "start" /\ ~call[c].reload
     THEN ShowLogin(Done(c), {})
     ELSE call' = Done(c) /\ UNCHANGED <<view, qr, expiry, removal, closing>>
  /\ UNCHANGED <<session, cookie, listed, approved>>

Anonymous(c) ==
  /\ Answered(c, "anonymous")
  /\ ShowLogin(Done(c), {})
  /\ UNCHANGED <<session, cookie, listed, approved>>

Listed(c) ==
  /\ Answered(c, "ok") /\ call[c].reload
  /\ listed' \in BOOLEAN
  /\ call' = Done(c)
  /\ UNCHANGED <<session, cookie,
                 view, qr, expiry, removal, closing, approved>>

First(c, purposes) ==
  Answered(c, "ok") /\ ~call[c].reload /\ call[c].for \in purposes

LoggedIn(c) ==
  /\ First(c, {"start", "login"})
  /\ view' = "admin"
  /\ call' = Reloading(c)
  /\ UNCHANGED <<session, cookie,
                 listed, qr, expiry, removal, closing, approved>>

LoggedOut(c) ==
  /\ First(c, {"logout"})
  /\ listed' = FALSE
  /\ ShowLogin(Done(c), {})
  /\ UNCHANGED <<session, cookie, approved>>

\* Creations, edits, toggles and deletions.
Written(c) ==
  /\ First(c, {"write", "delete"})
  /\ call' = Reloading(c)
  /\ UNCHANGED <<session, cookie, page>>

\* Mutant of ExpirationSaved: the dialog is left to the owner.
ExpirationSavedBehind(c) ==
  /\ First(c, {"expire"})
  /\ expiry' = [expiry EXCEPT !.pending = None]
  /\ call' = Reloading(c)
  /\ UNCHANGED <<session, cookie,
                 view, listed, qr, removal, closing, approved>>

ExpirationSaved(c) ==
  /\ First(c, {"expire"})
  /\ expiry' = [expiry EXCEPT !.open = FALSE, !.pending = None]
  /\ closing' = closing \cup {d \in {"expiry"} : expiry.open}
  /\ call' = Reloading(c)
  /\ UNCHANGED <<session, cookie, view, listed, qr, removal, approved>>

\* Mutant of QRArrived: the generation is not compared.
QRArrivedAnyway(c) ==
  /\ First(c, {"qr"})
  /\ qr' = IF qr.open THEN [qr EXCEPT !.image = call[c].arg] ELSE qr
  /\ call' = Done(c)
  /\ UNCHANGED <<session, cookie,
                 view, listed, expiry, removal, closing, approved>>

QRArrived(c) ==
  /\ First(c, {"qr"})
  /\ qr' = IF qr.open /\ call[c].current THEN [qr EXCEPT !.image = call[c].arg]
                                         ELSE qr
  /\ call' = Done(c)
  /\ UNCHANGED <<session, cookie,
                 view, listed, expiry, removal, closing, approved>>
-----------------------------------------------------------------------------
Owner(c) ==
  \/ Login(c) \/ Logout(c) \/ WriteLink(c)
  \/ OpenQRCodeDialog(c) \/ SaveExpiration(c)

Server(c) ==
  Serve(c) \/ ServeSession(c) \/ ServeLogin(c) \/ ServeLogout(c) \/ Fail(c)

Continue(c) ==
  \/ SessionEnded(c) \/ CallFailed(c) \/ Anonymous(c) \/ Listed(c)
  \/ LoggedIn(c) \/ LoggedOut(c) \/ Written(c) \/ ExpirationSaved(c)
  \/ QRArrived(c)

Next ==
  \/ \E c \in Calls : Owner(c) \/ DeleteClosed(c) \/ Server(c) \/ Continue(c)
  \/ OpenExpirationDialog \/ OpenDeleteDialog \/ Dismiss \/ ConfirmDelete
  \/ QRClosed \/ ExpirationClosed
  \/ Tick \/ Rotate

Spec == Init /\ [][Next]_vars
-----------------------------------------------------------------------------
(***************************************************************************)
(* The state of the page and its requests keeps its shape.                 *)
(***************************************************************************)
TypeOK ==
  /\ view \in {"login", "admin"} /\ listed \in BOOLEAN
  /\ qr \in [open : BOOLEAN, named : Links \cup {None}, image : Links \cup {None}]
  /\ expiry \in [open : BOOLEAN,
                named : Links \cup {None}, pending : Links \cup {None}]
  /\ removal \in [open : BOOLEAN, named : Links \cup {None},
                 pending : Links \cup {None}, value : {"", "cancel", "confirm"}]
  /\ closing \subseteq {"qr", "expiry", "removal"}
  /\ approved \in Links \cup {None}
  /\ token \in Tokens /\ now \in Nat
  /\ logins \subseteq [token : Tokens, at : Nat]
  /\ cookie \in Cookies \cup {None}
  /\ call \in [Calls -> Requests \cup {None}]

(***************************************************************************)
(* A deletion is sent only for the link that the dialog named when the     *)
(* owner confirmed, once for each confirmation, however dialogs were       *)
(* dismissed, closed by an ended session or opened again in between        *)
(* (README: "confirmed delete flows").                                     *)
(***************************************************************************)
OnlyConfirmedDeleted ==
  [][\A c \in Calls :
       call[c] = None /\ call'[c] # None /\ call'[c].for = "delete" =>
         approved # None /\ call'[c].arg = approved /\ approved' = None]_vars

(***************************************************************************)
(* An image in the QR dialog is that of the link in its title, although    *)
(* answers arrive after their dialog was closed or opened for another      *)
(* link.                                                                   *)
(***************************************************************************)
QRCodeNamesItsLink == qr.image # None => qr.image = qr.named

(***************************************************************************)
(* An open expiration dialog can save, and what it saves is the expiration *)
(* of the link it names, although the answer to an earlier save or the end *)
(* of a session may close it at any moment.                                *)
(***************************************************************************)
ExpirationNamesItsLink == expiry.open => expiry.pending = expiry.named

(***************************************************************************)
(* What a session is needed for is done only within its lifetime after a   *)
(* login with the token that the server has now ("rotating that token      *)
(* invalidates existing sessions", README), whatever the page shows.       *)
(***************************************************************************)
SessionsEnd ==
  [][\A c \in Calls :
       /\ call[c] # None /\ call'[c] # None
       /\ call[c].status = "sent" /\ call'[c].status = "ok"
       /\ call[c].reload \/ call[c].for \notin {"login", "logout"}
       => \E login \in logins :
            login.token = token /\ now < login.at + Lifetime]_vars
=============================================================================
