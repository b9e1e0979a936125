---------------------------- MODULE AccessRules ----------------------------
(***************************************************************************)
(* Who a request comes from and whose session it may touch: clientID,      *)
(* ownsSession, and the handlers that hand out sessions (getMySession,     *)
(* createSession, startDemoSession).  A browser is known by the account in *)
(* its bearer token, put there by the authentication proxy, or else by a   *)
(* cookie the server sets.  Cookies travel with requests and answers, so a *)
(* browser with several requests in flight may be several clients at once. *)
(* Create's LIST and CREATE are one step here; SessionManager takes them    *)
(* apart.                                                                  *)
(***************************************************************************)
EXTENDS Naturals

CONSTANTS
    Browsers, Emails, Tokens,
    Ids,        \* session ids
    Reqs,       \* requests that can be in flight at once
    MaxVisits,  \* bound on the requests
    None

ASSUME NoneAssumption == None \notin Browsers \cup Emails \cup Tokens \cup Ids
ASSUME BoundAssumption == MaxVisits \in Nat

VARIABLES
    bearer,   \* [Browsers -> None, noEmail (a token without one), or an account]
    orderly,  \* the browsers whose user waits for an answer before doing anything
              \* else, and gives the account's email, if any, with a demo link
    cookie,   \* [Browsers -> the value of lab_client_id]
    session,  \* [Ids -> the session]
    req,      \* [Reqs -> the request, then its answer]
    page,     \* [Browsers -> the front page's activeSession, and (history) the
              \* cookie under which the page has learnt of it]
    last,     \* [Browsers -> the session it was sent to last]
    astray,   \* (history) the browsers sent there by a front page that knows
              \* the session from before the cookie was replaced
    opened,   \* [Browsers -> the demo links it has opened, each with an email]
    visits    \* requests made so far; a new uuid is named after its request

vars == <<bearer, orderly, cookie, session, req, page, last, astray, opened, visits>>

\* Client ids: emailClientID, demoClientID and uuid.New.  The two hashes are
\* taken to be injective.
EmailId(email) == [kind |-> "email", of |-> email, link |-> None, n |-> 0]
DemoId(token, email) == [kind |-> "demo", of |-> email, link |-> token, n |-> 0]
Uuid(n) == [kind |-> "uuid", of |-> None, link |-> None, n |-> n]
NoId == [kind |-> "none", of |-> None, link |-> None, n |-> 0]

ClientIds == [kind : {"none", "email", "demo", "uuid"}, of : Emails \cup {None},
              link : Tokens \cup {None}, n : 0..MaxVisits]

NoPage == [id |-> None, under |-> NoId]

Free == [state |-> "free", op |-> "me", browser |-> None, cookie |-> NoId,
         token |-> None, email |-> None, id |-> None, n |-> 0]

Sessions == [state : {"unborn", "active", "ended"}, client : ClientIds,
             email : Emails \cup {None}, by : Browsers \cup {None}]

Requests == [state : {"free", "sent", "answered"}, op : {"me", "create", "demo"},
             browser : Browsers \cup {None}, cookie : ClientIds, token : Tokens \cup {None},
             email : Emails \cup {None}, id : Ids \cup {None}, n : 0..MaxVisits]

\* State invariant: every variable holds a value of its kind.
TypeOK ==
    /\ bearer \in [Browsers -> Emails \cup {None, "noEmail"}] /\ orderly \subseteq Browsers
    /\ cookie \in [Browsers -> ClientIds]
    /\ session \in [Ids -> Sessions] /\ req \in [Reqs -> Requests]
    /\ page \in [Browsers -> [id : Ids \cup {None}, under : ClientIds]]
    /\ last \in [Browsers -> Ids \cup {None}] /\ astray \subseteq Browsers
    /\ opened \in [Browsers -> SUBSET (Tokens \X Emails)]
    /\ visits \in 0..MaxVisits

Init ==
    /\ bearer \in [Browsers -> Emails \cup {None, "noEmail"}] /\ orderly \in SUBSET Browsers
    /\ cookie = [b \in Browsers |-> NoId]
    /\ session = [i \in Ids |-> [state |-> "unborn", client |-> NoId, email |-> None, by |-> None]]
    /\ req = [q \in Reqs |-> Free]
    /\ page = [b \in Browsers |-> NoPage]
    /\ last = [b \in Browsers |-> None] /\ astray = {} /\ opened = [b \in Browsers |-> {}]
    /\ visits = 0

-----------------------------------------------------------------------------
(* The rules *)

\* (seeded fault) whatever the token says is an email
EmailAny(b) == bearer[b]

\* authedEmail: no token and a token without an email are the same here.
Email(b) == IF bearer[b] \in Emails THEN bearer[b] ELSE None

\* (seeded fault) two missing emails are the same email
OwnsSessionNoEmail(b, i) ==
    IF bearer[b] /= None THEN Email(b) = session[i].email
    ELSE cookie[b] /= NoId /\ cookie[b] = session[i].client

\* A token without an email owns nothing: no way back to the cookie.
OwnsSession(b, i) ==
    IF bearer[b] /= None THEN Email(b) /= None /\ Email(b) = session[i].email
    ELSE cookie[b] /= NoId /\ cookie[b] = session[i].client

\* The id of the account, or of the cookie the request came with, or a new one.
ClientID(q) ==
    IF Email(req[q].browser) /= None THEN EmailId(Email(req[q].browser))
    ELSE IF req[q].cookie /= NoId THEN req[q].cookie
    ELSE Uuid(req[q].n)

\* The Set-Cookie of clientID, if any.
Given(q) ==
    IF Email(req[q].browser) = None /\ req[q].cookie = NoId THEN Uuid(req[q].n) ELSE NoId

-----------------------------------------------------------------------------
(* Requests *)

InFlight(b) == \E q \in Reqs : req[q].state /= "free" /\ req[q].browser = b

\* The browser's cookie goes with the request.
Send(q, b, op, token, email) ==
    /\ req[q].state = "free" /\ visits < MaxVisits /\ visits' = visits + 1
    /\ b \in orderly => ~InFlight(b)
    /\ req' = [req EXCEPT ![q] = [state |-> "sent", op |-> op, browser |-> b, cookie |-> cookie[b],
                                  token |-> token, email |-> email, id |-> None, n |-> visits']]
    /\ UNCHANGED <<bearer, orderly, cookie, session, last, astray>>

\* The front page is loaded and asks for the current session.
Load(q, b) ==
    /\ Send(q, b, "me", None, None)
    /\ page' = [page EXCEPT ![b] = NoPage] /\ UNCHANGED opened

\* A card of the front page creates a session.
StartLab(q, b) == Send(q, b, "create", None, None) /\ UNCHANGED <<page, opened>>

OpenDemo(q, b, token, email) ==
    /\ b \in orderly /\ Email(b) /= None => email = Email(b)
    /\ Send(q, b, "demo", token, email)
    /\ opened' = [opened EXCEPT ![b] = @ \cup {<<token, email>>}] /\ UNCHANGED page

Active(i, cid) == session[i].state = "active" /\ session[i].client = cid

\* The answer: the session's id, and the cookie to set, if any.
Answer(q, id, set) ==
    /\ req' = [req EXCEPT ![q] = [@ EXCEPT !.state = "answered", !.id = id, !.cookie = set]]
    /\ UNCHANGED <<bearer, orderly, cookie, page, last, astray, opened, visits>>

NewSession(i, q, cid, email) ==
    /\ session[i].state = "unborn"
    /\ session' = [session EXCEPT ![i] = [state |-> "active", client |-> cid, email |-> email,
                                          by |-> req[q].browser]]

Serving(q, op) == req[q].state = "sent" /\ req[q].op = op

GetMySession(q) ==
    /\ Serving(q, "me")
    /\ \/ \E i \in Ids : Active(i, ClientID(q)) /\ Answer(q, i, Given(q))
       \/ ~(\E i \in Ids : Active(i, ClientID(q))) /\ Answer(q, None, Given(q))
    /\ UNCHANGED session

\* Without an id: 409.
CreateSession(q) ==
    /\ Serving(q, "create")
    /\ \/ /\ \E i \in Ids : Active(i, ClientID(q))
          /\ Answer(q, None, Given(q)) /\ UNCHANGED session
       \/ /\ ~(\E i \in Ids : Active(i, ClientID(q)))
          /\ \E i \in Ids : /\ NewSession(i, q, ClientID(q), Email(req[q].browser))
                            /\ Answer(q, i, Given(q))

\* (seeded fault) only a new session comes with a cookie
StartDemoSessionOnce(q) ==
    LET cid == DemoId(req[q].token, req[q].email) IN
    /\ Serving(q, "demo")
    /\ \/ \E i \in Ids : Active(i, cid) /\ Answer(q, i, NoId) /\ UNCHANGED session
       \/ /\ ~(\E i \in Ids : Active(i, cid))
          /\ \E i \in Ids : NewSession(i, q, cid, req[q].email) /\ Answer(q, i, cid)

\* The session of this link and this email, new or not, and its cookie.
StartDemoSession(q) ==
    LET cid == DemoId(req[q].token, req[q].email) IN
    /\ Serving(q, "demo")
    /\ \/ \E i \in Ids : Active(i, cid) /\ Answer(q, i, cid) /\ UNCHANGED session
       \/ /\ ~(\E i \in Ids : Active(i, cid))
          /\ \E i \in Ids : NewSession(i, q, cid, req[q].email) /\ Answer(q, i, cid)

GoTo(b, i) == last' = [last EXCEPT ![b] = i] /\ astray' = astray \ {b}

\* To the front page's activeSession, whatever the cookie is by now.
GoToShown(b) ==
    /\ page[b].id /= None /\ last' = [last EXCEPT ![b] = page[b].id]
    /\ astray' = IF page[b].under = cookie'[b] THEN astray \ {b} ELSE astray \cup {b}

Stay == UNCHANGED <<last, astray>>

\* The browser stores the cookie. The front page keeps the session of /me for
\* its link; a new session is gone to; on 409 the page goes to the one it keeps.
Receive(q) ==
    LET b == req[q].browser  id == req[q].id IN
    /\ req[q].state = "answered" /\ req' = [req EXCEPT ![q] = Free]
    /\ cookie' = IF req[q].cookie = NoId THEN cookie ELSE [cookie EXCEPT ![b] = req[q].cookie]
    /\ \/ /\ req[q].op = "me" /\ id /= None /\ Stay
          /\ page' = [page EXCEPT ![b] = [id |-> id, under |-> cookie'[b]]]
       \/ req[q].op = "me" /\ id = None /\ Stay /\ UNCHANGED page
       \/ req[q].op /= "me" /\ id /= None /\ GoTo(b, id) /\ UNCHANGED page
       \/ req[q].op /= "me" /\ id = None /\ GoToShown(b) /\ UNCHANGED page
       \/ req[q].op /= "me" /\ id = None /\ page[b].id = None /\ Stay /\ UNCHANGED page
    /\ UNCHANGED <<bearer, orderly, session, opened, visits>>

\* "Resume Lab" on the front page.
ResumeLink(b) ==
    /\ b \in orderly => ~InFlight(b)
    /\ UNCHANGED cookie /\ GoToShown(b)
    /\ UNCHANGED <<bearer, orderly, session, req, page, opened, visits>>

\* The server fails, or the answer gets lost.
RequestFails(q) ==
    /\ req[q].state /= "free" /\ req' = [req EXCEPT ![q] = Free]
    /\ UNCHANGED <<bearer, orderly, cookie, session, page, last, astray, opened, visits>>

SessionEnds(i) ==
    /\ session[i].state = "active"
    /\ session' = [session EXCEPT ![i] = [@ EXCEPT !.state = "ended"]]
    /\ UNCHANGED <<bearer, orderly, cookie, req, page, last, astray, opened, visits>>

-----------------------------------------------------------------------------

Next ==
    \/ \E q \in Reqs, b \in Browsers :
         Load(q, b) \/ StartLab(q, b) \/ \E token \in Tokens, email \in Emails : OpenDemo(q, b, token, email)
    \/ \E q \in Reqs : GetMySession(q) \/ CreateSession(q) \/ StartDemoSession(q)
                         \/ Receive(q) \/ RequestFails(q)
    \/ \E b \in Browsers : ResumeLink(b)
    \/ \E i \in Ids : SessionEnds(i)

Spec == Init /\ [][Next]_vars

-----------------------------------------------------------------------------
(* Properties *)

\* A session is open to the account whose email it has, to the browser that
\* created it, and to browsers that opened its demo link with its email, and to
\* nobody else, however requests overlap and answers get lost.
NoStranger ==
    \A b \in Browsers, i \in Ids : session[i].state /= "unborn" /\ OwnsSession(b, i) =>
      \/ Email(b) /= None /\ Email(b) = session[i].email
      \/ session[i].by = b
      \/ <<session[i].client.link, session[i].client.of>> \in opened[b]

\* An orderly browser is admitted to the session it was sent to last, by an
\* answer, by the front page's link or by its way out of a 409: also if the session
\* was there before, was created from another browser, or has ended. Three
\* exceptions: a token without an email, which owns nothing; an account sent to a
\* session without one, made under the cookie of its demo link by a visitor who had
\* none (createSession stores no email then); and a browser known by its cookie
\* only, sent by a front page to the session the page knows from before a demo
\* link replaced that cookie (astray). An account is never led astray like that.
AdmittedWhereSent ==
    \A b \in orderly :
      /\ last[b] /= None /\ ~InFlight(b) /\ bearer[b] /= "noEmail"
      /\ Email(b) = None => b \notin astray
      /\ Email(b) = None \/ session[last[b]].email /= None
      => OwnsSession(b, last[b])
=============================================================================
