---------------------------- MODULE AccessProofs ----------------------------
(***************************************************************************)
(* Who gets into a session, for any number of browsers, accounts, demo     *)
(* links, sessions and overlapping requests.                               *)
(*                                                                         *)
(* The argument is about where client ids can be. A demo id is only in the *)
(* cookies, requests and answers of browsers that opened the link with its *)
(* email. A uuid is only with the browser whose request it was made for:   *)
(* cookies, requests, answers and created sessions that carry it all lead  *)
(* to one browser. The id of an account is in no cookie.                   *)
(***************************************************************************)
EXTENDS AccessRules, TLAPS

Sent(q) == req[q].state /= "free"

\* A cookie that browser b may have.
Held(b, ck) ==
    ck = NoId \/ ck.kind = "uuid" \/ (ck.kind = "demo" /\ <<ck.link, ck.of>> \in opened[b])

\* b's cookie, a request or answer of b, or a session b created has the nth uuid.
Carries(b, n) ==
    \/ cookie[b].kind = "uuid" /\ cookie[b].n = n
    \/ \E q \in Reqs : /\ Sent(q) /\ req[q].browser = b
                       /\ req[q].n = n \/ (req[q].cookie.kind = "uuid" /\ req[q].cookie.n = n)
    \/ \E i \in Ids : /\ session[i].state /= "unborn" /\ session[i].by = b
                      /\ session[i].client.kind = "uuid" /\ session[i].client.n = n

Cookies == \A b \in Browsers : Held(b, cookie[b])

RequestsHeld ==
    \A q \in Reqs : Sent(q) =>
      /\ req[q].browser \in Browsers /\ Held(req[q].browser, req[q].cookie)
      /\ req[q].op = "demo"
           => /\ req[q].token \in Tokens /\ req[q].email \in Emails
              /\ <<req[q].token, req[q].email>> \in opened[req[q].browser]

SessionsMade ==
    \A i \in Ids : session[i].state /= "unborn" =>
      session[i].by \in Browsers /\ session[i].client.kind \in {"email", "demo", "uuid"}

OneBrowser ==
    /\ \A b \in Browsers, n \in 0..MaxVisits : Carries(b, n) => n <= visits
    /\ \A b, d \in Browsers, n \in 0..MaxVisits : Carries(b, n) /\ Carries(d, n) => b = d

Inv == TypeOK /\ Cookies /\ RequestsHeld /\ SessionsMade /\ OneBrowser

-----------------------------------------------------------------------------
\* The account's own sessions have its email; those of a demo link have the
\* email it was opened with, or none.
EmailsMatch ==
    \A i \in Ids : session[i].state /= "unborn" =>
      /\ session[i].client.kind = "email" => session[i].email = session[i].client.of
      /\ session[i].client.kind = "demo" => session[i].email \in {session[i].client.of, None}

OneRequest ==
    \A q, r \in Reqs :
      Sent(q) /\ Sent(r) /\ req[q].browser = req[r].browser /\ req[q].browser \in orderly => q = r

\* The session i may be shown to browser b once its cookie is ck.
Shows(b, i, ck) ==
    /\ i \in Ids /\ session[i].state /= "unborn"
    /\ bearer[b] = None => ck /= NoId /\ ck = session[i].client
    /\ Email(b) /= None => session[i].email \in {Email(b), None}

\* What the front page shows, it was shown with the cookie of that time.
PageShown == \A b \in orderly : page[b].id /= None => Shows(b, page[b].id, page[b].under)

\* Where the browser is: a session for its cookie, unless it went astray.
LastShown ==
    \A b \in orderly : last[b] /= None =>
      Shows(b, last[b], IF b \in astray THEN session[last[b]].client ELSE cookie[b])

\* The cookie of b once the answer q has arrived.
After(b, q) == IF req[q].cookie = NoId THEN cookie[b] ELSE req[q].cookie

\* What is under way to or from orderly browser b in request q.
Comes(q, b) ==
    /\ req[q].state = "sent"
         => /\ req[q].cookie = cookie[b]
            /\ req[q].op = "demo" /\ Email(b) /= None => req[q].email = Email(b)
    /\ req[q].state = "answered" /\ req[q].id /= None => Shows(b, req[q].id, After(b, q))
    /\ req[q].state = "answered" /\ (req[q].id = None \/ req[q].op = "me") /\ req[q].cookie /= NoId
         => cookie[b] = NoId

AnswerShown == \A q \in Reqs, b \in orderly : Sent(q) /\ req[q].browser = b => Comes(q, b)

Admission == EmailsMatch /\ OneRequest /\ PageShown /\ LastShown /\ AnswerShown
-----------------------------------------------------------------------------
(* Client ids *)

\* The forms of an id, and that no two are the same.
LEMMA IdForms ==
    /\ NoId \in ClientIds /\ NoId.kind = "none"
    /\ \A email \in Emails : /\ EmailId(email) \in ClientIds /\ EmailId(email).kind = "email"
                              /\ EmailId(email).of = email
    /\ \A token \in Tokens, email \in Emails :
         /\ DemoId(token, email) \in ClientIds /\ DemoId(token, email).kind = "demo"
         /\ DemoId(token, email).of = email /\ DemoId(token, email).link = token
    /\ \A n \in 0..MaxVisits : Uuid(n) \in ClientIds /\ Uuid(n).kind = "uuid" /\ Uuid(n).n = n
  BY BoundAssumption DEF NoId, EmailId, DemoId, Uuid, ClientIds

\* authedEmail gives an account's email or none.
LEMMA EmailForms == \A b : Email(b) \in Emails \cup {None} /\ (Email(b) /= None => bearer[b] = Email(b))
  BY DEF Email

\* Whom clientID takes a request for: the account, or else the cookie it came
\* with, or else a uuid of its own, which it also sets.
LEMMA ClientForms ==
    ASSUME TypeOK, RequestsHeld, NEW q \in Reqs, Sent(q)
    PROVE  /\ ClientID(q) \in ClientIds /\ ClientID(q).kind \in {"email", "demo", "uuid"}
           /\ ClientID(q).kind = "email"
                => /\ Email(req[q].browser) /= None /\ ClientID(q).of = Email(req[q].browser)
           /\ ClientID(q).kind /= "email" => Email(req[q].browser) = None
           /\ ClientID(q).kind = "uuid"
                => \/ ClientID(q).n = req[q].n
                   \/ req[q].cookie.kind = "uuid" /\ req[q].cookie.n = ClientID(q).n
           /\ Given(q) \in ClientIds
           /\ \/ /\ Given(q) = NoId
                 /\ Email(req[q].browser) = None => ClientID(q) = req[q].cookie /\ req[q].cookie /= NoId
              \/ /\ Given(q).kind = "uuid" /\ Given(q).n = req[q].n /\ Given(q) /= NoId
                 /\ Given(q) = ClientID(q) /\ req[q].cookie = NoId
<1> DEFINE b == req[q].browser
<1>1. req[q] \in Requests /\ Held(b, req[q].cookie)
  BY DEF TypeOK, RequestsHeld
<1>2. req[q].n \in 0..MaxVisits /\ req[q].cookie \in ClientIds
  BY <1>1 DEF Requests
<1>3. CASE Email(b) /= None
  <2>1. ClientID(q) = EmailId(Email(b)) /\ Given(q) = NoId /\ Email(b) \in Emails
    BY <1>3, EmailForms DEF ClientID, Given
  <2> QED
    BY <2>1, <1>3, IdForms
<1>4. CASE Email(b) = None /\ req[q].cookie = NoId
  <2>1. ClientID(q) = Uuid(req[q].n) /\ Given(q) = Uuid(req[q].n)
    BY <1>4 DEF ClientID, Given
  <2> QED
    BY <2>1, <1>2, <1>4, IdForms
<1>5. CASE Email(b) = None /\ req[q].cookie /= NoId
  <2>1. ClientID(q) = req[q].cookie /\ Given(q) = NoId
    BY <1>5 DEF ClientID, Given
  <2> QED
    BY <2>1, <1>1, <1>2, <1>5, IdForms DEF Held
<1> QED
  BY <1>3, <1>4, <1>5

-----------------------------------------------------------------------------
(* Steps *)

\* A page of browser b makes a request.
Sends(q, b) ==
    Load(q, b) \/ StartLab(q, b) \/ \E token \in Tokens, email \in Emails : OpenDemo(q, b, token, email)

\* A step that gives no browser a uuid it did not have keeps uuids apart.
LEMMA NoNewCarrier ==
    ASSUME OneBrowser, visits' = visits,
           \A b \in Browsers, n \in 0..MaxVisits : Carries(b, n)' => Carries(b, n)
    PROVE  OneBrowser'
  BY DEF OneBrowser

\* A request goes out with the browser's cookie and a number nobody has seen.
LEMMA SendStep ==
    ASSUME Inv, NEW q \in Reqs, NEW b \in Browsers,
           Sends(q, b)
    PROVE  Inv'
<1> DEFINE R(op, token, email) ==
      [state |-> "sent", op |-> op, browser |-> b, cookie |-> cookie[b],
       token |-> token, email |-> email, id |-> None, n |-> visits + 1]
<1>1. PICK op \in {"me", "create", "demo"}, token \in Tokens \cup {None}, email \in Emails \cup {None} :
        /\ req' = [req EXCEPT ![q] = R(op, token, email)]
        /\ op = "demo" => token \in Tokens /\ email \in Emails /\ <<token, email>> \in opened'[b]
        /\ \/ opened' = opened
           \/ token \in Tokens /\ email \in Emails /\ opened' = [opened EXCEPT ![b] = @ \cup {<<token, email>>}]
  <2>1. ASSUME Load(q, b) \/ StartLab(q, b)
        PROVE  /\ \E op \in {"me", "create"} : req' = [req EXCEPT ![q] = R(op, None, None)]
               /\ opened' = opened
    BY <2>1 DEF Load, StartLab, Send
  <2>2. ASSUME NEW token \in Tokens, NEW email \in Emails, OpenDemo(q, b, token, email)
        PROVE  /\ req' = [req EXCEPT ![q] = R("demo", token, email)]
               /\ <<token, email>> \in opened'[b]
               /\ opened' = [opened EXCEPT ![b] = @ \cup {<<token, email>>}]
    BY <2>2 DEF OpenDemo, Send, Inv, TypeOK
  <2> HIDE DEF R
  <2> QED
    BY <2>1, <2>2 DEF Sends
<1>2. /\ req[q].state = "free" /\ visits < MaxVisits /\ visits' = visits + 1
      /\ UNCHANGED <<bearer, orderly, cookie, session, last, astray>>
      /\ page' = page \/ page' = [page EXCEPT ![b] = NoPage]
  BY DEF Sends, Load, StartLab, OpenDemo, Send
<1> DEFINE k == R(op, token, email)
<1>3. visits \in 0..MaxVisits /\ cookie[b] \in ClientIds /\ req \in [Reqs -> Requests]
  BY DEF Inv, TypeOK
<1>4. k \in Requests /\ visits' \in 0..MaxVisits
  BY <1>1, <1>2, <1>3, BoundAssumption DEF Requests
<1>5. /\ k.state = "sent" /\ k.browser = b /\ k.cookie = cookie[b] /\ k.n = visits + 1
      /\ k.op = op /\ k.token = token /\ k.email = email
  OBVIOUS
<1>6. req' = [req EXCEPT ![q] = k]
  BY <1>1
<1> HIDE DEF k, R
<1>7. req'[q] = k /\ \A r \in Reqs \ {q} : req'[r] = req[r]
  BY <1>3, <1>6
<1>8. \A d \in Browsers : opened[d] \subseteq opened'[d]
  BY <1>1 DEF Inv, TypeOK
<1>9. TypeOK'
  <2>1. opened' \in [Browsers -> SUBSET (Tokens \X Emails)]
    BY <1>1 DEF Inv, TypeOK
  <2>2. NoPage \in [id : Ids \cup {None}, under : ClientIds]
    BY IdForms DEF NoPage
  <2>3. page' \in [Browsers -> [id : Ids \cup {None}, under : ClientIds]]
    BY <1>2, <2>2 DEF Inv, TypeOK
  <2>4. req' \in [Reqs -> Requests]
    BY <1>3, <1>4, <1>6
  <2> QED
    BY <1>2, <1>4, <2>1, <2>3, <2>4 DEF Inv, TypeOK
<1>10. Cookies' /\ SessionsMade'
  BY <1>2, <1>8 DEF Inv, Cookies, Held, SessionsMade
<1>11. RequestsHeld'
  <2>1. ASSUME NEW r \in Reqs \ {q}, Sent(r)'
        PROVE  /\ req'[r].browser \in Browsers /\ Held(req[r].browser, req[r].cookie)'
               /\ req'[r].op = "demo"
                    => /\ req'[r].token \in Tokens /\ req'[r].email \in Emails
                       /\ <<req'[r].token, req'[r].email>> \in opened'[req'[r].browser]
    BY <1>7, <1>8, <2>1 DEF Inv, RequestsHeld, Sent, Held
  <2>2. /\ req'[q].browser \in Browsers /\ Held(req[q].browser, req[q].cookie)'
        /\ req'[q].op = "demo"
             => /\ req'[q].token \in Tokens /\ req'[q].email \in Emails
                /\ <<req'[q].token, req'[q].email>> \in opened'[req'[q].browser]
    BY <1>1, <1>5, <1>7, <1>8 DEF Inv, Cookies, Held
  <2> QED
    BY <2>1, <2>2 DEF RequestsHeld
<1>12. ASSUME NEW d \in Browsers, NEW n \in 0..MaxVisits, Carries(d, n)'
       PROVE  Carries(d, n) \/ (d = b /\ n = visits + 1)
  BY <1>2, <1>5, <1>7, <1>12 DEF Carries, Sent
<1>13. OneBrowser'
  <2>1. \A d \in Browsers, n \in 0..MaxVisits : Carries(d, n) => n <= visits
    BY DEF Inv, OneBrowser
  <2>2. \A d \in Browsers, n \in 0..MaxVisits : Carries(d, n)' => n <= visits'
    BY <1>2, <1>3, <1>12, <2>1
  <2>3. ASSUME NEW d \in Browsers, NEW e \in Browsers, NEW n \in 0..MaxVisits,
               Carries(d, n)', Carries(e, n)'
        PROVE  d = e
    <3>1. CASE n = visits + 1
      <4>1. ~(n <= visits)
        BY <3>1, <1>3
      <4> QED
        BY <4>1, <1>12, <2>1, <2>3
    <3>2. CASE n /= visits + 1
      BY <3>2, <1>12, <2>3 DEF Inv, OneBrowser
    <3> QED
      BY <3>1, <3>2
  <2> QED
    BY <2>2, <2>3 DEF OneBrowser
<1> QED
  BY <1>9, <1>10, <1>11, <1>13 DEF Inv
\* What a handler does: it answers with a session or none and with a cookie or
\* none, and may make one new session for an id this browser has.
Answers(q, id, set) ==
    /\ id \in Ids \cup {None} /\ set \in ClientIds
    /\ req[q].state = "sent" /\ Answer(q, id, set)
    /\ Held(req[q].browser, set) /\ (set.kind = "uuid" => set.n = req[q].n)

MakesFor(q, i, s) ==
    /\ session[i].state = "unborn" /\ session' = [session EXCEPT ![i] = s]
    /\ s.state = "active" /\ s.by = req[q].browser /\ s.client.kind \in {"email", "demo", "uuid"}
    /\ s.client.kind = "uuid"
         => \/ s.client.n = req[q].n
            \/ req[q].cookie.kind = "uuid" /\ req[q].cookie.n = s.client.n

\* The three handlers do no more than that.
LEMMA HandlersServe ==
    ASSUME Inv, NEW q \in Reqs, GetMySession(q) \/ CreateSession(q) \/ StartDemoSession(q)
    PROVE  /\ \E id \in Ids \cup {None}, set \in ClientIds : Answers(q, id, set)
           /\ session' = session \/ \E i \in Ids, s \in Sessions : MakesFor(q, i, s)
<1>1. req[q].state = "sent" /\ Sent(q)
  BY DEF GetMySession, CreateSession, StartDemoSession, Serving, Sent
<1>2. /\ req[q] \in Requests /\ req[q].browser \in Browsers
      /\ session \in [Ids -> Sessions] /\ TypeOK /\ RequestsHeld
  BY <1>1 DEF Inv, TypeOK, RequestsHeld
<1> DEFINE b == req[q].browser
           cid == ClientID(q)
<1>3. /\ cid \in ClientIds /\ cid.kind \in {"email", "demo", "uuid"}
      /\ cid.kind = "uuid" => cid.n = req[q].n \/ (req[q].cookie.kind = "uuid" /\ req[q].cookie.n = cid.n)
      /\ Given(q) \in ClientIds /\ Held(b, Given(q)) /\ (Given(q).kind = "uuid" => Given(q).n = req[q].n)
  BY <1>1, <1>2, ClientForms, IdForms DEF Held
<1>4. CASE GetMySession(q)
  <2>1. PICK id \in Ids \cup {None} : Answer(q, id, Given(q)) /\ session' = session
    BY <1>4 DEF GetMySession
  <2> QED
    BY <1>1, <1>3, <2>1 DEF Answers
<1>5. CASE CreateSession(q)
  <2> DEFINE s == [state |-> "active", client |-> cid, email |-> Email(b), by |-> b]
  <2>1. /\ \E id \in Ids \cup {None} : Answer(q, id, Given(q))
        /\ \/ session' = session
           \/ \E i \in Ids : session[i].state = "unborn" /\ session' = [session EXCEPT ![i] = s]
    BY <1>5 DEF CreateSession, NewSession
  <2>2. s \in Sessions /\ s.state = "active" /\ s.by = b /\ s.client = cid
    BY <1>2, <1>3, EmailForms DEF Sessions
  <2> HIDE DEF s
  <2>3. \E id \in Ids \cup {None}, set \in ClientIds : Answers(q, id, set)
    BY <1>1, <1>3, <2>1 DEF Answers
  <2> QED
    BY <1>3, <2>1, <2>2, <2>3 DEF MakesFor
<1>6. CASE StartDemoSession(q)
  <2> DEFINE did == DemoId(req[q].token, req[q].email)
             s == [state |-> "active", client |-> did, email |-> req[q].email, by |-> b]
  <2>1. /\ \E id \in Ids \cup {None} : Answer(q, id, did)
        /\ \/ session' = session
           \/ \E i \in Ids : session[i].state = "unborn" /\ session' = [session EXCEPT ![i] = s]
    BY <1>6 DEF StartDemoSession, NewSession
  <2>2. /\ req[q].token \in Tokens /\ req[q].email \in Emails
        /\ <<req[q].token, req[q].email>> \in opened[b]
    BY <1>1, <1>2, <1>6 DEF StartDemoSession, Serving, RequestsHeld
  <2>3. did \in ClientIds /\ did.kind = "demo" /\ Held(b, did)
    BY <2>2, IdForms DEF Held
  <2> HIDE DEF did
  <2>4. s \in Sessions /\ s.state = "active" /\ s.by = b /\ s.client = did
    BY <1>2, <2>2, <2>3 DEF Sessions
  <2> HIDE DEF s
  <2>5. \E id \in Ids \cup {None}, set \in ClientIds : Answers(q, id, set)
    BY <1>1, <2>1, <2>3 DEF Answers
  <2> QED
    BY <2>1, <2>3, <2>4, <2>5 DEF MakesFor
<1> QED
  BY <1>4, <1>5, <1>6

\* A served request keeps the invariant: what the browser gets, it had.
LEMMA ServeStep ==
    ASSUME Inv, NEW q \in Reqs, GetMySession(q) \/ CreateSession(q) \/ StartDemoSession(q)
    PROVE  Inv'
<1>1. PICK id \in Ids \cup {None}, set \in ClientIds : Answers(q, id, set)
  BY HandlersServe
<1>2. session' = session \/ \E i \in Ids, s \in Sessions : MakesFor(q, i, s)
  BY HandlersServe
<1> DEFINE k == [req[q] EXCEPT !.state = "answered", !.id = id, !.cookie = set]
<1>3. /\ req \in [Reqs -> Requests] /\ session \in [Ids -> Sessions] /\ req[q] \in Requests
      /\ req[q].state = "sent"
  BY <1>1 DEF Inv, TypeOK, Answers
<1>4. /\ req' = [req EXCEPT ![q] = k] /\ UNCHANGED <<bearer, orderly, cookie, page, last, astray, opened, visits>>
  BY <1>1 DEF Answers, Answer
<1>5. /\ k \in Requests /\ k.state = "answered" /\ k.browser = req[q].browser /\ k.cookie = set
      /\ k.n = req[q].n /\ k.op = req[q].op /\ k.token = req[q].token /\ k.email = req[q].email
  BY <1>3 DEF Requests
<1> HIDE DEF k
<1>6. req'[q] = k /\ \A r \in Reqs \ {q} : req'[r] = req[r]
  BY <1>3, <1>4
<1>7. session' \in [Ids -> Sessions]
  BY <1>2, <1>3 DEF MakesFor
<1>8. TypeOK' /\ Cookies'
  BY <1>3, <1>4, <1>5, <1>7 DEF Inv, TypeOK, Cookies, Held
<1>9. Held(req[q].browser, set) /\ (set.kind = "uuid" => set.n = req[q].n) /\ req[q].browser \in Browsers
  BY <1>1, <1>3 DEF Answers, Inv, RequestsHeld, Sent
<1>10. RequestsHeld'
  <2>1. UNCHANGED opened /\ RequestsHeld
    BY <1>4 DEF Inv
  <2>2. ASSUME NEW r \in Reqs \ {q}, Sent(r)'
        PROVE  /\ req'[r].browser \in Browsers /\ Held(req[r].browser, req[r].cookie)'
               /\ req'[r].op = "demo"
                    => /\ req'[r].token \in Tokens /\ req'[r].email \in Emails
                       /\ <<req'[r].token, req'[r].email>> \in opened'[req'[r].browser]
    BY <1>6, <2>1, <2>2 DEF RequestsHeld, Sent, Held
  <2>3. /\ req'[q].browser \in Browsers /\ Held(req[q].browser, req[q].cookie)'
        /\ req'[q].op = "demo"
             => /\ req'[q].token \in Tokens /\ req'[q].email \in Emails
                /\ <<req'[q].token, req'[q].email>> \in opened'[req'[q].browser]
    BY <1>3, <1>5, <1>6, <1>9, <2>1 DEF RequestsHeld, Sent, Held
  <2> QED
    BY <2>2, <2>3 DEF RequestsHeld
<1>11. SessionsMade'
  BY <1>2, <1>3, <1>9 DEF Inv, SessionsMade, MakesFor
<1>12. ASSUME NEW b \in Browsers, NEW n \in 0..MaxVisits, Carries(b, n)' PROVE Carries(b, n)
  <2>1. CASE cookie'[b].kind = "uuid" /\ cookie'[b].n = n
    BY <1>4, <2>1 DEF Carries
  <2>2. ASSUME NEW r \in Reqs, Sent(r)', req'[r].browser = b,
               req'[r].n = n \/ (req'[r].cookie.kind = "uuid" /\ req'[r].cookie.n = n)
        PROVE  Carries(b, n)
    BY <1>3, <1>5, <1>6, <1>9, <2>2 DEF Carries, Sent
  <2>3. ASSUME NEW i \in Ids, session'[i].state /= "unborn", session'[i].by = b,
               session'[i].client.kind = "uuid", session'[i].client.n = n
        PROVE  Carries(b, n)
    <3>1. CASE session'[i] = session[i]
      BY <2>3, <3>1 DEF Carries
    <3>2. CASE session'[i] /= session[i]
      <4>1. PICK j \in Ids, s \in Sessions : MakesFor(q, j, s)
        BY <1>2, <3>2
      <4>2. session'[i] = s
        BY <1>3, <3>2, <4>1 DEF MakesFor
      <4> QED
        BY <1>3, <2>3, <4>1, <4>2 DEF MakesFor, Carries, Sent
    <3> QED
      BY <3>1, <3>2
  <2> QED
    BY <1>12, <2>1, <2>2, <2>3 DEF Carries
<1>13. OneBrowser'
  BY <1>4, <1>12, NoNewCarrier DEF Inv
<1> QED
  BY <1>8, <1>10, <1>11, <1>13 DEF Inv

\* The answer arrives or the request fails: the cookie is one the browser may have.
LEMMA ReceiveStep ==
    ASSUME Inv, NEW q \in Reqs, Receive(q) \/ RequestFails(q)
    PROVE  Inv'
<1>1. Free \in Requests /\ Free.state = "free"
  BY IdForms, BoundAssumption DEF Free, Requests
<1>2. /\ req' = [req EXCEPT ![q] = Free] /\ UNCHANGED <<bearer, orderly, session, opened, visits>>
      /\ Sent(q) /\ req \in [Reqs -> Requests] /\ req[q].browser \in Browsers /\ req[q] \in Requests
      /\ Held(req[q].browser, req[q].cookie)
  BY DEF Receive, RequestFails, Sent, Inv, TypeOK, RequestsHeld
<1>3. cookie' = cookie \/ cookie' = [cookie EXCEPT ![req[q].browser] = req[q].cookie]
  BY DEF Receive, RequestFails
<1>4. /\ last' \in [Browsers -> Ids \cup {None}] /\ astray' \subseteq Browsers
      /\ page' \in [Browsers -> [id : Ids \cup {None}, under : ClientIds]]
  <2>1. /\ page \in [Browsers -> [id : Ids \cup {None}, under : ClientIds]]
        /\ last \in [Browsers -> Ids \cup {None}] /\ astray \subseteq Browsers
        /\ req[q].id \in Ids \cup {None} /\ cookie'[req[q].browser] \in ClientIds
    BY <1>2, <1>3 DEF Inv, TypeOK, Requests
  <2>2. /\ last' \in [Browsers -> Ids \cup {None}] /\ astray' \subseteq Browsers
    BY <1>2, <2>1 DEF Receive, RequestFails, GoTo, GoToShown, Stay
  <2>3. page' \in [Browsers -> [id : Ids \cup {None}, under : ClientIds]]
    BY <1>2, <2>1 DEF Receive, RequestFails
  <2> QED
    BY <2>2, <2>3
<1>5. req'[q].state = "free" /\ \A r \in Reqs \ {q} : req'[r] = req[r]
  BY <1>1, <1>2
<1>6. cookie' \in [Browsers -> ClientIds] /\ req' \in [Reqs -> Requests]
  BY <1>1, <1>2, <1>3 DEF Inv, TypeOK, Requests
<1>7. TypeOK'
  BY <1>2, <1>4, <1>6 DEF Inv, TypeOK
<1>8. Cookies'
  BY <1>2, <1>3, <1>6 DEF Inv, TypeOK, Cookies, Held
<1>9. RequestsHeld' /\ SessionsMade'
  BY <1>2, <1>5 DEF Inv, RequestsHeld, SessionsMade, Sent, Held
<1>10. ASSUME NEW b \in Browsers, NEW n \in 0..MaxVisits, Carries(b, n)' PROVE Carries(b, n)
  <2>1. CASE cookie'[b].kind = "uuid" /\ cookie'[b].n = n
    BY <1>2, <1>3, <2>1 DEF Carries, Inv, TypeOK
  <2>2. ASSUME NEW r \in Reqs, Sent(r)', req'[r].browser = b,
               req'[r].n = n \/ (req'[r].cookie.kind = "uuid" /\ req'[r].cookie.n = n)
        PROVE  Carries(b, n)
    BY <1>5, <2>2 DEF Carries, Sent
  <2> QED
    BY <1>2, <1>10, <2>1, <2>2 DEF Carries
<1>11. OneBrowser'
  BY <1>2, <1>10, NoNewCarrier DEF Inv
<1> QED
  BY <1>7, <1>8, <1>9, <1>11 DEF Inv

\* Following the link changes no id.
LEMMA LinkStep ==
    ASSUME Inv, NEW b \in Browsers, ResumeLink(b)
    PROVE  Inv'
<1>1. /\ UNCHANGED <<bearer, orderly, cookie, session, req, page, opened, visits>>
      /\ last' \in [Browsers -> Ids \cup {None}] /\ astray' \subseteq Browsers
  BY DEF ResumeLink, GoToShown, Inv, TypeOK
<1>2. TypeOK' /\ Cookies' /\ RequestsHeld' /\ SessionsMade'
  BY <1>1 DEF Inv, TypeOK, Cookies, RequestsHeld, SessionsMade, Sent, Held
<1>3. \A d \in Browsers, n \in 0..MaxVisits : Carries(d, n)' => Carries(d, n)
  BY <1>1 DEF Carries, Sent
<1> QED
  BY <1>1, <1>2, <1>3, NoNewCarrier DEF Inv

\* A session ends; whose it is stays.
LEMMA EndStep ==
    ASSUME Inv, NEW i \in Ids, SessionEnds(i)
    PROVE  Inv'
<1>1. /\ session' = [session EXCEPT ![i] = [@ EXCEPT !.state = "ended"]] /\ session[i].state = "active"
      /\ session \in [Ids -> Sessions] /\ session[i] \in Sessions
      /\ UNCHANGED <<bearer, orderly, cookie, req, page, last, astray, opened, visits>>
  BY DEF SessionEnds, Inv, TypeOK
<1>2. /\ session' \in [Ids -> Sessions]
      /\ \A j \in Ids : /\ session'[j].client = session[j].client /\ session'[j].by = session[j].by
                         /\ session'[j].state /= "unborn" <=> session[j].state /= "unborn"
  BY <1>1 DEF Sessions
<1>3. TypeOK' /\ Cookies' /\ RequestsHeld' /\ SessionsMade'
  BY <1>1, <1>2 DEF Inv, TypeOK, Cookies, RequestsHeld, SessionsMade, Sent, Held
<1>4. \A b \in Browsers, n \in 0..MaxVisits : Carries(b, n)' => Carries(b, n)
  BY <1>1, <1>2 DEF Carries, Sent
<1>5. OneBrowser'
  BY <1>1, <1>4, NoNewCarrier DEF Inv
<1> QED
  BY <1>3, <1>5 DEF Inv

\* Nobody has an id at first.
LEMMA InitInv == Init => Inv
<1> SUFFICES ASSUME Init PROVE Inv
  OBVIOUS
<1> DEFINE s == [state |-> "unborn", client |-> NoId, email |-> None, by |-> None]
<1>1. Free \in Requests /\ Free.state = "free" /\ s \in Sessions /\ s.state = "unborn"
  BY IdForms, BoundAssumption DEF Free, Requests, Sessions
<1>2. /\ req = [q \in Reqs |-> Free] /\ session = [i \in Ids |-> s] /\ visits = 0
      /\ cookie = [b \in Browsers |-> NoId]
  BY DEF Init
<1> HIDE DEF s
<1>3. TypeOK
  BY <1>1, <1>2, IdForms, BoundAssumption DEF Init, TypeOK, NoPage
<1>4. Cookies /\ RequestsHeld /\ SessionsMade
  BY <1>1, <1>2 DEF Cookies, RequestsHeld, SessionsMade, Sent, Held
<1>5. \A b \in Browsers, n \in 0..MaxVisits : ~Carries(b, n)
  BY <1>1, <1>2, IdForms DEF Carries, Sent
<1> QED
  BY <1>3, <1>4, <1>5 DEF Inv, OneBrowser

\* Every step keeps the invariant.
LEMMA StepInv == Inv /\ [Next]_vars => Inv'
<1> SUFFICES ASSUME Inv, [Next]_vars PROVE Inv'
  OBVIOUS
<1>1. CASE UNCHANGED vars
  <2>1. TypeOK' /\ Cookies' /\ RequestsHeld' /\ SessionsMade'
    BY <1>1 DEF vars, Inv, TypeOK, Cookies, RequestsHeld, SessionsMade, Sent, Held
  <2>2. \A b \in Browsers, n \in 0..MaxVisits : Carries(b, n)' => Carries(b, n)
    BY <1>1 DEF vars, Carries, Sent
  <2> QED
    BY <1>1, <2>1, <2>2, NoNewCarrier DEF vars, Inv
<1>2. CASE Next
  BY <1>2, SendStep, ServeStep, ReceiveStep, LinkStep, EndStep DEF Next, Sends
<1> QED
  BY <1>1, <1>2

\* So it holds throughout.
LEMMA Invariance == Spec => []Inv
  BY InitInv, StepInv, PTL DEF Spec

-----------------------------------------------------------------------------
(* Theorems *)

\* Cookies, requests and sessions keep their types.
THEOREM TypeCorrect == Spec => []TypeOK
  BY Invariance, PTL DEF Inv

\* ownsSession lets nobody into a session but the account it belongs to, the
\* browser it was created from, and browsers that opened its demo link with its
\* email: whatever cookies replace one another while requests overlap.
THEOREM Private == Spec => []NoStranger
<1>1. Inv => NoStranger
  <2> SUFFICES ASSUME Inv, NEW b \in Browsers, NEW i \in Ids,
                      session[i].state /= "unborn", OwnsSession(b, i),
                      ~(Email(b) /= None /\ Email(b) = session[i].email)
               PROVE  session[i].by = b \/ <<session[i].client.link, session[i].client.of>> \in opened[b]
    BY DEF NoStranger
  <2>1. cookie[b] /= NoId /\ cookie[b] = session[i].client
    BY DEF OwnsSession
  <2>2. Held(b, cookie[b]) /\ session[i].by \in Browsers
    BY DEF Inv, Cookies, SessionsMade
  <2>3. CASE cookie[b].kind = "demo"
    BY <2>1, <2>2, <2>3 DEF Held
  <2>4. CASE cookie[b].kind = "uuid"
    <3>1. cookie[b].n \in 0..MaxVisits
      BY DEF Inv, TypeOK, ClientIds
    <3>2. Carries(b, cookie[b].n) /\ Carries(session[i].by, cookie[b].n)
      BY <2>1, <2>4 DEF Carries
    <3> QED
      BY <2>2, <3>1, <3>2 DEF Inv, OneBrowser
  <2> QED
    BY <2>1, <2>2, <2>3, <2>4 DEF Held
<1> QED
  BY <1>1, Invariance, PTL
-----------------------------------------------------------------------------
(* Admission *)

\* No step changes whose a session is once it is there.
SessionsKept ==
    \A i \in Ids : session[i].state /= "unborn" =>
      /\ session'[i].state /= "unborn"
      /\ session'[i].client = session[i].client /\ session'[i].email = session[i].email

\* What is shown to a browser stays shown: sessions keep client and email.
LEMMA ShowsStays ==
    ASSUME SessionsKept, UNCHANGED bearer, NEW b, NEW i, NEW ck, Shows(b, i, ck)
    PROVE  Shows(b, i, ck)'
  BY DEF SessionsKept, Shows, Email

\* So where browsers are, and what their front pages show, stays right.
LEMMA PlacesStay ==
    ASSUME SessionsKept, UNCHANGED <<bearer, orderly, cookie, page, last, astray>>, PageShown, LastShown
    PROVE  PageShown' /\ LastShown'
<1>1. PageShown'
  BY ShowsStays DEF PageShown
<1>2. ASSUME NEW b \in orderly, last[b] /= None
      PROVE  Shows(b, last[b], IF b \in astray THEN session[last[b]].client ELSE cookie[b])'
  <2>1. Shows(b, last[b], IF b \in astray THEN session[last[b]].client ELSE cookie[b])
    BY <1>2 DEF LastShown
  <2>2. session'[last[b]].client = session[last[b]].client
    BY <2>1 DEF Shows, SessionsKept
  <2> QED
    BY <2>1, <2>2, ShowsStays
<1> QED
  BY <1>1, <1>2 DEF LastShown

\* A request goes out: no browser is sent anywhere, and an orderly one has no
\* other request whose answer could still change its cookie.
LEMMA SendAdmits ==
    ASSUME Inv, Admission, NEW q \in Reqs, NEW b \in Browsers,
           Sends(q, b)
    PROVE  Admission'
<1>1. /\ UNCHANGED <<bearer, orderly, cookie, session, last, astray>> /\ req \in [Reqs -> Requests]
      /\ req[q].state = "free" /\ (b \in orderly => ~InFlight(b))
      /\ page' = page \/ page' = [page EXCEPT ![b] = NoPage]
      /\ page \in [Browsers -> [id : Ids \cup {None}, under : ClientIds]] /\ orderly \subseteq Browsers
  BY DEF Sends, Load, StartLab, OpenDemo, Send, Inv, TypeOK
<1>2. /\ req'[q].state = "sent" /\ req'[q].browser = b /\ req'[q].cookie = cookie[b]
      /\ b \in orderly /\ req'[q].op = "demo" /\ Email(b) /= None => req'[q].email = Email(b)
  <2>1. CASE Load(q, b) \/ StartLab(q, b)
    BY <1>1, <2>1 DEF Load, StartLab, Send
  <2>2. ASSUME NEW token \in Tokens, NEW email \in Emails, OpenDemo(q, b, token, email)
        PROVE  /\ req'[q].state = "sent" /\ req'[q].browser = b /\ req'[q].cookie = cookie[b]
               /\ b \in orderly /\ Email(b) /= None => req'[q].email = Email(b)
    BY <1>1, <2>2 DEF OpenDemo, Send
  <2> QED
    BY <2>1, <2>2 DEF Sends
<1>3. \A r \in Reqs \ {q} : req'[r] = req[r]
  BY <1>1 DEF Sends, Load, StartLab, OpenDemo, Send
<1>4. EmailsMatch' /\ LastShown' /\ PageShown'
  <2>1. EmailsMatch' /\ LastShown'
    BY <1>1 DEF Admission, EmailsMatch, LastShown, Shows, Email
  <2>2. \A d \in orderly : page'[d] = page[d] \/ page'[d].id = None
    BY <1>1 DEF NoPage
  <2>3. PageShown'
    BY <1>1, <2>2 DEF Admission, PageShown, Shows, Email
  <2> QED
    BY <2>1, <2>3
<1>5. OneRequest'
  BY <1>1, <1>2, <1>3 DEF Admission, OneRequest, InFlight, Sent
<1>6. AnswerShown'
  <2> SUFFICES ASSUME NEW r \in Reqs, NEW d \in orderly, Sent(r)', req'[r].browser = d
               PROVE  Comes(r, d)'
    BY <1>1 DEF AnswerShown
  <2>1. CASE r = q
    BY <1>1, <1>2, <2>1 DEF Comes, Email
  <2>2. CASE r /= q
    BY <1>1, <1>3, <2>2 DEF Admission, AnswerShown, Comes, Shows, After, Email, Sent
  <2> QED
    BY <2>1, <2>2
<1> QED
  BY <1>4, <1>5, <1>6 DEF Admission
\* An answer to an orderly browser names a session it is admitted to with the
\* cookie it has after the answer, or leaves its cookie alone unless it has none.
LEMMA ServeShows ==
    ASSUME Inv, Admission, NEW q \in Reqs, NEW b \in orderly, req[q].browser = b,
           GetMySession(q) \/ CreateSession(q) \/ StartDemoSession(q)
    PROVE  \E id \in Ids \cup {None}, set \in ClientIds :
             LET ck == IF set = NoId THEN cookie[b] ELSE set IN
             /\ Answer(q, id, set)
             /\ id /= None => /\ id \in Ids /\ session'[id].state /= "unborn"
                              /\ bearer[b] = None => ck /= NoId /\ ck = session'[id].client
                              /\ Email(b) /= None => session'[id].email \in {Email(b), None}
             /\ (id = None \/ req[q].op = "me") /\ set /= NoId => cookie[b] = NoId
<1>1. req[q].state = "sent" /\ Sent(q)
  BY DEF GetMySession, CreateSession, StartDemoSession, Serving, Sent
<1>2. /\ TypeOK /\ RequestsHeld /\ session \in [Ids -> Sessions] /\ b \in Browsers
      /\ req[q].cookie = cookie[b]
      /\ req[q].op = "demo" /\ Email(b) /= None => req[q].email = Email(b)
  BY <1>1 DEF Inv, TypeOK, Admission, AnswerShown, Comes
<1>3. bearer[b] = None => Email(b) = None
  BY NoneAssumption DEF Email
<1> DEFINE cid == ClientID(q)
           ck == IF Given(q) = NoId THEN cookie[b] ELSE Given(q)
<1>4. /\ Given(q) \in ClientIds
      /\ Email(b) = None => ck /= NoId /\ ck = cid
      /\ Email(b) /= None => cid.kind = "email" /\ cid.of = Email(b)
      /\ Given(q) /= NoId => cookie[b] = NoId
  BY <1>1, <1>2, ClientForms
<1> HIDE DEF cid
<1>5. CASE GetMySession(q)
  <2>1. PICK id \in Ids \cup {None} :
          /\ Answer(q, id, Given(q)) /\ session' = session
          /\ id /= None => id \in Ids /\ session[id].state /= "unborn" /\ session[id].client = cid
    BY <1>5 DEF GetMySession, Active, cid
  <2>2. id /= None /\ Email(b) /= None => session[id].email = Email(b)
    BY <1>4, <2>1 DEF Admission, EmailsMatch
  <2> QED
    BY <1>3, <1>4, <2>1, <2>2
<1>6. CASE CreateSession(q)
  <2>1. PICK id \in Ids \cup {None} :
          /\ Answer(q, id, Given(q))
          /\ id /= None => /\ id \in Ids /\ session'[id].state /= "unborn"
                           /\ session'[id].client = cid /\ session'[id].email = Email(b)
    BY <1>2, <1>6 DEF CreateSession, NewSession, cid
  <2> QED
    BY <1>3, <1>4, <2>1
<1>7. CASE StartDemoSession(q)
  <2> DEFINE did == DemoId(req[q].token, req[q].email)
  <2>1. req[q].op = "demo" /\ req[q].token \in Tokens /\ req[q].email \in Emails
    BY <1>1, <1>2, <1>7 DEF StartDemoSession, Serving, RequestsHeld
  <2>2. did \in ClientIds /\ did.kind = "demo" /\ did.of = req[q].email /\ did /= NoId
    BY <2>1, IdForms
  <2> HIDE DEF did
  <2>3. PICK id \in Ids :
          /\ Answer(q, id, did)
          /\ \/ session' = session /\ Active(id, did)
             \/ NewSession(id, q, did, req[q].email)
    BY <1>7 DEF StartDemoSession, did
  <2>4. /\ session'[id].state /= "unborn" /\ session'[id].client = did
        /\ session'[id].email \in {req[q].email, None}
    BY <1>2, <2>2, <2>3 DEF NewSession, Active, Admission, EmailsMatch
  <2>5. id /= None
    BY NoneAssumption
  <2> QED
    BY <1>2, <2>1, <2>2, <2>3, <2>4, <2>5
<1> QED
  BY <1>5, <1>6, <1>7
\* A served request: other browsers' sessions stay as they are.
LEMMA ServeAdmits ==
    ASSUME Inv, Admission, NEW q \in Reqs, GetMySession(q) \/ CreateSession(q) \/ StartDemoSession(q)
    PROVE  Admission'
<1>1. req[q].state = "sent" /\ Sent(q)
  BY DEF GetMySession, CreateSession, StartDemoSession, Serving, Sent
<1>2. /\ TypeOK /\ RequestsHeld /\ session \in [Ids -> Sessions] /\ req \in [Reqs -> Requests]
      /\ req[q] \in Requests
  BY DEF Inv, TypeOK
<1>a. \E i, new : Answer(q, i, new)
  BY DEF GetMySession, CreateSession, StartDemoSession
<1>b. PICK shown, new : Answer(q, shown, new)
  BY <1>a
<1>3. /\ UNCHANGED <<bearer, orderly, cookie, page, last, astray>>
      /\ \A r \in Reqs \ {q} : req'[r] = req[r]
  BY <1>2, <1>b DEF Answer
<1>4. req'[q].browser = req[q].browser
  BY <1>2, <1>b DEF Answer, Requests
<1>5. SessionsKept /\ EmailsMatch'
  <2> DEFINE b == req[q].browser
  <2>1. CASE session' = session
    BY <2>1 DEF SessionsKept, Admission, EmailsMatch
  <2>2. CASE CreateSession(q) /\ session' /= session
    <3>1. PICK i \in Ids : /\ session[i].state = "unborn"
                           /\ session' = [session EXCEPT ![i] = [state |-> "active", client |-> ClientID(q),
                                                                 email |-> Email(b), by |-> b]]
      BY <2>2 DEF CreateSession, NewSession
    <3>2. /\ session'[i].client = ClientID(q) /\ session'[i].email = Email(b)
          /\ \A j \in Ids \ {i} : session'[j] = session[j]
      BY <1>2, <3>1
    <3>3. /\ ClientID(q).kind = "email" => ClientID(q).of = Email(b)
          /\ ClientID(q).kind = "demo" => Email(b) = None
      BY <1>1, <1>2, ClientForms
    <3> QED
      BY <3>1, <3>2, <3>3 DEF SessionsKept, Admission, EmailsMatch
  <2>3. CASE StartDemoSession(q) /\ session' /= session
    <3> DEFINE did == DemoId(req[q].token, req[q].email)
    <3>1. PICK i \in Ids : /\ session[i].state = "unborn"
                           /\ session' = [session EXCEPT ![i] = [state |-> "active", client |-> did,
                                                                 email |-> req[q].email, by |-> b]]
      BY <2>3 DEF StartDemoSession, NewSession
    <3>2. /\ session'[i].client = did /\ session'[i].email = req[q].email
          /\ \A j \in Ids \ {i} : session'[j] = session[j]
      BY <1>2, <3>1
    <3>3. did.kind = "demo" /\ did.of = req[q].email
      BY DEF DemoId
    <3> HIDE DEF did
    <3> QED
      BY <3>1, <3>2, <3>3 DEF SessionsKept, Admission, EmailsMatch
  <2> QED
    BY <2>1, <2>2, <2>3 DEF GetMySession
<1>6. OneRequest'
  BY <1>1, <1>3, <1>4 DEF Admission, OneRequest, Sent
<1>7. PageShown' /\ LastShown'
  BY <1>3, <1>5, PlacesStay DEF Admission
<1>8. AnswerShown'
  <2> SUFFICES ASSUME NEW r \in Reqs, NEW b \in orderly, Sent(r)', req'[r].browser = b
               PROVE  Comes(r, b)'
    BY <1>3 DEF AnswerShown
  <2>1. CASE r = q
    <3>1. PICK id \in Ids \cup {None}, set \in ClientIds :
             LET ck == IF set = NoId THEN cookie[b] ELSE set IN
             /\ Answer(q, id, set)
             /\ id /= None => /\ id \in Ids /\ session'[id].state /= "unborn"
                              /\ bearer[b] = None => ck /= NoId /\ ck = session'[id].client
                              /\ Email(b) /= None => session'[id].email \in {Email(b), None}
             /\ (id = None \/ req[q].op = "me") /\ set /= NoId => cookie[b] = NoId
      BY <1>4, <2>1, ServeShows
    <3>2. /\ req'[q].state = "answered" /\ req'[q].id = id /\ req'[q].cookie = set
          /\ req'[q].op = req[q].op
      BY <1>2, <3>1 DEF Answer, Requests
    <3> QED
      BY <1>3, <2>1, <3>1, <3>2 DEF Comes, Shows, After, Email
  <2>2. CASE r /= q
    <3>1. Comes(r, b) /\ req'[r] = req[r]
      BY <1>3, <2>2 DEF Admission, AnswerShown, Sent
    <3>2. req[r].state = "answered" /\ req[r].id /= None => Shows(b, req[r].id, After(b, r))'
      BY <1>3, <1>5, <3>1 DEF Comes, Shows, After, Email, SessionsKept
    <3> QED
      BY <1>3, <3>1, <3>2 DEF Comes, Email
  <2> QED
    BY <2>1, <2>2
<1> QED
  BY <1>5, <1>6, <1>7, <1>8 DEF Admission

\* The way to the session that the front page shows: for the cookie of now, or astray.
LEMMA ShownAdmits ==
    ASSUME Inv, PageShown, NEW d \in Browsers, GoToShown(d),
           UNCHANGED <<bearer, orderly, session>>, d \in orderly
    PROVE  /\ last'[d] /= None
           /\ Shows(d, last[d], IF d \in astray THEN session[last[d]].client ELSE cookie[d])'
<1>1. last'[d] = page[d].id /\ page[d].id /= None /\ (d \in astray' <=> page[d].under /= cookie'[d])
  BY DEF GoToShown, Inv, TypeOK
<1>2. Shows(d, page[d].id, page[d].under)
  BY <1>1 DEF PageShown
<1> QED
  BY <1>1, <1>2 DEF Shows, Email

\* The front page keeps what the answer says, or the browser goes there, with the
\* cookie that came along.
LEMMA ReceiveAdmits ==
    ASSUME Inv, Admission, NEW q \in Reqs, Receive(q) \/ RequestFails(q)
    PROVE  Admission'
<1> DEFINE d == req[q].browser
<1>1. /\ req' = [req EXCEPT ![q] = Free] /\ UNCHANGED <<bearer, orderly, session>>
      /\ Sent(q) /\ req \in [Reqs -> Requests] /\ d \in Browsers
      /\ cookie \in [Browsers -> ClientIds] /\ last \in [Browsers -> Ids \cup {None}] /\ orderly \subseteq Browsers
      /\ page \in [Browsers -> [id : Ids \cup {None}, under : ClientIds]] /\ astray \subseteq Browsers
  BY DEF Receive, RequestFails, Sent, Inv, TypeOK, RequestsHeld
<1>2. req'[q].state = "free" /\ \A r \in Reqs \ {q} : req'[r] = req[r]
  BY <1>1 DEF Free
<1>3. \A b \in Browsers \ {d} :
        /\ cookie'[b] = cookie[b] /\ last'[b] = last[b] /\ page'[b] = page[b]
        /\ b \in astray' <=> b \in astray
  BY <1>1 DEF Receive, RequestFails, GoTo, GoToShown, Stay
<1>4. \/ UNCHANGED <<cookie, page, last, astray>>
      \/ req[q].state = "answered" /\ cookie'[d] = After(d, q)
  BY <1>1 DEF Receive, RequestFails, After
<1>5. EmailsMatch' /\ OneRequest'
  BY <1>1, <1>2 DEF Admission, EmailsMatch, OneRequest, Sent
<1>6. ASSUME NEW b \in orderly, Receive(q), b = d
      PROVE  /\ last'[b] /= None => Shows(b, last[b], IF b \in astray THEN session[last[b]].client ELSE cookie[b])'
             /\ page'[b].id /= None => Shows(b, page[b].id, page[b].under)'
  <2>1. req[q].state = "answered" /\ cookie'[b] = After(b, q) /\ Comes(q, b)
    BY <1>1, <1>6 DEF Receive, After, Admission, AnswerShown
  <2>2. /\ last[b] /= None => Shows(b, last[b], IF b \in astray THEN session[last[b]].client ELSE cookie[b])
        /\ page[b].id /= None => Shows(b, page[b].id, page[b].under)
    BY DEF Admission, LastShown, PageShown
  <2>3. req[q].id /= None => Shows(b, req[q].id, cookie'[b])
    BY <2>1 DEF Comes
  <2>4. page' = page => (page'[b].id /= None => Shows(b, page[b].id, page[b].under)')
    BY <1>1, <2>2 DEF Shows, Email
  <2>5. CASE UNCHANGED <<last, astray>> /\ (req[q].id = None \/ req[q].op = "me")
    <3>1. last'[b] /= None => Shows(b, last[b], IF b \in astray THEN session[last[b]].client ELSE cookie[b])'
      <4>1. cookie'[b] = cookie[b] \/ cookie[b] = NoId
        BY <2>1, <2>5 DEF Comes, After
      <4> QED
        BY <1>1, <2>2, <2>5, <4>1 DEF Shows, Email
    <3>2. page' = page \/ (req[q].id /= None /\ page'[b] = [id |-> req[q].id, under |-> cookie'[b]])
      BY <1>1, <1>6 DEF Receive
    <3>3. page'[b].id /= None => Shows(b, page[b].id, page[b].under)'
      <4>1. CASE page' = page
        BY <2>4, <4>1
      <4>2. CASE req[q].id /= None /\ page'[b] = [id |-> req[q].id, under |-> cookie'[b]]
        BY <1>1, <2>3, <4>2 DEF Shows, Email
      <4> QED
        BY <3>2, <4>1, <4>2
    <3> QED
      BY <3>1, <3>3
  <2>6. CASE req[q].id /= None /\ GoTo(b, req[q].id) /\ page' = page
    <3>1. last'[b] = req[q].id /\ b \notin astray'
      BY <1>1, <2>6 DEF GoTo
    <3>2. Shows(b, last[b], cookie[b])'
      BY <1>1, <2>3, <2>6, <3>1 DEF Shows, Email
    <3> QED
      BY <2>4, <2>6, <3>1, <3>2 DEF Shows
  <2>7. CASE GoToShown(b) /\ page' = page
    BY <1>1, <1>6, <2>4, <2>7, ShownAdmits DEF Admission
  <2> QED
    BY <1>6, <2>5, <2>6, <2>7 DEF Receive, Stay
<1>7. ASSUME NEW b \in orderly, UNCHANGED <<cookie, page, last, astray>> \/ b /= d
      PROVE  /\ last'[b] /= None => Shows(b, last[b], IF b \in astray THEN session[last[b]].client ELSE cookie[b])'
             /\ page'[b].id /= None => Shows(b, page[b].id, page[b].under)'
  <2>1. cookie'[b] = cookie[b] /\ last'[b] = last[b] /\ page'[b] = page[b] /\ (b \in astray' <=> b \in astray)
    BY <1>1, <1>3, <1>7
  <2>2. /\ last[b] /= None => Shows(b, last[b], IF b \in astray THEN session[last[b]].client ELSE cookie[b])
        /\ page[b].id /= None => Shows(b, page[b].id, page[b].under)
    BY DEF Admission, LastShown, PageShown
  <2> QED
    BY <1>1, <2>1, <2>2 DEF Shows, Email
<1>8. PageShown' /\ LastShown'
  <2>1. Receive(q) \/ UNCHANGED <<cookie, page, last, astray>>
    BY DEF RequestFails
  <2> QED
    BY <1>1, <1>6, <1>7, <2>1 DEF PageShown, LastShown
<1>9. AnswerShown'
  <2> SUFFICES ASSUME NEW r \in Reqs, NEW b \in orderly, Sent(r)', req'[r].browser = b
               PROVE  Comes(r, b)'
    BY <1>1 DEF AnswerShown
  <2>1. r /= q /\ req'[r] = req[r] /\ Comes(r, b)
    BY <1>2 DEF Sent, Admission, AnswerShown
  <2>2. b /= d
    BY <1>1, <2>1 DEF Admission, OneRequest, Sent
  <2>3. cookie'[b] = cookie[b]
    BY <1>1, <1>3, <2>2
  <2> QED
    BY <1>1, <2>1, <2>3 DEF Comes, Shows, After, Email
<1> QED
  BY <1>5, <1>8, <1>9 DEF Admission

\* The link is followed while nothing is under way to an orderly browser.
LEMMA LinkAdmits ==
    ASSUME Inv, Admission, NEW d \in Browsers, ResumeLink(d)
    PROVE  Admission'
<1>1. UNCHANGED <<bearer, orderly, cookie, session, req, page>> /\ GoToShown(d)
  BY DEF ResumeLink
<1>2. EmailsMatch' /\ OneRequest' /\ PageShown' /\ AnswerShown'
  BY <1>1 DEF Admission, EmailsMatch, OneRequest, PageShown, AnswerShown, Comes, Shows, After, Email, Sent
<1>3. \A b \in Browsers \ {d} : last'[b] = last[b] /\ (b \in astray' <=> b \in astray)
  BY <1>1 DEF GoToShown, Inv, TypeOK
<1>4. LastShown'
  <2> SUFFICES ASSUME NEW b \in orderly, last'[b] /= None
               PROVE  Shows(b, last[b], IF b \in astray THEN session[last[b]].client ELSE cookie[b])'
    BY <1>1 DEF LastShown
  <2>1. CASE b = d
    BY <1>1, <2>1, ShownAdmits DEF Admission
  <2>2. CASE b /= d
    <3>1. b \in Browsers /\ last'[b] = last[b] /\ (b \in astray' <=> b \in astray)
      BY <1>3, <2>2 DEF Inv, TypeOK
    <3>2. Shows(b, last[b], IF b \in astray THEN session[last[b]].client ELSE cookie[b])
      BY <3>1 DEF Admission, LastShown
    <3> QED
      BY <1>1, <3>1, <3>2 DEF Shows, Email
  <2> QED
    BY <2>1, <2>2
<1> QED
  BY <1>2, <1>4 DEF Admission

\* The end of a session changes nothing here.
LEMMA EndAdmits ==
    ASSUME Inv, Admission, NEW i \in Ids, SessionEnds(i)
    PROVE  Admission'
<1>1. /\ session' = [session EXCEPT ![i] = [@ EXCEPT !.state = "ended"]] /\ session[i].state = "active"
      /\ session \in [Ids -> Sessions] /\ session[i] \in Sessions
      /\ UNCHANGED <<bearer, orderly, cookie, req, page, last, astray>>
  BY DEF SessionEnds, Inv, TypeOK
<1>2. /\ SessionsKept
      /\ \A j \in Ids : session'[j].state /= "unborn" => session[j].state /= "unborn"
  BY <1>1 DEF Sessions, SessionsKept
<1>3. EmailsMatch' /\ OneRequest'
  BY <1>1, <1>2 DEF Admission, EmailsMatch, OneRequest, Sent, SessionsKept
<1>4. PageShown' /\ LastShown'
  BY <1>1, <1>2, PlacesStay DEF Admission
<1>5. AnswerShown'
  BY <1>1, <1>2 DEF Admission, AnswerShown, Comes, Shows, After, Email, Sent, SessionsKept
<1> QED
  BY <1>3, <1>4, <1>5 DEF Admission

\* A browser with one request at a time gets into the session it was sent to
\* last, whichever handler sent it there and whatever was lost on the way.
THEOREM Admitted == Spec => []AdmittedWhereSent
<1>1. Init => Admission
  <2> SUFFICES ASSUME Init PROVE Admission
    OBVIOUS
  <2>1. EmailsMatch
    BY DEF Init, EmailsMatch
  <2>2. \A q \in Reqs : ~Sent(q)
    BY DEF Init, Free, Sent
  <2>3. \A b \in Browsers : last[b] = None
    BY DEF Init
  <2>4. LastShown /\ PageShown
    BY <2>3 DEF Init, LastShown, PageShown, NoPage
  <2> QED
    BY <2>1, <2>2, <2>4 DEF Admission, OneRequest, AnswerShown
<1>2. Inv /\ Admission /\ [Next]_vars => Admission'
  <2> SUFFICES ASSUME Inv, Admission, [Next]_vars PROVE Admission'
    OBVIOUS
  <2>1. CASE UNCHANGED vars
    BY <2>1 DEF vars, Admission, EmailsMatch, OneRequest, PageShown, LastShown, AnswerShown, Comes, Shows, After, Email, Sent
  <2>2. CASE Next
    BY <2>2, SendAdmits, ServeAdmits, ReceiveAdmits, LinkAdmits, EndAdmits DEF Next, Sends
  <2> QED
    BY <2>1, <2>2
<1>3. Inv /\ Admission => AdmittedWhereSent
  <2> SUFFICES ASSUME Inv, Admission, NEW b \in orderly, last[b] /= None, bearer[b] /= "noEmail",
                      Email(b) = None => b \notin astray,
                      Email(b) = None \/ session[last[b]].email /= None
               PROVE  OwnsSession(b, last[b])
    BY DEF AdmittedWhereSent
  <2>1. /\ Shows(b, last[b], IF b \in astray THEN session[last[b]].client ELSE cookie[b])
        /\ bearer[b] \in Emails \cup {None}
    BY DEF Admission, LastShown, Inv, TypeOK
  <2>2. CASE bearer[b] = None
    BY <2>1, <2>2, NoneAssumption DEF Shows, OwnsSession, Email
  <2>3. CASE bearer[b] \in Emails
    BY <2>1, <2>3, NoneAssumption DEF Shows, OwnsSession, Email
  <2> QED
    BY <2>1, <2>2, <2>3
<1> QED
  BY <1>1, <1>2, <1>3, Invariance, PTL DEF Spec
=============================================================================
