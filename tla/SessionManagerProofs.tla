------------------------ MODULE SessionManagerProofs ------------------------
(***************************************************************************)
(* What the lab server's session layer keeps for any number of clients,    *)
(* sessions, requests and failures. The server holds no lock: a request    *)
(* relies on what it has seen of a session only as far as other requests   *)
(* of the same client could have changed it meanwhile, so the invariant    *)
(* says, request by request, what is still true of the session it is at.   *)
(***************************************************************************)
EXTENDS SessionManager, TLAPS

CallRecords ==
    [op     : Operations,
     client : Clients,
     id     : Ids \cup {NoId},
     step   : LabSteps,
     pc     : {"idle", "list", "create", "active", "get", "vm", "read", "patch", "done"},
     seen   : [paused : BOOLEAN, expiresAt : {"ttl", "now"}, steps : Seq(LabSteps)],
     answer : {"none", "created", "redirect", "ok", "passed", "failed",
               "exists", "notFound", "forbidden", "notReady", "error"}]

Creating == {"create", "demo"}

\* Requests about a session are about one that was created.
Routed(k) ==
    /\ k.pc \in {"list", "create", "active"} => k.op \in Creating
    /\ k.pc \in {"get", "vm", "read", "patch"} => k.op \notin Creating
    /\ k.pc /= "idle" /\ k.op \notin Creating
         => k.id \in Ids /\ session[k.id].state /= "unborn"

\* A verification that went past the ownership check is its client's.
Owned(k) ==
    /\ k.op = "verify"
    /\ k.pc \in {"vm", "read", "patch"} \/ (k.pc = "done" /\ k.answer = "passed")
    => session[k.id].client = k.client

\* A verification of a client without overlapping requests writes back the
\* list as it still is, with its own step added.
Fresh(k) ==
    k.op = "verify" /\ k.pc = "patch" /\ k.client \notin Overlap
    => k.seen.steps = session[k.id].steps

Ended(k) ==
    k.op \in {"end", "adminEnd"} /\ k.pc = "done" /\ k.answer = "ok"
    => session[k.id].expiresAt = "now"

\* n is the number of API calls that failed.
Recorded(k, n) ==
    /\ k.op = "verify" /\ k.pc = "done" /\ k.answer = "passed"
    /\ Stored(k.id) /\ k.client \notin Overlap /\ n = 0
    => k.step \in Range(session[k.id].steps)

Sound(k, n) == Routed(k) /\ Owned(k) /\ Fresh(k) /\ Ended(k) /\ Recorded(k, n)

\* A client outside Overlap has one request in flight at most.
Alone ==
    \A c, d \in Calls :
      InFlight(c) /\ InFlight(d) /\ call[c].client = call[d].client /\ call[c].client \notin Overlap
      => c = d

\* TypeOK without the history variable, and with the type of a request named.
Kinds ==
    /\ session \in [Ids -> Sessions] /\ call \in [Calls -> CallRecords]
    /\ reports \in 0..MaxReports /\ faults \in 0..MaxFaults

Inv == Kinds /\ Alone /\ \A c \in Calls : Sound(call[c], faults)

\* A session that is active, or may come back: Failed is not for good.
Alive(i, client) == Stored(i) /\ session[i].client = client /\ session[i].phase /= "Expired"

\* Create's LIST stays true until its CREATE: what may be active by then was
\* passed over as Failed.
NoneYet ==
    \A c \in Calls :
      call[c].pc = "create" /\ call[c].client \notin Overlap
      => \A i \in Ids : Alive(i, call[c].client) => i \in overlooked

\* OneActive, for what may come back too.
OneAlive ==
    \A client \in Clients \ Overlap : \A i, j \in Ids \ overlooked :
      Alive(i, client) /\ Alive(j, client) => i = j
-----------------------------------------------------------------------------
(* Operators *)

\* What a request keeps of the session it reads.
LEMMA CopyType ==
    ASSUME NEW s \in Sessions
    PROVE  /\ Copy(s) \in [paused : BOOLEAN, expiresAt : {"ttl", "now"}, steps : Seq(LabSteps)]
           /\ Copy(s).steps = s.steps
  BY DEF Sessions, Copy

\* A session as Create stores it.
LEMMA NewType ==
    ASSUME NEW client \in Clients
    PROVE  /\ New(client) \in Sessions
           /\ New(client).state = "live" /\ New(client).client = client
           /\ New(client).phase = "Provisioning"
  BY DEF New, Sessions, Phases

\* The record of a session that does not exist.
LEMMA UnbornType == Unborn \in Sessions /\ Unborn.state = "unborn"
<1> DEFINE someone == CHOOSE k \in Clients : TRUE
<1>1. someone \in Clients
  BY InhabitedAssumption
<1> HIDE DEF someone
<1>2. New(someone) \in Sessions
  BY <1>1, NewType
<1>3. Unborn = [New(someone) EXCEPT !.state = "unborn"]
  BY DEF Unborn, someone
<1> QED
  BY <1>2, <1>3 DEF Sessions

\* A step appended to a list is in it, and so is all that was.
LEMMA AppendKeeps ==
    ASSUME NEW steps \in Seq(LabSteps), NEW step \in LabSteps
    PROVE  /\ Append(steps, step) \in Seq(LabSteps)
           /\ step \in Range(Append(steps, step))
           /\ Range(steps) \subseteq Range(Append(steps, step))
<1>1. Append(steps, step) \in Seq(LabSteps) /\ Len(Append(steps, step)) = Len(steps) + 1
  OBVIOUS
<1>2. /\ Append(steps, step)[Len(steps) + 1] = step
      /\ \A n \in 1..Len(steps) : Append(steps, step)[n] = steps[n]
  OBVIOUS
<1>3. DOMAIN steps = 1..Len(steps) /\ DOMAIN Append(steps, step) = 1..(Len(steps) + 1)
  BY <1>1
<1>4. Len(steps) \in Nat
  OBVIOUS
<1>5. step \in Range(Append(steps, step))
  BY <1>2, <1>3, <1>4 DEF Range
<1>6. ASSUME NEW x \in Range(steps) PROVE x \in Range(Append(steps, step))
  <2>1. PICK n \in 1..Len(steps) : x = steps[n]
    BY <1>3, <1>6 DEF Range
  <2>2. n \in 1..(Len(steps) + 1) /\ Append(steps, step)[n] = x
    BY <2>1, <1>2, <1>4
  <2> QED
    BY <2>2, <1>3 DEF Range
<1> QED
  BY <1>1, <1>5, <1>6

\* What a patch changes of a session, by operation: the deadline only to now,
\* the steps only by a verification, and nothing that the operator reports.
LEMMA PatchedFacts ==
    ASSUME NEW s \in Sessions, NEW k \in CallRecords, k.op \notin Creating
    PROVE  LET p == Patched(s, k) IN
           /\ p \in Sessions
           /\ p.state = s.state /\ p.client = s.client /\ p.phase = s.phase
           /\ k.op = "verify" => p.steps = Append(k.seen.steps, k.step)
           /\ k.op /= "verify" => p.steps = s.steps
           /\ s.expiresAt = "now" \/ k.op \in {"end", "adminEnd"} => p.expiresAt = "now"
<1> USE DEF Sessions
<1>0. k.op \in {"end", "adminEnd", "pause", "resume", "verify"}
  BY DEF CallRecords, Operations, Creating
<1>1. CASE k.op \in {"end", "adminEnd"}
  <2>1. Patched(s, k) = [s EXCEPT !.expiresAt = "now"]
    BY <1>1 DEF Patched
  <2> QED
    BY <2>1, <1>1
<1>2. CASE k.op = "pause"
  <2>1. Patched(s, k) = [s EXCEPT !.paused = IF k.seen.paused THEN @ ELSE TRUE]
    BY <1>2 DEF Patched
  <2> QED
    BY <2>1, <1>2
<1>3. CASE k.op = "resume"
  <2>1. Patched(s, k) = [s EXCEPT !.paused = IF k.seen.paused THEN FALSE ELSE @]
    BY <1>3 DEF Patched
  <2> QED
    BY <2>1, <1>3
<1>4. CASE k.op = "verify"
  <2>1. Patched(s, k) = [s EXCEPT !.steps = Append(k.seen.steps, k.step)]
    BY <1>4 DEF Patched
  <2>2. Append(k.seen.steps, k.step) \in Seq(LabSteps)
    BY AppendKeeps DEF CallRecords
  <2> QED
    BY <2>1, <2>2, <1>4
<1> QED
  BY <1>0, <1>1, <1>2, <1>3, <1>4
-----------------------------------------------------------------------------
(* Steps of a request *)

AloneAs(c, k) ==
    k.pc \notin {"idle", "done"} /\ k.client \notin Overlap
    => \A d \in Calls \ {c} : InFlight(d) => call[d].client /= k.client

\* The bounded counters move on, and a failure is not forgotten.
Counted == 
    /\ reports' \in 0..MaxReports /\ faults' \in 0..MaxFaults
    /\ faults' = 0 => faults = 0

\* A step of one request that leaves the sessions alone keeps the invariant if
\* the request is sound afterwards: the others see no difference.
LEMMA CallStep ==
    ASSUME Inv, NEW c \in Calls, Counted, session' = session,
           \E k \in CallRecords :
             call' = [call EXCEPT ![c] = k] /\ Sound(k, faults') /\ AloneAs(c, k)
    PROVE  Inv'
<1> USE DEF Inv, Counted
<1>1. PICK k \in CallRecords :
        call' = [call EXCEPT ![c] = k] /\ Sound(k, faults') /\ AloneAs(c, k)
  OBVIOUS
<1>2. call \in [Calls -> CallRecords] /\ Kinds'
  BY <1>1 DEF Kinds
<1>3. call'[c] = k /\ \A d \in Calls \ {c} : call'[d] = call[d]
  BY <1>1, <1>2
<1>4. Alone'
  BY <1>1, <1>3 DEF Alone, AloneAs, InFlight
<1>5. ASSUME NEW d \in Calls \ {c} PROVE Sound(call[d], faults)'
  BY <1>3, <1>5 DEF Sound, Routed, Owned, Fresh, Ended, Recorded, Stored
<1>6. Sound(call[c], faults)'
  BY <1>1, <1>3 DEF Sound, Routed, Owned, Fresh, Ended, Recorded, Stored
<1> QED
  BY <1>2, <1>4, <1>5, <1>6

\* An answer may be given when the session bears it out: ok is said of a patch
\* only, passed of a verification by the session's client, whose step is on
\* record unless an API call failed.
Answerable(c, answer, n) ==
    answer = "passed" /\ call[c].op = "verify"
    => /\ session[call[c].id].client = call[c].client
       /\ Stored(call[c].id) /\ call[c].client \notin Overlap /\ n = 0
            => call[c].step \in Range(session[call[c].id].steps)

NoPatch == {"exists", "notFound", "forbidden", "notReady", "error", "failed", "passed"}

\* A request in flight may be answered so, without touching a session.
LEMMA AnswerStep ==
    ASSUME Inv, NEW c \in Calls, InFlight(c), Counted, session' = session,
           \E answer \in NoPatch : call' = Answered(c, answer) /\ Answerable(c, answer, faults')
    PROVE  Inv'
<1>1. PICK answer \in NoPatch : call' = Answered(c, answer) /\ Answerable(c, answer, faults')
  OBVIOUS
<1> DEFINE k == [call[c] EXCEPT !.pc = "done", !.answer = answer, !.seen = Copy(Unborn)]
<1>2. call[c] \in CallRecords
  BY DEF Kinds, Inv
<1>3. k \in CallRecords
  BY <1>1, <1>2, UnbornType, CopyType DEF CallRecords, NoPatch
<1>4. call' = [call EXCEPT ![c] = k]
  BY <1>1 DEF Answered
<1>5. /\ k.pc = "done" /\ k.answer = answer /\ answer /= "ok"
      /\ k.op = call[c].op /\ k.id = call[c].id /\ k.client = call[c].client /\ k.step = call[c].step
  BY <1>1, <1>2 DEF CallRecords, NoPatch
<1>6. Routed(call[c]) /\ call[c].pc /= "idle"
  BY DEF Inv, Sound, InFlight
<1> HIDE DEF k
<1>7. Sound(k, faults')
  BY <1>1, <1>5, <1>6 DEF Sound, Routed, Owned, Fresh, Ended, Recorded, Answerable
<1>8. AloneAs(c, k)
  BY <1>5 DEF AloneAs
<1> QED
  BY <1>3, <1>4, <1>7, <1>8, CallStep

\* A request in flight may move on to a point it is sound at.
LEMMA GotoStep ==
    ASSUME Inv, NEW c \in Calls, InFlight(c), NEW pc, Goto(c, pc),
           pc \in {"create", "active", "vm", "read"},
           pc \in {"create", "active"} => call[c].op \in Creating,
           pc \in {"vm", "read"} => call[c].op \notin Creating,
           pc \in {"vm", "read"} /\ call[c].op = "verify"
             => session[call[c].id].client = call[c].client
    PROVE  Inv'
<1> DEFINE k == [call[c] EXCEPT !.pc = pc]
<1>1. call[c] \in CallRecords /\ Counted
  BY DEF Kinds, Inv, Goto, Counted
<1>2. k \in CallRecords
  BY <1>1 DEF CallRecords
<1>3. call' = [call EXCEPT ![c] = k] /\ session' = session /\ faults' = faults
  BY DEF Goto
<1>4. /\ k.pc = pc /\ k.answer = call[c].answer
      /\ k.op = call[c].op /\ k.id = call[c].id /\ k.client = call[c].client /\ k.step = call[c].step
  BY <1>1 DEF CallRecords
<1>5. Routed(call[c]) /\ call[c].pc /= "idle"
  BY DEF Inv, Sound, InFlight
<1> HIDE DEF k
<1>6. Sound(k, faults')
  BY <1>3, <1>4, <1>5 DEF Sound, Routed, Owned, Fresh, Ended, Recorded
<1>7. AloneAs(c, k)
  BY <1>4 DEF Inv, Alone, AloneAs
<1> QED
  BY <1>1, <1>2, <1>3, <1>6, <1>7, CallStep
\* A request that arrives names a session that was created, and is the only one
\* of its client unless its requests may overlap.
LEMMA RequestStep ==
    ASSUME Inv, NEW c \in Calls, NEW client \in Clients, Request(c, client)
    PROVE  Inv'
<1>1. call[c] \in CallRecords
  BY DEF Inv, Kinds
<1>2. PICK op \in Operations, id \in Ids \cup {NoId}, step \in LabSteps, pc \in {"list", "get", "read"} :
        /\ Arrive(c, op, client, id, step, pc)
        /\ \/ op \in Creating /\ pc = "list"
           \/ /\ op \notin Creating /\ pc \in {"get", "read"} /\ (op = "verify" => pc = "get")
              /\ id \in Ids /\ session[id].state /= "unborn"
  <2>1. call[c].step \in LabSteps
    BY <1>1 DEF CallRecords
  <2> QED
    BY <2>1 DEF Request, Operations, Creating
<1> DEFINE k == [call[c] EXCEPT !.op = op, !.client = client, !.id = id, !.step = step, !.pc = pc]
<1>3. k \in CallRecords /\ k.op = op /\ k.client = client /\ k.id = id /\ k.pc = pc
  BY <1>1, <1>2 DEF CallRecords
<1>4. call' = [call EXCEPT ![c] = k] /\ session' = session /\ faults' = faults /\ reports' = reports
  BY <1>2 DEF Arrive
<1>5. Free(client) /\ Counted
  BY <1>2, <1>4 DEF Arrive, Counted, Inv, Kinds
<1> HIDE DEF k
<1>6. Sound(k, faults')
  BY <1>2, <1>3 DEF Sound, Routed, Owned, Fresh, Ended, Recorded
<1>7. AloneAs(c, k)
  BY <1>3, <1>5 DEF AloneAs, Free
<1> QED
  BY <1>3, <1>4, <1>5, <1>6, <1>7, CallStep

\* Handlers that only read: the LISTs, the GETs and the check in the VM.
LEMMA ReadingStep ==
    ASSUME Inv, NEW c \in Calls,
           CreateLists(c) \/ DemoFindsActive(c) \/ HandlerGets(c) \/ VmVerifies(c) \/ ManagerReads(c)
    PROVE  Inv'
<1>1. call[c] \in CallRecords /\ Routed(call[c]) /\ Owned(call[c])
  BY DEF Inv, Kinds, Sound
<1>2. ASSUME InFlight(c), NEW answer \in NoPatch, Answer(c, answer), Answerable(c, answer, faults)
      PROVE  Inv'
  <2>1. Counted
    BY <1>2 DEF Answer, Counted, Inv, Kinds
  <2> QED
    BY <1>2, <2>1, AnswerStep DEF Answer
<1>3. CASE CreateLists(c)
  <2>1. InFlight(c) /\ call[c].op \in Creating
    BY <1>1, <1>3 DEF CreateLists, InFlight, Routed
  <2>2. Goto(c, "active") \/ Goto(c, "create") \/ Answer(c, "exists")
    BY <1>3 DEF CreateLists
  <2> QED
    BY <2>1, <2>2, <1>2, GotoStep DEF Answerable, NoPatch
<1>4. CASE DemoFindsActive(c)
  <2>1. InFlight(c) /\ call[c].op \in Creating
    BY <1>1, <1>4 DEF DemoFindsActive, InFlight, Routed
  <2>2. CASE Answer(c, "error")
    BY <2>1, <2>2, <1>2 DEF Answerable, NoPatch
  <2>3. CASE \E i \in Ids : /\ call' = [Answered(c, "redirect") EXCEPT ![c] = [@ EXCEPT !.id = i]]
                            /\ UNCHANGED <<session, reports, faults>>
    <3>1. PICK i \in Ids : call' = [Answered(c, "redirect") EXCEPT ![c] = [@ EXCEPT !.id = i]]
      BY <2>3
    <3> DEFINE k == [call[c] EXCEPT !.pc = "done", !.answer = "redirect", !.seen = Copy(Unborn), !.id = i]
    <3>2. k \in CallRecords /\ k.op = call[c].op /\ k.pc = "done"
      BY <1>1, UnbornType, CopyType DEF CallRecords
    <3>3. call \in [Calls -> CallRecords] /\ Counted
      BY <2>3 DEF Inv, Kinds, Counted
    <3>4. call' = [call EXCEPT ![c] = k]
      BY <3>1, <3>3, <1>1 DEF Answered, CallRecords
    <3> HIDE DEF k
    <3>5. Sound(k, faults') /\ AloneAs(c, k)
      BY <2>1, <3>2 DEF Sound, Routed, Owned, Fresh, Ended, Recorded, AloneAs, Creating
    <3> QED
      BY <2>3, <3>2, <3>3, <3>4, <3>5, CallStep
  <2> QED
    BY <1>4, <2>2, <2>3 DEF DemoFindsActive
<1>5. CASE HandlerGets(c)
  <2>1. InFlight(c) /\ call[c].op \notin Creating
    BY <1>1, <1>5 DEF HandlerGets, InFlight, Routed
  <2>2. \/ Answer(c, "notFound") \/ Answer(c, "forbidden") \/ Answer(c, "notReady")
        \/ session[call[c].id].client = call[c].client /\ (Goto(c, "read") \/ Goto(c, "vm"))
    BY <1>5 DEF HandlerGets
  <2> QED
    BY <2>1, <2>2, <1>2, GotoStep DEF Answerable, NoPatch
<1>6. CASE VmVerifies(c)
  <2>1. /\ InFlight(c) /\ call[c].op \notin Creating
        /\ call[c].op = "verify" => session[call[c].id].client = call[c].client
    BY <1>1, <1>6 DEF VmVerifies, InFlight, Routed, Owned
  <2>2. Goto(c, "read") \/ Answer(c, "failed") \/ Answer(c, "error")
    BY <1>6 DEF VmVerifies
  <2> QED
    BY <2>1, <2>2, <1>2, GotoStep DEF Answerable, NoPatch
<1>7. CASE ManagerReads(c)
  <2>1. /\ InFlight(c) /\ call[c].op \notin Creating /\ call[c].id \in Ids
        /\ session[call[c].id].state /= "unborn"
        /\ call[c].op = "verify" => session[call[c].id].client = call[c].client
    BY <1>1, <1>7 DEF ManagerReads, InFlight, Routed, Owned
  <2>2. \/ ~Stored(call[c].id) /\ (Answer(c, "passed") \/ Answer(c, "error"))
        \/ call[c].step \in Range(session[call[c].id].steps) /\ Answer(c, "passed")
        \/ Reads(c)
    BY <1>7 DEF ManagerReads, Failure
  <2>3. CASE Reads(c)
    <3> DEFINE k == [call[c] EXCEPT !.pc = "patch", !.seen = Copy(session[call[c].id])]
    <3>1. session[call[c].id] \in Sessions /\ Counted
      BY <2>1, <2>3 DEF Inv, Kinds, Reads, Counted
    <3>2. /\ Copy(session[call[c].id]).steps = session[call[c].id].steps
          /\ Copy(session[call[c].id]) \in
               [paused : BOOLEAN, expiresAt : {"ttl", "now"}, steps : Seq(LabSteps)]
      BY <3>1, CopyType
    <3>3. /\ k \in CallRecords /\ k.op = call[c].op /\ k.id = call[c].id /\ k.client = call[c].client
          /\ k.pc = "patch" /\ k.seen.steps = session[call[c].id].steps
      BY <1>1, <3>2 DEF CallRecords
    <3>4. call' = [call EXCEPT ![c] = k] /\ session' = session
      BY <2>3 DEF Reads
    <3> HIDE DEF k
    <3>5. Sound(k, faults')
      BY <2>1, <3>3 DEF Sound, Routed, Owned, Fresh, Ended, Recorded
    <3>6. AloneAs(c, k)
      BY <2>1, <3>3 DEF Inv, Alone, AloneAs
    <3> QED
      BY <3>1, <3>3, <3>4, <3>5, <3>6, CallStep
  <2> QED
    BY <2>1, <2>2, <2>3, <1>2 DEF Answerable, NoPatch
<1> QED
  BY <1>3, <1>4, <1>5, <1>6, <1>7
\* Create stores a session under a name nobody has used: no request is about it.
LEMMA StoringStep ==
    ASSUME Inv, NEW c \in Calls, call[c].pc = "create", Counted,
           \E answer \in {"created", "redirect", "error"} : StoreNew(c, answer)
    PROVE  Inv'
<1>1. PICK answer \in {"created", "redirect", "error"}, i \in Ids :
        /\ session[i].state = "unborn"
        /\ session' = [session EXCEPT ![i] = New(call[c].client)]
        /\ call' = [Answered(c, answer) EXCEPT ![c] = [@ EXCEPT !.id = i]]
  BY DEF StoreNew
<1> DEFINE k == [call[c] EXCEPT !.pc = "done", !.answer = answer, !.seen = Copy(Unborn), !.id = i]
<1>2. call \in [Calls -> CallRecords] /\ session \in [Ids -> Sessions] /\ call[c] \in CallRecords
  BY DEF Inv, Kinds
<1>3. k \in CallRecords /\ k.op = call[c].op /\ k.pc = "done"
  BY <1>1, <1>2, UnbornType, CopyType DEF CallRecords
<1>4. call' = [call EXCEPT ![c] = k]
  BY <1>1, <1>2 DEF Answered, CallRecords
<1> HIDE DEF k
<1>5. Kinds'
  <2>1. New(call[c].client) \in Sessions
    BY <1>2, NewType DEF CallRecords
  <2> QED
    BY <1>1, <1>2, <1>3, <1>4, <2>1 DEF Kinds, Counted
<1>6. call'[c] = k /\ \A d \in Calls \ {c} : call'[d] = call[d]
  BY <1>2, <1>4
<1>7. session'[i].state = "live" /\ \A j \in Ids \ {i} : session'[j] = session[j]
  BY <1>1, <1>2, NewType DEF CallRecords
<1>8. Alone'
  BY <1>3, <1>6 DEF Inv, Alone, InFlight
<1>9. call[c].op \in Creating
  BY DEF Inv, Sound, Routed
<1>10. Sound(call[c], faults)'
  BY <1>3, <1>6, <1>9 DEF Sound, Routed, Owned, Fresh, Ended, Recorded, Creating
<1>11. ASSUME NEW d \in Calls \ {c} PROVE Sound(call[d], faults)'
  <2>1. Sound(call[d], faults)
    BY DEF Inv
  <2>2. CASE call[d].pc = "idle" \/ call[d].op \in Creating
    BY <1>6, <2>1, <2>2 DEF Sound, Routed, Owned, Fresh, Ended, Recorded, Creating
  <2>3. CASE call[d].pc /= "idle" /\ call[d].op \notin Creating
    <3>1. call[d].id \in Ids \ {i} /\ session'[call[d].id] = session[call[d].id]
      BY <1>1, <1>7, <2>1, <2>3 DEF Sound, Routed
    <3> QED
      BY <1>6, <2>1, <3>1 DEF Sound, Routed, Owned, Fresh, Ended, Recorded, Stored, Counted
  <2> QED
    BY <2>2, <2>3
<1> QED
  BY <1>5, <1>8, <1>10, <1>11 DEF Inv

\* A patch writes what its operation is about and nothing else. Another
\* verification of the same session is of the same client, so it is either
\* answered, and its step among the ones written back, or the client's
\* requests overlap.
LEMMA PatchingStep ==
    ASSUME Inv, NEW c \in Calls, call[c].pc = "patch", Stored(call[c].id), Counted,
           session' = [session EXCEPT ![call[c].id] = Patched(@, call[c])],
           \E answer \in {"passed", "ok", "error"} :
             call' = Answered(c, answer) /\ (call[c].op = "verify" => answer = "passed")
    PROVE  Inv'
<1>1. PICK answer \in {"passed", "ok", "error"} :
        call' = Answered(c, answer) /\ (call[c].op = "verify" => answer = "passed")
  OBVIOUS
<1> DEFINE k == [call[c] EXCEPT !.pc = "done", !.answer = answer, !.seen = Copy(Unborn)]
           i == call[c].id
<1>2. call \in [Calls -> CallRecords] /\ session \in [Ids -> Sessions] /\ call[c] \in CallRecords
  BY DEF Inv, Kinds
<1>3. /\ k \in CallRecords /\ k.op = call[c].op /\ k.pc = "done" /\ k.id = i
      /\ k.client = call[c].client /\ k.step = call[c].step
  BY <1>1, <1>2, UnbornType, CopyType DEF CallRecords
<1>4. call' = [call EXCEPT ![c] = k]
  BY <1>1 DEF Answered
<1> HIDE DEF k
<1>5. call'[c] = k /\ \A d \in Calls \ {c} : call'[d] = call[d]
  BY <1>2, <1>4
<1>6. Routed(call[c]) /\ Owned(call[c]) /\ Fresh(call[c])
  BY DEF Inv, Sound
<1>7. /\ call[c].op \notin Creating /\ i \in Ids /\ session[i].state /= "unborn"
      /\ call[c].op = "verify" => session[i].client = call[c].client
      /\ call[c].op = "verify" /\ call[c].client \notin Overlap
           => call[c].seen.steps = session[i].steps
  BY <1>6 DEF Routed, Owned, Fresh
<1>8. LET p == session'[i]  s == session[i] IN
      /\ p \in Sessions
      /\ p.state = s.state /\ p.client = s.client /\ p.phase = s.phase
      /\ call[c].op = "verify" => p.steps = Append(call[c].seen.steps, call[c].step)
      /\ call[c].op /= "verify" => p.steps = s.steps
      /\ s.expiresAt = "now" \/ call[c].op \in {"end", "adminEnd"} => p.expiresAt = "now"
  <2>1. session'[i] = Patched(session[i], call[c])
    BY <1>2, <1>7
  <2> QED
    BY <1>2, <1>7, <2>1, PatchedFacts
<1>9. \A j \in Ids \ {i} : session'[j] = session[j]
  BY <1>2, <1>7
<1>10. Kinds'
  BY <1>2, <1>3, <1>4, <1>7, <1>8 DEF Kinds, Counted
<1>11. Alone'
  BY <1>3, <1>5 DEF Inv, Alone, InFlight
<1>12. Range(call[c].seen.steps) \cup {call[c].step} \subseteq Range(Append(call[c].seen.steps, call[c].step))
  BY <1>2, AppendKeeps DEF CallRecords
<1>13. Sound(call[c], faults)'
  <2>1. Routed(call[c])' /\ Owned(call[c])' /\ Fresh(call[c])'
    BY <1>3, <1>5, <1>7, <1>8 DEF Routed, Owned, Fresh
  <2>2. Ended(call[c])'
    BY <1>3, <1>5, <1>8 DEF Ended
  <2>3. Recorded(call[c], faults)'
    BY <1>3, <1>5, <1>8, <1>12 DEF Recorded
  <2> QED
    BY <2>1, <2>2, <2>3 DEF Sound
<1>14. ASSUME NEW d \in Calls \ {c} PROVE Sound(call[d], faults)'
  <2>1. Routed(call[d]) /\ Owned(call[d]) /\ Fresh(call[d]) /\ Ended(call[d]) /\ Recorded(call[d], faults)
    BY DEF Inv, Sound
  <2>2. CASE call[d].pc = "idle" \/ call[d].op \in Creating
    BY <1>5, <2>1, <2>2 DEF Sound, Routed, Owned, Fresh, Ended, Recorded, Creating
  <2>3. CASE call[d].pc /= "idle" /\ call[d].op \notin Creating /\ call[d].id /= i
    <3>1. call[d].id \in Ids \ {i} /\ session'[call[d].id] = session[call[d].id]
      BY <1>9, <2>1, <2>3 DEF Routed
    <3>2. Routed(call[d])' /\ Owned(call[d])' /\ Ended(call[d])'
      BY <1>5, <2>1, <3>1 DEF Routed, Owned, Ended
    <3>3. Fresh(call[d])'
      BY <1>5, <2>1, <3>1 DEF Fresh, Stored, Counted
    <3>4. Recorded(call[d], faults)'
      BY <1>5, <2>1, <3>1 DEF Recorded, Stored, Counted
    <3> QED
      BY <3>2, <3>3, <3>4 DEF Sound
  <2>4. CASE call[d].pc /= "idle" /\ call[d].op \notin Creating /\ call[d].id = i
    <3>a. Routed(call[d])'
      BY <1>5, <1>8, <2>1, <2>4 DEF Routed
    <3>b. Owned(call[d])'
      BY <1>5, <1>8, <2>1, <2>4 DEF Owned
    <3>c. Ended(call[d])'
      BY <1>5, <1>8, <2>1, <2>4 DEF Ended
    <3>1. Routed(call[d])' /\ Owned(call[d])' /\ Ended(call[d])'
      BY <3>a, <3>b, <3>c
    <3>2. Fresh(call[d])'
      <4>1. CASE call[d].op = "verify" /\ call[d].pc = "patch" /\ call[c].op = "verify"
        <5>1. call[d].client = call[c].client
          BY <1>7, <2>1, <2>4, <4>1 DEF Owned
        <5> QED
          BY <1>5, <4>1, <5>1 DEF Inv, Alone, InFlight, Fresh
      <4> QED
        BY <1>5, <1>8, <2>1, <2>4, <4>1 DEF Fresh
    <3>3. Recorded(call[d], faults)'
      <4> SUFFICES ASSUME call[d].op = "verify", call[d].pc = "done", call[d].answer = "passed",
                          call[d].client \notin Overlap, faults' = 0,
                          session'[i].state \in {"live", "deleting"}
                   PROVE  call[d].step \in Range(session'[i].steps)
        BY <1>5, <2>4 DEF Recorded, Stored
      <4>1. call[d].step \in Range(session[i].steps) /\ session[i].client = call[d].client
        BY <1>8, <2>1, <2>4 DEF Recorded, Owned, Counted, Stored
      <4> QED
        BY <1>7, <1>8, <1>12, <4>1
    <3> QED
      BY <3>1, <3>2, <3>3 DEF Sound
  <2> QED
    BY <2>2, <2>3, <2>4
<1> QED
  BY <1>10, <1>11, <1>13, <1>14 DEF Inv

\* The operator and administrators change phases and delete; no request's view
\* of owner, deadline or steps is touched, and no session is undone.
LEMMA OperatorStep ==
    ASSUME Inv, NEW i \in Ids,
           OperatorReports(i) \/ OperatorExpires(i) \/ HardDelete(i) \/ Finalized(i)
    PROVE  Inv'
<1>1. session \in [Ids -> Sessions] /\ call \in [Calls -> CallRecords] /\ session[i] \in Sessions
  BY DEF Inv, Kinds
<1>2. \E s \in Sessions :
        /\ session' = [session EXCEPT ![i] = s]
        /\ s.client = session[i].client /\ s.expiresAt = session[i].expiresAt
        /\ s.steps = session[i].steps
        /\ s.state /= "unborn" /\ (s.state = session[i].state \/ s.state \in {"deleting", "gone"})
        /\ session[i].state \in {"live", "deleting"}
  <2> DEFINE Moves(s) ==
        /\ session' = [session EXCEPT ![i] = s]
        /\ s.client = session[i].client /\ s.expiresAt = session[i].expiresAt
        /\ s.steps = session[i].steps
        /\ s.state /= "unborn" /\ (s.state = session[i].state \/ s.state \in {"deleting", "gone"})
        /\ session[i].state \in {"live", "deleting"}
  <2>1. ASSUME OperatorReports(i) PROVE \E s \in Sessions : Moves(s)
    <3>0. PICK to \in {<<"Provisioning", "none">>, <<"Ready", "dns">>, <<"Ready", "none">>,
                      <<"Failed", "none">>, <<"Paused", "none">>} :
            session' = [session EXCEPT ![i] = [@ EXCEPT !.phase = to[1], !.dns = to[2]]]
      BY <2>1 DEF OperatorReports
    <3>1. to[1] \in Phases /\ to[2] \in {"none", "dns"}
      BY <3>0 DEF Phases, EndedPhases
    <3> DEFINE s == [session[i] EXCEPT !.phase = to[1], !.dns = to[2]]
    <3>2. /\ s \in Sessions /\ s.client = session[i].client /\ s.expiresAt = session[i].expiresAt
          /\ s.steps = session[i].steps /\ s.state = session[i].state
      BY <1>1, <3>1 DEF Sessions
    <3>3. session' = [session EXCEPT ![i] = s] /\ session[i].state = "live"
      BY <2>1, <3>0 DEF OperatorReports
    <3> HIDE DEF s
    <3> QED
      BY <3>2, <3>3
  <2>2. ASSUME OperatorExpires(i) PROVE \E s \in Sessions : Moves(s)
    <3> DEFINE s == [session[i] EXCEPT !.phase = "Expired"]
    <3>2. /\ s \in Sessions /\ s.client = session[i].client /\ s.expiresAt = session[i].expiresAt
          /\ s.steps = session[i].steps /\ s.state = session[i].state
      BY <1>1 DEF Sessions, Phases, EndedPhases
    <3>3. session' = [session EXCEPT ![i] = s] /\ session[i].state = "live"
      BY <2>2 DEF OperatorExpires
    <3> HIDE DEF s
    <3> QED
      BY <3>2, <3>3
  <2>3. ASSUME HardDelete(i) \/ Finalized(i) PROVE \E s \in Sessions : Moves(s)
    <3>1. PICK state \in {"deleting", "gone"} :
            /\ session' = [session EXCEPT ![i] = [@ EXCEPT !.state = state]]
            /\ session[i].state \in {"live", "deleting"}
      BY <2>3 DEF HardDelete, Finalized
    <3> DEFINE s == [session[i] EXCEPT !.state = state]
    <3>2. /\ s \in Sessions /\ s.client = session[i].client /\ s.expiresAt = session[i].expiresAt
          /\ s.steps = session[i].steps /\ s.state = state
      BY <1>1 DEF Sessions
    <3>3. session' = [session EXCEPT ![i] = s]
      BY <3>1
    <3> HIDE DEF s
    <3> QED
      BY <3>1, <3>2, <3>3
  <2> QED
    BY <2>1, <2>2, <2>3
<1>3. call' = call /\ faults' = faults /\ reports' \in 0..MaxReports
  BY BoundsAssumption DEF OperatorReports, OperatorExpires, HardDelete, Finalized, Inv, Kinds
<1>4. PICK s \in Sessions :
        /\ session' = [session EXCEPT ![i] = s]
        /\ s.client = session[i].client /\ s.expiresAt = session[i].expiresAt
        /\ s.steps = session[i].steps
        /\ s.state /= "unborn" /\ (s.state = session[i].state \/ s.state \in {"deleting", "gone"})
        /\ session[i].state \in {"live", "deleting"}
  BY <1>2
<1>5. Kinds'
  BY <1>1, <1>3, <1>4 DEF Inv, Kinds
<1>6. Alone'
  BY <1>3 DEF Inv, Alone, InFlight
<1>7. \A j \in Ids :
        /\ session'[j].client = session[j].client /\ session'[j].expiresAt = session[j].expiresAt
        /\ session'[j].steps = session[j].steps
        /\ session[j].state /= "unborn" => session'[j].state /= "unborn"
        /\ session'[j].state \in {"live", "deleting"} => session[j].state \in {"live", "deleting"}
  BY <1>1, <1>4
<1>8. ASSUME NEW d \in Calls PROVE Sound(call[d], faults)'
  <2>1. Sound(call[d], faults)
    BY DEF Inv
  <2>2. CASE call[d].pc = "idle" \/ call[d].op \in Creating
    BY <1>3, <2>1, <2>2 DEF Sound, Routed, Owned, Fresh, Ended, Recorded, Creating
  <2>3. CASE call[d].pc /= "idle" /\ call[d].op \notin Creating
    BY <1>3, <1>7, <2>1, <2>3 DEF Sound, Routed, Owned, Fresh, Ended, Recorded, Stored
  <2> QED
    BY <2>2, <2>3
<1> QED
  BY <1>5, <1>6, <1>8 DEF Inv
\* An API call that fails, before or after it took effect.
LEMMA FailingStep ==
    ASSUME Inv, NEW c \in Calls, CallFails(c)
    PROVE  Inv'
<1>1. Counted /\ faults' /= 0
  BY BoundsAssumption DEF CallFails, Counted, Inv, Kinds
<1>2. Routed(call[c]) /\ Owned(call[c])
  BY DEF Inv, Sound
<1>3. CASE /\ call[c].pc \in {"list", "create", "active", "get", "read", "patch"}
           /\ call' = Answered(c, IF call[c].pc = "get" THEN "notFound" ELSE Failure(c))
           /\ UNCHANGED session
  <2> DEFINE answer == IF call[c].pc = "get" THEN "notFound" ELSE Failure(c)
  <2>1. answer \in NoPatch /\ Answerable(c, answer, faults')
    BY <1>1, <1>2, <1>3 DEF NoPatch, Answerable, Failure, Routed, Owned, Creating
  <2>2. InFlight(c)
    BY <1>3 DEF InFlight
  <2> HIDE DEF answer
  <2>3. call' = Answered(c, answer)
    BY <1>3 DEF answer
  <2> QED
    BY <1>1, <1>3, <2>1, <2>2, <2>3, AnswerStep
<1>4. CASE call[c].pc = "create" /\ StoreNew(c, "error")
  BY <1>1, <1>4, StoringStep
<1>5. CASE /\ call[c].pc = "patch" /\ Stored(call[c].id)
           /\ session' = [session EXCEPT ![call[c].id] = Patched(@, call[c])]
           /\ call' = Answered(c, Failure(c))
  <2>1. Failure(c) \in {"passed", "ok", "error"} /\ (call[c].op = "verify" => Failure(c) = "passed")
    BY DEF Failure
  <2> QED
    BY <1>1, <1>5, <2>1, PatchingStep
<1> QED
  BY <1>3, <1>4, <1>5 DEF CallFails

\* Handlers that write.
LEMMA WritingStep ==
    ASSUME Inv, NEW c \in Calls, CreateStores(c) \/ ManagerPatches(c)
    PROVE  Inv'
<1>1. CASE CreateStores(c)
  <2>1. Counted
    BY <1>1 DEF CreateStores, Counted, Inv, Kinds
  <2> QED
    BY <1>1, <2>1, StoringStep DEF CreateStores
<1>2. CASE ManagerPatches(c)
  <2>1. Counted
    BY <1>2 DEF ManagerPatches, Answer, Counted, Inv, Kinds
  <2>2. CASE Stored(call[c].id)
    <3> DEFINE answer == IF call[c].op = "verify" THEN "passed" ELSE "ok"
    <3>1. answer \in {"passed", "ok", "error"} /\ (call[c].op = "verify" => answer = "passed")
      OBVIOUS
    <3>2. /\ call[c].pc = "patch" /\ call' = Answered(c, answer)
          /\ session' = [session EXCEPT ![call[c].id] = Patched(@, call[c])]
      BY <1>2, <2>2 DEF ManagerPatches
    <3> HIDE DEF answer
    <3> QED
      BY <2>1, <2>2, <3>1, <3>2, PatchingStep
  <2>3. CASE ~Stored(call[c].id)
    <3>1. call[c].pc = "patch" /\ Answer(c, Failure(c)) /\ InFlight(c)
      BY <1>2, <2>3 DEF ManagerPatches, InFlight
    <3>2. Owned(call[c])
      BY DEF Inv, Sound
    <3>3. Failure(c) \in NoPatch /\ Answerable(c, Failure(c), faults')
      BY <2>3, <3>1, <3>2 DEF Failure, NoPatch, Answerable, Owned
    <3> QED
      BY <2>1, <3>1, <3>3, AnswerStep DEF Answer
  <2> QED
    BY <2>2, <2>3
<1> QED
  BY <1>1, <1>2

\* Nothing is stored and nothing asked at first.
LEMMA InitInv == Init => Inv
<1> SUFFICES ASSUME Init PROVE Inv
  OBVIOUS
<1> DEFINE k == [op |-> "create", client |-> CHOOSE n \in Clients : TRUE, id |-> NoId,
                 step |-> CHOOSE s \in LabSteps : TRUE, pc |-> "idle", seen |-> Copy(Unborn),
                 answer |-> "none"]
<1>1. (CHOOSE n \in Clients : TRUE) \in Clients /\ (CHOOSE s \in LabSteps : TRUE) \in LabSteps
  BY InhabitedAssumption
<1>2. Copy(Unborn) \in [paused : BOOLEAN, expiresAt : {"ttl", "now"}, steps : Seq(LabSteps)]
  BY UnbornType, CopyType
<1>3. k \in CallRecords /\ k.pc = "idle"
  BY <1>1, <1>2 DEF CallRecords, Operations
<1>4. call = [c \in Calls |-> k] /\ session = [i \in Ids |-> Unborn] /\ reports = 0 /\ faults = 0
  BY DEF Init
<1> HIDE DEF k
<1>5. Kinds
  BY <1>3, <1>4, UnbornType, BoundsAssumption DEF Kinds
<1>6. Alone /\ \A c \in Calls : Sound(call[c], faults)
  BY <1>3, <1>4 DEF Alone, InFlight, Sound, Routed, Owned, Fresh, Ended, Recorded
<1> QED
  BY <1>5, <1>6 DEF Inv

\* Every step keeps the invariant.
LEMMA StepInv == Inv /\ [Next]_vars => Inv'
<1> SUFFICES ASSUME Inv, [Next]_vars PROVE Inv'
  OBVIOUS
<1>1. CASE UNCHANGED vars
  BY <1>1 DEF vars, Inv, Kinds, Alone, InFlight, Sound, Routed, Owned, Fresh, Ended, Recorded, Stored
<1>2. CASE Next
  BY <1>2, RequestStep, ReadingStep, WritingStep, FailingStep, OperatorStep DEF Next, Handle
<1> QED
  BY <1>1, <1>2

\* So it holds throughout.
LEMMA Invariance == Spec => []Inv
  BY InitInv, StepInv, PTL DEF Spec

-----------------------------------------------------------------------------
(* Theorems *)

\* Sessions and requests keep their types, whatever fails and interleaves.
THEOREM TypeCorrect == Spec => []TypeOK
<1> DEFINE Passed == overlooked \subseteq Ids
<1>1. Init => Passed
  BY DEF Init
<1>2. Passed /\ [Next]_vars => Passed'
  BY DEF Next, vars, CreateLists, FailedOf
<1>3. Inv /\ Passed => TypeOK
  BY DEF Inv, Kinds, TypeOK, CallRecords
<1> QED
  BY <1>1, <1>2, <1>3, Invariance, PTL DEF Spec

\* An acknowledged end is final for any number of overlapping requests: no
\* Pause, Resume or MarkStepComplete patch carries the old deadline.
THEOREM EndsForGood == Spec => []EndIsFinal
<1>1. Inv => EndIsFinal
  BY DEF Inv, Sound, Ended, EndIsFinal, Answers
<1> QED
  BY <1>1, Invariance, PTL

\* A step answered as passed stays on the session's record, for every client
\* whose own requests do not overlap, while others' requests and the operator
\* interleave freely and until an API call fails.
THEOREM StepsStay == Spec => []ProgressKept
<1>1. Inv => ProgressKept
  BY DEF Inv, Sound, Recorded, ProgressKept, Answers
<1> QED
  BY <1>1, Invariance, PTL
-----------------------------------------------------------------------------
(* One session per client *)

\* A step that brings no session to life and lets a request on to its CREATE only
\* when the LIST found none to block it.
Narrow ==
    /\ \A i \in Ids, client \in Clients : Alive(i, client)' => Alive(i, client)
    /\ overlooked \subseteq overlooked'
    /\ \A d \in Calls :
         call'[d].pc = "create"
         => \/ call[d].pc = "create" /\ call[d].client = call'[d].client
            \/ \A i \in Ids : Alive(i, call'[d].client) => i \in overlooked'

\* Such a step adds no second session.
LEMMA NarrowStep ==
    ASSUME Kinds', NoneYet, OneAlive, Narrow
    PROVE  NoneYet' /\ OneAlive'
<1>1. OneAlive'
  BY DEF OneAlive, Narrow
<1>2. ASSUME NEW d \in Calls, call'[d].pc = "create", call'[d].client \notin Overlap, NEW i \in Ids \ overlooked'
      PROVE  ~Alive(i, call[d].client)'
  <2>1. call'[d].client \in Clients
    BY DEF Kinds, CallRecords
  <2>2. ~Alive(i, call'[d].client)
    BY <1>2 DEF Narrow, NoneYet
  <2>3. ASSUME NEW client \in Clients, client = call'[d].client PROVE ~Alive(i, client)'
    BY <2>2, <2>3 DEF Narrow
  <2> QED
    BY <2>1, <2>3 DEF Alive, Stored
<1> QED
  BY <1>1, <1>2 DEF NoneYet

\* The CREATE itself: the LIST found nothing, and no other request of this
\* client and no report has changed that.
LEMMA OneStored ==
    ASSUME Inv, NoneYet, OneAlive, UNCHANGED overlooked, NEW c \in Calls, call[c].pc = "create",
           \E answer \in {"created", "redirect", "error"} : StoreNew(c, answer)
    PROVE  NoneYet' /\ OneAlive'
<1>1. PICK answer \in {"created", "redirect", "error"}, i \in Ids :
        /\ session[i].state = "unborn"
        /\ session' = [session EXCEPT ![i] = New(call[c].client)]
        /\ call' = [Answered(c, answer) EXCEPT ![c] = [@ EXCEPT !.id = i]]
  BY DEF StoreNew
<1>2. call \in [Calls -> CallRecords] /\ session \in [Ids -> Sessions] /\ call[c].client \in Clients
  BY DEF Inv, Kinds, CallRecords
<1>3. call'[c].pc = "done" /\ \A d \in Calls \ {c} : call'[d] = call[d]
  BY <1>1, <1>2 DEF Answered, CallRecords
<1>4. session'[i].client = call[c].client /\ \A j \in Ids \ {i} : session'[j] = session[j]
  BY <1>1, <1>2, NewType
<1>5. ASSUME NEW client \in Clients, client /= call[c].client, NEW j \in Ids, Alive(j, client)'
      PROVE  Alive(j, client)
  BY <1>4, <1>5 DEF Alive, Stored
<1>6. ASSUME call[c].client \notin Overlap, NEW j \in Ids \ overlooked, j /= i,
             NEW client \in Clients, client = call[c].client, Alive(j, client)'
      PROVE  FALSE
  BY <1>1, <1>4, <1>6 DEF Alive, Stored, NoneYet
<1>7. OneAlive'
  <2> SUFFICES ASSUME NEW client \in Clients \ Overlap, NEW j \in Ids \ overlooked, NEW m \in Ids \ overlooked,
                      Alive(j, client)', Alive(m, client)'
               PROVE  j = m
    BY DEF OneAlive
  <2>1. CASE client = call[c].client
    BY <2>1, <1>6
  <2>2. CASE client /= call[c].client
    BY <2>2, <1>5 DEF OneAlive
  <2> QED
    BY <2>1, <2>2
<1>8. NoneYet'
  <2> SUFFICES ASSUME NEW d \in Calls, call'[d].pc = "create", call'[d].client \notin Overlap,
                      NEW j \in Ids \ overlooked, Alive(j, call[d].client)'
               PROVE  FALSE
    BY DEF NoneYet
  <2>1. d /= c /\ call'[d] = call[d] /\ call[d].client \in Clients
    BY <1>2, <1>3 DEF CallRecords
  <2>2. call[d].client /= call[c].client
    BY <2>1 DEF Inv, Alone, InFlight
  <2>3. Alive(j, call[d].client)
    BY <1>4, <2>1, <2>2 DEF Alive, Stored
  <2> QED
    BY <2>1, <2>3 DEF NoneYet
<1> QED
  BY <1>7, <1>8

\* All other steps of a request are narrow.
LEMMA RequestsNarrow ==
    ASSUME Inv, NEW c \in Calls, CreateLists(c) \/ UNCHANGED overlooked,
           \/ \E client \in Clients : Request(c, client)
           \/ CreateLists(c) \/ DemoFindsActive(c) \/ HandlerGets(c) \/ VmVerifies(c)
           \/ ManagerReads(c) \/ ManagerPatches(c)
           \/ CallFails(c) /\ ~(call[c].pc = "create" /\ StoreNew(c, "error"))
    PROVE  Narrow
<1>1. call \in [Calls -> CallRecords] /\ session \in [Ids -> Sessions] /\ call[c] \in CallRecords
  BY DEF Inv, Kinds
<1>2. \A d \in Calls \ {c} : call'[d] = call[d]
  BY <1>1 DEF Request, Arrive, CreateLists, DemoFindsActive, HandlerGets, VmVerifies, ManagerReads, Reads,
              ManagerPatches, CallFails, Goto, Answer, Answered
<1>a. \A answer : call' = Answered(c, answer) => call'[c].pc = "done"
  BY <1>1 DEF Answered, CallRecords
<1>b. \A pc : Goto(c, pc) => call'[c].pc = pc
  BY <1>1 DEF Goto, CallRecords
<1>3. call'[c].pc = "create" => CreateLists(c) /\ Goto(c, "create")
  <2>1. ASSUME NEW client \in Clients, Request(c, client) PROVE call'[c].pc \in {"list", "get", "read"}
    <3>1. \A op, id, step, pc : Arrive(c, op, client, id, step, pc) => call'[c].pc = pc
      BY <1>1 DEF Arrive, CallRecords
    <3> QED
      BY <2>1, <3>1 DEF Request
  <2>2. CASE CreateLists(c)
    BY <2>2, <1>a, <1>b DEF CreateLists, Answer
  <2>3. CASE DemoFindsActive(c)
    <3>1. \A i : call' = [Answered(c, "redirect") EXCEPT ![c] = [@ EXCEPT !.id = i]] => call'[c].pc = "done"
      BY <1>1 DEF Answered, CallRecords
    <3> QED
      BY <2>3, <3>1, <1>a DEF DemoFindsActive, Answer
  <2>4. CASE HandlerGets(c) \/ VmVerifies(c)
    BY <2>4, <1>a, <1>b DEF HandlerGets, VmVerifies, Answer
  <2>5. CASE ManagerReads(c)
    <3>1. Reads(c) => call'[c].pc = "patch"
      BY <1>1 DEF Reads, CallRecords
    <3> QED
      BY <2>5, <3>1, <1>a DEF ManagerReads, Answer
  <2>6. CASE ManagerPatches(c)
    BY <2>6, <1>a DEF ManagerPatches, Answer
  <2>7. CASE CallFails(c) /\ ~(call[c].pc = "create" /\ StoreNew(c, "error"))
    BY <2>7, <1>a DEF CallFails
  <2> QED
    BY <2>1, <2>2, <2>3, <2>4, <2>5, <2>6, <2>7
<1>4. \/ session' = session
      \/ /\ call[c].pc = "patch" /\ Stored(call[c].id)
         /\ session' = [session EXCEPT ![call[c].id] = Patched(@, call[c])]
  BY DEF Request, Arrive, CreateLists, DemoFindsActive, HandlerGets, VmVerifies, ManagerReads, Reads,
         ManagerPatches, CallFails, Goto, Answer
<1>5. \A i \in Ids : /\ session'[i].state = session[i].state /\ session'[i].client = session[i].client
                     /\ session'[i].phase = session[i].phase
  <2>1. CASE session' = session
    BY <2>1
  <2>2. CASE /\ call[c].pc = "patch"
             /\ session' = [session EXCEPT ![call[c].id] = Patched(@, call[c])]
    <3>1. call[c].op \notin Creating /\ call[c].id \in Ids
      BY <2>2 DEF Inv, Sound, Routed
    <3>2. session[call[c].id] \in Sessions
      BY <1>1, <3>1
    <3> QED
      BY <1>1, <2>2, <3>1, <3>2, PatchedFacts
  <2> QED
    BY <1>4, <2>1, <2>2
<1>6. ASSUME CreateLists(c), Goto(c, "create")
      PROVE  \A i \in Ids : Alive(i, call'[c].client) => i \in overlooked'
  <2>1. call'[c].client = call[c].client /\ call'[c].pc = "create"
    BY <1>1, <1>6 DEF Goto, CallRecords
  <2>2. /\ ~\E i \in Ids : Blocks(i, call[c].client)
        /\ overlooked' = overlooked \cup FailedOf(call[c].client)
    BY <1>a, <1>b, <1>6, <2>1 DEF CreateLists, Answer
  <2> QED
    BY <2>1, <2>2 DEF Blocks, Alive, FailedOf, EndedPhases
<1>7. overlooked \subseteq overlooked'
  BY DEF CreateLists
<1> QED
  BY <1>2, <1>3, <1>5, <1>6, <1>7 DEF Narrow, Alive, Stored

\* So is every step of the operator and of administrators: what has expired
\* never comes back.
LEMMA OperatorNarrow ==
    ASSUME Inv, NEW i \in Ids, UNCHANGED overlooked,
           OperatorReports(i) \/ OperatorExpires(i) \/ HardDelete(i) \/ Finalized(i)
    PROVE  Narrow
<1>1. session \in [Ids -> Sessions] /\ session[i] \in Sessions
  BY DEF Inv, Kinds
<1>2. call' = call
  BY DEF OperatorReports, OperatorExpires, HardDelete, Finalized
<1>3. \A j \in Ids \ {i} : session'[j] = session[j]
  BY <1>1 DEF OperatorReports, OperatorExpires, HardDelete, Finalized
<1>4. /\ session'[i].client = session[i].client
      /\ session'[i].state \in {"live", "deleting"} => session[i].state \in {"live", "deleting"}
      /\ session'[i].phase /= "Expired" => session[i].phase /= "Expired"
  <2>1. CASE OperatorReports(i)
    <3>1. PICK to \in {<<"Provisioning", "none">>, <<"Ready", "dns">>, <<"Ready", "none">>,
                      <<"Failed", "none">>, <<"Paused", "none">>} :
            session' = [session EXCEPT ![i] = [@ EXCEPT !.phase = to[1], !.dns = to[2]]]
      BY <2>1 DEF OperatorReports
    <3>2. session'[i].client = session[i].client /\ session'[i].state = session[i].state
      BY <1>1, <3>1 DEF Sessions
    <3>3. session[i].phase /= "Expired"
      BY <2>1 DEF OperatorReports
    <3> QED
      BY <3>2, <3>3
  <2>2. CASE OperatorExpires(i)
    BY <1>1, <2>2 DEF OperatorExpires, Sessions
  <2>3. CASE HardDelete(i)
    BY <1>1, <2>3 DEF HardDelete, Sessions
  <2>4. CASE Finalized(i)
    BY <1>1, <2>4 DEF Finalized, Sessions
  <2> QED
    BY <2>1, <2>2, <2>3, <2>4
<1> QED
  BY <1>2, <1>3, <1>4 DEF Narrow, Alive, Stored

\* manager.go's Create enforces one active session per client for every client
\* whose own requests do not overlap, the sessions aside that were Failed when
\* the client created another: the operator may bring those back.
THEOREM OneSession == Spec => []OneActive
<1>1. Init => NoneYet /\ OneAlive
  BY UnbornType DEF Init, NoneYet, OneAlive, Alive, Stored
<1>2. Inv /\ Inv' /\ NoneYet /\ OneAlive /\ [Next]_vars => NoneYet' /\ OneAlive'
  <2> SUFFICES ASSUME Inv, Inv', NoneYet, OneAlive, [Next]_vars PROVE NoneYet' /\ OneAlive'
    OBVIOUS
  <2>1. CASE UNCHANGED vars
    BY <2>1 DEF vars, NoneYet, OneAlive, Alive, Stored
  <2>2. ASSUME NEW c \in Calls, CreateLists(c) PROVE NoneYet' /\ OneAlive'
    BY <2>2, RequestsNarrow, NarrowStep DEF Inv
  <2>3. CASE UNCHANGED overlooked
    <3>1. ASSUME NEW c \in Calls, CreateStores(c) PROVE NoneYet' /\ OneAlive'
      BY <2>3, <3>1, OneStored DEF CreateStores
    <3>2. ASSUME NEW c \in Calls, call[c].pc = "create", StoreNew(c, "error")
          PROVE  NoneYet' /\ OneAlive'
      BY <2>3, <3>2, OneStored
    <3>3. ASSUME NEW c \in Calls,
                 \/ \E client \in Clients : Request(c, client)
                 \/ Handle(c) /\ ~CreateStores(c)
                 \/ CallFails(c) /\ ~(call[c].pc = "create" /\ StoreNew(c, "error"))
          PROVE  NoneYet' /\ OneAlive'
      BY <2>3, <3>3, RequestsNarrow, NarrowStep DEF Handle, Inv
    <3>4. ASSUME NEW i \in Ids, OperatorReports(i) \/ OperatorExpires(i) \/ HardDelete(i) \/ Finalized(i)
          PROVE  NoneYet' /\ OneAlive'
      BY <2>3, <3>4, OperatorNarrow, NarrowStep DEF Inv
    <3> QED
      BY <2>1, <2>2, <3>1, <3>2, <3>3, <3>4 DEF Next, Handle
  <2> QED
    BY <2>1, <2>2, <2>3 DEF Next
<1>3. OneAlive => OneActive
  BY DEF OneAlive, OneActive, AtMostOne, Alive, ActiveFor, EndedPhases
<1> QED
  BY <1>1, <1>2, <1>3, Invariance, PTL DEF Spec
=============================================================================
