--------------------------- MODULE SessionManager ---------------------------
(***************************************************************************)
(* The lab server's session layer: the HTTP handlers that create, end,     *)
(* pause, resume and verify sessions, and the Manager methods behind them. *)
(* The server keeps no session state; a request is a goroutine that makes  *)
(* API calls on LabSession resources, and requests interleave freely, with *)
(* one another and with the operator, which is seen here only through the  *)
(* phases it reports (what SessionLifecycle allows it to report).          *)
(***************************************************************************)
EXTENDS Naturals, Sequences, FiniteSets, Functions

CONSTANTS
    Clients,     \* values of the label lab.uds.dev/client
    Ids,         \* session ids (uuid.New)
    Calls,       \* HTTP requests
    LabSteps,    \* the steps of a scenario
    Overlap,     \* the clients that may have several requests in flight
    MaxReports,  \* bound on the operator's reports
    MaxFaults    \* bound on failed API calls

\* Somebody asks for something, and scenarios have steps.
ASSUME InhabitedAssumption == Clients /= {} /\ LabSteps /= {}
ASSUME BoundsAssumption == MaxReports \in Nat /\ MaxFaults \in Nat

VARIABLES
    session,  \* [Ids -> the LabSession of that name, or Unborn]
    call,     \* [Calls -> the request: what it asks, where it is, its answer]
    reports, faults,
    overlooked  \* the sessions a Create has passed over because they were Failed
                \* (history)

vars == <<session, call, reports, faults, overlooked>>

\* Provisioning stands for "" and Running too: lsToSession gives all three one
\* status, and nothing else in the server tells them apart.
EndedPhases == {"Failed", "Expired"}
Phases == {"Provisioning", "Ready", "Paused"} \cup EndedPhases

Sessions ==
    [state     : {"unborn", "live", "deleting", "gone"},
     client    : Clients,
     phase     : Phases,
     dns       : {"none", "dns"},
     paused    : BOOLEAN,
     expiresAt : {"ttl", "now"},
     steps     : Seq(LabSteps)]

New(client) ==
    [state |-> "live", client |-> client, phase |-> "Provisioning", dns |-> "none", paused |-> FALSE,
     expiresAt |-> "ttl", steps |-> <<>>]

Unborn == [New(CHOOSE k \in Clients : TRUE) EXCEPT !.state = "unborn"]

Stored(i) == session[i].state \in {"live", "deleting"}

Operations == {"create", "demo", "end", "adminEnd", "pause", "resume", "verify"}
NoId == "none"

\* The part of a copy that a later merge patch is computed from.
Copy(s) == [paused |-> s.paused, expiresAt |-> s.expiresAt, steps |-> s.steps]

Idle(c) == call[c].pc = "idle"
InFlight(c) == call[c].pc \notin {"idle", "done"}

\* State invariant: every variable holds a value of its kind.
TypeOK ==
    /\ session \in [Ids -> Sessions]
    /\ call \in [Calls ->
         [op     : Operations,
          client : Clients,
          id     : Ids \cup {NoId},
          step   : LabSteps,
          pc     : {"idle", "list", "create", "active", "get", "vm", "read", "patch", "done"},
          seen   : [paused : BOOLEAN, expiresAt : {"ttl", "now"}, steps : Seq(LabSteps)],
          answer : {"none", "created", "redirect", "ok", "passed", "failed",
                    "exists", "notFound", "forbidden", "notReady", "error"}]]
    /\ reports \in 0..MaxReports /\ faults \in 0..MaxFaults /\ overlooked \subseteq Ids

Init ==
    /\ session = [i \in Ids |-> Unborn]
    /\ call = [c \in Calls |->
         [op |-> "create", client |-> CHOOSE k \in Clients : TRUE, id |-> NoId,
          step |-> CHOOSE s \in LabSteps : TRUE, pc |-> "idle", seen |-> Copy(Unborn), answer |-> "none"]]
    /\ reports = 0 /\ faults = 0 /\ overlooked = {}

-----------------------------------------------------------------------------
(* Requests arrive *)

Free(client) ==
    client \in Overlap \/ \A c \in Calls : call[c].client = client => ~InFlight(c)

Arrive(c, op, client, id, step, pc) ==
    /\ Idle(c) /\ Free(client)
    /\ call' = [call EXCEPT ![c] = [@ EXCEPT !.op = op, !.client = client, !.id = id,
                                             !.step = step, !.pc = pc]]
    /\ UNCHANGED <<session, reports, faults>>

Request(c, client) ==
    LET here == call[c].step IN
    \/ \E op \in {"create", "demo"} : Arrive(c, op, client, NoId, here, "list")
    \/ \E id \in Ids :
         /\ session[id].state /= "unborn"
         /\ \/ \E op \in {"end", "pause", "resume"} : Arrive(c, op, client, id, here, "get")
            \/ Arrive(c, "adminEnd", client, id, here, "read")
            \/ \E step \in LabSteps : Arrive(c, "verify", client, id, step, "get")

-----------------------------------------------------------------------------
(* Handlers *)

Goto(c, pc) ==
    /\ call' = [call EXCEPT ![c] = [@ EXCEPT !.pc = pc]]
    /\ UNCHANGED <<session, reports, faults>>

Answered(c, answer) ==
    [call EXCEPT ![c] = [@ EXCEPT !.pc = "done", !.answer = answer, !.seen = Copy(Unborn)]]

Answer(c, answer) == call' = Answered(c, answer) /\ UNCHANGED <<session, reports, faults>>

\* (seeded fault) an answer the pages do not know
FailureUnknown(c) == IF call[c].op = "verify" THEN "passed" ELSE "timeout"

\* The answer once the work on the resource has failed: a verified step is
\* reported as passed even if it could not be recorded.
Failure(c) == IF call[c].op = "verify" THEN "passed" ELSE "error"

\* (seeded fault) a paused session does not count
BlocksUnlessPaused(i, client) ==
    /\ Stored(i) /\ session[i].client = client
    /\ session[i].phase \notin EndedPhases \cup {"Paused"}

\* Create's LIST: a stored session of this client that has not ended.
Blocks(i, client) ==
    Stored(i) /\ session[i].client = client /\ session[i].phase \notin EndedPhases

\* lsToSession gives Failed and Expired one status, expired: what blocks a
\* Create is what GetActive finds.
ActiveFor(i, client) ==
    Stored(i) /\ session[i].client = client /\ session[i].phase \notin EndedPhases

\* What a LIST that finds nothing to block it passes over.
FailedOf(client) ==
    {i \in Ids : Stored(i) /\ session[i].client = client /\ session[i].phase = "Failed"}

CreateLists(c) ==
    /\ call[c].pc = "list"
    /\ IF \E i \in Ids : Blocks(i, call[c].client)
       THEN /\ IF call[c].op = "demo" THEN Goto(c, "active") ELSE Answer(c, "exists")
            /\ UNCHANGED overlooked
       ELSE Goto(c, "create") /\ overlooked' = overlooked \cup FailedOf(call[c].client)

\* session' and call' after a new resource is stored.
StoreNew(c, answer) ==
    \E i \in Ids :
      /\ session[i].state = "unborn"
      /\ session' = [session EXCEPT ![i] = New(call[c].client)]
      /\ call' = [Answered(c, answer) EXCEPT ![c] = [@ EXCEPT !.id = i]]

CreateStores(c) ==
    /\ call[c].pc = "create"
    /\ StoreNew(c, IF call[c].op = "demo" THEN "redirect" ELSE "created")
    /\ UNCHANGED <<reports, faults>>

\* startDemoSession falls back to GetActive, a second LIST.
DemoFindsActive(c) ==
    /\ call[c].pc = "active"
    /\ \/ \E i \in Ids :
            /\ ActiveFor(i, call[c].client)
            /\ call' = [Answered(c, "redirect") EXCEPT ![c] = [@ EXCEPT !.id = i]]
            /\ UNCHANGED <<session, reports, faults>>
       \/ ~(\E i \in Ids : ActiveFor(i, call[c].client)) /\ Answer(c, "error")

\* Manager.Get, ownership and, for a verification, readiness.
HandlerGets(c) ==
    LET k == call[c]  s == session[k.id] IN
    /\ k.pc = "get"
    /\ \/ ~Stored(k.id) /\ Answer(c, "notFound")
       \/ Stored(k.id) /\ s.client /= k.client /\ Answer(c, "forbidden")
       \/ /\ Stored(k.id) /\ s.client = k.client
          /\ IF k.op /= "verify" THEN Goto(c, "read")
             ELSE IF s.phase /= "Ready" \/ s.dns = "none" THEN Answer(c, "notReady")
             ELSE Goto(c, "vm")

\* The agent in the VM runs the step's check, for up to 35 s.
VmVerifies(c) ==
    /\ call[c].pc = "vm"
    /\ Goto(c, "read") \/ Answer(c, "failed") \/ Answer(c, "error")

Reads(c) ==
    /\ call' = [call EXCEPT ![c] = [@ EXCEPT !.pc = "patch", !.seen = Copy(session[call[c].id])]]
    /\ UNCHANGED <<session, reports, faults>>

\* The Get of Expire, Pause, Resume or MarkStepComplete; a step already
\* recorded needs no write.
ManagerReads(c) ==
    LET k == call[c]  s == session[k.id] IN
    /\ k.pc = "read"
    /\ IF ~Stored(k.id) THEN Answer(c, Failure(c))
       ELSE IF k.op = "verify" /\ k.step \in Range(s.steps) THEN Answer(c, "passed")
       ELSE Reads(c)

\* (seeded fault) Pause and Resume send the whole spec they have read
PatchedWhole(s, k) ==
    CASE k.op \in {"end", "adminEnd"} -> [s EXCEPT !.expiresAt = "now"]
      [] k.op = "pause"  -> [s EXCEPT !.paused = TRUE, !.expiresAt = k.seen.expiresAt]
      [] k.op = "resume" -> [s EXCEPT !.paused = FALSE, !.expiresAt = k.seen.expiresAt]
      [] k.op = "verify" -> [s EXCEPT !.steps = Append(k.seen.steps, k.step)]

\* (seeded fault) the step replaces the list
PatchedLast(s, k) ==
    CASE k.op \in {"end", "adminEnd"} -> [s EXCEPT !.expiresAt = "now"]
      [] k.op = "pause"  -> [s EXCEPT !.paused = TRUE]
      [] k.op = "resume" -> [s EXCEPT !.paused = FALSE]
      [] k.op = "verify" -> [s EXCEPT !.steps = <<k.step>>]

\* The merge patch against the copy read: a field that copy already has at the
\* wanted value is not sent, and a list is sent whole.
Patched(s, k) ==
    CASE k.op \in {"end", "adminEnd"} -> [s EXCEPT !.expiresAt = "now"]
      [] k.op = "pause"  -> [s EXCEPT !.paused = IF k.seen.paused THEN @ ELSE TRUE]
      [] k.op = "resume" -> [s EXCEPT !.paused = IF k.seen.paused THEN FALSE ELSE @]
      [] k.op = "verify" -> [s EXCEPT !.steps = Append(k.seen.steps, k.step)]

ManagerPatches(c) ==
    LET k == call[c] IN
    /\ k.pc = "patch"
    /\ IF ~Stored(k.id) THEN Answer(c, Failure(c))
       ELSE /\ session' = [session EXCEPT ![k.id] = Patched(@, k)]
            /\ call' = Answered(c, IF k.op = "verify" THEN "passed" ELSE "ok")
            /\ UNCHANGED <<reports, faults>>

\* A scenario that does not load, or an API call that returns an error: before
\* or after it took effect.
CallFails(c) ==
    /\ faults < MaxFaults /\ faults' = faults + 1 /\ UNCHANGED reports
    /\ \/ /\ call[c].pc \in {"list", "create", "active", "get", "read", "patch"}
          /\ call' = Answered(c, IF call[c].pc = "get" THEN "notFound" ELSE Failure(c))
          /\ UNCHANGED session
       \/ call[c].pc = "create" /\ StoreNew(c, "error")
       \/ /\ call[c].pc = "patch" /\ Stored(call[c].id)
          /\ session' = [session EXCEPT ![call[c].id] = Patched(@, call[c])]
          /\ call' = Answered(c, Failure(c))

Handle(c) ==
    \/ CreateStores(c) \/ DemoFindsActive(c) \/ HandlerGets(c) \/ VmVerifies(c)
    \/ ManagerReads(c) \/ ManagerPatches(c)

-----------------------------------------------------------------------------
(* The operator, the deadline and administrators *)

\* A pass reports a phase, with the DNS name while the VM runs (the first half
\* of a pause clears the name and leaves the session Ready).  Only Expired is for
\* good: a Failed session is converged again and may come back.
OperatorReports(i) ==
    /\ reports < MaxReports /\ reports' = reports + 1
    /\ session[i].state = "live" /\ session[i].phase /= "Expired"
    /\ \E to \in {<<"Provisioning", "none">>, <<"Ready", "dns">>, <<"Ready", "none">>,
                  <<"Failed", "none">>, <<"Paused", "none">>} :
         session' = [session EXCEPT ![i] = [@ EXCEPT !.phase = to[1], !.dns = to[2]]]
    /\ UNCHANGED <<call, faults>>

\* The deadline has passed, or was set to now.
OperatorExpires(i) ==
    /\ session[i].state = "live" /\ session[i].phase /= "Expired"
    /\ session' = [session EXCEPT ![i] = [@ EXCEPT !.phase = "Expired"]]
    /\ UNCHANGED <<call, reports, faults>>

\* A hard delete, and its completion by the operator's finalizer.
HardDelete(i) ==
    /\ session[i].state = "live"
    /\ session' = [session EXCEPT ![i] = [@ EXCEPT !.state = "deleting"]]
    /\ UNCHANGED <<call, reports, faults>>

Finalized(i) ==
    /\ session[i].state = "deleting"
    /\ session' = [session EXCEPT ![i] = [@ EXCEPT !.state = "gone"]]
    /\ UNCHANGED <<call, reports, faults>>

-----------------------------------------------------------------------------

\* Only a LIST adds to overlooked.
Next ==
    \/ \E c \in Calls : CreateLists(c)
    \/ /\ UNCHANGED overlooked
       /\ \/ \E c \in Calls :
               (\E client \in Clients : Request(c, client)) \/ Handle(c) \/ CallFails(c)
          \/ \E i \in Ids :
               OperatorReports(i) \/ OperatorExpires(i) \/ HardDelete(i) \/ Finalized(i)

Spec == Init /\ [][Next]_vars

-----------------------------------------------------------------------------
(* Properties *)

Answers(c, op, answer) == call[c].pc = "done" /\ call[c].op = op /\ call[c].answer = answer

AtMostOne(client, ids) ==
    \A i, j \in ids : ActiveFor(i, client) /\ ActiveFor(j, client) => i = j

\* A client whose own requests do not overlap never has two sessions that have
\* not ended, whatever requests of others and whatever operator steps come
\* between Create's LIST and its CREATE; unless one of them was Failed when the
\* client created another, and the operator has brought it back since
\* (manager.go:56 takes Failed for ended, the operator does not).
OneActive == \A client \in Clients \ Overlap : AtMostOne(client, Ids \ overlooked)

\* An end that was acknowledged stays: no pause, resume or verification that
\* overlaps it gives the session its old deadline back.
EndIsFinal ==
    \A c \in Calls : Answers(c, "end", "ok") \/ Answers(c, "adminEnd", "ok")
      => session[call[c].id].expiresAt = "now"

\* CompletedSteps "records each step that has passed verification": a step
\* answered as passed is on record and stays there, for a client whose requests
\* do not overlap and while no API call fails.
ProgressKept ==
    \A c \in Calls :
      /\ Answers(c, "verify", "passed") /\ Stored(call[c].id)
      /\ call[c].client \notin Overlap /\ faults = 0
      => call[c].step \in Range(session[call[c].id].steps)

\* manager.go: Create "enforces one active session per clientID (TOCTOU-safe via
\* LIST then CREATE)".
OnePerClient == \A client \in Clients : AtMostOne(client, Ids)
=============================================================================
