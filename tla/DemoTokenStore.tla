--------------------------- MODULE DemoTokenStore ---------------------------
(***************************************************************************)
(* The store of demo links: one ConfigMap, one key per token.  Account     *)
(* executives create tokens, and each demo session that is started writes  *)
(* its id into its token's record from a goroutine nobody waits for.  All  *)
(* of them read the whole ConfigMap and write one key, without locks, so   *)
(* their Gets and Patches interleave freely.                               *)
(***************************************************************************)
EXTENDS Naturals

CONSTANTS
    Tokens,     \* token ids; uuid.New: each is generated once
    DemoIds,    \* ids of demo sessions
    MaxFaults   \* bound on failed API calls, lost answers and restarts

ASSUME MaxFaultsAssumption == MaxFaults \in Nat

NoSession == "none"
ASSUME NoSessionAssumption == NoSession \notin DemoIds

VARIABLES
    configMap, \* absent or present
    stored,   \* the tokens that have a record in it
    record,   \* [Tokens -> SessionID of its record]
    creator,  \* [Tokens -> progress of the request that creates it]
    started,  \* [DemoIds -> the token a demo session was started with, {t} or {}]
    writer,   \* [DemoIds -> progress of the goroutine that records it]
    before,   \* [DemoIds -> the sessions whose goroutines were over when it was
              \*  started (history)]
    faults

vars == <<configMap, stored, record, creator, started, writer, before, faults>>

Over == {"done", "failed"}

\* State invariant: every variable holds a value of its kind.
TypeOK ==
    /\ configMap \in {"absent", "present"}
    /\ stored \subseteq Tokens
    /\ record \in [Tokens -> DemoIds \cup {NoSession}]
    /\ creator \in [Tokens -> {"idle", "get", "create", "patch", "acked", "failed"}]
    /\ started \in [DemoIds -> SUBSET Tokens]
    /\ writer \in [DemoIds -> {"idle", "get", "patch"} \cup Over]
    /\ before \in [DemoIds -> SUBSET DemoIds]
    /\ faults \in 0..MaxFaults

Init ==
    /\ configMap = "absent" /\ stored = {}
    /\ record = [t \in Tokens |-> NoSession]
    /\ creator = [t \in Tokens |-> "idle"]
    /\ started = [d \in DemoIds |-> {}]
    /\ writer = [d \in DemoIds |-> "idle"]
    /\ before = [d \in DemoIds |-> {}]
    /\ faults = 0

-----------------------------------------------------------------------------
(* createDemoToken and writeTokenRecord *)

Creator(t, from, to) == creator[t] = from /\ creator' = [creator EXCEPT ![t] = to]

CreateToken(t) ==
    /\ Creator(t, "idle", "get")
    /\ UNCHANGED <<configMap, stored, record, started, writer, before, faults>>

GetForCreator(t) ==
    /\ Creator(t, "get", IF configMap = "present" THEN "patch" ELSE "create")
    /\ UNCHANGED <<configMap, stored, record, started, writer, before, faults>>

Write(t, sessionID) ==
    /\ stored' = stored \cup {t}
    /\ record' = [record EXCEPT ![t] = sessionID]

\* The first token's request creates the ConfigMap.
CreateConfigMap(t) ==
    /\ configMap = "absent" /\ configMap' = "present"
    /\ Creator(t, "create", "acked")
    /\ Write(t, NoSession)
    /\ UNCHANGED <<started, writer, before, faults>>

\* (seeded fault) the request is left in a state no handler knows
CreateConflicts(t) ==
    /\ configMap = "present"
    /\ Creator(t, "create", "conflict")
    /\ UNCHANGED <<configMap, stored, record, started, writer, before, faults>>

\* Another request created it first: AlreadyExists, an error to the user.
CreateRefused(t) ==
    /\ configMap = "present"
    /\ Creator(t, "create", "failed")
    /\ UNCHANGED <<configMap, stored, record, started, writer, before, faults>>

\* (seeded fault) the new record replaces the whole map
PatchAll(t) ==
    /\ Creator(t, "patch", "acked")
    /\ stored' = {t}
    /\ record' = [record EXCEPT ![t] = NoSession]
    /\ UNCHANGED <<configMap, started, writer, before, faults>>

\* The merge patch holds the new key only.
PatchToken(t) ==
    /\ Creator(t, "patch", "acked")
    /\ Write(t, NoSession)
    /\ UNCHANGED <<configMap, started, writer, before, faults>>

-----------------------------------------------------------------------------
(* startDemoSession's goroutine: patchDemoTokenSessionID *)

Writer(d, from, to) == writer[d] = from /\ writer' = [writer EXCEPT ![d] = to]

\* Somebody opens the link: only the answer to createDemoToken, or the list,
\* shows it, so the token has been stored.  (The HMAC, not the store, is what
\* startDemoSession checks.)
StartDemo(d, t) ==
    /\ t \in stored
    /\ Writer(d, "idle", "get")
    /\ started' = [started EXCEPT ![d] = {t}]
    /\ before' = [before EXCEPT ![d] = {e \in DemoIds : writer[e] \in Over}]
    /\ UNCHANGED <<configMap, stored, record, creator, faults>>

\* (seeded fault) a record that names a session already is left alone
GetForWriterOnce(d) ==
    /\ Writer(d, "get", IF started[d] \subseteq stored /\ \A t \in started[d] : record[t] = NoSession
                        THEN "patch" ELSE "done")
    /\ UNCHANGED <<configMap, stored, record, creator, started, before, faults>>

\* A token without a record is left alone.
GetForWriter(d) ==
    /\ Writer(d, "get", IF started[d] \subseteq stored THEN "patch" ELSE "failed")
    /\ UNCHANGED <<configMap, stored, record, creator, started, before, faults>>

\* The record is rewritten from the copy with the new session id: the other
\* fields never change, so the copy has them right.
Rewrite(d) ==
    /\ record' = [t \in Tokens |-> IF t \in started[d] THEN d ELSE record[t]]
    /\ stored' = stored \cup started[d]

PatchSessionID(d) ==
    /\ Writer(d, "patch", "done")
    /\ Rewrite(d)
    /\ UNCHANGED <<configMap, creator, started, before, faults>>

-----------------------------------------------------------------------------
(* Failures *)

Faulty == faults < MaxFaults /\ faults' = faults + 1

\* An API call returns an error: the request answers 500, the goroutine logs.
CreatorFails(t) ==
    /\ creator[t] \in {"get", "create", "patch"}
    /\ Faulty
    /\ creator' = [creator EXCEPT ![t] = "failed"]
    /\ UNCHANGED <<configMap, stored, record, started, writer, before>>

\* The write took effect and its answer was lost.
AnswerLost(t) ==
    /\ Faulty
    /\ \/ Creator(t, "patch", "failed") /\ UNCHANGED configMap
       \/ Creator(t, "create", "failed") /\ configMap = "absent" /\ configMap' = "present"
    /\ Write(t, NoSession)
    /\ UNCHANGED <<started, writer, before>>

\* The goroutine's call fails, or only its answer is lost: either is logged.
WriterFails(d) ==
    /\ Faulty
    /\ \/ writer[d] \in {"get", "patch"} /\ UNCHANGED <<stored, record>>
       \/ writer[d] = "patch" /\ Rewrite(d)
    /\ writer' = [writer EXCEPT ![d] = "failed"]
    /\ UNCHANGED <<configMap, creator, started, before>>

\* The server restarts: every request and goroutine in flight is gone.
Restart ==
    /\ Faulty
    /\ creator' = [t \in Tokens |-> IF creator[t] \in {"get", "create", "patch"}
                                    THEN "failed" ELSE creator[t]]
    /\ writer' = [d \in DemoIds |-> IF writer[d] \in {"get", "patch"}
                                    THEN "failed" ELSE writer[d]]
    /\ UNCHANGED <<configMap, stored, record, started, before>>

-----------------------------------------------------------------------------

Next ==
    \/ \E t \in Tokens :
         \/ CreateToken(t) \/ GetForCreator(t) \/ CreateConfigMap(t) \/ CreateRefused(t)
         \/ PatchToken(t) \/ CreatorFails(t) \/ AnswerLost(t)
         \/ \E d \in DemoIds : StartDemo(d, t)
    \/ \E d \in DemoIds : GetForWriter(d) \/ PatchSessionID(d) \/ WriterFails(d)
    \/ Restart

Spec == Init /\ [][Next]_vars

-----------------------------------------------------------------------------
(* Properties *)

\* A token whose creation was acknowledged stays in the store, whatever other
\* creations and session writes it interleaves with: nobody's write is lost.
AckedIsStored == \A t \in Tokens : creator[t] = "acked" => t \in stored

\* Once the goroutine of a session has recorded it, the token's record names a
\* session of this token, and none that is out of date: not one whose goroutine
\* was over before this session was started.  Only goroutines that ran at the
\* same time or later can have replaced it, also across failures and restarts.
RecordIsCurrent ==
    \A d \in DemoIds : writer[d] = "done" =>
      \A t \in started[d] :
        record[t] \in DemoIds /\ started[record[t]] = {t} /\ record[t] \notin before[d]
=============================================================================
