-------------------------- MODULE DemoTokenProofs --------------------------
(***************************************************************************)
(* The store of demo links loses no acknowledged token and no recorded     *)
(* session, for any number of tokens, sessions and failures.  A record is  *)
(* first written by the request that creates its token, which is over once *)
(* there is a record; after that only goroutines of the token's sessions   *)
(* write it, and a goroutine that is over writes no more.                  *)
(***************************************************************************)
EXTENDS DemoTokenStore, TLAPS

\* A demo session is started with one token, which has a record.
StartedOnce ==
    \A d \in DemoIds :
      /\ writer[d] = "idle" => started[d] = {}
      /\ \A t \in started[d] : started[d] = {t} /\ t \in stored

\* The request that creates a token is over once there is a record of it.
CreatedOnce == \A t \in stored : creator[t] \in {"acked", "failed"}

\* A goroutine that was over is over.
StaysOver == \A d, e \in DemoIds : e \in before[d] => writer[e] \in Over

\* The session recorded for a token was started with that token.
OfToken == \A t \in Tokens : record[t] \in DemoIds => started[record[t]] = {t}

Inv ==
    /\ TypeOK /\ AckedIsStored /\ StartedOnce /\ CreatedOnce /\ StaysOver /\ OfToken
    /\ RecordIsCurrent

\* An empty store satisfies the invariant.
LEMMA InitInv == Init => Inv
<1> SUFFICES ASSUME Init PROVE Inv
  OBVIOUS
<1>1. TypeOK
  BY MaxFaultsAssumption DEF Init, TypeOK
<1>2. AckedIsStored /\ StartedOnce /\ CreatedOnce /\ StaysOver /\ OfToken /\ RecordIsCurrent
  BY NoSessionAssumption
  DEF Init, AckedIsStored, StartedOnce, CreatedOnce, StaysOver, OfToken, RecordIsCurrent
<1> QED
  BY <1>1, <1>2 DEF Inv

\* A step of a creation that writes nothing.
LEMMA CreatorWaits ==
    ASSUME Inv, NEW t \in Tokens,
           CreateToken(t) \/ GetForCreator(t) \/ CreateRefused(t) \/ CreatorFails(t)
    PROVE  Inv'
<1>1. /\ creator' \in [Tokens -> {"idle", "get", "create", "patch", "acked", "failed"}]
      /\ \A u \in Tokens : creator'[u] = "acked" => creator[u] = "acked"
      /\ \A u \in Tokens : creator[u] \in {"acked", "failed"} => creator'[u] = creator[u]
      /\ faults' \in 0..MaxFaults
      /\ UNCHANGED <<configMap, stored, record, started, writer, before>>
  BY MaxFaultsAssumption
  DEF Inv, TypeOK, CreateToken, GetForCreator, CreateRefused, CreatorFails, Creator, Faulty
<1> QED
  BY <1>1 DEF Inv, TypeOK, AckedIsStored, StartedOnce, CreatedOnce, StaysOver, OfToken, RecordIsCurrent

\* A creation writes a record that was not there: no session has its token.
LEMMA CreatorWrites ==
    ASSUME Inv, NEW t \in Tokens, CreateConfigMap(t) \/ PatchToken(t) \/ AnswerLost(t)
    PROVE  Inv'
<1>1. /\ creator[t] \in {"create", "patch"} /\ creator'[t] \in {"acked", "failed"}
      /\ creator' \in [Tokens -> {"idle", "get", "create", "patch", "acked", "failed"}]
      /\ \A u \in Tokens \ {t} : creator'[u] = creator[u]
      /\ faults' \in 0..MaxFaults /\ configMap' \in {"absent", "present"}
      /\ stored' = stored \cup {t} /\ record' = [record EXCEPT ![t] = NoSession]
      /\ UNCHANGED <<started, writer, before>>
  BY MaxFaultsAssumption DEF Inv, TypeOK, CreateConfigMap, PatchToken, AnswerLost, Creator, Write, Faulty
<1>2. \A d \in DemoIds : t \notin started[d]
  BY <1>1 DEF Inv, StartedOnce, CreatedOnce
<1>3. TypeOK' /\ AckedIsStored' /\ StartedOnce' /\ CreatedOnce' /\ StaysOver'
  BY <1>1 DEF Inv, TypeOK, AckedIsStored, StartedOnce, CreatedOnce, StaysOver
<1>4. OfToken' /\ RecordIsCurrent'
  BY <1>1, <1>2, NoSessionAssumption DEF Inv, TypeOK, OfToken, RecordIsCurrent
<1> QED
  BY <1>3, <1>4 DEF Inv

\* A session is started: no record names it yet.
LEMMA Starts ==
    ASSUME Inv, NEW t \in Tokens, NEW d \in DemoIds, StartDemo(d, t)
    PROVE  Inv'
<1>1. /\ t \in stored /\ writer[d] = "idle" /\ writer' = [writer EXCEPT ![d] = "get"]
      /\ started[d] = {} /\ started' = [started EXCEPT ![d] = {t}]
      /\ before' = [before EXCEPT ![d] = {e \in DemoIds : writer[e] \in Over}]
      /\ UNCHANGED <<configMap, stored, record, creator, faults>>
  BY DEF Inv, StartedOnce, StartDemo, Writer
<1>2. \A u \in Tokens : record[u] /= d
  BY <1>1 DEF Inv, OfToken
<1>3. TypeOK' /\ AckedIsStored' /\ StartedOnce' /\ CreatedOnce'
  BY <1>1 DEF Inv, TypeOK, AckedIsStored, StartedOnce, CreatedOnce
<1>4. StaysOver'
  BY <1>1 DEF Inv, TypeOK, StaysOver, Over
<1>5. OfToken' /\ RecordIsCurrent'
  BY <1>1, <1>2 DEF Inv, TypeOK, OfToken, RecordIsCurrent
<1> QED
  BY <1>3, <1>4, <1>5 DEF Inv

\* A goroutine that is not over writes its session into its token's record: no
\* session that is recorded came after it.
LEMMA Records ==
    ASSUME Inv, NEW d \in DemoIds, writer[d] = "patch", Rewrite(d), faults' \in 0..MaxFaults,
           NEW to \in Over, writer' = [writer EXCEPT ![d] = to],
           UNCHANGED <<configMap, creator, started, before>>
    PROVE  Inv'
<1>1. /\ record' = [t \in Tokens |-> IF t \in started[d] THEN d ELSE record[t]]
      /\ started[d] \subseteq stored /\ stored' = stored
  BY DEF Inv, StartedOnce, Rewrite
<1>2. TypeOK' /\ AckedIsStored' /\ StartedOnce' /\ CreatedOnce' /\ StaysOver'
  BY <1>1 DEF Inv, TypeOK, AckedIsStored, StartedOnce, CreatedOnce, StaysOver, Over
<1>3. OfToken'
  BY <1>1 DEF Inv, TypeOK, StartedOnce, OfToken
<1>4. \A e \in DemoIds : d \notin before[e]
  BY DEF Inv, StaysOver, Over
<1>5. RecordIsCurrent'
  <2> SUFFICES ASSUME NEW e \in DemoIds, writer'[e] = "done", NEW t \in started[e]
               PROVE  record'[t] \in DemoIds /\ started[record'[t]] = {t} /\ record'[t] \notin before[e]
    BY DEF RecordIsCurrent
  <2>1. t \in Tokens
    BY DEF Inv, TypeOK
  <2>2. CASE t \in started[d]
    BY <1>1, <1>4, <2>1, <2>2 DEF Inv, StartedOnce
  <2>3. CASE t \notin started[d]
    BY <1>1, <2>1, <2>3 DEF Inv, TypeOK, RecordIsCurrent
  <2> QED
    BY <2>2, <2>3
<1> QED
  BY <1>2, <1>3, <1>5 DEF Inv

\* A goroutine's step that writes nothing, or the end of some of them.
LEMMA WriterWaits ==
    ASSUME Inv,
           creator' \in [Tokens -> {"idle", "get", "create", "patch", "acked", "failed"}],
           \A u \in Tokens : creator'[u] = "acked" => creator[u] = "acked",
           \A u \in Tokens : creator[u] \in {"acked", "failed"} => creator'[u] = creator[u],
           writer' \in [DemoIds -> {"idle", "get", "patch"} \cup Over],
           \A e \in DemoIds : writer'[e] = writer[e] \/ (writer'[e] \in {"patch", "failed"} /\ writer[e] \in {"get", "patch"}),
           faults' \in 0..MaxFaults, UNCHANGED <<configMap, stored, record, started, before>>
    PROVE  Inv'
<1>1. TypeOK' /\ AckedIsStored' /\ StartedOnce' /\ CreatedOnce'
  BY DEF Inv, TypeOK, AckedIsStored, StartedOnce, CreatedOnce
<1>2. StaysOver' /\ OfToken' /\ RecordIsCurrent'
  BY DEF Inv, StaysOver, OfToken, RecordIsCurrent, Over
<1> QED
  BY <1>1, <1>2 DEF Inv

\* Every step of a creation, of a session's write and of a failure keeps it.
LEMMA StepInv == Inv /\ [Next]_vars => Inv'
<1> SUFFICES ASSUME Inv, [Next]_vars PROVE Inv'
  OBVIOUS
<1>1. ASSUME NEW d \in DemoIds, PatchSessionID(d) PROVE Inv'
  <2>1. /\ writer[d] = "patch" /\ writer' = [writer EXCEPT ![d] = "done"] /\ Rewrite(d) /\ "done" \in Over
        /\ faults' \in 0..MaxFaults /\ UNCHANGED <<configMap, creator, started, before>>
    BY <1>1 DEF Inv, TypeOK, PatchSessionID, Writer, Over
  <2> QED
    BY <2>1, Records
<1>2. ASSUME NEW d \in DemoIds, GetForWriter(d) PROVE Inv'
  <2>1. /\ writer' \in [DemoIds -> {"idle", "get", "patch"} \cup Over] /\ creator' = creator
        /\ \A e \in DemoIds : writer'[e] = writer[e] \/ (writer'[e] \in {"patch", "failed"} /\ writer[e] \in {"get", "patch"})
        /\ faults' \in 0..MaxFaults /\ UNCHANGED <<configMap, stored, record, started, before>>
        /\ creator' \in [Tokens -> {"idle", "get", "create", "patch", "acked", "failed"}]
    BY <1>2 DEF Inv, TypeOK, GetForWriter, Writer, Over
  <2> QED
    BY <2>1, WriterWaits
<1>3. ASSUME NEW d \in DemoIds, WriterFails(d) PROVE Inv'
  <2>1. /\ writer' = [writer EXCEPT ![d] = "failed"] /\ faults' \in 0..MaxFaults /\ "failed" \in Over
        /\ UNCHANGED <<configMap, creator, started, before>>
    BY <1>3, MaxFaultsAssumption DEF Inv, TypeOK, WriterFails, Faulty, Over
  <2>2. CASE writer[d] = "patch" /\ Rewrite(d)
    BY <2>1, <2>2, Records
  <2>3. CASE writer[d] \in {"get", "patch"} /\ UNCHANGED <<stored, record>>
    <3>1. /\ writer' \in [DemoIds -> {"idle", "get", "patch"} \cup Over]
          /\ \A e \in DemoIds : writer'[e] = writer[e] \/ (writer'[e] \in {"patch", "failed"} /\ writer[e] \in {"get", "patch"})
          /\ creator' \in [Tokens -> {"idle", "get", "create", "patch", "acked", "failed"}]
      BY <2>1, <2>3 DEF Inv, TypeOK
    <3> QED
      BY <2>1, <2>3, <3>1, WriterWaits
  <2> QED
    BY <1>3, <2>2, <2>3 DEF WriterFails
<1>4. CASE Restart
  <2>1. /\ creator' \in [Tokens -> {"idle", "get", "create", "patch", "acked", "failed"}]
        /\ \A u \in Tokens : creator'[u] = "acked" => creator[u] = "acked"
        /\ \A u \in Tokens : creator[u] \in {"acked", "failed"} => creator'[u] = creator[u]
        /\ writer' \in [DemoIds -> {"idle", "get", "patch"} \cup Over]
        /\ \A e \in DemoIds : writer'[e] = writer[e] \/ (writer'[e] \in {"patch", "failed"} /\ writer[e] \in {"get", "patch"})
        /\ faults' \in 0..MaxFaults /\ UNCHANGED <<configMap, stored, record, started, before>>
    BY <1>4, MaxFaultsAssumption DEF Inv, TypeOK, Restart, Faulty, Over
  <2> QED
    BY <2>1, WriterWaits
<1>5. CASE UNCHANGED vars
  BY <1>5 DEF vars, Inv, TypeOK, AckedIsStored, StartedOnce, CreatedOnce, StaysOver, OfToken, RecordIsCurrent
<1> QED
  BY <1>1, <1>2, <1>3, <1>4, <1>5, CreatorWaits, CreatorWrites, Starts DEF Next

\* The store is well typed for every number of tokens, sessions and failures.
THEOREM StoreTypes == Spec => []TypeOK
<1>1. Inv => TypeOK
  BY DEF Inv
<1> QED
  BY <1>1, InitInv, StepInv, PTL DEF Spec

\* No acknowledged token is ever lost from the ConfigMap.
THEOREM TokensAreKept == Spec => []AckedIsStored
<1>1. Inv => AckedIsStored
  BY DEF Inv
<1> QED
  BY <1>1, InitInv, StepInv, PTL DEF Spec

\* A session that was recorded is replaced in its token's record only by one of
\* the same token whose goroutine overlapped its own or came later: no late or
\* repeated write brings back a session that was over before.
THEOREM SessionsAreRecorded == Spec => []RecordIsCurrent
<1>1. Inv => RecordIsCurrent
  BY DEF Inv
<1> QED
  BY <1>1, InitInv, StepInv, PTL DEF Spec
=============================================================================
