--------------------------- MODULE VmAgentProofs ---------------------------
(***************************************************************************)
(* What the single-threaded agent keeps for any number of requests and any *)
(* timeouts.  Commands reach the terminal in order because requests are    *)
(* numbered as they are made, the queue holds them in that order, and the  *)
(* one at work is older than all that wait.  A check is given up only if   *)
(* it had to queue, because until then server and agent count the same     *)
(* time.                                                                   *)
(***************************************************************************)
EXTENDS VmAgent, TLAPS

CallRecords ==
    [op : Operations, outcome : {"none", "waiting", "error", "ok", "passed", "failed"}, left : Nat]

Types ==
    /\ call \in [Calls -> CallRecords]
    /\ queue \in Seq(Calls)
    /\ stage \in [Calls -> {"away", "queued", "done"} \cup Working]
    /\ ran \in [Calls -> Nat] /\ waited \in [Calls -> BOOLEAN]
    /\ last \in Nat /\ line \subseteq Calls /\ lost \subseteq Calls

Made(c) == call[c].outcome /= "none"

\* Requests are made in the order of their numbers, and the agent knows of no
\* others.
Numbered ==
    /\ \A c, d \in Calls : Made(c) /\ ~Made(d) => c < d
    /\ \A c \in Calls : stage[c] /= "away" => Made(c)

\* The queue holds the requests in stage queued, in the order of their numbers.
Queued ==
    /\ \A i \in 1..Len(queue) : stage[queue[i]] = "queued"
    /\ \A i, j \in 1..Len(queue) : i < j => queue[i] < queue[j]
    /\ \A c \in Calls : stage[c] = "queued" => \E i \in 1..Len(queue) : queue[i] = c

\* One request at a time, older than those in the queue.
OneAtWork ==
    \A c, d \in Calls :
      stage[c] \in Working => /\ stage[d] \in Working => c = d
                              /\ stage[d] = "queued" => c < d

\* What a request still has to type is later than all that was typed, and what
\* is on the line will have its Enter next or has lost it.
Ahead ==
    \A c \in Calls :
      /\ ~Made(c) \/ stage[c] \in {"queued", "run"} => last < c
      /\ c \in line => c \in lost \/ stage[c] = "enter"

OrderInv == Types /\ Numbered /\ Queued /\ OneAtWork /\ Ahead

-----------------------------------------------------------------------------
\* A check that did not have to wait has as much of the server's patience left
\* as its script has not used.
InTime ==
    \A c \in Calls : call[c].op = "verify" =>
      /\ stage[c] \in {"away", "queued", "run", "done"}
      /\ stage[c] = "queued" => ran[c] = 0
      /\ stage[c] = "run" => ran[c] <= Limit["verify"]
      /\ stage[c] \in {"away", "done"} => ~Waiting(c)
      /\ Waiting(c) /\ ~waited[c] => call[c].left + ran[c] = Patience["verify"]

\* A request not made has not run.
Idle == \A c \in Calls : stage[c] = "away" => ran[c] = 0

TimeInv == Types /\ Numbered /\ Idle /\ InTime /\ EnoughPatience
-----------------------------------------------------------------------------
(* What the steps have in common *)

\* A request is made, and takes its place at the end of the queue or fails.
Making(c, op) ==
    /\ New(c) /\ call'[c].op = op /\ \A d \in Calls \ {c} : call'[d] = call[d]
    /\ \/ /\ call'[c].outcome = "waiting" /\ call'[c].left = Patience[op]
          /\ queue' = Append(queue, c) /\ stage' = [stage EXCEPT ![c] = "queued"]
       \/ call'[c].outcome = "error" /\ UNCHANGED <<queue, stage>>
    /\ UNCHANGED <<ran, waited, screen>>

\* The agent goes on with request c, from one stage at work to another.
Going(c, to) ==
    /\ stage[c] \in {"run", "enter"} /\ to \in {"enter", "reply", "stuck"}
    /\ call[c].op \in {"cmd", "navigate"} \/ stage[c] = "enter"
    /\ stage' = [stage EXCEPT ![c] = to]
    /\ \/ stage[c] = "run" /\ UNCHANGED screen
       \/ stage[c] = "run" /\ to = "enter" /\ last' = c /\ line' = line \cup {c} /\ lost' = lost
       \/ /\ stage[c] = "enter" /\ to = "reply" /\ last' = last
          /\ (line' = {} /\ lost' = lost) \/ (line' = line /\ lost' = lost \cup {c})
    /\ UNCHANGED <<call, queue, ran, waited>>

\* The agent is done with request c, and the server has the answer or has given
\* it up.
Ending(c) ==
    /\ stage[c] \in {"run", "reply"}
    /\ stage' = [stage EXCEPT ![c] = "done"] /\ ran' = [ran EXCEPT ![c] = 0]
    /\ call'[c].op = call[c].op /\ \A d \in Calls \ {c} : call'[d] = call[d]
    /\ \/ Waiting(c) /\ call'[c].outcome \in {"ok", "passed", "failed"}
       \/ ~Waiting(c) /\ call' = call
    /\ UNCHANGED <<queue, waited, screen>>

Steps ==
    \/ \E c \in Calls :
         \/ \E op \in Operations : Making(c, op)
         \/ GiveUp(c) \/ Accept(c) \/ Ending(c)
         \/ \E to \in Working : Going(c, to)
    \/ Tick

\* Every action is one of these, and keeps the types.
LEMMA NextSteps == Types /\ Next => Types' /\ Steps
<1> SUFFICES ASSUME Types, Next PROVE Types' /\ Steps
  OBVIOUS
<1>0. /\ call \in [Calls -> CallRecords]
      /\ last \in Nat /\ line \subseteq Calls /\ lost \subseteq Calls
      /\ \A c \in Calls : c \in Nat
      /\ stage \in [Calls -> {"away", "queued", "run", "enter", "reply", "stuck", "done"}]
      /\ queue \in Seq(Calls) /\ ran \in [Calls -> Nat]
  BY TimeAssumption DEF Types, Calls, Working
<1>1. ASSUME NEW c \in Calls, NEW op \in Operations, Post(c, op) \/ PostFails(c, op)
      PROVE  Types' /\ Making(c, op)
  <2> DEFINE w == [op |-> op, outcome |-> "waiting", left |-> Patience[op]]
             e == [op |-> op, outcome |-> "error", left |-> 0]
  <2>1. w \in CallRecords /\ e \in CallRecords
    BY TimeAssumption DEF CallRecords
  <2>2. CASE Post(c, op)
    <3>1. call' = [call EXCEPT ![c] = w] /\ w.op = op /\ w.outcome = "waiting" /\ w.left = Patience[op]
      BY <2>2 DEF Post
    <3> HIDE DEF w
    <3>2. Making(c, op)
      BY <1>0, <2>2, <3>1 DEF Post, Making
    <3> QED
      BY <1>0, <2>1, <2>2, <3>1, <3>2 DEF Post, Types, screen, Working
  <2>3. CASE PostFails(c, op)
    <3>1. call' = [call EXCEPT ![c] = e] /\ e.op = op /\ e.outcome = "error"
      BY <2>3 DEF PostFails
    <3> HIDE DEF e
    <3>2. Making(c, op)
      BY <1>0, <2>3, <3>1 DEF PostFails, Making, agent
    <3> QED
      BY <1>0, <2>1, <2>3, <3>1, <3>2 DEF PostFails, Types, screen, Working, agent
  <2> QED
    BY <1>1, <2>2, <2>3
<1>2. ASSUME NEW c \in Calls, GiveUp(c) PROVE Types'
  <2>1. [call[c] EXCEPT !.outcome = "error"] \in CallRecords
    BY <1>0 DEF CallRecords
  <2> QED
    BY <1>0, <1>2, <2>1 DEF GiveUp, Types, screen, Working, agent
<1>3. ASSUME NEW c \in Calls, Accept(c) PROVE Types'
  BY <1>0, <1>3 DEF Accept, Types, screen, Working
<1>4. ASSUME NEW c \in Calls, SendKeys(c) \/ SendEnter(c) \/ Navigate(c)
      PROVE  Types' /\ \E to \in Working : Going(c, to)
  <2>1. ASSUME NEW to \in Working, Step(c, to), last' \in Nat, line' \subseteq Calls, lost' \subseteq Calls
        PROVE  Types'
    BY <1>0, <2>1 DEF Step, Types, Working
  <2>2. CASE SendKeys(c)
    <3>1. /\ last' \in Nat /\ line' \subseteq Calls /\ lost' \subseteq Calls
          /\ \/ Step(c, "enter") /\ Going(c, "enter")
             \/ Step(c, "reply") /\ Going(c, "reply")
      BY <1>0, <2>2 DEF SendKeys, Runs, Step, Going, screen
    <3> QED
      BY <2>1, <3>1 DEF Working
  <2>3. CASE SendEnter(c)
    <3>1. /\ last' \in Nat /\ line' \subseteq Calls /\ lost' \subseteq Calls
          /\ Step(c, "reply") /\ Going(c, "reply")
      BY <1>0, <2>3 DEF SendEnter, Step, Going
    <3> QED
      BY <2>1, <3>1 DEF Working
  <2>4. CASE Navigate(c)
    <3>1. /\ last' \in Nat /\ line' \subseteq Calls /\ lost' \subseteq Calls
          /\ \/ Step(c, "stuck") /\ Going(c, "stuck")
             \/ Step(c, "reply") /\ Going(c, "reply")
      BY <1>0, <2>4 DEF Navigate, Runs, Step, Going, screen
    <3> QED
      BY <2>1, <3>1 DEF Working
  <2> QED
    BY <1>4, <2>2, <2>3, <2>4
<1>5. ASSUME NEW c \in Calls, Answer(c) \/ ScriptEnds(c) \/ ScriptKilled(c) \/ KubectlEnds(c)
      PROVE  Types' /\ Ending(c)
  <2>1. stage[c] \in {"run", "reply"}
    BY <1>5 DEF Answer, ScriptEnds, ScriptKilled, KubectlEnds, Runs
  <2>2. PICK outcome \in {"ok", "passed", "failed"} : Reply(c, outcome)
    BY <1>5 DEF Answer, ScriptEnds, ScriptKilled, KubectlEnds
  <2> DEFINE k == [call[c] EXCEPT !.outcome = outcome, !.left = 0]
  <2>3. k \in CallRecords /\ k.op = call[c].op /\ k.outcome = outcome
    BY <1>0 DEF CallRecords
  <2>4. \/ Waiting(c) /\ call' = [call EXCEPT ![c] = k]
        \/ ~Waiting(c) /\ call' = call
    BY <2>2 DEF Reply
  <2> HIDE DEF k
  <2>5. Ending(c)
    BY <1>0, <2>1, <2>2, <2>3, <2>4 DEF Reply, Ending
  <2>6. call' \in [Calls -> CallRecords]
    BY <1>0, <2>3, <2>4
  <2> QED
    BY <1>0, <2>2, <2>5, <2>6 DEF Types, screen, Reply, Working
<1>6. ASSUME Tick PROVE Types'
  <2>1. ASSUME NEW c \in Calls, Waiting(c) PROVE [call[c] EXCEPT !.left = @ - 1] \in CallRecords
    <3>1. call[c].left \in Nat /\ call[c].left /= 0
      BY <1>0, <1>6, <2>1 DEF Tick, Overdue, CallRecords
    <3>2. call[c].left - 1 \in Nat
      BY <3>1
    <3> QED
      BY <1>0, <3>2 DEF CallRecords
  <2>2. call' \in [Calls -> CallRecords]
    BY <1>0, <1>6, <2>1 DEF Tick
  <2>3. ran' \in [Calls -> Nat] /\ waited' \in [Calls -> BOOLEAN]
    BY <1>0, <1>6 DEF Tick, Types
  <2> QED
    BY <1>6, <2>2, <2>3 DEF Tick, Types, screen
<1> QED
  BY <1>1, <1>2, <1>3, <1>4, <1>5, <1>6 DEF Next, Work, Steps
-----------------------------------------------------------------------------
(* Order *)

\* Calls are positive numbers.
LEMMA CallNumbers == \A c \in Calls : c \in Nat /\ c >= 1
  BY TimeAssumption DEF Calls

\* A new request is numbered after all that were made.
LEMMA MakingOrder ==
    ASSUME OrderInv, NEW c \in Calls, NEW op \in Operations, Making(c, op)
    PROVE  Numbered' /\ Queued' /\ OneAtWork' /\ Ahead'
<1>1. /\ stage \in [Calls -> {"away", "queued", "done"} \cup Working] /\ queue \in Seq(Calls)
      /\ last' = last /\ line' = line /\ lost' = lost /\ last \in Nat
  BY DEF OrderInv, Types, Making, screen
<1>2. /\ ~Made(c) /\ (\A d \in Calls : d < c => Made(d)) /\ stage[c] = "away"
      /\ \A d \in Calls : (stage[d] /= "away" \/ Made(d)) => d < c
  <2>1. \A d \in Calls : d < c => d \in 1..(c - 1)
    BY CallNumbers DEF Calls
  <2> QED
    BY <2>1 DEF Making, New, Made, OrderInv, Numbered
<1>3. Made(c)' /\ \A d \in Calls \ {c} : Made(d)' <=> Made(d)
  BY DEF Making, Made
<1>4. /\ stage'[c] \in {"away", "queued"} /\ \A d \in Calls \ {c} : stage'[d] = stage[d]
  BY <1>1, <1>2 DEF Making
<1>5. Numbered'
  BY <1>2, <1>3, <1>4, CallNumbers DEF OrderInv, Numbered
<1>6. OneAtWork'
  BY <1>2, <1>4 DEF OrderInv, OneAtWork, Working
<1>7. Ahead'
  BY <1>1, <1>2, <1>3, <1>4 DEF OrderInv, Ahead
<1>8. Queued'
  <2>1. CASE UNCHANGED <<queue, stage>>
    BY <2>1 DEF OrderInv, Queued
  <2>2. CASE queue' = Append(queue, c) /\ stage' = [stage EXCEPT ![c] = "queued"]
    <3>1. /\ Len(queue') = Len(queue) + 1 /\ queue'[Len(queue) + 1] = c /\ Len(queue) \in Nat
          /\ \A i \in 1..Len(queue) : queue'[i] = queue[i] /\ queue[i] \in Calls
      BY <1>1, <2>2
    <3>2. \A i \in 1..Len(queue) : queue[i] < c /\ stage'[queue[i]] = "queued"
      BY <1>1, <1>2, <1>4, <3>1, CallNumbers DEF OrderInv, Queued
    <3>3. stage'[c] = "queued"
      BY <1>1, <2>2
    <3>4. ASSUME NEW i \in 1..Len(queue') PROVE stage'[queue'[i]] = "queued"
      BY <3>1, <3>2, <3>3
    <3>5. ASSUME NEW i \in 1..Len(queue'), NEW j \in 1..Len(queue'), i < j PROVE queue'[i] < queue'[j]
      <4>1. i \in 1..Len(queue)
        BY <3>1, <3>5
      <4>2. CASE j = Len(queue) + 1
        BY <3>1, <3>2, <4>1, <4>2
      <4>3. CASE j \in 1..Len(queue)
        BY <3>1, <3>5, <4>1, <4>3 DEF OrderInv, Queued
      <4> QED
        BY <3>1, <4>2, <4>3
    <3>6. ASSUME NEW d \in Calls, stage'[d] = "queued" PROVE \E i \in 1..Len(queue') : queue'[i] = d
      <4>1. CASE d = c
        BY <3>1, <4>1
      <4>2. CASE d /= c
        <5>1. PICK i \in 1..Len(queue) : queue[i] = d
          BY <1>4, <3>6, <4>2 DEF OrderInv, Queued
        <5>2. i \in 1..Len(queue') /\ queue'[i] = d
          BY <3>1, <5>1
        <5> QED
          BY <5>2
      <4> QED
        BY <4>1, <4>2
    <3> QED
      BY <3>4, <3>5, <3>6 DEF Queued
  <2> QED
    BY <2>1, <2>2 DEF Making
<1> QED
  BY <1>5, <1>6, <1>7, <1>8

\* The head of the queue is older than the rest of it.
LEMMA AcceptOrder ==
    ASSUME OrderInv, NEW c \in Calls, Accept(c)
    PROVE  Numbered' /\ Queued' /\ OneAtWork' /\ Ahead'
<1>1. /\ stage \in [Calls -> {"away", "queued", "done"} \cup Working] /\ queue \in Seq(Calls)
      /\ queue /= <<>> /\ c = Head(queue) /\ queue' = Tail(queue)
      /\ stage' = [stage EXCEPT ![c] = "run"] /\ UNCHANGED <<call, last, line, lost>> /\ ~Busy
  BY DEF OrderInv, Types, Accept, screen
<1>2. /\ Len(queue) \in Nat /\ Len(queue) >= 1 /\ queue[1] = c /\ Len(queue') = Len(queue) - 1
      /\ \A i \in 1..Len(queue') : queue'[i] = queue[i + 1]
      /\ \A i \in 1..Len(queue) : queue[i] \in Calls
  BY <1>1
<1>3. stage'[c] = "run" /\ (\A d \in Calls \ {c} : stage'[d] = stage[d]) /\ stage[c] = "queued"
  BY <1>1, <1>2 DEF OrderInv, Queued
<1>4. \A d \in Calls : stage[d] = "queued" /\ d /= c => \E i \in 2..Len(queue) : queue[i] = d
  BY <1>2 DEF OrderInv, Queued
<1>5. \A i \in 2..Len(queue) : c < queue[i]
  BY <1>2 DEF OrderInv, Queued
<1>6. Numbered' /\ Ahead'
  BY <1>1, <1>3 DEF OrderInv, Numbered, Ahead, Made
<1>7. OneAtWork'
  BY <1>1, <1>3, <1>4, <1>5 DEF OneAtWork, Busy, Working
<1>8. Queued'
  <2>1. ASSUME NEW i \in 1..Len(queue') PROVE /\ i + 1 \in 2..Len(queue) /\ queue'[i] = queue[i + 1]
                                              /\ queue[i + 1] \in Calls \ {c}
    BY <1>2, <1>5, CallNumbers
  <2>2. \A i \in 1..Len(queue') : stage'[queue'[i]] = "queued"
    BY <1>2, <1>3, <2>1 DEF OrderInv, Queued
  <2>3. \A i, j \in 1..Len(queue') : i < j => queue'[i] < queue'[j]
    <3>1. \A i, j \in 2..Len(queue) : i < j => queue[i] < queue[j]
      BY <1>2 DEF OrderInv, Queued
    <3> QED
      BY <1>2, <2>1, <3>1
  <2>4. ASSUME NEW d \in Calls, stage'[d] = "queued" PROVE \E i \in 1..Len(queue') : queue'[i] = d
    <3>1. PICK i \in 2..Len(queue) : queue[i] = d
      BY <1>3, <1>4, <2>4
    <3>2. i - 1 \in 1..Len(queue') /\ queue'[i - 1] = queue[(i - 1) + 1] /\ (i - 1) + 1 = i
      BY <1>2
    <3> QED
      BY <3>1, <3>2
  <2> QED
    BY <2>2, <2>3, <2>4 DEF Queued
<1> QED
  BY <1>6, <1>7, <1>8

\* The request at work types what is later than all before it and earlier than
\* all that others will type, and no other has an Enter to come.
LEMMA GoingOrder ==
    ASSUME OrderInv, NEW c \in Calls, NEW to \in Working, Going(c, to)
    PROVE  /\ Numbered' /\ Queued' /\ OneAtWork' /\ Ahead'
           /\ last' /= last => last' > last /\ line \subseteq lost
<1>1. /\ stage \in [Calls -> {"away", "queued", "done"} \cup Working] /\ queue' = queue /\ call' = call
      /\ stage[c] \in Working /\ to \in Working \ {"run"} /\ last \in Nat /\ queue \in Seq(Calls)
      /\ line \subseteq Calls
  BY DEF OrderInv, Types, Going, Working
<1>2. stage'[c] = to /\ \A d \in Calls \ {c} : stage'[d] = stage[d]
  BY <1>1 DEF Going
<1>3. \A d \in Calls \ {c} : stage[d] \notin Working /\ (stage[d] = "queued" \/ ~Made(d) => c < d)
  BY <1>1 DEF OrderInv, OneAtWork, Numbered, Working
<1>4. Numbered'
  BY <1>1, <1>2 DEF OrderInv, Numbered, Made, Working
<1>5. Queued'
  <2>1. \A i \in 1..Len(queue) : queue[i] \in Calls /\ queue[i] /= c
    BY <1>1 DEF OrderInv, Queued, Working
  <2> QED
    BY <1>1, <1>2, <2>1 DEF OrderInv, Queued, Working
<1>6. OneAtWork'
  BY <1>1, <1>2, <1>3 DEF OneAtWork, Working
<1>7. \A d \in line : d \in lost \/ (d = c /\ stage[c] = "enter")
  BY <1>1, <1>3 DEF OrderInv, Ahead, Working
<1>8. last' /= last => stage[c] = "run" /\ last' = c /\ last < c
  BY DEF Going, OrderInv, Ahead, screen
<1>9. Ahead'
  <2>1. Made(c)' /\ \A d \in Calls : Made(d)' <=> Made(d)
    BY <1>1 DEF OrderInv, Numbered, Made, Working
  <2>2. ASSUME NEW d \in Calls, ~Made(d)' \/ stage'[d] \in {"queued", "run"} PROVE last' < d
    <3>1. d /= c /\ c < d /\ last < d
      BY <1>1, <1>2, <1>3, <2>1, <2>2 DEF OrderInv, Ahead, Working
    <3> QED
      BY <1>8, <3>1
  <2>3. ASSUME NEW d \in line' PROVE d \in lost' \/ stage'[d] = "enter"
    BY <1>2, <1>7 DEF Going, screen
  <2> QED
    BY <2>2, <2>3 DEF Ahead
<1> QED
  BY <1>4, <1>5, <1>6, <1>7, <1>8, <1>9, CallNumbers

\* Giving up, ending and the passing of time leave the order alone.
LEMMA OtherOrder ==
    ASSUME OrderInv, Tick \/ \E c \in Calls : GiveUp(c) \/ Ending(c)
    PROVE  Numbered' /\ Queued' /\ OneAtWork' /\ Ahead' /\ last' = last
<1>1. /\ stage \in [Calls -> {"away", "queued", "done"} \cup Working] /\ queue \in Seq(Calls)
      /\ call \in [Calls -> CallRecords]
  BY DEF OrderInv, Types
<1>2. queue' = queue /\ last' = last /\ line' = line /\ lost' = lost
  BY DEF Tick, GiveUp, Ending, agent, screen
<1>3. \A d \in Calls : stage'[d] = stage[d] \/ (stage[d] \in {"run", "reply"} /\ stage'[d] = "done")
  BY <1>1 DEF Tick, GiveUp, Ending, agent
<1>4. \A d \in Calls : Made(d)' <=> Made(d)
  <2>1. CASE Tick
    BY <1>1, <2>1 DEF Tick, Made, CallRecords
  <2>2. ASSUME NEW c \in Calls, GiveUp(c) PROVE \A d \in Calls : Made(d)' <=> Made(d)
    BY <1>1, <2>2 DEF GiveUp, Made, Waiting, CallRecords
  <2>3. ASSUME NEW c \in Calls, Ending(c) PROVE \A d \in Calls : Made(d)' <=> Made(d)
    BY <2>3 DEF Ending, Made, Waiting
  <2> QED
    BY <2>1, <2>2, <2>3
<1>5. Numbered' /\ OneAtWork' /\ Ahead'
  BY <1>2, <1>3, <1>4 DEF OrderInv, Numbered, OneAtWork, Ahead, Working
<1>6. Queued'
  <2>1. \A i \in 1..Len(queue) : queue[i] \in Calls
    BY <1>1
  <2> QED
    BY <1>2, <1>3, <2>1 DEF OrderInv, Queued
<1> QED
  BY <1>2, <1>5, <1>6

\* Nothing is typed, made or queued at first.
LEMMA InitOrder == Init => OrderInv
<1> SUFFICES ASSUME Init PROVE OrderInv
  OBVIOUS
<1>1. Types
  BY DEF Init, Types, CallRecords, Operations
<1>2. Numbered /\ Queued /\ OneAtWork
  BY DEF Init, Numbered, Queued, OneAtWork, Made, Working
<1>3. Ahead
  BY CallNumbers DEF Init, Ahead
<1> QED
  BY <1>1, <1>2, <1>3 DEF OrderInv

\* Every step keeps the order, and types only what is later, on a line of its own.
LEMMA StepOrder ==
    OrderInv /\ [Next]_vars => OrderInv' /\ (last' /= last => last' > last /\ line \subseteq lost)
<1> SUFFICES ASSUME OrderInv, [Next]_vars
             PROVE  OrderInv' /\ (last' /= last => last' > last /\ line \subseteq lost)
  OBVIOUS
<1>1. CASE UNCHANGED vars
  BY <1>1 DEF vars, agent, screen, OrderInv, Types, Numbered, Queued, OneAtWork, Ahead, Made
<1>2. CASE Next
  <2>1. Types' /\ Steps
    BY <1>2, NextSteps DEF OrderInv
  <2>2. ASSUME NEW c \in Calls, Accept(c) PROVE last' = last
    BY <2>2 DEF Accept, screen
  <2>3. ASSUME NEW c \in Calls, NEW op \in Operations, Making(c, op) PROVE last' = last
    BY <2>3 DEF Making, screen
  <2> QED
    BY <2>1, <2>2, <2>3, MakingOrder, AcceptOrder, GoingOrder, OtherOrder DEF Steps, OrderInv
<1> QED
  BY <1>1, <1>2

\* Commands are typed in the order in which they reached the agent, none twice,
\* and each on a line that holds nothing but commands whose own Enter tmux lost:
\* for any number of requests and whatever the server has given up.
THEOREM CommandsInOrder == Spec => TypedInOrder
<1>1. OrderInv /\ [Next]_vars => [last' > last /\ line \subseteq lost]_last
  BY StepOrder
<1> QED
  BY <1>1, InitOrder, StepOrder, PTL DEF Spec, TypedInOrder
-----------------------------------------------------------------------------
(* Time *)

\* A request is made: its whole patience is left and its script has not begun.
LEMMA MakingTime ==
    ASSUME TimeInv, NEW c \in Calls, NEW op \in Operations, Making(c, op)
    PROVE  Idle' /\ InTime' /\ EnoughPatience'
<1>1. /\ stage \in [Calls -> {"away", "queued", "done"} \cup Working] /\ ran' = ran /\ waited' = waited
      /\ call'[c].op = op /\ \A d \in Calls \ {c} : call'[d] = call[d]
  BY DEF TimeInv, Types, Making
<1>2. stage[c] = "away" /\ ran[c] = 0
  BY DEF TimeInv, Numbered, Made, Making, New, Idle
<1>3. /\ stage'[c] \in {"away", "queued"} /\ (\A d \in Calls \ {c} : stage'[d] = stage[d])
      /\ stage'[c] = "away" => call'[c].outcome = "error"
      /\ stage'[c] = "queued" => call'[c].outcome = "waiting" /\ call'[c].left = Patience[op]
  BY <1>1, <1>2 DEF Making
<1>4. Idle' /\ EnoughPatience'
  BY <1>1, <1>2, <1>3 DEF TimeInv, Idle, EnoughPatience
<1>5. ASSUME NEW d \in Calls \ {c} PROVE call'[d].op = "verify" =>
      /\ stage'[d] \in {"away", "queued", "run", "done"}
      /\ stage'[d] = "queued" => ran'[d] = 0
      /\ stage'[d] = "run" => ran'[d] <= Limit["verify"]
      /\ stage'[d] \in {"away", "done"} => ~Waiting(d)'
      /\ Waiting(d)' /\ ~waited'[d] => call'[d].left + ran'[d] = Patience["verify"]
  BY <1>1, <1>3, <1>5 DEF TimeInv, InTime, Waiting
<1>6. call'[c].op = "verify" =>
      /\ stage'[c] \in {"away", "queued", "run", "done"}
      /\ stage'[c] = "queued" => ran'[c] = 0
      /\ stage'[c] = "run" => ran'[c] <= Limit["verify"]
      /\ stage'[c] \in {"away", "done"} => ~Waiting(c)'
      /\ Waiting(c)' /\ ~waited'[c] => call'[c].left + ran'[c] = Patience["verify"]
  <2>1. Patience[op] \in Nat
    BY TimeAssumption
  <2> QED
    BY <1>1, <1>2, <1>3, <2>1 DEF Waiting
<1>7. InTime'
  BY <1>5, <1>6 DEF InTime
<1> QED
  BY <1>4, <1>7

\* A check can be given up only after it had to queue: otherwise the script is
\* killed, and answered, while there is patience left.
LEMMA GiveUpTime ==
    ASSUME TimeInv, NEW c \in Calls, GiveUp(c)
    PROVE  Idle' /\ InTime' /\ EnoughPatience'
<1>1. /\ call \in [Calls -> CallRecords] /\ call[c] \in CallRecords /\ call[c].left = 0 /\ Waiting(c)
      /\ call' = [call EXCEPT ![c] = [@ EXCEPT !.outcome = "error"]] /\ ran[c] \in Nat
      /\ UNCHANGED <<stage, ran, waited>>
  BY DEF TimeInv, Types, GiveUp, agent
<1>2. /\ call'[c].op = call[c].op /\ call'[c].outcome = "error"
      /\ \A d \in Calls \ {c} : call'[d] = call[d]
  BY <1>1 DEF CallRecords
<1>3. call[c].op = "verify" => waited[c]
  <2> SUFFICES ASSUME call[c].op = "verify", ~waited[c] PROVE FALSE
    OBVIOUS
  <2>1. 0 + ran[c] = Patience["verify"] /\ stage[c] \in {"queued", "run"}
    BY <1>1 DEF TimeInv, InTime
  <2>2. ran[c] <= Limit["verify"]
    BY <2>1, TimeAssumption DEF TimeInv, InTime, Operations
  <2>3. Limit["verify"] \in Nat /\ Patience["verify"] \in Nat
    BY TimeAssumption DEF Operations
  <2> QED
    BY <1>1, <2>1, <2>2, <2>3, VerifyAssumption
<1>4. EnoughPatience' /\ Idle'
  BY <1>1, <1>2, <1>3 DEF TimeInv, EnoughPatience, Idle
<1>5. InTime'
  BY <1>1, <1>2 DEF TimeInv, InTime, Waiting
<1> QED
  BY <1>4, <1>5

\* The agent takes a request up, goes on with it or ends it.
LEMMA AgentTime ==
    ASSUME OrderInv, TimeInv, NEW c \in Calls,
           Accept(c) \/ Ending(c) \/ \E to \in Working : Going(c, to)
    PROVE  Idle' /\ InTime' /\ EnoughPatience'
<1>1. /\ stage \in [Calls -> {"away", "queued", "done"} \cup Working] /\ ran \in [Calls -> Nat]
      /\ queue \in Seq(Calls) /\ call \in [Calls -> CallRecords]
  BY DEF TimeInv, Types
<1>2. Limit["verify"] \in Nat
  BY TimeAssumption DEF Operations
<1>3. CASE Accept(c)
  <2>1. stage' = [stage EXCEPT ![c] = "run"] /\ UNCHANGED <<call, ran, waited>>
    BY <1>3 DEF Accept
  <2>2. c = queue[1] /\ 1 \in 1..Len(queue)
    BY <1>1, <1>3 DEF Accept
  <2>3. stage[c] = "queued"
    BY <2>2 DEF OrderInv, Queued
  <2> QED
    BY <1>1, <1>2, <2>1, <2>3 DEF TimeInv, Idle, InTime, EnoughPatience, Waiting
<1>4. CASE Ending(c)
  BY <1>1, <1>4 DEF Ending, TimeInv, Idle, InTime, EnoughPatience, Waiting
<1>5. ASSUME NEW to \in Working, Going(c, to) PROVE Idle' /\ InTime' /\ EnoughPatience'
  <2>1. /\ stage' = [stage EXCEPT ![c] = to] /\ UNCHANGED <<call, ran, waited>>
        /\ call[c].op /= "verify" /\ stage[c] /= "away"
    BY <1>5 DEF Going, TimeInv, InTime
  <2> QED
    BY <1>1, <2>1 DEF TimeInv, Idle, InTime, EnoughPatience, Waiting, Working
<1> QED
  BY <1>3, <1>4, <1>5

\* Time passes for both sides; what is in the queue is marked.
LEMMA TickTime ==
    ASSUME TimeInv, Tick
    PROVE  Idle' /\ InTime' /\ EnoughPatience'
<1>1. /\ stage' = stage /\ call \in [Calls -> CallRecords] /\ ran \in [Calls -> Nat]
      /\ waited \in [Calls -> BOOLEAN]
  BY DEF TimeInv, Types, Tick
<1>2. \A c \in Calls : /\ call'[c].op = call[c].op /\ call'[c].outcome = call[c].outcome
                       /\ call'[c].left = IF Waiting(c) THEN call[c].left - 1 ELSE call[c].left
  BY <1>1 DEF Tick, CallRecords
<1>3. \A c \in Calls : /\ ran'[c] = IF stage[c] = "run" /\ call[c].op \in Slow THEN ran[c] + 1 ELSE ran[c]
                       /\ waited'[c] <=> (waited[c] \/ stage[c] = "queued")
  BY <1>1 DEF Tick
<1>4. Idle'
  BY <1>1, <1>3 DEF TimeInv, Idle
<1>5. EnoughPatience'
  BY <1>1, <1>2, <1>3 DEF TimeInv, EnoughPatience
<1>6. ASSUME NEW c \in Calls, call[c].op = "verify"
      PROVE  /\ stage[c] = "queued" => ran'[c] = 0
             /\ stage[c] = "run" => ran'[c] <= Limit["verify"]
             /\ Waiting(c) /\ ~waited'[c] => call'[c].left + ran'[c] = Patience["verify"]
  <2>1. /\ call[c].left \in Nat /\ ran[c] \in Nat /\ Limit["verify"] \in Nat /\ Patience["verify"] \in Nat
        /\ call[c].op \in Slow
    BY <1>1, <1>6, TimeAssumption DEF CallRecords, Operations, Slow
  <2>2. stage[c] = "run" => ran[c] /= Limit["verify"] /\ ran[c] <= Limit["verify"]
    BY <1>6, <2>1 DEF Tick, Overdue, TimeInv, InTime
  <2>3. CASE stage[c] = "run"
    <3>1. ran'[c] = ran[c] + 1
      BY <1>3, <2>1, <2>3
    <3>2. ran'[c] <= Limit["verify"]
      BY <2>1, <2>2, <2>3, <3>1
    <3>3. Waiting(c) /\ ~waited'[c] => call[c].left + ran[c] = Patience["verify"] /\ call'[c].left = call[c].left - 1
      BY <1>2, <1>3, <1>6 DEF TimeInv, InTime
    <3> QED
      BY <2>1, <2>3, <3>1, <3>2, <3>3
  <2>4. CASE stage[c] /= "run"
    <3>1. Waiting(c) => stage[c] = "queued"
      BY <1>6, <2>4 DEF TimeInv, InTime
    <3>2. ran'[c] = ran[c] /\ (stage[c] = "queued" => ran[c] = 0 /\ waited'[c])
      BY <1>3, <1>6, <2>4 DEF TimeInv, InTime
    <3> QED
      BY <2>4, <3>1, <3>2
  <2> QED
    BY <2>3, <2>4
<1>7. InTime'
  BY <1>1, <1>2, <1>6 DEF TimeInv, InTime, Waiting
<1> QED
  BY <1>4, <1>5, <1>7

\* A check that the agent takes up at once is never given up, for any timeouts
\* of which the server's is the longer one, and for any number of requests.
THEOREM ChecksInTime == Spec => []EnoughPatience
<1>1. Init => TimeInv
  <2> SUFFICES ASSUME Init PROVE TimeInv
    OBVIOUS
  <2>1. Types /\ Numbered
    BY InitOrder DEF OrderInv
  <2>2. Idle /\ InTime /\ EnoughPatience
    BY DEF Init, Idle, InTime, EnoughPatience, Waiting
  <2> QED
    BY <2>1, <2>2 DEF TimeInv
<1>2. OrderInv /\ OrderInv' /\ TimeInv /\ [Next]_vars => TimeInv'
  <2> SUFFICES ASSUME OrderInv, OrderInv', TimeInv, [Next]_vars PROVE Idle' /\ InTime' /\ EnoughPatience'
    BY DEF TimeInv, OrderInv
  <2>1. CASE UNCHANGED vars
    BY <2>1 DEF vars, agent, TimeInv, Idle, InTime, EnoughPatience, Waiting
  <2>2. CASE Next
    <3>1. Steps
      BY <2>2, NextSteps DEF OrderInv
    <3> QED
      BY <3>1, MakingTime, GiveUpTime, AgentTime, TickTime DEF Steps
  <2> QED
    BY <2>1, <2>2
<1>3. TimeInv => EnoughPatience
  BY DEF TimeInv
<1> QED
  BY <1>1, <1>2, <1>3, InitOrder, StepOrder, PTL DEF Spec
=============================================================================
