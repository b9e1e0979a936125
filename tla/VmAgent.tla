------------------------------ MODULE VmAgent ------------------------------
(***************************************************************************)
(* The agent in the VM (vm/lab-inject.py) and the lab server's calls to it *)
(* (injectCmd, verifyStep, navigateBrowser, sessionServices).  The agent   *)
(* is a single-threaded HTTP server: it takes one connection after the     *)
(* other, and a request waits until those before it are done.  The server  *)
(* does not wait for ever; but a request it has given up is still in the   *)
(* agent's queue and is carried out when its turn comes.                   *)
(*                                                                         *)
(* Time passes in units of 5 seconds, the shortest of the timeouts.        *)
(***************************************************************************)
EXTENDS Integers, Sequences

CONSTANTS
    MaxCalls,   \* bound on the server's requests
    Patience,   \* [Operations -> how long the server waits for the answer]
    Limit       \* [Operations -> how long the agent lets its command run]

\* Requests are numbered in the order in which they are made.
Calls == 1..MaxCalls

Operations == {"cmd", "verify", "navigate", "services"}

ASSUME TimeAssumption ==
    /\ Patience \in [Operations -> Nat \ {0}] /\ Limit \in [Operations -> Nat]
    /\ MaxCalls \in Nat

\* verifyStep waits 35 s for a script that the agent kills after 30.
ASSUME VerifyAssumption == Limit["verify"] < Patience["verify"]

VARIABLES
    call,     \* [Calls -> the request: its operation, what became of it, and
              \*  how long the server will still wait]
    queue,    \* connections the agent has not taken yet
    stage,    \* [Calls -> where the agent is with the request]
    ran,      \* [Calls -> how long its command has been running]
    waited,   \* [Calls -> it was in the queue for some time]
    last,     \* the last command whose keys were typed, 0 for none
    line,     \* the commands whose keys are on the terminal's unfinished line
    lost,     \* the commands whose Enter never got to the terminal (history)
    browser   \* well, or failing: gives no answer or breaks off a handshake

screen == <<last, line, lost>>
agent == <<queue, stage, ran, waited, screen>>
vars == <<call, agent, browser>>

\* The agent is at work on a request in the stages run, enter and reply; stuck
\* in navigate for good if the browser fails it.
Working == {"run", "enter", "reply", "stuck"}

Init ==
    /\ call = [c \in Calls |-> [op |-> "cmd", outcome |-> "none", left |-> 0]]
    /\ queue = <<>> /\ stage = [c \in Calls |-> "away"]
    /\ ran = [c \in Calls |-> 0] /\ waited = [c \in Calls |-> FALSE]
    /\ last = 0 /\ line = {} /\ lost = {}
    /\ browser \in {"well", "failing"}

New(c) == call[c].outcome = "none" /\ \A d \in 1..(c - 1) : call[d].outcome /= "none"

Waiting(c) == call[c].outcome = "waiting"

-----------------------------------------------------------------------------
(* The server *)

\* The handlers' checks have passed; the agent's kernel takes the connection.
Post(c, op) ==
    /\ New(c)
    /\ call' = [call EXCEPT ![c] = [op |-> op, outcome |-> "waiting", left |-> Patience[op]]]
    /\ queue' = Append(queue, c) /\ stage' = [stage EXCEPT ![c] = "queued"]
    /\ UNCHANGED <<ran, waited, screen, browser>>

\* No connection to the agent.
PostFails(c, op) ==
    /\ New(c)
    /\ call' = [call EXCEPT ![c] = [op |-> op, outcome |-> "error", left |-> 0]]
    /\ UNCHANGED <<agent, browser>>

\* (seeded fault) a client without a timeout
GiveUpNever(c) == FALSE /\ UNCHANGED vars

\* The client's timeout.  The agent does not notice.
GiveUp(c) ==
    /\ Waiting(c) /\ call[c].left = 0
    /\ call' = [call EXCEPT ![c] = [@ EXCEPT !.outcome = "error"]]
    /\ UNCHANGED <<agent, browser>>

-----------------------------------------------------------------------------
(* The agent *)

Busy == \E c \in Calls : stage[c] \in Working

\* (seeded fault) a thread for each connection
AcceptThreaded(c) ==
    /\ queue /= <<>> /\ c = Head(queue)
    /\ queue' = Tail(queue) /\ stage' = [stage EXCEPT ![c] = "run"]
    /\ UNCHANGED <<call, ran, waited, screen, browser>>

\* serve_forever takes the next connection when it is done with the last.
Accept(c) ==
    /\ ~Busy
    /\ queue /= <<>> /\ c = Head(queue)
    /\ queue' = Tail(queue) /\ stage' = [stage EXCEPT ![c] = "run"]
    /\ UNCHANGED <<call, ran, waited, screen, browser>>

Runs(c, op) == stage[c] = "run" /\ call[c].op = op

Step(c, to) ==
    /\ stage' = [stage EXCEPT ![c] = to]
    /\ UNCHANGED <<call, queue, ran, waited, browser>>

\* /cmd runs tmux twice and looks at neither exit status, so that Enter follows
\* whether the keys got to the terminal or not.  If there is nothing to type,
\* or tmux cannot be run at all, neither is sent.
SendKeys(c) ==
    /\ Runs(c, "cmd")
    /\ \/ Step(c, "enter") /\ last' = c /\ line' = line \cup {c} /\ lost' = lost
       \/ Step(c, "enter") /\ UNCHANGED screen
       \/ Step(c, "reply") /\ UNCHANGED screen

\* Enter ends the line, or is lost, and then what is on the line stays there.
SendEnter(c) ==
    /\ stage[c] = "enter" /\ Step(c, "reply")
    /\ \/ line' = {} /\ UNCHANGED <<last, lost>>
       \/ lost' = lost \cup {c} /\ UNCHANGED <<last, line>>

\* cdp_navigate: an exception ends it like success.  urlopen has no timeout,
\* and the loop that reads the handshake never ends once the browser closes.
Navigate(c) ==
    /\ Runs(c, "navigate")
    /\ Step(c, "reply") \/ (browser = "failing" /\ Step(c, "stuck"))
    /\ UNCHANGED screen

\* The answer goes to the server, if it is still waiting for it.
Reply(c, outcome) ==
    /\ stage' = [stage EXCEPT ![c] = "done"] /\ ran' = [ran EXCEPT ![c] = 0]
    /\ call' = IF Waiting(c) THEN [call EXCEPT ![c] = [@ EXCEPT !.outcome = outcome, !.left = 0]] ELSE call
    /\ UNCHANGED <<queue, waited, screen, browser>>

Answer(c) == stage[c] = "reply" /\ Reply(c, "ok")

\* /verify: the script ends by itself, or is killed when its time is up.
ScriptEnds(c) ==
    /\ Runs(c, "verify")
    /\ Reply(c, "passed") \/ Reply(c, "failed")

\* (seeded fault) the script's time is not limited
ScriptKilledNever(c) == FALSE /\ UNCHANGED vars

ScriptKilled(c) ==
    Runs(c, "verify") /\ ran[c] = Limit["verify"] /\ Reply(c, "failed")

\* /services: kubectl's answer, or an empty list after its timeout.
KubectlEnds(c) == Runs(c, "services") /\ Reply(c, "ok")

Work(c) ==
    \/ Accept(c) \/ SendKeys(c) \/ SendEnter(c) \/ Navigate(c) \/ Answer(c)
    \/ ScriptKilled(c)
    \/ (KubectlEnds(c) /\ ran[c] = Limit["services"])

-----------------------------------------------------------------------------
(* Time *)

Slow == {"verify", "services"}

\* (seeded fault) a command may run a unit longer than its limit
OverdueLate(c) ==
    \/ Waiting(c) /\ call[c].left = 0
    \/ stage[c] = "run" /\ (call[c].op \in Slow => ran[c] = Limit[call[c].op] + 1)
    \/ stage[c] \in {"enter", "reply"} \/ (stage[c] = "queued" /\ ~Busy)

\* Something that happens before more time passes: a timeout that has run out,
\* or a step of the agent that takes no time that counts.
Overdue(c) ==
    \/ Waiting(c) /\ call[c].left = 0
    \/ stage[c] = "run" /\ (call[c].op \in Slow => ran[c] = Limit[call[c].op])
    \/ stage[c] \in {"enter", "reply"} \/ (stage[c] = "queued" /\ ~Busy)

\* The server's timers run for all that wait, and scripts and kubectl take time.
Tick ==
    /\ \A c \in Calls : ~Overdue(c)
    /\ \E c \in Calls : Waiting(c) \/ (stage[c] = "run" /\ call[c].op \in Slow)
    /\ call' = [c \in Calls |-> IF Waiting(c) THEN [call[c] EXCEPT !.left = @ - 1] ELSE call[c]]
    /\ ran' = [c \in Calls |-> IF stage[c] = "run" /\ call[c].op \in Slow THEN ran[c] + 1 ELSE ran[c]]
    /\ waited' = [c \in Calls |-> waited[c] \/ stage[c] = "queued"]
    /\ UNCHANGED <<queue, stage, screen, browser>>

-----------------------------------------------------------------------------

Next ==
    \/ \E c \in Calls :
         \/ \E op \in Operations : Post(c, op) \/ PostFails(c, op)
         \/ GiveUp(c) \/ Work(c) \/ ScriptEnds(c) \/ KubectlEnds(c)
    \/ Tick

Spec == Init /\ [][Next]_vars

\* Time passes, clients' timeouts fire and the agent runs.  Nothing makes a
\* script or kubectl end before it is killed.
FairSpec ==
    /\ Spec
    /\ WF_vars(Tick)
    /\ \A c \in Calls : WF_vars(GiveUp(c)) /\ WF_vars(Work(c))

-----------------------------------------------------------------------------
(* Properties *)

\* A command is typed after all that reached the agent before it and none is
\* typed twice, also if the server has given some of them up; and it is typed on
\* an empty line: the only commands that can be there already, and are then run
\* together with it, are those whose own Enter tmux lost (lab-inject.py 51-52).
TypedInOrder == [][last' > last /\ line \subseteq lost]_last

\* A check that the agent takes up at once is never given up by the server:
\* its 35 seconds leave room for the 30 that the script may take.
EnoughPatience ==
    \A c \in Calls : call[c].op = "verify" /\ call[c].outcome = "error" => waited[c] \/ stage[c] = "away"

\* Every caller gets an answer or an error, also if the agent is stuck.
CallerReleased == \A c \in Calls : Waiting(c) ~> ~Waiting(c)

\* Unless the browser fails it, the agent gets to every request, whatever
\* scripts and kubectl do.
AgentGetsToIt == \A c \in Calls : stage[c] = "queued" /\ browser = "well" ~> stage[c] = "done"
=============================================================================
