------------------------------ MODULE LabPage ------------------------------
(***************************************************************************)
(* The lab page in the student's browser (web/static/lab.html): it polls   *)
(* the session until it is ready, opens terminals, walks through the steps *)
(* and their checks, and ends, pauses or resumes the lab.                  *)
(*                                                                         *)
(* JavaScript runs one callback at a time, but every await lets others in: *)
(* polls and checks are requests in flight while the user clicks on, and   *)
(* what their callbacks do depends on the page as it is then.  Nothing is   *)
(* followed any further once the page has been left.                       *)
(***************************************************************************)
EXTENDS Naturals, FiniteSets, SequencesExt

CONSTANTS
    Polls,      \* polls that can be in flight at once (one per 4 s of latency)
    Checks,     \* checks that can be in flight at once
    LastStep,   \* steps are 1..LastStep
    HasVerify,  \* the steps with a Verify script
    MAX_TABS,
    MaxResumes  \* bound on resumes, of this page and of others

ASSUME PageAssumption ==
    /\ IsFiniteSet(Polls)
    /\ LastStep \in Nat \ {0} /\ MAX_TABS \in Nat \ {0} /\ MaxResumes \in Nat

VARIABLES
    status,     \* what GET /api/sessions/{id} answers
    time,       \* the countdown: unknown until the first answer, then running
    poll,       \* the poll interval is set
    polls,      \* [Polls -> free, sent, or the answer on its way back]
    labReady,
    erred,      \* an answer with an error has stopped the polling
    resumeBtn,  \* hidden, enabled or disabled
    endBtn,     \* the End Lab button is there
    tabs,       \* the terminals: the lab's, which commands are typed into, or a shell
    activeTab,
    ideOpen,    \* the IDE covers the terminals
    unseen,     \* the last command was sent while a shell was in view
    opened,     \* how many terminals the page has opened by itself
    peak,       \* the most polls that have been in flight at once (history)
    currentStep, stepVerified,
    checkBtn, nextBtn,  \* enabled or disabled
    checks,     \* [Checks -> its state, and the step it was sent for]
    passed,     \* the steps whose script has passed in the VM
    strayed,    \* the steps marked by the answer to another step's check, and whose
                \* own script has not passed (history)
    view,       \* lab, an overlay on it (confirm, complete), or on the way out
    resumes

server == <<status, resumes>>
terminals == <<tabs, activeTab, ideOpen, unseen, opened>>
guide == <<currentStep, stepVerified, checkBtn, nextBtn, checks, passed, strayed>>
vars == <<server, time, poll, polls, peak, erred, labReady, resumeBtn, endBtn, terminals, guide, view>>

StepNumbers == 1..LastStep
OnPage == {"lab", "confirm", "complete"}
Answers == {"provisioning", "ready", "paused", "error"}
Statuses == Answers \cup {"expired"}

\* State invariant: every variable holds a value of its kind.
TypeOK ==
    /\ status \in Statuses /\ resumes \in 0..MaxResumes
    /\ time \in {"unknown", "running"}
    /\ poll \in BOOLEAN /\ labReady \in BOOLEAN /\ erred \in BOOLEAN
    /\ polls \in [Polls -> {"free", "sent"} \cup Answers]
    /\ resumeBtn \in {"hidden", "enabled", "disabled"} /\ endBtn \in BOOLEAN
    /\ tabs \in BoundedSeq({"lab", "shell"}, MAX_TABS) /\ activeTab \in 0..(MAX_TABS - 1)
    /\ ideOpen \in BOOLEAN /\ unseen \in BOOLEAN
    /\ opened \in 0..Cardinality(Polls) /\ peak \in 0..Cardinality(Polls)
    /\ currentStep \in StepNumbers
    /\ stepVerified \subseteq StepNumbers /\ passed \subseteq StepNumbers /\ strayed \subseteq StepNumbers
    /\ checkBtn \in BOOLEAN /\ nextBtn \in BOOLEAN
    /\ checks \in [Checks -> [state : {"free", "sent", "passed", "failed"},
                              step  : StepNumbers]]
    /\ view \in {"lab", "confirm", "complete", "ending", "pausing", "left"}

\* init() has fetched the scenario, shown step 1 and started to poll.
Init ==
    /\ status = "provisioning" /\ resumes = 0
    /\ time = "unknown"
    /\ poll = TRUE /\ polls = [p \in Polls |-> "free"]
    /\ labReady = FALSE /\ resumeBtn = "hidden" /\ endBtn = TRUE
    /\ tabs = <<>> /\ activeTab = 0 /\ ideOpen = FALSE /\ unseen = FALSE /\ opened = 0
    /\ erred = FALSE /\ peak = 0
    /\ currentStep = 1 /\ stepVerified = {} /\ passed = {} /\ strayed = {}
    /\ checkBtn = FALSE /\ nextBtn = FALSE
    /\ checks = [k \in Checks |-> [state |-> "free", step |-> 1]]
    /\ view = "lab"

-----------------------------------------------------------------------------
(* Steps *)

\* showStep(n), with labReady as it is at that moment.
ShowStep(n, ready) ==
    /\ currentStep' = n
    /\ checkBtn' = (n \in HasVerify /\ ready /\ n \notin stepVerified)
    /\ nextBtn' = (ready /\ (n \in HasVerify => n \in stepVerified))

\* The dots, that of the step on the page too, and Previous lead to any step, and
\* Next to the following one, also while a check is in flight.
Navigate ==
    /\ view = "lab"
    /\ \/ \E n \in StepNumbers : ShowStep(n, labReady)
       \/ nextBtn /\ currentStep < LastStep /\ ShowStep(currentStep + 1, labReady)
    /\ UNCHANGED <<server, time, poll, polls, peak, erred, labReady, resumeBtn, endBtn, terminals,
                   stepVerified, checks, passed, strayed, view>>

ClickCheck ==
    /\ view = "lab" /\ currentStep \in HasVerify /\ checkBtn /\ checkBtn' = FALSE
    /\ \E k \in Checks :
         /\ checks[k].state = "free"
         /\ checks' = [checks EXCEPT ![k] = [state |-> "sent", step |-> currentStep]]
    /\ UNCHANGED <<server, time, poll, polls, peak, erred, labReady, resumeBtn, endBtn, terminals,
                   currentStep, stepVerified, nextBtn, passed, strayed, view>>

\* The server and the VM agent run the step's script, or cannot.
Verified(k) ==
    /\ view /= "left" /\ checks[k].state = "sent"
    /\ \/ /\ status = "ready"
          /\ checks' = [checks EXCEPT ![k] = [state |-> "passed", step |-> checks[k].step]]
          /\ passed' = passed \cup {checks[k].step} /\ strayed' = strayed \ {checks[k].step}
       \/ checks' = [checks EXCEPT ![k] = [state |-> "failed", step |-> checks[k].step]] /\ UNCHANGED <<passed, strayed>>
    /\ UNCHANGED <<server, time, poll, polls, peak, erred, labReady, resumeBtn, endBtn, terminals,
                   currentStep, stepVerified, checkBtn, nextBtn, view>>

\* checkStep after its await marks the step that is shown now.
CheckPassed(k) ==
    /\ view /= "left" /\ checks[k].state = "passed"
    /\ checks' = [checks EXCEPT ![k] = [state |-> "free", step |-> 1]]
    /\ stepVerified' = stepVerified \cup {currentStep}
    /\ strayed' = strayed \cup ({currentStep} \ ({checks[k].step} \cup passed))
    /\ nextBtn' = TRUE
    /\ UNCHANGED <<server, time, poll, polls, peak, erred, labReady, resumeBtn, endBtn, terminals,
                   currentStep, checkBtn, passed, view>>

\* (seeded fault) a check that did not pass unlocks the step too
CheckFailedUnlocks(k) ==
    /\ view /= "left" /\ checks[k].state = "failed"
    /\ checks' = [checks EXCEPT ![k] = [state |-> "free", step |-> 1]]
    /\ checkBtn' = TRUE /\ nextBtn' = TRUE
    /\ UNCHANGED <<server, time, poll, polls, peak, erred, labReady, resumeBtn, endBtn, terminals,
                   currentStep, stepVerified, passed, strayed, view>>

\* A failed check enables the button again: two seconds later if the script did
\* not pass, at once if the request failed.
CheckFailed(k) ==
    /\ view /= "left" /\ checks[k].state = "failed"
    /\ checks' = [checks EXCEPT ![k] = [state |-> "free", step |-> 1]]
    /\ checkBtn' = TRUE
    /\ UNCHANGED <<server, time, poll, polls, peak, erred, labReady, resumeBtn, endBtn, terminals,
                   currentStep, stepVerified, nextBtn, passed, strayed, view>>

-----------------------------------------------------------------------------
(* Terminals *)

\* switchTab: a terminal is shown, in place of the IDE.
Switch(i) == activeTab' = i /\ ideOpen' = FALSE

\* addTab: one more, and it is shown; at MAX_TABS nothing happens.  The first
\* is the lab's terminal, the others are shells.
AddTab ==
    IF Len(tabs) >= MAX_TABS THEN UNCHANGED <<tabs, activeTab, ideOpen>>
    ELSE tabs' = Append(tabs, IF tabs = <<>> THEN "lab" ELSE "shell") /\ Switch(Len(tabs))

\* A click in the terminal panel.
Click ==
    /\ view = "lab"
    /\ UNCHANGED <<server, time, poll, polls, peak, erred, labReady, resumeBtn, endBtn, opened, guide, view>>

\* The button is enabled with labReady and stays so in a later pause.
ClickAdd == Click /\ opened > 0 /\ Len(tabs) < MAX_TABS /\ AddTab /\ UNCHANGED unseen

\* (seeded fault) tabs counted from one
SwitchTabFromOne ==
    Click /\ (\E i \in 1..Len(tabs) : Switch(i)) /\ UNCHANGED <<tabs, unseen>>

SwitchTab ==
    Click /\ (\E i \in 0..(Len(tabs) - 1) : Switch(i)) /\ UNCHANGED <<tabs, unseen>>

\* (seeded fault) the tab after the closed one is shown
CloseTabShowsNext ==
    /\ Click /\ Len(tabs) > 1
    /\ \E i \in 0..(Len(tabs) - 1) : tabs' = RemoveAt(tabs, i + 1) /\ Switch(i)
    /\ UNCHANGED unseen

\* The last terminal stays.
CloseTab ==
    /\ Click /\ Len(tabs) > 1
    /\ \E i \in 0..(Len(tabs) - 1) :
         tabs' = RemoveAt(tabs, i + 1) /\ Switch(IF i <= Len(tabs) - 2 THEN i ELSE Len(tabs) - 2)
    /\ UNCHANGED unseen

\* The button is enabled with the first ready, like that of a new terminal.
ToggleIDE == Click /\ opened > 0 /\ ideOpen' = ~ideOpen /\ UNCHANGED <<tabs, activeTab, unseen>>

Looking == IF ideOpen' THEN "ide" ELSE tabs[activeTab' + 1]

\* (seeded fault) a command is sent without a look at the tabs
ClickToRunUnseen ==
    Click /\ labReady /\ UNCHANGED <<tabs, activeTab, ideOpen>> /\ unseen' = (Looking = "shell")

\* A click on a code block shows the first terminal, unless it is the active
\* one, and sends the command to the VM agent.
ClickToRun ==
    /\ Click /\ labReady /\ UNCHANGED tabs
    /\ IF activeTab /= 0 THEN Switch(0) ELSE UNCHANGED <<activeTab, ideOpen>>
    /\ unseen' = (Looking = "shell")

-----------------------------------------------------------------------------
(* Polling *)

InFlight == {p \in Polls : polls[p] /= "free"}

\* The interval fires whether or not the last poll has been answered.
SendPoll(p) ==
    /\ view /= "left" /\ poll /\ polls[p] = "free" /\ p = CHOOSE q \in Polls : polls[q] = "free"
    /\ polls' = [polls EXCEPT ![p] = "sent"]
    /\ peak' = IF Cardinality(InFlight) < peak THEN peak ELSE Cardinality(InFlight) + 1
    /\ UNCHANGED <<server, time, poll, erred, labReady, resumeBtn, endBtn, terminals, guide, view>>

\* The page takes every status it does not know for provisioning.
Shown(s) == IF s = "expired" THEN "provisioning" ELSE s

\* Manager.Get makes every error of the API a session that is not found.
ServerAnswers(p) ==
    /\ view /= "left" /\ polls[p] = "sent"
    /\ \E answer \in {Shown(status), "error"} : polls' = [polls EXCEPT ![p] = answer]
    /\ UNCHANGED <<server, time, poll, peak, erred, labReady, resumeBtn, endBtn, terminals, guide, view>>

\* The request fails in the network: its callback ends in a rejected promise.
PollLost(p) ==
    /\ view /= "left" /\ polls[p] = "sent"
    /\ polls' = [polls EXCEPT ![p] = "free"]
    /\ UNCHANGED <<server, time, poll, peak, erred, labReady, resumeBtn, endBtn, terminals, guide, view>>

Handled(p) ==
    /\ view /= "left"
    /\ polls' = [polls EXCEPT ![p] = "free"]
    /\ UNCHANGED <<server, peak, view>>

\* The first answer starts the countdown.
StartTimer == time' = IF time = "unknown" THEN "running" ELSE time

PollError(p) ==
    /\ polls[p] = "error" /\ Handled(p)
    /\ poll' = FALSE /\ erred' = (erred \/ poll)
    /\ UNCHANGED <<time, labReady, resumeBtn, endBtn, terminals, guide>>

\* (seeded fault) every answer stops the polling
PollPendingStops(p) ==
    /\ polls[p] = "provisioning" /\ Handled(p) /\ StartTimer
    /\ poll' = FALSE
    /\ UNCHANGED <<erred, labReady, resumeBtn, endBtn, terminals, guide>>

PollPending(p) ==
    /\ polls[p] = "provisioning" /\ Handled(p) /\ StartTimer
    /\ UNCHANGED <<poll, erred, labReady, resumeBtn, endBtn, terminals, guide>>

\* (seeded fault) the polling goes on
PollReadyAgain(p) ==
    /\ polls[p] = "ready" /\ Handled(p) /\ StartTimer
    /\ labReady' = TRUE /\ resumeBtn' = "hidden" /\ UNCHANGED poll
    /\ ShowStep(currentStep, TRUE) /\ UNCHANGED <<stepVerified, checks, passed, strayed, endBtn, erred, unseen>>
    /\ AddTab /\ opened' = opened + 1

PollReady(p) ==
    /\ polls[p] = "ready" /\ Handled(p) /\ StartTimer
    /\ poll' = FALSE
    /\ labReady' = TRUE /\ resumeBtn' = "hidden"
    /\ ShowStep(currentStep, TRUE) /\ UNCHANGED <<stepVerified, checks, passed, strayed, endBtn, erred, unseen>>
    /\ AddTab /\ opened' = opened + 1

PollPaused(p) ==
    /\ polls[p] = "paused" /\ Handled(p) /\ StartTimer
    /\ poll' = FALSE
    /\ labReady' = FALSE /\ resumeBtn' = "enabled" /\ endBtn' = FALSE
    /\ UNCHANGED <<erred, terminals, guide>>

-----------------------------------------------------------------------------
(* Ending, pausing, resuming *)

Show(from, to) ==
    /\ view \in from /\ view' = to
    /\ UNCHANGED <<server, polls, peak, erred, labReady, resumeBtn, endBtn, terminals, guide>>

\* End Lab asks for a choice of ending and pausing; Next on the last step
\* congratulates.  The overlays hide the page but its polls go on.
ConfirmEnd == endBtn /\ Show({"lab"}, "confirm") /\ UNCHANGED <<time, poll>>

Complete ==
    currentStep = LastStep /\ nextBtn /\ Show({"lab"}, "complete") /\ UNCHANGED <<time, poll>>

Dismiss == Show({"confirm", "complete"}, "lab") /\ UNCHANGED <<time, poll>>

EndLab == Show({"confirm", "complete"}, "ending") /\ poll' = FALSE /\ UNCHANGED time

PauseLab == Show({"confirm"}, "pausing") /\ poll' = FALSE /\ UNCHANGED time

\* The countdown reaches zero and ends the lab.
TimeUp ==
    /\ time = "running" /\ UNCHANGED time
    /\ Show(OnPage, "ending") /\ poll' = FALSE

\* The request has been answered or has failed; either way the page goes.
Leave ==
    /\ view \in {"ending", "pausing"} /\ view' = "left"
    /\ status' \in {status, IF view = "ending" THEN "expired" ELSE "paused"}
    /\ UNCHANGED <<resumes, time, poll, polls, peak, erred, labReady, resumeBtn, endBtn, terminals, guide>>

\* The request may get lost; the poll stays as it is.
ResumeLab ==
    /\ view = "lab" /\ resumeBtn = "enabled" /\ resumes < MaxResumes
    /\ resumeBtn' = "disabled"
    /\ status' \in {status, IF status = "paused" THEN "provisioning" ELSE status}
    /\ resumes' = resumes + 1
    /\ UNCHANGED <<time, poll, polls, peak, erred, labReady, endBtn, terminals, guide, view>>

-----------------------------------------------------------------------------
(* The session *)

\* The VM comes up; the lab expires or is deleted; another tab pauses or resumes
\* it.  (What is paused from elsewhere after a resume is bounded by MaxResumes.)
SessionChanges ==
    /\ view /= "left"
    /\ \/ status = "provisioning" /\ status' = "ready" /\ UNCHANGED resumes
       \/ status \in {"provisioning", "ready", "paused"} /\ status' = "expired" /\ UNCHANGED resumes
       \/ status /= "error" /\ status' = "error" /\ UNCHANGED resumes
       \/ status \in {"provisioning", "ready"} /\ resumes = 0 /\ status' = "paused" /\ UNCHANGED resumes
       \/ /\ status = "paused" /\ status' = "provisioning"
          /\ resumes < MaxResumes /\ resumes' = resumes + 1
    /\ UNCHANGED <<time, poll, polls, peak, erred, labReady, resumeBtn, endBtn, terminals, guide, view>>

-----------------------------------------------------------------------------

PollAnswered(p) == PollError(p) \/ PollPending(p) \/ PollReady(p) \/ PollPaused(p)

User == Navigate \/ ClickCheck \/ ClickAdd \/ SwitchTab \/ CloseTab \/ ToggleIDE \/ ClickToRun
          \/ ConfirmEnd \/ Complete \/ Dismiss \/ EndLab \/ PauseLab \/ ResumeLab

Next ==
    \/ User \/ TimeUp \/ Leave \/ SessionChanges
    \/ \E p \in Polls : SendPoll(p) \/ ServerAnswers(p) \/ PollLost(p) \/ PollAnswered(p)
    \/ \E k \in Checks : Verified(k) \/ CheckPassed(k) \/ CheckFailed(k)

Spec == Init /\ [][Next]_vars

\* The interval fires, requests are answered, and not all of them get lost.
FairSpec ==
    /\ Spec
    /\ \A p \in Polls : /\ WF_vars(SendPoll(p)) /\ SF_vars(ServerAnswers(p))
                        /\ WF_vars(PollAnswered(p))

-----------------------------------------------------------------------------
(* Properties *)

\* Next is enabled on a step with a Verify script only after that script has
\* passed in the VM, or after the script of another step has and its answer found
\* the user on this one (lab.html:458 reads currentStep after the await): there
\* is no other way round a check, however clicks, checks and polls interleave.
NextNeedsPass == nextBtn /\ currentStep \in HasVerify => currentStep \in passed \cup strayed

\* The page opens no more terminals by itself than it has had polls in flight at
\* once: one, unless a poll takes longer than the interval; a late answer that
\* says ready opens another then, but no poll is sent after the first of them.
NoExtraTerminal == opened <= peak

\* Click-to-run and the tab bar always have the terminal they act on.
TerminalExists == labReady => tabs /= <<>> /\ activeTab < Len(tabs)

\* A command is sent in view of the lab's terminal, wherever the user has been
\* before; unless the user has closed that terminal, which never comes back, or
\* looks at the IDE (the first terminal may be the active one behind it).
RunIsSeen == unseen => ~Contains(tabs, "lab")

\* A session that is ready, and stays so, shows up on a page that still polls,
\* unless a poll is answered with an error, or says paused though another tab has
\* resumed the lab since: the page never asks again then.
ReadyShowsUp ==
    view \in OnPage /\ status = "ready" /\ poll
      ~> labReady \/ erred \/ resumeBtn /= "hidden" \/ status /= "ready" \/ view \notin OnPage
=============================================================================
