--------------------------- MODULE LabPageProofs ---------------------------
(***************************************************************************)
(* Theorems about the lab page, for any number of steps, terminals, polls  *)
(* and checks in flight.                                                   *)
(***************************************************************************)
EXTENDS LabPage, FiniteSetTheorems, SequenceTheorems, TLAPS

\* What the terminals and the commands sent to them depend on.  Only the first
\* terminal can be the lab's, and there is none before the lab is ready.
Panel ==
    /\ tabs \in Seq({"lab", "shell"}) /\ Len(tabs) <= MAX_TABS /\ activeTab \in Nat
    /\ tabs = <<>> => activeTab = 0 /\ ~unseen /\ ~labReady
    /\ tabs /= <<>> => activeTab < Len(tabs)
    /\ \A i \in 2..Len(tabs) : tabs[i] = "shell"
    /\ unseen => tabs[1] = "shell"

\* No poll is sent once the lab was ready, and every terminal opened by itself
\* takes a poll out of the air.
Opening ==
    /\ opened \in Nat /\ poll \in BOOLEAN
    /\ polls \in [Polls -> {"free", "sent"} \cup Answers]
    /\ opened > 0 => ~poll
    /\ peak \in 0..Cardinality(Polls) /\ opened + Cardinality(InFlight) <= peak

\* A check that has passed is one of a step whose script has, and what is marked
\* as verified has passed or strayed.
Marked ==
    /\ \A k \in Checks : checks[k].state = "passed" => checks[k].step \in passed
    /\ stepVerified \subseteq passed \cup strayed
    /\ nextBtn /\ currentStep \in HasVerify => currentStep \in stepVerified

\* The kinds of the variables, those of Panel and Opening aside.
Kinds ==
    /\ status \in Statuses /\ resumes \in 0..MaxResumes
    /\ time \in {"unknown", "running"} /\ labReady \in BOOLEAN /\ erred \in BOOLEAN
    /\ resumeBtn \in {"hidden", "enabled", "disabled"} /\ endBtn \in BOOLEAN
    /\ ideOpen \in BOOLEAN /\ unseen \in BOOLEAN
    /\ currentStep \in StepNumbers
    /\ stepVerified \subseteq StepNumbers /\ passed \subseteq StepNumbers
    /\ strayed \subseteq StepNumbers
    /\ checkBtn \in BOOLEAN /\ nextBtn \in BOOLEAN
    /\ checks \in [Checks -> [state : {"free", "sent", "passed", "failed"}, step : StepNumbers]]
    /\ view \in {"lab", "confirm", "complete", "ending", "pausing", "left"}

Inv == Kinds /\ Panel /\ Opening

-----------------------------------------------------------------------------
(* Sequences of terminals *)

\* The sequences up to a length.
LEMMA Bounded ==
    ASSUME NEW S, NEW n \in Nat
    PROVE  \A s : s \in BoundedSeq(S, n) <=> s \in Seq(S) /\ Len(s) <= n
  BY DEF BoundedSeq, SeqOf

\* One terminal less: those behind it move up.
LEMMA Removed ==
    ASSUME NEW S, NEW s \in Seq(S), NEW i \in 1..Len(s)
    PROVE  /\ RemoveAt(s, i) \in Seq(S) /\ Len(RemoveAt(s, i)) = Len(s) - 1
           /\ \A j \in 1..(Len(s) - 1) : RemoveAt(s, i)[j] = IF j < i THEN s[j] ELSE s[j + 1]
<1>1. PICK n \in Nat : n = Len(s) /\ i \in 1..n
  OBVIOUS
<1>2. PICK p \in Seq(S) : p = SubSeq(s, 1, i - 1) /\ Len(p) = i - 1 /\ \A j \in 1..(i - 1) : p[j] = s[j]
  <2> DEFINE p == SubSeq(s, 1, i - 1)
  <2>1. /\ p \in Seq(S) /\ Len(p) = (IF 1 <= i - 1 THEN (i - 1) - 1 + 1 ELSE 0)
        /\ \A j \in 1..((i - 1) - 1 + 1) : p[j] = s[1 + j - 1]
    BY <1>1, SubSeqProperties
  <2>2. (i - 1) - 1 + 1 = i - 1 /\ \A j \in 1..(i - 1) : 1 + j - 1 = j
    BY <1>1
  <2>3. Len(p) = i - 1
    BY <1>1, <2>1
  <2> QED
    BY <2>1, <2>2, <2>3
<1>3. PICK q \in Seq(S) : q = SubSeq(s, i + 1, n) /\ Len(q) = n - i /\ \A j \in 1..(n - i) : q[j] = s[j + i]
  <2> DEFINE q == SubSeq(s, i + 1, n)
  <2>1. /\ q \in Seq(S) /\ Len(q) = (IF i + 1 <= n THEN n - (i + 1) + 1 ELSE 0)
        /\ \A j \in 1..(n - (i + 1) + 1) : q[j] = s[i + 1 + j - 1]
    BY <1>1, SubSeqProperties
  <2>2. n - (i + 1) + 1 = n - i /\ \A j \in 1..(n - i) : i + 1 + j - 1 = j + i
    BY <1>1
  <2>3. Len(q) = n - i
    BY <1>1, <2>1
  <2> QED
    BY <2>1, <2>2, <2>3
<1>4. /\ p \o q \in Seq(S) /\ Len(p \o q) = n - 1
      /\ \A j \in 1..(n - 1) : (p \o q)[j] = IF j <= i - 1 THEN p[j] ELSE q[j - (i - 1)]
  <2>1. /\ p \o q \in Seq(S) /\ Len(p \o q) = Len(p) + Len(q)
        /\ \A j \in 1..(Len(p) + Len(q)) : (p \o q)[j] = IF j <= Len(p) THEN p[j] ELSE q[j - Len(p)]
    OBVIOUS
  <2>2. (i - 1) + (n - i) = n - 1
    BY <1>1
  <2> QED
    BY <1>2, <1>3, <2>1, <2>2
<1>5. ASSUME NEW j \in 1..(n - 1) PROVE (p \o q)[j] = IF j < i THEN s[j] ELSE s[j + 1]
  <2>1. CASE j < i
    BY <1>1, <1>2, <1>4, <2>1
  <2>2. CASE ~(j < i)
    <3>1. j - (i - 1) \in 1..(n - i) /\ (j - (i - 1)) + i = j + 1 /\ ~(j <= i - 1)
      BY <1>1, <2>2
    <3> QED
      BY <1>3, <1>4, <2>2, <3>1
  <2> QED
    BY <2>1, <2>2
<1> QED
  BY <1>1, <1>2, <1>3, <1>4, <1>5 DEF RemoveAt

-----------------------------------------------------------------------------
(* Which steps touch what *)

\* The steps that touch the terminals or make the lab ready.
LEMMA PanelActions ==
    ASSUME [Next]_vars
    PROVE  \/ ClickAdd \/ SwitchTab \/ CloseTab \/ ClickToRun \/ \E p \in Polls : PollReady(p)
           \/ UNCHANGED <<tabs, activeTab, unseen>> /\ (labReady' => labReady)
<1>1. CASE UNCHANGED vars
  BY <1>1 DEF vars, terminals
<1>2. CASE User
  BY <1>2 DEF User, Navigate, ClickCheck, ToggleIDE, Click, ConfirmEnd, Complete, Dismiss, EndLab,
              PauseLab, Show, ResumeLab, terminals
<1>3. CASE TimeUp \/ Leave \/ SessionChanges
  BY <1>3 DEF TimeUp, Show, Leave, SessionChanges, terminals
<1>4. CASE \E p \in Polls : SendPoll(p) \/ ServerAnswers(p) \/ PollLost(p) \/ PollAnswered(p)
  BY <1>4 DEF SendPoll, ServerAnswers, PollLost, PollAnswered, PollError, PollPending, PollPaused, terminals
<1>5. CASE \E k \in Checks : Verified(k) \/ CheckPassed(k) \/ CheckFailed(k)
  BY <1>5 DEF Verified, CheckPassed, CheckFailed, terminals
<1> QED
  BY <1>1, <1>2, <1>3, <1>4, <1>5 DEF Next

\* The steps that touch the polling.
LEMMA PollActions ==
    ASSUME [Next]_vars
    PROVE  \/ \E p \in Polls : \/ SendPoll(p) \/ ServerAnswers(p) \/ PollLost(p) \/ PollAnswered(p)
           \/ UNCHANGED <<opened, polls, peak>> /\ poll' \in {poll, FALSE}
<1>1. CASE UNCHANGED vars
  BY <1>1 DEF vars, terminals
<1>2. CASE User
  BY <1>2 DEF User, Navigate, ClickCheck, ClickAdd, SwitchTab, CloseTab, ToggleIDE, ClickToRun, Click,
              ConfirmEnd, Complete, Dismiss, EndLab, PauseLab, Show, ResumeLab, terminals
<1>3. CASE TimeUp \/ Leave \/ SessionChanges
  BY <1>3 DEF TimeUp, Show, Leave, SessionChanges, terminals
<1>4. CASE \E k \in Checks : Verified(k) \/ CheckPassed(k) \/ CheckFailed(k)
  BY <1>4 DEF Verified, CheckPassed, CheckFailed, terminals
<1> QED
  BY <1>1, <1>2, <1>3, <1>4 DEF Next

\* The steps that touch the guide.
LEMMA GuideActions ==
    ASSUME [Next]_vars
    PROVE  \/ Navigate \/ ClickCheck \/ \E p \in Polls : PollReady(p)
           \/ \E k \in Checks : Verified(k) \/ CheckPassed(k) \/ CheckFailed(k)
           \/ UNCHANGED guide
<1>1. CASE UNCHANGED vars
  BY <1>1 DEF vars
<1>2. CASE User
  BY <1>2 DEF User, ClickAdd, SwitchTab, CloseTab, ToggleIDE, ClickToRun, Click,
              ConfirmEnd, Complete, Dismiss, EndLab, PauseLab, Show, ResumeLab
<1>3. CASE TimeUp \/ Leave \/ SessionChanges
  BY <1>3 DEF TimeUp, Show, Leave, SessionChanges
<1>4. CASE \E p \in Polls : SendPoll(p) \/ ServerAnswers(p) \/ PollLost(p) \/ PollAnswered(p)
  BY <1>4 DEF SendPoll, ServerAnswers, PollLost, PollAnswered, PollError, PollPending, PollPaused
<1> QED
  BY <1>1, <1>2, <1>3, <1>4 DEF Next

-----------------------------------------------------------------------------
(* Terminals *)

\* A terminal is added, or nothing happens; there is one afterwards.
LEMMA Added ==
    ASSUME Panel, AddTab
    PROVE  /\ tabs' \in Seq({"lab", "shell"}) /\ Len(tabs') <= MAX_TABS /\ activeTab' \in Nat
           /\ tabs' /= <<>> /\ activeTab' < Len(tabs')
           /\ \A i \in 2..Len(tabs') : tabs'[i] = "shell"
           /\ unseen => tabs'[1] = "shell"
<1>1. /\ tabs \in Seq({"lab", "shell"}) /\ Len(tabs) \in Nat /\ Len(tabs) <= MAX_TABS /\ activeTab \in Nat
      /\ (tabs = <<>> <=> Len(tabs) = 0) /\ MAX_TABS \in Nat /\ MAX_TABS > 0
  BY PageAssumption DEF Panel
<1>2. CASE Len(tabs) >= MAX_TABS
  BY <1>1, <1>2 DEF AddTab, Panel
<1>3. CASE ~(Len(tabs) >= MAX_TABS)
  <2>1. PICK x \in {"lab", "shell"} : x = IF tabs = <<>> THEN "lab" ELSE "shell"
    OBVIOUS
  <2>2. tabs' = Append(tabs, x) /\ activeTab' = Len(tabs)
    BY <1>3, <2>1 DEF AddTab, Switch
  <2>3. /\ tabs' \in Seq({"lab", "shell"}) /\ Len(tabs') = Len(tabs) + 1
        /\ tabs'[Len(tabs) + 1] = x /\ \A i \in 1..Len(tabs) : tabs'[i] = tabs[i]
    BY <1>1, <2>2
  <2>4. /\ Len(tabs') <= MAX_TABS /\ activeTab' \in Nat /\ tabs' /= <<>> /\ activeTab' < Len(tabs')
    BY <1>1, <1>3, <2>2, <2>3
  <2>5. ASSUME NEW i \in 2..Len(tabs') PROVE tabs'[i] = "shell"
    <3>1. CASE i \in 2..Len(tabs)
      BY <1>1, <2>3, <3>1 DEF Panel
    <3>2. CASE i = Len(tabs) + 1
      BY <1>1, <2>1, <2>3, <3>2
    <3> QED
      BY <1>1, <2>3, <2>5, <3>1, <3>2
  <2>6. unseen => tabs'[1] = "shell"
    BY <1>1, <2>3 DEF Panel
  <2> QED
    BY <2>3, <2>4, <2>5, <2>6
<1> QED
  BY <1>2, <1>3

\* Every step keeps what the terminals depend on.
LEMMA PanelStep ==
    ASSUME Panel, [Next]_vars
    PROVE  Panel'
<1>1. /\ tabs \in Seq({"lab", "shell"}) /\ Len(tabs) \in Nat /\ Len(tabs) <= MAX_TABS /\ activeTab \in Nat
      /\ (tabs = <<>> <=> Len(tabs) = 0) /\ MAX_TABS \in Nat /\ MAX_TABS > 0
  BY PageAssumption DEF Panel
<1>2. CASE ClickAdd \/ \E p \in Polls : PollReady(p)
  <2>1. AddTab /\ unseen' = unseen
    BY <1>2 DEF ClickAdd, PollReady
  <2> QED
    BY <2>1, Added DEF Panel
<1>3. CASE SwitchTab
  <2>1. PICK i \in 0..(Len(tabs) - 1) : activeTab' = i /\ UNCHANGED <<tabs, unseen, labReady>>
    BY <1>3 DEF SwitchTab, Switch, Click
  <2>2. i \in Nat /\ i < Len(tabs) /\ tabs /= <<>>
    BY <1>1, <2>1
  <2> QED
    BY <2>1, <2>2 DEF Panel
<1>4. CASE CloseTab
  <2>1. PICK i \in 0..(Len(tabs) - 1) :
          /\ tabs' = RemoveAt(tabs, i + 1) /\ activeTab' = (IF i <= Len(tabs) - 2 THEN i ELSE Len(tabs) - 2)
          /\ Len(tabs) > 1 /\ UNCHANGED <<unseen, labReady>>
    BY <1>4 DEF CloseTab, Switch, Click
  <2>2. PICK n \in Nat : n = Len(tabs) /\ n > 1 /\ i \in 0..(n - 1) /\ i + 1 \in 1..n /\ n <= MAX_TABS
    BY <1>1, <2>1
  <2>3. PICK t \in Seq({"lab", "shell"}) :
          t = tabs' /\ Len(t) = n - 1 /\ \A j \in 1..(n - 1) : t[j] = IF j < i + 1 THEN tabs[j] ELSE tabs[j + 1]
    BY <1>1, <2>1, <2>2, Removed
  <2>4. activeTab' \in Nat /\ activeTab' < n - 1 /\ n - 1 <= MAX_TABS /\ n - 1 \in Nat \ {0}
    BY <1>1, <2>1, <2>2
  <2>5. ASSUME NEW j \in 1..(n - 1), j >= 2 \/ unseen PROVE t[j] = "shell"
    <3>1. j + 1 \in 2..n /\ (j >= 2 => j \in 2..n) /\ (~(j >= 2) => j = 1)
      BY <2>2
    <3>2. tabs[j + 1] = "shell" /\ (j >= 2 => tabs[j] = "shell") /\ (unseen => tabs[1] = "shell")
      BY <2>2, <3>1 DEF Panel
    <3> QED
      BY <2>3, <2>5, <3>1, <3>2
  <2>6. t /= <<>> /\ 1 \in 1..(n - 1) /\ \A j \in 2..(n - 1) : j \in 1..(n - 1) /\ j >= 2
    BY <2>2, <2>3, <2>4
  <2>7. /\ tabs' \in Seq({"lab", "shell"}) /\ Len(tabs') <= MAX_TABS /\ tabs' /= <<>> /\ activeTab' < Len(tabs')
    BY <2>3, <2>4, <2>6
  <2>8. \A j \in 2..Len(tabs') : tabs'[j] = "shell"
    BY <2>3, <2>5, <2>6
  <2>9. unseen' => tabs'[1] = "shell"
    BY <2>1, <2>3, <2>5, <2>6
  <2> QED
    BY <2>4, <2>7, <2>8, <2>9 DEF Panel
<1>5. CASE ClickToRun
  <2>1. /\ labReady /\ UNCHANGED <<tabs, labReady>> /\ tabs /= <<>> /\ activeTab' = 0
        /\ (unseen' => tabs[activeTab' + 1] = "shell")
    BY <1>5 DEF ClickToRun, Click, Switch, Looking, Panel
  <2>2. 0 < Len(tabs) /\ 0 \in Nat /\ activeTab' + 1 = 1
    BY <1>1, <2>1
  <2>3. unseen' => tabs[1] = "shell"
    BY <2>1, <2>2
  <2> QED
    BY <2>1, <2>2, <2>3 DEF Panel
<1>6. CASE UNCHANGED <<tabs, activeTab, unseen>> /\ (labReady' => labReady)
  BY <1>6 DEF Panel
<1> QED
  BY <1>2, <1>3, <1>4, <1>5, <1>6, PanelActions

-----------------------------------------------------------------------------
(* Polling *)

\* The polls in flight, one more or one less, are no more than there are slots.
LEMMA Flying ==
    /\ IsFiniteSet(InFlight) /\ Cardinality(InFlight) \in Nat
    /\ Cardinality(InFlight) <= Cardinality(Polls) /\ Cardinality(Polls) \in Nat
  BY PageAssumption, FS_Subset, FS_CardinalityType DEF InFlight

\* The same after a step.
LEMMA StillFlying ==
    /\ IsFiniteSet(InFlight') /\ Cardinality(InFlight') \in Nat
    /\ Cardinality(InFlight') <= Cardinality(Polls) /\ Cardinality(Polls) \in Nat
  BY PageAssumption, FS_Subset, FS_CardinalityType DEF InFlight

\* A poll that ends is no longer in flight.
LEMMA Landed ==
    ASSUME NEW p \in Polls, polls \in [Polls -> {"free", "sent"} \cup Answers], polls[p] /= "free",
           polls' = [polls EXCEPT ![p] = "free"]
    PROVE  /\ polls' \in [Polls -> {"free", "sent"} \cup Answers]
           /\ Cardinality(InFlight') = Cardinality(InFlight) - 1
<1>1. InFlight' = InFlight \ {p} /\ p \in InFlight
  BY DEF InFlight
<1> QED
  BY <1>1, Flying, FS_RemoveElement

\* Every step keeps what the number of terminals opened depends on.
LEMMA OpeningStep ==
    ASSUME Opening, status \in Statuses, [Next]_vars
    PROVE  Opening'
<1>1. /\ opened \in Nat /\ poll \in BOOLEAN /\ polls \in [Polls -> {"free", "sent"} \cup Answers]
      /\ (opened > 0 => ~poll) /\ opened + Cardinality(InFlight) <= peak
      /\ peak \in 0..Cardinality(Polls)
  BY DEF Opening
<1>2. ASSUME NEW p \in Polls, SendPoll(p) PROVE Opening'
  <2>1. /\ poll /\ UNCHANGED <<poll, opened>> /\ polls' = [polls EXCEPT ![p] = "sent"] /\ polls[p] = "free"
        /\ peak' = IF Cardinality(InFlight) < peak THEN peak ELSE Cardinality(InFlight) + 1
    BY <1>2 DEF SendPoll, terminals
  <2>2. opened = 0
    BY <1>1, <2>1
  <2>3. Cardinality(InFlight') = Cardinality(InFlight) + 1
    <3>1. InFlight' = InFlight \cup {p} /\ p \notin InFlight
      BY <1>1, <2>1 DEF InFlight
    <3> QED
      BY <3>1, Flying, FS_AddElement
  <2>4. PICK a \in Nat, c \in Nat : a = Cardinality(InFlight) /\ c = Cardinality(Polls)
    BY Flying
  <2>5. a + 1 <= c
    BY <2>3, <2>4, StillFlying
  <2>6. peak' \in 0..c /\ a + 1 <= peak'
    <3>1. CASE a < peak
      BY <1>1, <2>1, <2>4, <3>1
    <3>2. CASE ~(a < peak)
      BY <1>1, <2>1, <2>4, <2>5, <3>2
    <3> QED
      BY <3>1, <3>2
  <2>7. opened' + Cardinality(InFlight') <= peak'
    BY <2>1, <2>2, <2>3, <2>4, <2>6
  <2> QED
    BY <1>1, <2>1, <2>2, <2>4, <2>6, <2>7 DEF Opening
<1>3. ASSUME NEW p \in Polls, ServerAnswers(p) PROVE Opening'
  <2>1. /\ polls[p] = "sent" /\ UNCHANGED <<poll, opened, peak>>
        /\ \E answer \in Answers : polls' = [polls EXCEPT ![p] = answer]
    BY <1>3 DEF ServerAnswers, Shown, terminals, Statuses, Answers
  <2>2. polls' \in [Polls -> {"free", "sent"} \cup Answers] /\ InFlight' = InFlight
    BY <1>1, <2>1 DEF InFlight, Answers
  <2> QED
    BY <1>1, <2>1, <2>2 DEF Opening
<1>4. ASSUME NEW p \in Polls, PollLost(p) \/ PollAnswered(p) PROVE Opening'
  <2>1. /\ polls[p] /= "free" /\ polls' = [polls EXCEPT ![p] = "free"] /\ peak' = peak
        /\ \/ UNCHANGED opened /\ poll' \in {poll, FALSE}
           \/ opened' = opened + 1 /\ poll' = FALSE
    BY <1>4 DEF PollLost, PollAnswered, PollError, PollPending, PollReady, PollPaused, Handled, terminals
  <2>2. /\ polls' \in [Polls -> {"free", "sent"} \cup Answers]
        /\ Cardinality(InFlight') = Cardinality(InFlight) - 1
    BY <1>1, <2>1, Landed
  <2>3. opened' \in Nat /\ opened' + Cardinality(InFlight') <= peak'
    <3>1. PICK a \in Nat, c \in Nat : a = Cardinality(InFlight) /\ c = peak /\ c = peak'
      BY <1>1, <2>1, Flying
    <3>2. PICK b \in Nat : b = Cardinality(InFlight')
      BY StillFlying
    <3>3. b = a - 1 /\ opened + a <= c /\ opened \in Nat /\ opened' \in {opened, opened + 1}
      BY <1>1, <2>1, <2>2, <3>1, <3>2
    <3>4. CASE opened' = opened
      BY <3>1, <3>2, <3>3, <3>4
    <3>5. CASE opened' = opened + 1
      BY <3>1, <3>2, <3>3, <3>5
    <3> QED
      BY <3>3, <3>4, <3>5
  <2>4. poll' \in BOOLEAN /\ (opened' > 0 => ~poll')
    <3>1. CASE poll' = FALSE
      BY <3>1
    <3>2. CASE opened' = opened /\ poll' = poll
      BY <1>1, <3>2
    <3> QED
      BY <2>1, <3>1, <3>2
  <2> QED
    BY <1>1, <2>1, <2>2, <2>3, <2>4 DEF Opening
<1>5. CASE UNCHANGED <<opened, polls, peak>> /\ poll' \in {poll, FALSE}
  <2>1. Cardinality(InFlight') = Cardinality(InFlight) /\ opened' = opened /\ polls' = polls /\ peak' = peak
    BY <1>5 DEF InFlight
  <2>2. opened' + Cardinality(InFlight') <= peak'
    BY <1>1, <2>1
  <2>3. poll' \in BOOLEAN /\ (opened' > 0 => ~poll')
    <3>1. CASE poll' = FALSE
      BY <3>1
    <3>2. CASE poll' = poll
      BY <1>1, <2>1, <3>2
    <3> QED
      BY <1>5, <3>1, <3>2
  <2> QED
    BY <1>1, <2>1, <2>2, <2>3 DEF Opening
<1> QED
  BY <1>2, <1>3, <1>4, <1>5, PollActions

-----------------------------------------------------------------------------
(* Kinds *)

\* Steps and checks keep their kinds.
LEMMA GuideKinds ==
    ASSUME Kinds, [Next]_vars
    PROVE  /\ currentStep' \in StepNumbers /\ stepVerified' \subseteq StepNumbers /\ passed' \subseteq StepNumbers
             /\ strayed' \subseteq StepNumbers
           /\ checkBtn' \in BOOLEAN /\ nextBtn' \in BOOLEAN
           /\ checks' \in [Checks -> [state : {"free", "sent", "passed", "failed"}, step : StepNumbers]]
<1>1. /\ currentStep \in StepNumbers /\ stepVerified \subseteq StepNumbers /\ passed \subseteq StepNumbers
    /\ strayed \subseteq StepNumbers
      /\ checkBtn \in BOOLEAN /\ nextBtn \in BOOLEAN
      /\ checks \in [Checks -> [state : {"free", "sent", "passed", "failed"}, step : StepNumbers]]
  BY DEF Kinds
<1>2. CASE Navigate
  <2>1. PICK n : ShowStep(n, labReady) /\ (n \in StepNumbers \/ (currentStep < LastStep /\ n = currentStep + 1))
    BY <1>2 DEF Navigate
  <2>2. n \in StepNumbers
    BY <1>1, <2>1, PageAssumption DEF StepNumbers
  <2>3. /\ currentStep' = n /\ checkBtn' \in BOOLEAN /\ nextBtn' \in BOOLEAN
    BY <2>1 DEF ShowStep
  <2>4. UNCHANGED <<stepVerified, checks, passed, strayed>>
    BY <1>2 DEF Navigate
  <2> QED
    BY <1>1, <2>2, <2>3, <2>4
<1>3. CASE ClickCheck
  <2>1. PICK k \in Checks : checks' = [checks EXCEPT ![k] = [state |-> "sent", step |-> currentStep]]
    BY <1>3 DEF ClickCheck
  <2>2. checks' \in [Checks -> [state : {"free", "sent", "passed", "failed"}, step : StepNumbers]]
    BY <1>1, <2>1
  <2>3. checkBtn' = FALSE /\ UNCHANGED <<currentStep, stepVerified, nextBtn, passed, strayed>>
    BY <1>3 DEF ClickCheck
  <2> QED
    BY <1>1, <2>2, <2>3
<1>4. ASSUME NEW p \in Polls, PollReady(p)
      PROVE  /\ currentStep' = currentStep /\ checkBtn' \in BOOLEAN /\ nextBtn' \in BOOLEAN
             /\ UNCHANGED <<stepVerified, checks, passed, strayed>>
  BY <1>4 DEF PollReady, ShowStep
<1>5. ASSUME NEW k \in Checks, Verified(k) \/ CheckPassed(k) \/ CheckFailed(k)
      PROVE  /\ \E st \in {"free", "sent", "passed", "failed"} :
                  \E n \in {1, checks[k].step} : checks' = [checks EXCEPT ![k] = [state |-> st, step |-> n]]
             /\ passed' \subseteq passed \cup {checks[k].step} /\ stepVerified' \subseteq stepVerified \cup {currentStep}
             /\ strayed' \subseteq strayed \cup {currentStep}
             /\ checkBtn' \in {checkBtn, TRUE} /\ nextBtn' \in {nextBtn, TRUE} /\ currentStep' = currentStep
  BY <1>5 DEF Verified, CheckPassed, CheckFailed
<1>6. ASSUME NEW k \in Checks, Verified(k) \/ CheckPassed(k) \/ CheckFailed(k)
      PROVE  /\ currentStep' \in StepNumbers /\ stepVerified' \subseteq StepNumbers /\ passed' \subseteq StepNumbers
             /\ strayed' \subseteq StepNumbers
             /\ checkBtn' \in BOOLEAN /\ nextBtn' \in BOOLEAN
             /\ checks' \in [Checks -> [state : {"free", "sent", "passed", "failed"}, step : StepNumbers]]
  <2>1. checks[k].step \in StepNumbers /\ 1 \in StepNumbers
    BY <1>1, <1>6, PageAssumption DEF StepNumbers
  <2>2. PICK st \in {"free", "sent", "passed", "failed"}, n \in {1, checks[k].step} :
          checks' = [checks EXCEPT ![k] = [state |-> st, step |-> n]]
    BY <1>5, <1>6
  <2>3. checks' \in [Checks -> [state : {"free", "sent", "passed", "failed"}, step : StepNumbers]]
    BY <1>1, <2>1, <2>2
  <2>4. currentStep' \in StepNumbers /\ stepVerified' \subseteq StepNumbers /\ passed' \subseteq StepNumbers
             /\ strayed' \subseteq StepNumbers
    BY <1>1, <1>5, <1>6, <2>1
  <2>5. checkBtn' \in BOOLEAN /\ nextBtn' \in BOOLEAN
    BY <1>1, <1>5, <1>6
  <2> QED
    BY <2>3, <2>4, <2>5
<1>7. CASE UNCHANGED guide
  BY <1>1, <1>7 DEF guide
<1> QED
  BY <1>1, <1>2, <1>3, <1>4, <1>6, <1>7, GuideActions

\* The variables of the server, of the page and of the panel keep their kinds.
LEMMA PageKinds ==
    ASSUME Kinds, Panel, [Next]_vars
    PROVE  /\ status' \in Statuses /\ resumes' \in 0..MaxResumes
           /\ time' \in {"unknown", "running"} /\ labReady' \in BOOLEAN /\ erred' \in BOOLEAN
           /\ resumeBtn' \in {"hidden", "enabled", "disabled"} /\ endBtn' \in BOOLEAN
           /\ ideOpen' \in BOOLEAN /\ unseen' \in BOOLEAN
           /\ view' \in {"lab", "confirm", "complete", "ending", "pausing", "left"}
<1>1. /\ status \in Statuses /\ resumes \in 0..MaxResumes
      /\ time \in {"unknown", "running"} /\ labReady \in BOOLEAN /\ erred \in BOOLEAN
      /\ resumeBtn \in {"hidden", "enabled", "disabled"} /\ endBtn \in BOOLEAN
      /\ ideOpen \in BOOLEAN /\ unseen \in BOOLEAN
      /\ view \in {"lab", "confirm", "complete", "ending", "pausing", "left"}
  BY DEF Kinds
<1>2. CASE UNCHANGED vars
  BY <1>1, <1>2 DEF vars, server, terminals
<1>3. CASE Navigate \/ ClickCheck \/ ClickAdd \/ SwitchTab \/ CloseTab \/ ToggleIDE
  <2>1. CASE Navigate \/ ClickCheck
    BY <1>1, <2>1 DEF Navigate, ClickCheck, server, terminals
  <2>2. CASE ClickAdd
    BY <1>1, <2>2 DEF ClickAdd, AddTab, Click, Switch, server
  <2>3. CASE SwitchTab \/ CloseTab
    BY <1>1, <2>3 DEF SwitchTab, CloseTab, Click, Switch, server
  <2>4. CASE ToggleIDE
    BY <1>1, <2>4 DEF ToggleIDE, Click, server
  <2> QED
    BY <1>3, <2>1, <2>2, <2>3, <2>4
<1>4. CASE ClickToRun
  <2>1. /\ labReady /\ UNCHANGED <<server, time, erred, labReady, resumeBtn, endBtn, view>> /\ tabs /= <<>>
        /\ activeTab' = 0 /\ ideOpen' \in {ideOpen, FALSE} /\ unseen' \in BOOLEAN
    BY <1>4 DEF ClickToRun, Click, Switch, Looking, Panel
  <2> QED
    BY <1>1, <2>1 DEF server
<1>5. CASE ConfirmEnd \/ Complete \/ Dismiss \/ EndLab \/ PauseLab \/ TimeUp
  BY <1>1, <1>5 DEF ConfirmEnd, Complete, Dismiss, EndLab, PauseLab, TimeUp, Show, server, terminals
<1>6. CASE Leave \/ SessionChanges
  <2>1. CASE Leave
    BY <1>1, <2>1 DEF Leave, Statuses, Answers, terminals
  <2>2. CASE SessionChanges
    <3>1. resumes' \in 0..MaxResumes
      BY <1>1, <2>2, PageAssumption DEF SessionChanges
    <3> QED
      BY <1>1, <2>2, <3>1 DEF SessionChanges, Statuses, Answers, terminals
  <2> QED
    BY <1>6, <2>1, <2>2
<1>7. CASE ResumeLab
  <2>1. resumes' \in 0..MaxResumes
    BY <1>1, <1>7, PageAssumption DEF ResumeLab
  <2> QED
    BY <1>1, <1>7, <2>1 DEF ResumeLab, Statuses, Answers, terminals
<1>8. ASSUME NEW p \in Polls, SendPoll(p) \/ ServerAnswers(p) \/ PollLost(p) \/ PollError(p) \/ PollPending(p) \/ PollPaused(p)
      PROVE  /\ UNCHANGED <<status, resumes, ideOpen, unseen, view>> /\ time' \in {time, "running"}
             /\ labReady' \in {labReady, FALSE} /\ (erred' = erred \/ erred' = (erred \/ poll))
             /\ resumeBtn' \in {resumeBtn, "enabled"} /\ endBtn' \in {endBtn, FALSE}
  BY <1>8 DEF SendPoll, ServerAnswers, PollLost, PollError, PollPending, PollPaused, Handled, StartTimer,
              server, terminals
<1>9. ASSUME NEW p \in Polls, PollReady(p)
      PROVE  /\ UNCHANGED <<status, resumes, unseen, view, erred, endBtn>> /\ time' \in {time, "running"}
             /\ labReady' = TRUE /\ resumeBtn' = "hidden" /\ ideOpen' \in {ideOpen, FALSE}
  BY <1>9 DEF PollReady, Handled, StartTimer, AddTab, Switch, server
<1>10. ASSUME NEW k \in Checks, Verified(k) \/ CheckPassed(k) \/ CheckFailed(k)
       PROVE  UNCHANGED <<status, resumes, time, labReady, erred, resumeBtn, endBtn, ideOpen, unseen, view>>
  BY <1>10 DEF Verified, CheckPassed, CheckFailed, server, terminals
<1>11. CASE \E p \in Polls : SendPoll(p) \/ ServerAnswers(p) \/ PollLost(p) \/ PollError(p) \/ PollPending(p) \/ PollPaused(p)
  <2>1. /\ UNCHANGED <<status, resumes, ideOpen, unseen, view>> /\ time' \in {time, "running"}
        /\ labReady' \in {labReady, FALSE} /\ (erred' = erred \/ erred' = (erred \/ poll))
        /\ resumeBtn' \in {resumeBtn, "enabled"} /\ endBtn' \in {endBtn, FALSE}
    BY <1>8, <1>11
  <2>2. labReady' \in BOOLEAN /\ erred' \in BOOLEAN /\ endBtn' \in BOOLEAN
    BY <1>1, <2>1
  <2>3. resumeBtn' \in {"hidden", "enabled", "disabled"} /\ time' \in {"unknown", "running"}
    BY <1>1, <2>1
  <2> QED
    BY <1>1, <2>1, <2>2, <2>3
<1>12. CASE \E p \in Polls : PollReady(p)
  BY <1>1, <1>9, <1>12
<1>13. CASE \E k \in Checks : Verified(k) \/ CheckPassed(k) \/ CheckFailed(k)
  BY <1>1, <1>10, <1>13
<1> QED
  BY <1>2, <1>3, <1>4, <1>5, <1>6, <1>7, <1>11, <1>12, <1>13 DEF Next, User, PollAnswered

-----------------------------------------------------------------------------
(* The invariant *)

\* The page that init() leaves: no terminal, no poll in flight.
LEMMA InitInv == Init => Inv
<1> SUFFICES ASSUME Init PROVE Inv
  OBVIOUS
<1>1. Kinds
  <2>1. 1 \in StepNumbers /\ 0 \in 0..MaxResumes
    BY PageAssumption DEF StepNumbers
  <2>2. checks \in [Checks -> [state : {"free", "sent", "passed", "failed"}, step : StepNumbers]]
    BY <2>1 DEF Init
  <2> QED
    BY <2>1, <2>2 DEF Init, Kinds, Statuses, Answers
<1>2. Panel
  BY PageAssumption DEF Init, Panel
<1>3. Opening
  <2>1. InFlight = {} /\ Cardinality(InFlight) = 0
    BY FS_EmptySet DEF Init, InFlight
  <2> QED
    BY <2>1, Flying DEF Init, Opening
<1> QED
  BY <1>1, <1>2, <1>3 DEF Inv

\* Every step keeps the invariant.
LEMMA StepInv == Inv /\ [Next]_vars => Inv'
<1> SUFFICES ASSUME Inv, [Next]_vars PROVE Inv'
  OBVIOUS
<1>1. Kinds /\ Panel /\ Opening /\ status \in Statuses
  BY DEF Inv, Kinds
<1>2. Kinds'
  BY <1>1, GuideKinds, PageKinds DEF Kinds
<1>3. Panel'
  BY <1>1, PanelStep
<1>4. Opening'
  BY <1>1, OpeningStep
<1> QED
  BY <1>2, <1>3, <1>4 DEF Inv

\* The invariant holds throughout.
LEMMA Invariance == Spec => []Inv
<1> QED
  BY InitInv, StepInv, PTL DEF Spec

\* The page's state keeps its types; in particular there are never more than
\* MAX_TABS terminals, and the active one is among them, and the page opens
\* no more terminals by itself than it can have polls in flight.
THEOREM TypeCorrect == Spec => []TypeOK
<1>1. Inv => TypeOK
  <2> SUFFICES ASSUME Inv PROVE TypeOK
    OBVIOUS
  <2>1. Kinds /\ Panel /\ Opening
    BY DEF Inv
  <2>2. tabs \in BoundedSeq({"lab", "shell"}, MAX_TABS)
    BY <2>1, Bounded, PageAssumption DEF Panel
  <2>3. activeTab \in 0..(MAX_TABS - 1)
    BY <2>1, PageAssumption DEF Panel
  <2>4. opened \in 0..Cardinality(Polls)
    <3>1. PICK a \in Nat, c \in Nat : a = Cardinality(InFlight) /\ c = Cardinality(Polls)
      BY Flying
    <3>2. opened \in Nat /\ opened + a <= peak /\ peak \in 0..c
      BY <2>1, <3>1 DEF Opening
    <3> QED
      BY <3>1, <3>2
  <2> QED
    BY <2>1, <2>2, <2>3, <2>4 DEF TypeOK, Kinds, Opening
<1> QED
  BY <1>1, Invariance, PTL

\* Whenever the lab is ready, also after terminals have been closed, the lab
\* has been paused from elsewhere or a late poll is answered, there is a
\* terminal, and the active one is on the page.
THEOREM Terminals == Spec => []TerminalExists
<1>1. Inv => TerminalExists
  BY DEF Inv, Panel, TerminalExists
<1> QED
  BY <1>1, Invariance, PTL

\* Click-to-run shows the lab's terminal whenever there is one, for any order
\* of opening, closing and switching: a shell in view means the lab's terminal
\* is gone.
THEOREM RunsInView == Spec => []RunIsSeen
<1>1. Inv => RunIsSeen
  <2> SUFFICES ASSUME Inv, unseen PROVE ~Contains(tabs, "lab")
    BY DEF RunIsSeen
  <2>1. tabs[1] = "shell" /\ \A i \in 2..Len(tabs) : tabs[i] = "shell"
    BY DEF Inv, Panel
  <2>2. Len(tabs) \in Nat
    BY DEF Inv, Panel
  <2>3. \A i \in 1..Len(tabs) : tabs[i] = "shell"
    BY <2>1, <2>2
  <2> QED
    BY <2>3 DEF Contains
<1> QED
  BY <1>1, Invariance, PTL

\* The page opens no more terminals by itself than it has had polls in flight at
\* once, whatever the session does: one, if no poll outlives the interval.
THEOREM TerminalPerPoll == Spec => []NoExtraTerminal
<1>1. Inv => NoExtraTerminal
  <2> SUFFICES ASSUME Inv PROVE opened <= peak
    BY DEF NoExtraTerminal
  <2>1. PICK a \in Nat, c \in Nat : a = Cardinality(InFlight) /\ c = Cardinality(Polls)
    BY Flying
  <2>2. opened \in Nat /\ opened + a <= peak /\ peak \in 0..c
    BY <2>1 DEF Inv, Opening
  <2> QED
    BY <2>1, <2>2
<1> QED
  BY <1>1, Invariance, PTL

-----------------------------------------------------------------------------
(* Checks *)

\* Every step of the user, of a check and of a poll keeps the marks right.
LEMMA MarkedStep ==
    ASSUME Marked, [Next]_vars,
           checks \in [Checks -> [state : {"free", "sent", "passed", "failed"}, step : StepNumbers]]
    PROVE  Marked'
<1>1. /\ \A k \in Checks : checks[k].state = "passed" => checks[k].step \in passed
      /\ stepVerified \subseteq passed \cup strayed
      /\ nextBtn /\ currentStep \in HasVerify => currentStep \in stepVerified
  BY DEF Marked
<1>2. CASE Navigate
  <2>1. UNCHANGED <<stepVerified, checks, passed, strayed>>
    BY <1>2 DEF Navigate
  <2>2. nextBtn' /\ currentStep' \in HasVerify => currentStep' \in stepVerified
    BY <1>2 DEF Navigate, ShowStep
  <2> QED
    BY <1>1, <2>1, <2>2 DEF Marked
<1>3. CASE ClickCheck
  <2>1. PICK k \in Checks : checks' = [checks EXCEPT ![k] = [state |-> "sent", step |-> currentStep]]
    BY <1>3 DEF ClickCheck
  <2>2. UNCHANGED <<currentStep, stepVerified, nextBtn, passed, strayed>>
    BY <1>3 DEF ClickCheck
  <2> QED
    BY <1>1, <2>1, <2>2 DEF Marked
<1>4. ASSUME NEW p \in Polls, PollReady(p) PROVE Marked'
  <2>1. /\ UNCHANGED <<currentStep, stepVerified, checks, passed, strayed>>
        /\ nextBtn' /\ currentStep \in HasVerify => currentStep \in stepVerified
    BY <1>4 DEF PollReady, ShowStep
  <2> QED
    BY <1>1, <2>1 DEF Marked
<1>5. ASSUME NEW k \in Checks, Verified(k) PROVE Marked'
  <2>1. /\ UNCHANGED <<currentStep, stepVerified, nextBtn>>
        /\ passed \subseteq passed' /\ passed \cup strayed \subseteq passed' \cup strayed'
        /\ \/ checks' = [checks EXCEPT ![k] = [state |-> "failed", step |-> checks[k].step]]
           \/ /\ checks' = [checks EXCEPT ![k] = [state |-> "passed", step |-> checks[k].step]]
              /\ checks[k].step \in passed'
    BY <1>5 DEF Verified
  <2> QED
    BY <1>1, <2>1 DEF Marked
<1>6. ASSUME NEW k \in Checks, CheckPassed(k) PROVE Marked'
  <2>1. /\ checks[k].state = "passed" /\ UNCHANGED <<currentStep, passed>>
        /\ checks' = [checks EXCEPT ![k] = [state |-> "free", step |-> 1]]
        /\ stepVerified' = stepVerified \cup {currentStep}
        /\ strayed' = strayed \cup ({currentStep} \ ({checks[k].step} \cup passed))
    BY <1>6 DEF CheckPassed
  <2>2. checks[k].step \in passed
    BY <1>1, <2>1
  <2>3. currentStep \in passed' \cup strayed'
    BY <2>1, <2>2
  <2> QED
    BY <1>1, <2>1, <2>3 DEF Marked
<1>7. ASSUME NEW k \in Checks, CheckFailed(k) PROVE Marked'
  <2>1. /\ checks' = [checks EXCEPT ![k] = [state |-> "free", step |-> 1]]
        /\ UNCHANGED <<currentStep, stepVerified, nextBtn, passed, strayed>>
    BY <1>7 DEF CheckFailed
  <2> QED
    BY <1>1, <2>1 DEF Marked
<1>8. CASE UNCHANGED guide
  BY <1>1, <1>8 DEF guide, Marked
<1> QED
  BY <1>2, <1>3, <1>4, <1>5, <1>6, <1>7, <1>8, GuideActions

\* Next is enabled on a step with a check only after its script has passed, or
\* after the script of another step has and its answer found this one on the
\* page, however clicks, checks, late answers and polls interleave, for any
\* number of steps and of checks in flight.
THEOREM ChecksGuard == Spec => []NextNeedsPass
<1>1. Init => Marked
  BY DEF Init, Marked
<1>2. Inv /\ Marked /\ [Next]_vars => Marked'
  BY MarkedStep DEF Inv, Kinds
<1>3. Marked => NextNeedsPass
  BY DEF Marked, NextNeedsPass
<1> QED
  BY <1>1, <1>2, <1>3, InitInv, StepInv, PTL DEF Spec
=============================================================================
