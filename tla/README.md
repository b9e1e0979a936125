# A TLA+ model of the UDS lab platform

The platform gives every student a virtual machine to work in. The lab server
(`src/cmd/labserver`) turns a request for a lab into a `LabSession` custom
resource; the Lab Operator (`src/internal/controller`) turns the resource into a
disk, a VM, a Service and a NetworkPolicy through the KubeVirt provider
(`src/internal/provider/kubevirt`), reports a phase in the resource's status, and
takes everything down again when the session expires or is deleted. A session can
be paused (snapshot the disk, drop VM and disk) and resumed (restore the disk from
the snapshot). The lab page (`src/web/static/lab.html`) polls the server and walks
the student through the steps of a scenario; terminals, commands, checks and files
pass through the server to ttyd and to a small agent in the VM
(`src/vm/lab-inject.py`), and a web IDE (`src/web/ide-src/src/main.js`) edits the
VM's files. Account executives hand out demo links, which the server keeps in a
ConfigMap.

Neither server nor operator keeps state of its own: all of it is in the API
server, read and written by several parties, without locks, from copies that may
be old; and the pages act on answers to requests made some time ago. That is where
the hard behaviour of this program is, and what these modules are about.

## Inventory

| Component | State | Operations | Talks to | What is hard | What makes it correct |
|---|---|---|---|---|---|
| **Lab Operator** (`labsession_controller.go`) | work queue, informer cache (memory only) | `Reconcile`: adopt (finalizer), finalize, expire, pause in two phases, resume, converge | `LabSession` status, provider | passes work from a stale copy, stop at any failing call, are restarted anywhere; requests arrive on top of one another | an ended session holds nothing and never comes back; work survives a pause; expiry, deletion, pause and resume complete |
| **KubeVirt provider** (`provider.go`) | DataVolume, Secret, VMI, Service, NetworkPolicy, VolumeSnapshot | `Reconcile`, `Snapshot`, `SnapshotReady`, `TeardownCompute`, `TeardownDisk`, `DeleteSnapshot`, `Teardown` | Kubernetes, KubeVirt, CDI, CSI | objects that linger after their deletion; a disk or snapshot that never becomes ready | idempotent calls; a snapshot goes only after what it restores is there |
| **LabSession API** (`labsession_types.go`) | the resource | (none) | everybody | shared by server and operator | its field comments are the contract |
| **Session manager** (`manager.go`) | none; one resource per session | `Create`, `Get`, `GetActive`, `All`, `MarkStepComplete`, `Expire`, `Pause`, `Resume`, `Delete` | API server | LIST-then-CREATE, Get-then-Patch, from concurrent requests | one active session per client; no acknowledged write undone |
| **Session handlers** (`labserver/main.go`) | none | create, get, end, pause, resume, verify, start demo; proxies to the VM | session manager, VM agent | a verification takes up to 35 s between reading and writing | own sessions only; passed steps recorded |
| **Demo tokens** (`labserver/main.go`) | one ConfigMap, one key per token | create, list, record a session id (goroutine) | API server | read-modify-write of one object by requests and unsupervised goroutines | no acknowledged token lost, no session on the wrong token |
| **Lab page** (`lab.html`) | poll and timers, tabs, current and verified steps | poll, check, navigate, tabs, end, pause, resume | server | every `await` lets other callbacks in | Next only after a pass; one automatic terminal; readiness shows up |
| **CSM dashboard, admin views** | none | aggregation of step records | session manager | (none) | counts match the records |
| **Terminal proxy** (`proxy.go`) | two goroutines, two connections and a channel per WebSocket | gate, dial, upgrade, copy, report, close | browser, ttyd | either end goes at any time; a slow receiver blocks a loop; an error nobody waits for | messages whole and in order; both connections closed and both goroutines ended |
| **Access rules** (`clientID`, `ownsSession`, demo cookie) | the browser's cookie, the session's owner | find mine, create, start a demo, act on a session | session manager, authentication proxy | a token, a cookie and a demo link may name three clients; requests overlap and answers get lost | no stranger admitted; admitted where one is sent, stale front pages aside |
| **VM agent** (`lab-inject.py`) | one request at a time, a queue of connections | type a command, check a step, navigate, list services, read and write files | server, tmux, browser, kubectl | the server gives up earlier than the agent; one stuck request holds up all | commands in order, on lines of their own; callers released |
| **Web IDE** (`ide-src/src/main.js`) | path, dirty mark, editor model, tree, title bar, button | navigate, toggle, open, edit, save | agent through `ideFileProxy` | every `fetch` lets clicks, keys and other answers in | no file gets another's text; no edit lost unasked; the display tells the truth |
| **Sizing, scenarios, operator config** | none | pure resolution functions | (none) | defaults and fall-backs | a valid scenario resolves to one size and image |
| **Cloud-init rendering, other pages, images, packaging** | various | templating, rendering | (none) | (none) | outside these modules, but for the requests of front page and demo page (`AccessRules`) |

## Modules

| Module | Models | Extends |
|---|---|---|
| `LabSession` | the resource's fields that some decision reads | |
| `KubeVirtProvider` | the provider's calls; the cluster behind them (external) | |
| `LabSessionReconciler` | one session: operator, server's writes, informer, work queue, faults | `LabSession`, `KubeVirtProvider` |
| `SessionLifecycle` | abstract: what the operator promises about a session | |
| `SessionProperties` | the claims about the operator, its fairness, the refinement mapping | `LabSessionReconciler` |
| `ReconcilerInvariant` | the inductive invariants `IInv`, `SnapshotInv` and `WorkInv` with `ConvergesSafely` | `SessionProperties` |
| `ReconcilerProofs` | theorems about the operator | `ReconcilerInvariant` |
| `MCReconciler` | instance for TLC | `ReconcilerInvariant` |
| `SessionManager`, `MCSessionManager`, `SessionManagerProofs` | handlers and `Manager` methods as interleaving requests on several sessions, theorems | |
| `DemoTokenStore`, `MCDemoTokenStore`, `DemoTokenProofs` | the ConfigMap of demo links, its concurrent writers, theorems | |
| `LabPage`, `LabPageProofs` | the lab page's callbacks, theorems | |
| `WebIde`, `MCWebIde`, `WebIdeProofs` | the IDE's callbacks, its requests and the files in the VM, theorems | |
| `TerminalProxy`, `MCTerminalProxy`, `TerminalProxyProofs` | one proxied WebSocket: handler, copy loops, both peers; theorems | |
| `VmAgent`, `MCVmAgent`, `VmAgentProofs` | the agent's queue and the server's calls with their timeouts, theorems | |
| `AccessRules`, `MCAccessRules`, `AccessProofs` | identities, cookies, ownership, overlapping requests of several browsers; theorems | |

Definitions marked *(seeded fault)* are not part of any specification: each is a
plausible slip in the definition that follows it, used to see that a property
notices it.

### LabSessionReconciler

`cr` is the resource in the API server, `cache` the informer's copy, `ls` the copy
the running pass works from. `fresh` says which copies are at the current
resourceVersion. That is all the operator's `Update` calls depend on
(`AddFinalizer`, `RemoveFinalizer`, else `Conflict`); status writes are merge
patches, which are accepted from any copy and send only the fields that differ
from it (`Merge`). A response replaces `ls`, as in controller-runtime.

`pc` is the next API call of the pass, `job` what the pass decided to do, by the
order of the branches of `Reconcile`: `StartFinalize`, `StartAdopt`,
`StartExpire`, `StartSuspend` and `StartPark` (the two phases of a pause),
`StartUnpark`, `StartConverge`/`StartUnresolved`, `NothingToDo`. Each API call is
one action, and everything else may happen between two of them.

The queue is `queued` (the session waits for a worker) and `timer` (a delayed
requeue; it only ever brings a pass forward). `Watch` delivers the current
resource: an intermediate version is seen only if `Watch` happens between the two
writes, and not late, after the second one. `cache` may lag for as long as it likes,
so old versions are seen, but the one before the current is not delivered in its
place. `Resync` is controller-runtime's periodic resync, 10 hours unless
configured, and this program does not configure it.

`Lingers` is the set of kinds whose deleted objects can still be read for a while.
That covers objects that really terminate slowly (a VMI that shuts down) and
caches of children that lag. A child that has been created and is not visible yet
makes the next `CreateOrUpdate` fail with AlreadyExists: that is `CallFails`.

A failed call is lost before its effect. A call that took effect and whose answer
was lost is a `Restart` right after it. There is one worker, as configured; two
operators overlapping in a rollout are not modelled. The resource cannot vanish
under a pass that patches it, because such a pass runs only while the finalizer is
in place. The theorem `Inductive` includes that fact.

The data is reduced to what decisions read: a time is `ttl` or `now` together with
the flag `ttl` (ahead, passed), a name is empty or not, the outcome of resolving
the scenario is `config`. Units of `work` on `disk`, and in the snapshot
(`snapData`), stand for the student's files.

### SessionManager

A request is a record in `call` with its own program counter: the LIST and CREATE
of `Manager.Create`, the handler's `Get`, the VM agent's check, the manager's `Get`
and `Patch`. Patches are computed from the copy read (`seen`); a field that already
had the wanted value is not sent, a list is sent whole. The operator is seen only
through the phases it reports, the moves `SessionLifecycle` allows. `Provisioning`
stands for the empty phase and Running too, which the server does not tell apart.
Ownership is equality of clients. A call can fail before or after its effect;
`Manager.Get` answers "not found" for any error.

`Overlap` is the set of clients that may have several requests in flight. The operator
converges a Failed session again and may report it Ready, as the code does; only Expired
is for good. The history variable `overlooked` has the sessions that were Failed when a
LIST of their client found nothing to block a Create.

### DemoTokenStore

`stored` and `record` are the ConfigMap, `creator[t]` the request that creates
token `t`, `writer[d]` the goroutine that records demo session `d`. Patches touch
one key. The first two creations may race for the ConfigMap's creation; the loser
answers 500. A restart loses requests and goroutines in flight. `before[d]` is a
history variable: the sessions whose goroutines were over when `d` was started.
`RecordIsCurrent` is about the goroutine nobody waits for (`main.go:1016`): of
goroutines that overlap the last to write stays on record, but none brings back a
session that was over before the recorded one began.

### LabPage

JavaScript callbacks are atomic between awaits. `polls` and `checks` are requests
in flight; their answers are handled in any order, on the page as it is then. An
expired session is shown as provisioning, as the page does. `Polls` holds as many
elements as polls can be in flight at once: `setInterval` sends one every 4 s whether or
not the last was answered. The user moves between the steps at will, also while a step
is being checked. A poll may be answered with a transient error, after which the page
never polls again (`erred`). `tabs` holds `lab` for the first terminal and `shell`
for the others; `ToggleIDE` covers them with the IDE pane, `ClickToRun` sends a
command to the agent, which types it into the lab's terminal, and `unseen` says that the
user was looking at another terminal then. The session also changes from another tab,
which may pause and resume it.

Two history variables say what the code does let through, so that the properties can be
about everybody. `peak` is the most polls that have been in flight at once: the page opens
a terminal for every answer of ready, so two overlapping polls may open two, and
`NoExtraTerminal` says it is never more than `peak`. `strayed` has the steps that were
marked as verified by the answer to another step's check (`lab.html:458`), and
`NextNeedsPass` says that this is the only way round a check. Two simplifications keep the
model small: a new poll takes a fixed one of the free slots (they are interchangeable),
and nothing is followed after the page has been left.

### WebIde

A request in `req` is sent, served in the VM and handled by the page, as three
steps; requests are served and answered in any order, and may fail, a save also
after it has been carried out. `OpenFile`/`FileArrives`, `SaveFile`/`SaveDone` and
`NavigateTo` or `ToggleDir`/`ListingArrives` are the code before and after an
`await`. A text, in the editor, in a request and on `disk`, is known by the file it is
of and the last edit in it; that tells whose text is written where, which edits are
lost, and in which order saves were carried out. Ctrl+S works while the button is disabled, so saves overlap. Opening the file that is
already open makes Monaco's `createModel` throw ("Cannot add model because it
already exists", `ide-assets/index-B0jeqYpn.js:588`): `FileArrives` skips the rest
then, as `openFile` does. The tree is two levels deep, a listing may be appended to
a tree that has been left. A `user` is hasty in one of two ways:
types while opens and saves are in flight, or roams the tree while listings are.

### TerminalProxy

The handler goes through gate, dial and upgrade, starts a copy loop for each side
and waits for the first error; returning runs the deferred closes. `loop[s]` reads
from side `s` and writes to the other. `Capacity` is the channel's, 2 in the code
(`make(chan error, 2)`). `Window` is what the network takes before the receiver
reads: a loop that writes to a full one waits, until that connection breaks or is
closed. Peers go at any time.

### VmAgent

The agent is Python's `HTTPServer`: single-threaded, so `Accept` needs that no
request is being served. Time is in units of 5 s. `Patience` is the server's timeout
(7 for a check, 2 for services, 1 for a command and for navigation), `Limit` the
agent's (6, 2, and 0 where it has none to speak of). When both run out in the same
unit either may be first. A request the server has given up stays in the queue and
is carried out. A command is two runs of tmux whose exit status nobody looks at
(`subprocess.run` without `check`): the keys may be lost and Enter still follows, and
an Enter may be lost and leave the command on the line, where the next one is typed
behind it. `line` holds the commands on the unfinished line and `lost` those whose
Enter was lost; `TypedInOrder` says that nothing else ever shares a line. A failing browser makes `cdp_navigate` hang: `urlopen` without a
timeout, or a handshake loop that reads nothing for ever.

### AccessRules

`bearer` is what the authentication proxy puts in the header: nothing, a token with
an email or one without. `cookie` is the browser's, sent with a request and replaced
when an answer arrives, so overlapping requests carry old ones. The hashes of
`emailClientID` and `demoClientID` are taken to be injective. `Manager.Create` is
atomic here; `SessionManager` takes it apart. Users of `orderly` browsers wait for
an answer before they do anything else (so no page that waits for one is left either)
and give their own email with a demo link; all others are covered by `NoStranger` only.

`page` is `activeSession` of `index.html`: empty when the page is loaded (`Load`), set by
the answer of `/api/sessions/me`, which sends the browser nowhere. The browser is sent
(`last`) by a new session, by the demo page, by the link "Resume Lab" (`ResumeLink`), or by
a 409 while `activeSession` is set (`GoToShown`). The last two use what the page has known
since it was loaded. If a demo link, opened in another tab, has replaced the cookie since,
the browser goes to a session that its cookie no longer opens. The history part of `page`
(the cookie under which the page learnt of the session) and `astray` keep track of that;
`AdmittedWhereSent` excepts it for browsers known by their cookie and for no others. A
browser has one front page; a demo link is opened beside it.
`MCAccessRules` gives TLC a view: what the properties and later steps never read again
(a request's number that names no uuid, `page`, `last` and `astray` of browsers that are
not orderly) does not tell two states apart.

## Runs

Passing runs:

| Run | Shows | Bounds |
|---|---|---|
| `Lifecycle` | `Released`, `FinalizerFirst`, the inductive `IInv` (which has `TypeOK` as a conjunct), `KeepsPromise` (the reconciler implements `SessionLifecycle`); `WorkKept` (work survives one pause and resume); `PausedSnapshotGoes` (expiry of a paused session leaves no snapshot) | 2 requests, 1 fault (any call failing, VM crash, restart), 1 unit of work, DataVolume lingers, configuration valid or not |
| `Termination` | `TTLEnforced`, `DeleteCompletes` | 1 request, any one call failing, VMI lingers |
| `PauseResume` | `PauseCompletes`, `ResumeCompletes`, `DropsForRunningVM` (the snapshot goes only for a restored disk, the old VM aside) | 2 requests, VMI and DataVolume linger |
| `Sessions` | `TypeOK`, `OneActive`, `EndIsFinal`, `ProgressKept` | 2 clients (one with overlapping requests), 2 sessions, 2 steps, 3 requests, 2 reports, 1 fault |
| `DemoTokens` | `TypeOK`, `AckedIsStored`, `RecordIsCurrent` | 3 tokens, 3 sessions, 2 faults |
| `LabPage` | `TypeOK`, `NextNeedsPass` (the only way round a check is the known one), `NoExtraTerminal`, `TerminalExists`, `RunIsSeen`, `ReadyShowsUp` | 2 steps, both with checks, 2 tabs, 2 polls and 1 check in flight, 1 resume (of this page or another tab) |
| `WebIde` | `TypeOK`, `OwnText` (no file gets another's text), `CalmEditsKept` (no edits lost unasked), `BarIsTrue` (title bar, highlight and unsaved mark), `SaveOffered`, `TreeIsOfPath` | 2 requests in flight, 2 files and 3 directories on two levels, 2 edits |
| `TerminalProxy` | `InOrder`, `ClosedOnReturn`, `HangUp` | 3 messages each way, network window of 1, the code's channel of 2 |
| `VmAgent` | `EnoughPatience`, `TypedInOrder`, `CallerReleased`, `AgentGetsToIt` | 3 requests of any kind, the code's timeouts |
| `Access` | `TypeOK`, `NoStranger`, `AdmittedWhereSent` | 2 browsers, 2 accounts, 1 demo link, 2 sessions, 4 requests, 2 of them in flight |

Why the bounds are enough for the questions asked. Two requests are the least that
lets one interrupt the other's work (pause then end, pause then resume), and one
fault falls on every call in turn. A single session suffices for the operator,
whose sessions share nothing but the worker (see the name-prefix hazard below for
the exception). In `Sessions` three requests are a session's creation and two that
overlap on it: two verifications of a step, or an end between the read and the
write of a pause. Its two reports are a failure and a return. Three tokens give two racing creations and a bystander whose
record must survive. In `WebIde` two requests are the least that overlap (two opens, an
open and a save, two listings), two files the least that can be mixed up, and two
edits tell a saved text from a later one; larger trees and more requests are covered
by the theorems. A window of one message makes both loops block with three messages
on the way. Three requests to the agent are one being served, one waiting and one
behind it. Two browsers and two accounts are owner and stranger; four requests
are the least with which a front page leads astray on 409 (a session, the page loaded, a
demo link, a card), a state the run reaches. The theorems below do not depend on any bound. The symmetries
used (requests and session ids; tokens and demo sessions; browsers and accounts) permute values no action and no invariant
tells apart, and no temporal property is checked with them.

Runs that show a disagreement between a comment of the repository and the code
(each is a finding in `PROJECT.json`, with both lines):

| Run | Claim | What happens |
|---|---|---|
| `StaleSnapshot` | resume "restores exact disk state at pause time" | a second pause can be parked on the first one's snapshot: the work in between is lost |
| `ConcurrentCreate` | one active session per client, "TOCTOU-safe" | two overlapping creates both succeed |

Further disagreements met while modelling, most of them shown by the models under
other parameters, without a run of their own:

- *Paused: "VM and disk torn down"* (`labsession_types.go:23`). A pause while a resumed
  session is still provisioning finds `SnapshotName` set, skips phase 1 and leaves the
  VM, Service and NetworkPolicy in place (three requests; same cause as `StaleSnapshot`).
- *The snapshot "is no longer needed" once the VM runs* (`labsession_controller.go:168`).
  With a VMI that lingers the VM seen running may be the old one, shutting down: the
  snapshot goes before the disk is cloned from it, and the work with it, after one pause
  and one resume. `DropsForRunningVM`, checked in `PauseResume` where VM and disk linger,
  excepts just that state (the VM is on its way out, or gone since) and says that the snapshot is
  never dropped in any other without a restored disk. `WorkKept` and `SnapshotSuperseded`,
  which has no such exception, fail there; `Lifecycle`, which checks `WorkKept`, lets only
  the DataVolume linger. What remains then of a resume is a DataVolume waiting for a
  snapshot that is gone (`Unrestorable`), which `ResumeCompletes` excepts.
- *TTL is enforced "promptly"* (`labsession_controller.go:242`). A Paused session has no
  timer; only `Resync` looks at it.
- *Ready: "ServiceDNS is set"* (`labsession_types.go:17`). The first phase of a pause
  clears it and leaves Ready.
- *"Teardown removes everything Reconcile created"* (`provider.go:34`): not the
  cloud-init Secret, which an Expired session keeps (`Released` is about the rest).
- *Failed is "a terminal error"* (`labsession_types.go:21`). The operator retries a Failed
  session and may bring it back beside one created meanwhile. The `Sessions` run reaches
  that with its two reports; `OneActive` excepts the sessions passed over in this way
  (`overlooked`) and says that there is no other second session.
- *Resume "recreates the VM from the snapshot"* (`labsession_types.go`). Pausing before
  there is a disk takes a snapshot of nothing, which is then waited for, for ever.
- *Expiry tears down "any snapshot"* (`labsession_controller.go`). One whose name the
  pass's copy does not show yet stays. `PausedSnapshotGoes` is what does hold,
  where deleting a VolumeSnapshot takes no time (see Proofs).
- *`CompletedSteps` "records each step that has passed"*. Overlapping verifications
  overwrite each other's list; `ProgressKept` holds for the client whose requests do
  not overlap.
- *"Next" is blocked until the check passes* (`lab.html`). The
  answer to one step's check unlocks the step shown by then (`strayed`); `NextNeedsPass`
  holds with that exception.
- *"Discard unsaved changes ...?"* (`main.js:149`). Whoever types while a save or an open is
  in flight may lose the text without that question: the answer clears `dirty`.
  `EditsKept` fails for the typing user; `CalmEditsKept` is what holds.
- *Listings* (`main.js:57`) of two navigations, or of two clicks on a directory, are
  appended to one another: `TreeIsOfPath` fails for the roaming user.
- *Saves are not ordered* (`main.js:179`): of two saves of a file the older text may be
  written last, while the title bar shows no unsaved changes. The model reaches it
  (`disk` then holds an earlier edit than the editor); no property excludes it.
- *The unsaved mark* (`main.js:185`, `updateBar`). Text typed while a save is on its way
  loses its mark when the save is answered, so `BarIsTrue` promises the mark for unsaved
  text only to a user who does not type while a request is on its way; that the bar
  names the right file and shows `dirty` holds for everybody (`BarFollows`).
- *"Save failed"* (`main.js:190`) is wiped by the timeout of an earlier save (`main.js:188`). Read
  off the code: the status line is not modelled.
- *A proxied file request has no timeout* (`ideFileProxy`): while the agent is stuck in
  `cdp_navigate`, Save stays disabled and the tree empty. A stuck agent also answers no
  check and no command.
- *"Always target Terminal 1"*, so that "the user sees the injection" (`lab.html:247`). Terminal 1 can be closed and never comes back; and
  it may be active behind the IDE. The command then runs unseen.
- *A transient error* in answer to a poll ends polling: the page stays as it is.
- *Lock-outs.* The two first requests of a browser without a cookie get different ids and
  the session may belong to the one that is dropped; a token without an email can
  create a session and not enter it; an account is refused in a session that a visitor
  without one created under the same demo link.
- *409, "you already have an active lab session"* (`main.go:461`). The page goes to the one
  it was told of when it was loaded (`index.html:102`): by then a demo link may have replaced the cookie, and the browser
  is sent to a session it is not admitted to, with one request at a time.
- *"open first tab"* (`lab.html:223`). With two polls in flight two answers of ready open a
  terminal each; `NoExtraTerminal` is what holds.
- *"Poll will re-enable terminal when VM is ready"* (`lab.html:535`). The paused branch has
  stopped the poll and `resumeLab` does not restart it, so `ReadyShowsUp` has to require
  that the poll is still set, and to except an answer of paused that is handled after
  another tab has resumed the lab.

The passing runs and these belong together: `WorkKept` holds for one pause and
resume, and for any number by an unhurried user (`WorkSurvives`), and `StaleSnapshot`
shows what breaks it; `OneActive` holds for the client
whose requests do not overlap, sessions that return from Failed aside, and `ConcurrentCreate` shows the other one.

Deadlock is checked in `WebIde`, a page that is never left. It is not checked where
things end for good: a deleted session, a set of answered requests, a closed
terminal, a lab page that has been left.

## Fairness

`FairSpec` of the operator assumes weak fairness of its goroutine (`Operator`), the
informer (`Watch`), delayed requeues (`TimerFires`) and the cluster's controllers
(`ClusterStep`). That is what the runtime and controller-runtime provide: a queued
key is handled, an event is delivered, `AddAfter` fires. `TimedSpec` adds that time
passes (`TtlPasses`) and that informers resync (`Resync`). `TTLEnforced` needs the
latter for paused sessions, which have no timer of their own.
Nothing is assumed of users, and no fault has to happen or to stop happening beyond
its bound.

`FairSpec` of the page assumes that the interval fires, that callbacks run, and that
the network does not lose every poll (strong fairness of `ServerAnswers`).

`FairSpec` of the proxy assumes that handler and loops run, as goroutines do, and that
a peer that is there reads what it is sent: ttyd and a browser do. No peer has to send
anything, or to go.

`FairSpec` of the agent assumes that time passes (`Tick`), that the server's timeouts
fire (`GiveUp`) and that the agent's process runs (`Work`). A script or kubectl need
never end by itself: the agent's own limit ends it. Nothing is assumed of a failing
browser.

## Proofs

`tlapm` checks the eight `...Proofs` modules, for every value of the constants, from
the named assumptions on them. Those say that bounds are natural numbers, that sets a
program cannot do without are not empty (clients, the steps of a lab), that markers
(`NoSession`, `None`) are no ids, that files are no directories and `Entries` says what
each directory holds, that `Lingers` is a set of kinds and `Configs` a nonempty set of
outcomes. Two assumptions are facts about the code's constants: a page has at least one
step and room for one terminal (`MAX_TABS` is 4), and the agent's limit for a check is
below the server's timeout (30 s in `lab-inject.py`, 35 s in `main.go`). Every inductive
invariant below was checked by TLC before it was proved: on the instance of its run, and
`WorkInv`, which is about unhurried users only, with their steps alone.

**Operator.** `TypeCorrect` is inductive by itself. `Released` (an Expired or
vanished session holds nothing and nothing comes back) is not. A pass works from a
copy in which the session may still be alive, so one must know why no such pass can
be running once the session has ended. `IInv` adds:

- `CacheIsOld`: the facts the operator decides on (deletion, an early end, the
  deadline) are never undone, so an old copy errs in one direction only;
- `ExpiryWasSeen`: Expired is reported only by the operator, and only after its own
  cached copy was due, so a later pass cannot think the session alive;
- `JobStillHolds` and `JobAtStep`: a pass that treats the session as alive runs only
  while the resource is there, with its finalizer, and is not Expired;
- `TornDownSoFar`: how much is gone at each call of a teardown.

`Inductive` proves `Spec => []IInv`, action by action: calls that only delete are
covered by one lemma (`CoreUnderShrinking`), calls of a live pass by `CoreWhileAlive`,
teardown calls by `CoreInTeardown`, starts and ends of passes by `CoreAtStart` and
`CoreAtReturn`. `SessionsAreReleased` and `FinalizerGuards` follow.
`OperatorKeepsPromise` proves that the reconciler implements `SessionLifecycle`:
every step is a `Report`, `Acquire`, `Release`, `Expire`, `Vanish`, `FallDue` or a
stutter. A `Report` needs that the phase being replaced is not Expired, an `Acquire`
that the session has not ended: both are conjuncts of `IInv`.

`PausedSnapshots` proves `PausedSnapshotGoes` from a second invariant, `SnapshotInv`,
which says what each copy of the resource records about the snapshot. No copy records a
snapshot that the resource has forgotten while there is one (`RecordKept`). A pass that
takes a snapshot found none on record and the session not yet Paused
(`SuspendsUnrecorded`), a pass that reports Paused has seen the one on record
(`ParksOnRecord`), and while the session is Paused no cached copy is older than that
record (`PausedOnRecord`). The theorem has the hypothesis that VolumeSnapshots do not
linger. It cannot be dropped: with a lingering snapshot, three requests and one fault
TLC finds that a park pass takes the snapshot just deleted after a resume for the one it
waits for and reports Paused with nothing on record; a later pass, from a copy older
than that report, takes another snapshot, and an expiry from a copy that does not show
it leaves it behind. `Lifecycle` checks the property with `DataVolume` as the only kind
that lingers.

`WorkSurvives` and `SnapshotWaits` prove `WorkKept` and `SnapshotSuperseded` for a user who
is `Unhurried`: no pause while the snapshot of the last one is still there, no resume
before the session is Paused and its old VM gone. The code asks none of this of the user,
and each of the three conditions is needed: without it TLC finds `WorkKept` violated, with
four requests and one fault. `StaleSnapshot` is a pause that comes too early; a VM that is
still shutting down when the session is resumed is taken for the new one (see the
disagreements above). Nothing else is restricted: any number of requests, stale copies,
failed calls, VM crashes and restarts, and every kind of object may linger.
The invariant is `WorkInv`. Until the operator has seen the session's end (`Unseen`),

- the work is on a bound disk or in a usable snapshot, a DataVolume without a disk is to
  be restored from that snapshot, and a VM is up only on a bound disk (`WorkIsSomewhere`);
- a VM on its way out belongs to a session that stays paused, so no converging pass takes
  it for one that is up (`GoingVM`), and a paused session with a snapshot has no VM that
  could change the disk behind it (`AtRest`);
- a copy that still says paused is of a session already reported Paused (`PausedCopies`),
  whose work is in the snapshot (`InSnapshot`); hence an old copy cannot start a second
  snapshot or delete a restored disk;
- while it is being restored every copy records the snapshot (`RestoresOnRecord`), so
  that a disk created from an old copy is not created from the golden image;
- `PassHasSeen` keeps what a pass checked before the call that relies on it, across the
  calls in between: a usable snapshot before the disk goes, a bound disk before the
  snapshot goes.

A pass that converges may still be running when the session ends, and it goes on:
`ConvergesSafely` carries what it has seen over that point. `StepWork` shows, action by
action, that `WorkInv` is preserved, from one lemma per call and a few frame lemmas;
`StepConverge` does the same for `ConvergesSafely`.

**Demo tokens.** `TokensAreKept` and `SessionsAreRecorded` rest on an invariant that
adds that a demo session is started once, with a single token that has a record
(`StartedOnce`), that the request that creates a token is over once there is a record
(`CreatedOnce`: it never resets one that names a session), and that a goroutine that was
over stays over (`StaysOver`: it writes no more).

**Web IDE.** `NoMixUp` (no file ever holds another's text), `TitleBar` and `TypeCorrect` hold for any tree and any number of requests in flight. `OwnText` alone is
not inductive: what is written was put into a request long before, from an editor that
may show another file by now. The invariant adds `Paired`: `currentPath` is always the
path of the editor's model, whose text is that file's, and every request carries the
text of its own path (`Carries`). It is preserved because `openFile` sets path and model
after its last await, and `saveFile` takes path and text before its first; a step in
which only one of them changed would break it.

The other three invariants concern users who wait, and speak about requests in flight.
`AskedBeforeLost` needs `CalmInv`: an open on its way means that the user has agreed to
lose what was unsaved, a save on its way carries the text in the editor, and once it has
been carried out nothing is unsaved. Only then is it right that the answer clears
`dirty`. `TreeOfPath` needs `TreeInv`: one listing at a time is on its way, for an empty
tree or for a directory without children, so nothing is appended twice. `SaveAgain` is
inductive by itself; its proof is a look at every way in which a save can end.

**Session manager.** Nothing is locked, so the invariant says for each request what is
still true of the session it read (`Sound`). Its parts: `Routed` (a request past creation
is about a session that exists), `Owned` (a verification past the ownership check is its
client's), `Fresh` (the list a verification will write back is still the list on record,
if its client's requests do not overlap), `Ended`, `Recorded`, and `Alone` (such a client
has one request in flight). `EndsForGood` then holds because no patch but that of an end
sends `expiresAt`; `StepsStay` because a patch of `CompletedSteps` is computed from a list
that nobody else can have changed. `OneSession` needs in addition that what Create's LIST
saw is true until its CREATE (`NoneYet`), of every session that is active or may come back
(`Alive`: stored and not Expired): each was passed over as Failed. `OneAlive` says of these
what `OneActive` says of the active ones.

**Access.** The argument is where client ids can be. A demo id is only with browsers that
opened the link with its email, the id of an account is in no cookie, and everything that
carries a given uuid (a cookie, a request, an answer on its way, a created session) leads
to one browser (`OneBrowser`). `Private` follows. `Admitted` needs `Admission` on top: for
a browser with one request at a time, the answer under way shows a session that its cookie
will open (`AnswerShown`), the front page shows one that the cookie of that time opened
(`PageShown`), and the last place it was sent to is for the cookie it has now, unless it
went astray (`LastShown`).

**VM agent.** `CommandsInOrder` is an action property. It holds because requests get
their numbers as they are made, the queue holds them in that order, the one at work is
older than all that wait, what a request has still to type is later than all that was
typed, and what is on the line is the command of the request that will send Enter next,
or has lost its own (`Ahead`). `ChecksInTime` needs that server and agent count the same time: for
a check that did not have to queue, what is left of the server's patience and what the
script has used add up to the timeout (`InTime`).

**Terminal proxy.** `Ordered` follows each message by its number. What a side has
received, what is on the way to it, what the loop holds and what it has not read yet are
consecutive runs of the numbers the other side used (`Chain`). Reading, writing, sending
and receiving move a border between two runs; four lemmas on sequences show that the
chain stays one. `Closed` needs what is open at each point of the handler
(`Connections`): before the dial nothing is.

**Lab page.** `Terminals` and `RunsInView` rest on `Panel`: only the first terminal can be
the lab's, there is none before the lab is ready, and the active one is among those that
are left. `TerminalPerPoll` rests on `Opening`: the terminals opened so far and the polls
in flight are together no more than `peak`, because no poll is sent once one was opened. `ChecksGuard` rests on `Marked`: a step that counts as verified has passed or
is one of `strayed`, and an answer of passed on its way is to a step that has passed.
Neither has a hypothesis on the user or on how long answers take.

**Only model-checked:** all liveness (out of the prover's reach, as is ENABLED). For users
in a hurry `WorkKept` is checked within the bounds of `Lifecycle`, and holds there only
(`StaleSnapshot` is the counterexample beyond them); `SnapshotSuperseded` is proved for the
unhurried user and has no run, `DropsForRunningVM` is checked for all.

## Not modelled

Object names, labels, ports, quantities, the status message and all texts: no
decision depends on them. Token signing and parsing. `isAE` and `requireAE`, which
match a group or an address per request and keep no state. Sizing, scenario and image
resolution and the dashboard's aggregation: pure functions without interleavings.
Cloud-init templates, images, charts and scenarios: no run-time state of the platform.
Two operators overlapping in a rollout. In the IDE, `fileIcon` and `getLang` (tables of
badges and languages), the status line and the editor's options.

Everything under `src/web/static/ide-assets` is build output and third-party code
(Monaco, its language modes and workers, minified): about nine tenths of the
repository's JavaScript by lines. It is modelled only as far as `main.js` uses it, by
the editor's model. The repository's own code is Go, the pages' inline scripts, the
Python agent and `main.js`.

Hazards known and not covered by a property:

- clearing the snapshot name fails after the snapshot was deleted, and a pause comes
  before the retry;
- two sessions whose ids share their first eight characters share object names;
- status fields are cleared and set in different passes;
- a write that fails in the VM after the file was truncated;
- commands of quick clicks, and saves of one file, are not ordered by anything;
- the server's and the agent's 10 s for the services run out together.

## Plan

Done, in this order: the operator with its abstract specification and proof; session
manager; demo tokens with proofs; lab page; web IDE with proofs; terminal proxy; VM
agent; access rules; theorems for all of these, every safety property included. Left:

1. `DemoTokenFormat`: sanitising, joining and splitting of a token's fields;
   validation accepts what generation produced and nothing else.
2. Sizing, scenario and image resolution, and the dashboard's aggregation as
   operators, checked against reference definitions.
