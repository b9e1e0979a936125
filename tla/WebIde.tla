------------------------------- MODULE WebIde -------------------------------
(***************************************************************************)
(* The web IDE (web/ide-src/src/main.js): a file tree and a Monaco editor  *)
(* over the files of the VM.                                               *)
(*                                                                         *)
(* Every fetch is a point where other callbacks run.  A request is sent,   *)
(* served in the VM and handled by the page, and the user types, clicks    *)
(* and saves in between; requests are served and answered in any order.    *)
(***************************************************************************)
EXTENDS Naturals, Sequences, FiniteSets

CONSTANTS
    Files, Dirs,  \* paths
    Entries,      \* [Dirs -> SUBSET (Files \cup Dirs)]: what is in a directory
    Home,         \* /root
    ROOT_NOISE,   \* directories left out of the top level
    None,         \* null
    Reqs,         \* requests that can be in flight at once
    MaxEdits      \* bound on the texts typed in the editor

ASSUME PathAssumption ==
    /\ Home \in Dirs /\ ROOT_NOISE \subseteq Dirs
    /\ Entries \in [Dirs -> SUBSET (Files \cup Dirs)]
    /\ None \notin Files \cup Dirs /\ Files \cap Dirs = {}
ASSUME BoundAssumption == MaxEdits \in Nat /\ IsFiniteSet(Reqs)

VARIABLES
    disk,         \* [Files -> the text it holds in the VM]
    model,        \* the editor's model: its path and its text
    currentPath, dirty,
    bar,          \* what the title bar shows: a path, and the unsaved mark
    saveBtn,      \* the Save button is enabled
    active,       \* the file whose item in the tree is highlighted
    treePath,     \* the path in the input above the tree
    root,         \* the listings in the tree, each a directory
    kids,         \* [index in root -> [Dirs -> its node's state]]
    req,          \* [Reqs -> the request]
    edits,        \* texts typed so far
    unsaved,      \* the editor's text has never been in the VM, and the user
                  \* has not agreed to lose it
    user          \* does not wait for requests when typing, or when roaming
                  \* the tree; a user who always waits is covered by both

editing == <<model, currentPath, dirty, bar, saveBtn>>
tree == <<treePath, root, kids>>
text == <<edits, unsaved>>
vars == <<editing, active, tree, text, disk, req, user>>

\* A text is known by the file it is of and the last edit in it, 0 for the text
\* that was in the VM when the page was loaded.
Text(f, n) == [file |-> f, edit |-> n]
Texts == [file : Files \cup {None}, edit : 0..MaxEdits]

\* An item of a directory: its children are shown; the listings among them,
\* empty ones aside.
Nodes == [open : BOOLEAN, filled : Nat]
Folded == [open |-> FALSE, filled |-> 0]
Toggled(node) == [open |-> ~node.open, filled |-> node.filled]
Filled(node) == [open |-> node.open, filled |-> node.filled + 1]

\* A listing's destination: the tree itself, the children of its directory's
\* item in root[box], or an item that is no longer on the page.
Root == 0
Detached == Cardinality(Reqs) + 1

\* A fetch: what for, how far it is, and the text sent or received.
Requests ==
    [op   : {"none", "open", "save", "list"},
     path : Files \cup Dirs \cup {None},
     text : Texts,
     at   : {"free", "sent", "ok", "error"},
     box  : 0..Detached]

Fetch(op, path, content, box) ==
    [op |-> op, path |-> path, text |-> content, at |-> "sent", box |-> box]

Free == [op |-> "none", path |-> None, text |-> Text(None, 0), at |-> "free", box |-> Root]

\* State invariant: every variable holds a value of its kind.
TypeOK ==
    /\ disk \in [Files -> Texts]
    /\ model \in [path : Files \cup {None}, text : Texts]
    /\ currentPath \in Files \cup {None} /\ dirty \in BOOLEAN /\ saveBtn \in BOOLEAN
    /\ bar \in [path : Files \cup {None}, dirty : BOOLEAN]
    /\ active \in Files \cup {None}
    /\ treePath \in Dirs /\ root \in Seq(Dirs)
    /\ kids \in [1..Cardinality(Reqs) -> [Dirs -> Nodes]]
    /\ req \in [Reqs -> Requests]
    /\ edits \in 0..MaxEdits /\ unsaved \in BOOLEAN
    /\ user \in {"typing", "roaming"}

Unfolded == [i \in 1..Cardinality(Reqs) |-> [d \in Dirs |-> Folded]]

List(d, box) == Fetch("list", d, Text(None, 0), box)

\* The page has loaded and navigated to /root.
Init ==
    /\ disk = [f \in Files |-> Text(f, 0)]
    /\ model = [path |-> None, text |-> Text(None, 0)]
    /\ currentPath = None /\ dirty = FALSE /\ saveBtn = FALSE
    /\ bar = [path |-> None, dirty |-> FALSE]
    /\ active = None
    /\ treePath = Home /\ root = <<>> /\ kids = Unfolded
    /\ \E r \in Reqs : req = [q \in Reqs |-> IF q = r THEN List(Home, Root) ELSE Free]
    /\ edits = 0 /\ unsaved = FALSE
    /\ user \in {"typing", "roaming"}

InFlight(ops) == \E r \in Reqs : req[r].at /= "free" /\ req[r].op \in ops

\* Unless hasty in what is done here, the user waits for such requests.
Calmly(doing, ops) == user = doing \/ ~InFlight(ops)

Send(r, request) ==
    /\ req[r].at = "free"
    /\ req' = [req EXCEPT ![r] = request]

Handle(r, op, at) ==
    /\ req[r].op = op /\ req[r].at = at
    /\ req' = [req EXCEPT ![r] = Free]

-----------------------------------------------------------------------------
(* The tree *)

\* What loadTree makes of a listing.
Items(d, depth) == {e \in Entries[d] : depth = 0 => e \notin ROOT_NOISE}

\* (seeded fault) the tree is not emptied
NavigateToKeeps(r, d) ==
    /\ Calmly("roaming", {"list"})
    /\ req[r].at = "free"
    /\ treePath' = d /\ UNCHANGED <<root, kids, active>>
    /\ req' = [q \in Reqs |-> IF q = r THEN List(d, Root) ELSE req[q]]
    /\ UNCHANGED <<editing, text, disk, user>>

\* (seeded fault) the path of an empty input is left empty
NavigateToBlank(r, d) ==
    /\ Calmly("roaming", {"list"})
    /\ req[r].at = "free"
    /\ treePath' = IF d = Home THEN None ELSE d
    /\ root' = <<>> /\ kids' = Unfolded /\ active' = None
    /\ req' = [q \in Reqs |-> IF q = r THEN List(d, Root) ELSE req[q]]
    /\ UNCHANGED <<editing, text, disk, user>>

\* The path is the input's, or /root if that is empty.  Items under a listing
\* that is on its way go with the tree it belongs to.
NavigateTo(r, d) ==
    /\ Calmly("roaming", {"list"})
    /\ req[r].at = "free"
    /\ treePath' = d /\ root' = <<>> /\ kids' = Unfolded /\ active' = None
    /\ req' = [q \in Reqs |->
                IF q = r THEN List(d, Root)
                ELSE IF req[q].op = "list" /\ req[q].box /= Root
                     THEN [req[q] EXCEPT !.box = Detached] ELSE req[q]]
    /\ UNCHANGED <<editing, text, disk, user>>

\* A click on a directory loads its children if there are none yet.
ToggleDir(r, i, d) ==
    /\ Calmly("roaming", {"list"})
    /\ i \in 1..Len(root) /\ d \in Items(root[i], 0)
    /\ kids' = [kids EXCEPT ![i][d] = Toggled(@)]
    /\ IF kids'[i][d].open /\ kids[i][d].filled = 0
       THEN Send(r, List(d, i)) ELSE UNCHANGED req
    /\ UNCHANGED <<editing, active, text, disk, treePath, root, user>>

\* loadTree after its awaits: the entries are added to the container.
ListingArrives(r) ==
    /\ Handle(r, "list", "ok")
    /\ root' = IF req[r].box = Root THEN Append(root, req[r].path) ELSE root
    /\ kids' = IF req[r].box \in 1..Len(root)
                  /\ Items(req[r].path, 1) /= {}
               THEN [kids EXCEPT ![req[r].box][req[r].path] = Filled(@)] ELSE kids
    /\ UNCHANGED <<editing, active, text, disk, treePath, user>>

ListingFails(r) ==
    Handle(r, "list", "error") /\ UNCHANGED <<editing, active, tree, text, disk, user>>

\* The file's item is on the page, and can be clicked.
Item(f, i, d) == d \in Items(root[i], 0) /\ kids[i][d].filled > 0 /\ f \in Items(d, 1)

OnPage(f) ==
    \E i \in 1..Len(root) : f \in Items(root[i], 0) \/ \E d \in Dirs : Item(f, i, d)

Visible(f) ==
    \E i \in 1..Len(root) :
      f \in Items(root[i], 0) \/ \E d \in Dirs : Item(f, i, d) /\ kids[i][d].open

-----------------------------------------------------------------------------
(* Opening, editing, saving *)

\* openFile up to its await.  If there are unsaved changes the user has agreed
\* to lose them; a user who does not changes nothing.
OpenFile(r, f) ==
    /\ Visible(f)
    /\ unsaved' = (unsaved /\ ~(dirty /\ currentPath /= None))
    /\ Send(r, Fetch("open", f, Text(None, 0), Root))
    /\ UNCHANGED <<editing, active, tree, disk, edits, user>>

\* (seeded fault) the editor keeps the model it has
FileArrivesModelKept(r) ==
    /\ Handle(r, "open", "ok")
    /\ currentPath' = req[r].path /\ dirty' = FALSE /\ saveBtn' = TRUE
    /\ model' = IF model.path = None THEN [path |-> req[r].path, text |-> req[r].text] ELSE model
    /\ bar' = [path |-> req[r].path, dirty |-> FALSE] /\ unsaved' = FALSE
    /\ active' = IF OnPage(req[r].path) THEN req[r].path ELSE None
    /\ UNCHANGED <<tree, edits, disk, user>>

\* (seeded fault) the title bar is left as it was
FileArrivesUnseen(r) ==
    /\ Handle(r, "open", "ok")
    /\ currentPath' = req[r].path /\ dirty' = FALSE /\ saveBtn' = TRUE
    /\ model' = [path |-> req[r].path, text |-> req[r].text]
    /\ unsaved' = FALSE
    /\ active' = IF OnPage(req[r].path) THEN req[r].path ELSE None
    /\ UNCHANGED <<bar, tree, edits, disk, user>>

\* openFile after its awaits.  createModel throws if there is a model of that
\* path, which can only be the editor's: then the rest is skipped.
FileArrives(r) ==
    /\ Handle(r, "open", "ok")
    /\ currentPath' = req[r].path /\ dirty' = FALSE /\ saveBtn' = TRUE
    /\ IF model.path = req[r].path THEN UNCHANGED <<model, bar, active, unsaved>>
       ELSE /\ model' = [path |-> req[r].path, text |-> req[r].text]
            /\ bar' = [path |-> req[r].path, dirty |-> FALSE]
            /\ active' = IF OnPage(req[r].path) THEN req[r].path ELSE None
            /\ unsaved' = FALSE
    /\ UNCHANGED <<tree, edits, disk, user>>

FileRefused(r) ==
    Handle(r, "open", "error") /\ UNCHANGED <<editing, active, tree, text, disk, user>>

\* (seeded fault) the mark is set only where it is shown
EditShown ==
    /\ Calmly("typing", {"open", "save"})
    /\ currentPath /= None /\ edits < MaxEdits /\ edits' = edits + 1
    /\ model' = [model EXCEPT !.text = Text(@.file, edits')] /\ unsaved' = TRUE
    /\ bar' = [path |-> currentPath, dirty |-> TRUE] /\ UNCHANGED dirty
    /\ UNCHANGED <<currentPath, saveBtn, active, tree, disk, req, user>>

\* The user types; the callback of onDidChangeModelContent.
Edit ==
    /\ Calmly("typing", {"open", "save"})
    /\ currentPath /= None /\ edits < MaxEdits /\ edits' = edits + 1
    /\ model' = [model EXCEPT !.text = Text(@.file, edits')] /\ unsaved' = TRUE
    /\ dirty' = TRUE
    /\ bar' = IF dirty THEN bar ELSE [path |-> currentPath, dirty |-> TRUE]
    /\ UNCHANGED <<currentPath, saveBtn, active, tree, disk, req, user>>

\* saveFile up to its await, from the button or from Ctrl+S, which works while
\* the button is disabled.
SaveFile(r) ==
    /\ currentPath /= None
    /\ Send(r, Fetch("save", currentPath, model.text, Root))
    /\ saveBtn' = FALSE
    /\ UNCHANGED <<model, currentPath, dirty, bar, active, tree, text, disk, user>>

SaveDone(r) ==
    /\ Handle(r, "save", "ok")
    /\ dirty' = FALSE /\ bar' = [path |-> currentPath, dirty |-> FALSE] /\ saveBtn' = TRUE
    /\ UNCHANGED <<model, currentPath, active, tree, text, disk, user>>

\* (seeded fault) a failed save returns early
SaveFailedReturns(r) ==
    Handle(r, "save", "error") /\ UNCHANGED <<editing, active, tree, text, disk, user>>

SaveFailed(r) ==
    /\ Handle(r, "save", "error")
    /\ saveBtn' = TRUE
    /\ UNCHANGED <<model, currentPath, dirty, bar, active, tree, text, disk, user>>

-----------------------------------------------------------------------------
(* The VM: lab-inject.py behind ideFileProxy *)

Reply(r, op, answer) ==
    /\ req[r].op = op /\ req[r].at = "sent"
    /\ req' = [req EXCEPT ![r] = answer]

\* GET /files of a file or of a directory; or no session, no VM, no such path.
ServeGet(r) ==
    /\ \/ Reply(r, "open", [req[r] EXCEPT !.at = "ok", !.text = disk[req[r].path]])
       \/ Reply(r, "list", [req[r] EXCEPT !.at = "ok"])
       \/ \E op \in {"open", "list"} : Reply(r, op, [req[r] EXCEPT !.at = "error"])
    /\ UNCHANGED <<editing, active, tree, text, disk, user>>

\* PUT /files writes the file; it may fail before that, and its answer may get
\* lost after it.
ServePut(r) ==
    /\ \/ /\ \E at \in {"ok", "error"} : Reply(r, "save", [req[r] EXCEPT !.at = at])
          /\ disk' = [disk EXCEPT ![req[r].path] = req[r].text]
          /\ unsaved' = (unsaved /\ req[r].text /= model.text)
       \/ /\ Reply(r, "save", [req[r] EXCEPT !.at = "error"])
          /\ UNCHANGED <<disk, unsaved>>
    /\ UNCHANGED <<editing, active, tree, edits, user>>

-----------------------------------------------------------------------------

Next ==
    \/ \E r \in Reqs :
         \/ \E d \in Dirs : NavigateTo(r, d) \/ \E i \in 1..Cardinality(Reqs) : ToggleDir(r, i, d)
         \/ ListingArrives(r) \/ ListingFails(r)
         \/ \E f \in Files : OpenFile(r, f)
         \/ FileArrives(r) \/ FileRefused(r)
         \/ SaveFile(r) \/ SaveDone(r) \/ SaveFailed(r)
         \/ ServeGet(r) \/ ServePut(r)
    \/ Edit

Spec == Init /\ [][Next]_vars

-----------------------------------------------------------------------------
(* Properties *)

\* Whatever is opened, edited and saved at the same time, the text of one file
\* is never written to another.
OwnText == \A f \in Files : disk[f].file = f

\* Changes that exist only in the editor are known as such (dirty): the user
\* is asked before they are replaced, as the confirm of openFile promises.
EditsKept == unsaved => dirty

\* So it is as long as the user does not type while a request is on its way:
\* also if several files are opened at once, saved and opened at once, opened
\* again, or cannot be read or saved.
CalmEditsKept == user /= "typing" => EditsKept

\* What the page shows of itself: the title bar names the file that Save would
\* write, no other file is highlighted in the tree, and the unsaved mark is there
\* whenever the page would ask before it opens another file (dirty).
BarFollows ==
    bar.path = currentPath /\ active \in {None, currentPath} /\ (dirty => bar.dirty)

\* The title bar is true of the text itself: for a user who does not type while
\* a file is being opened or saved, it also has the unsaved mark whenever the
\* editor's text has never been in the VM.  (Text typed while a save is on its
\* way loses the mark when that save is answered.)
BarIsTrue == BarFollows /\ (user /= "typing" /\ unsaved => bar.dirty)

\* Save is offered whenever a file is open and no save is on its way, however
\* the last one ended.
SaveOffered == currentPath /= None /\ ~InFlight({"save"}) => saveBtn

\* The tree is the listing of the path above it, once, and each directory's
\* children are there once, for a user who waits for listings.
TreeIsOfPath ==
    user /= "roaming" =>
      /\ root \in {<<>>, <<treePath>>}
      /\ \A i \in 1..Len(root), d \in Dirs : kids[i][d].filled <= 1
=============================================================================
