---------------------------- MODULE WebIdeProofs ----------------------------
(***************************************************************************)
(* Theorems about the web IDE, for any files, any directories and any      *)
(* number of requests in flight.                                           *)
(***************************************************************************)
EXTENDS WebIde, FiniteSetTheorems, TLAPS

\* A request carries a text only with the path that text belongs to.
Carries(q) ==
    /\ q.op = "save" => q.path \in Files /\ q.text.file = q.path
    /\ q.op = "open" => q.path \in Files
    /\ q.op = "open" /\ q.at = "ok" => q.text.file = q.path
    /\ q.op = "list" => q.path \in Dirs

\* What the saved text depends on: the editor's model and currentPath change
\* together, and so do the path and the text of a request.
Paired ==
    /\ model.path = currentPath
    /\ currentPath /= None => model.text.file = currentPath
    /\ \A r \in Reqs : Carries(req[r])

Inv == TypeOK /\ Paired /\ OwnText /\ BarFollows

-----------------------------------------------------------------------------

\* The destinations of listings: a box is a number up to Detached.
LEMMA Boxes == Cardinality(Reqs) \in Nat /\ Detached \in 0..Detached /\ Root \in 0..Detached
  BY BoundAssumption, FS_CardinalityType DEF Detached, Root

\* The text of a request without one, and what a file holds at the start.
LEMMA NoText ==
  /\ Text(None, 0) \in Texts
  /\ \A f \in Files : Text(f, 0) \in Texts /\ Text(f, 0).file = f
  BY BoundAssumption DEF Text, Texts

\* A slot without a request carries nothing.
LEMMA FreeOK == Free \in Requests /\ Carries(Free)
  BY Boxes, NoText DEF Free, Requests, Carries

\* A fetch with a path of its kind, and with that path's text, is a request
\* that carries what it should.
LEMMA FetchOK ==
  ASSUME NEW op \in {"open", "save", "list"}, NEW path \in Files \cup Dirs,
         NEW content \in Texts, NEW box \in 0..Detached,
         op \in {"open", "save"} => path \in Files, op = "list" => path \in Dirs,
         op = "save" => content.file = path
  PROVE  Fetch(op, path, content, box) \in Requests /\ Carries(Fetch(op, path, content, box))
<1>1. Fetch(op, path, content, box) \in Requests
  BY DEF Fetch, Requests
<1>2. Carries(Fetch(op, path, content, box))
  BY DEF Fetch, Carries
<1> QED
  BY <1>1, <1>2

\* The fetch of loadTree.
LEMMA ListOK ==
  ASSUME NEW d \in Dirs, NEW box \in 0..Detached
  PROVE  List(d, box) \in Requests /\ Carries(List(d, box))
  BY NoText, FetchOK DEF List

\* A directory's item stays one when it is toggled or filled.
LEMMA NodesOK ==
  /\ Folded \in Nodes
  /\ \A n \in Nodes : Toggled(n) \in Nodes /\ Filled(n) \in Nodes
<1>1. Folded \in Nodes
  BY DEF Folded, Nodes
<1>2. ASSUME NEW n \in Nodes PROVE Filled(n) \in Nodes
  BY DEF Filled, Nodes
<1>3. ASSUME NEW n \in Nodes PROVE Toggled(n) \in Nodes
  BY DEF Toggled, Nodes
<1> QED
  BY <1>1, <1>2, <1>3

\* navigateTo takes items off the page; the listings for them go on.
LEMMA Reboxed ==
  ASSUME NEW x \in Requests, Carries(x)
  PROVE  [x EXCEPT !.box = Detached] \in Requests /\ Carries([x EXCEPT !.box = Detached])
<1>1. [x EXCEPT !.box = Detached] \in Requests
  BY Boxes DEF Requests
<1>2. Carries([x EXCEPT !.box = Detached])
  BY DEF Carries, Requests
<1> QED
  BY <1>1, <1>2

\* The initial state: an empty editor and one listing on its way.
LEMMA InitInv == Init => Inv
<1> SUFFICES ASSUME Init PROVE Inv
  OBVIOUS
<1>1. PICK r \in Reqs : req = [q \in Reqs |-> IF q = r THEN List(Home, Root) ELSE Free]
  BY DEF Init
<1>2. req \in [Reqs -> Requests] /\ \A q \in Reqs : Carries(req[q])
  BY <1>1, PathAssumption, Boxes, ListOK, FreeOK
<1>3. kids \in [1..Cardinality(Reqs) -> [Dirs -> Nodes]]
  BY NodesOK DEF Init, Unfolded
<1>4. TypeOK
  <2>1. bar \in [path : Files \cup {None}, dirty : BOOLEAN]
    BY DEF Init
  <2>2. disk \in [Files -> Texts] /\ model \in [path : Files \cup {None}, text : Texts]
    BY NoText DEF Init
  <2>3. /\ currentPath \in Files \cup {None} /\ dirty \in BOOLEAN /\ saveBtn \in BOOLEAN
        /\ unsaved \in BOOLEAN /\ user \in {"typing", "roaming"} /\ active \in Files \cup {None}
    BY DEF Init
  <2>4. treePath \in Dirs /\ root \in Seq(Dirs)
    BY PathAssumption DEF Init
  <2>5. edits \in 0..MaxEdits
    BY BoundAssumption DEF Init
  <2> QED
    BY <1>2, <1>3, <2>1, <2>2, <2>3, <2>4, <2>5 DEF TypeOK
<1>5. Paired
  BY <1>2 DEF Init, Paired
<1>6. OwnText
  BY NoText DEF Init, OwnText
<1>7. BarFollows
  BY DEF Init, BarFollows
<1> QED
  BY <1>4, <1>5, <1>6, <1>7 DEF Inv

\* Steps that leave the editor alone: it is enough to look at the requests and
\* at what is in the VM.
LEMMA EditorKept ==
  ASSUME Inv, UNCHANGED <<model, currentPath, dirty, bar, edits, user>>,
         disk' \in [Files -> Texts], OwnText',
         active' \in {None, active},
         saveBtn' \in BOOLEAN, unsaved' \in BOOLEAN,
         treePath' \in Dirs, root' \in Seq(Dirs),
         kids' \in [1..Cardinality(Reqs) -> [Dirs -> Nodes]],
         req' \in [Reqs -> Requests], \A q \in Reqs : Carries(req'[q])
  PROVE  Inv'
<1>1. TypeOK'
  BY DEF Inv, TypeOK
<1>2. Paired'
  BY DEF Inv, Paired
<1> QED
  BY <1>1, <1>2 DEF Inv, BarFollows

\* Steps of the page that leave the editor alone.
LEMMA EditorUntouched ==
  ASSUME Inv, UNCHANGED <<model, currentPath, dirty, bar, disk, edits, user>>,
         active' \in {None, active},
         saveBtn' \in BOOLEAN, unsaved' \in BOOLEAN,
         treePath' \in Dirs, root' \in Seq(Dirs),
         kids' \in [1..Cardinality(Reqs) -> [Dirs -> Nodes]],
         req' \in [Reqs -> Requests], \A q \in Reqs : Carries(req'[q])
  PROVE  Inv'
<1>1. disk' \in [Files -> Texts] /\ OwnText'
  BY DEF Inv, TypeOK, OwnText
<1> QED
  BY <1>1, EditorKept

\* A request that is sent or done with.
LEMMA Replaced ==
  ASSUME Inv, NEW r \in Reqs, NEW x \in Requests, Carries(x), req' = [req EXCEPT ![r] = x]
  PROVE  req' \in [Reqs -> Requests] /\ \A q \in Reqs : Carries(req'[q])
<1>1. req' \in [Reqs -> Requests]
  BY DEF Inv, TypeOK
<1>2. ASSUME NEW q \in Reqs PROVE Carries(req'[q])
  BY DEF Inv, TypeOK, Paired
<1> QED
  BY <1>1, <1>2

\* navigateTo, a click on a directory, and loadTree after its await.
LEMMA TreeStep ==
  ASSUME Inv, NEW r \in Reqs,
         \/ \E d \in Dirs : NavigateTo(r, d) \/ \E i \in 1..Cardinality(Reqs) : ToggleDir(r, i, d)
         \/ ListingArrives(r)
  PROVE  Inv'
<1>0. TypeOK /\ \A q \in Reqs : Carries(req[q])
  BY DEF Inv, Paired
<1>1. ASSUME NEW d \in Dirs, NavigateTo(r, d) PROVE Inv'
  <2>1. ASSUME NEW q \in Reqs PROVE req'[q] \in Requests /\ Carries(req'[q])
    <3>1. req[q] \in Requests /\ Carries(req[q])
      BY <1>0 DEF TypeOK
    <3>2. req'[q] \in {List(d, Root), [req[q] EXCEPT !.box = Detached], req[q]}
      BY <1>1 DEF NavigateTo
    <3> QED
      BY <3>1, <3>2, ListOK, Reboxed, Boxes
  <2>2. req' \in [Reqs -> Requests]
    BY <1>1, <2>1 DEF NavigateTo
  <2>3. kids' \in [1..Cardinality(Reqs) -> [Dirs -> Nodes]]
    BY <1>1, NodesOK DEF NavigateTo, Unfolded
  <2>4. treePath' \in Dirs /\ root' \in Seq(Dirs)
    BY <1>1 DEF NavigateTo
  <2> QED
    BY <1>0, <1>1, <2>1, <2>2, <2>3, <2>4, EditorUntouched DEF NavigateTo, editing, text, TypeOK
<1>2. ASSUME NEW d \in Dirs, NEW i \in 1..Cardinality(Reqs), ToggleDir(r, i, d) PROVE Inv'
  <2>1. req' = [req EXCEPT ![r] = List(d, i)] \/ req' = req
    BY <1>2 DEF ToggleDir, Send
  <2>2. i \in 0..Detached
    BY Boxes DEF Detached
  <2>3. req' \in [Reqs -> Requests] /\ \A q \in Reqs : Carries(req'[q])
    BY <1>0, <2>1, <2>2, ListOK, Replaced DEF TypeOK
  <2>4. kids' \in [1..Cardinality(Reqs) -> [Dirs -> Nodes]]
    <3>1. kids[i] \in [Dirs -> Nodes] /\ Toggled(kids[i][d]) \in Nodes
      BY <1>0, NodesOK DEF TypeOK
    <3>2. kids' = [kids EXCEPT ![i][d] = Toggled(@)]
      BY <1>2 DEF ToggleDir
    <3> QED
      BY <1>0, <3>1, <3>2 DEF TypeOK
  <2> QED
    BY <1>0, <1>2, <2>3, <2>4, EditorUntouched DEF ToggleDir, editing, text, TypeOK
<1>3. CASE ListingArrives(r)
  <2>1. req[r].path \in Dirs /\ req' = [req EXCEPT ![r] = Free]
    BY <1>0, <1>3 DEF ListingArrives, Handle, Carries
  <2>2. req' \in [Reqs -> Requests] /\ \A q \in Reqs : Carries(req'[q])
    BY <2>1, FreeOK, Replaced
  <2>3. root' \in Seq(Dirs)
    BY <1>0, <1>3, <2>1 DEF TypeOK, ListingArrives
  <2>4. kids' \in [1..Cardinality(Reqs) -> [Dirs -> Nodes]]
    <3>1. CASE kids' = kids
      BY <1>0, <3>1 DEF TypeOK
    <3>2. CASE /\ kids' = [kids EXCEPT ![req[r].box][req[r].path] = Filled(@)]
               /\ req[r].box \in 1..Cardinality(Reqs)
      <4>1. /\ kids[req[r].box] \in [Dirs -> Nodes]
            /\ Filled(kids[req[r].box][req[r].path]) \in Nodes
        BY <1>0, <2>1, <3>2, NodesOK DEF TypeOK
      <4> QED
        BY <1>0, <2>1, <3>2, <4>1 DEF TypeOK
    <3>3. CASE /\ kids' = [kids EXCEPT ![req[r].box][req[r].path] = Filled(@)]
               /\ req[r].box \notin 1..Cardinality(Reqs)
      BY <1>0, <3>3 DEF TypeOK
    <3> QED
      BY <1>3, <3>1, <3>2, <3>3 DEF ListingArrives
  <2> QED
    BY <1>0, <1>3, <2>2, <2>3, <2>4, EditorUntouched DEF ListingArrives, editing, text, TypeOK
<1> QED
  BY <1>1, <1>2, <1>3

\* openFile and saveFile up to their await, and answers that change nothing.
LEMMA UserStep ==
  ASSUME Inv, NEW r \in Reqs,
         \/ \E f \in Files : OpenFile(r, f)
         \/ SaveFile(r) \/ ListingFails(r) \/ FileRefused(r)
  PROVE  Inv'
<1>0. TypeOK /\ Paired
  BY DEF Inv
<1>1. PICK x \in Requests : Carries(x) /\ req' = [req EXCEPT ![r] = x]
  <2>1. CASE \E f \in Files : OpenFile(r, f)
    BY <2>1, FetchOK, NoText, Boxes DEF OpenFile, Send
  <2>2. CASE SaveFile(r)
    <3>1. /\ model.text \in Texts /\ model.text.file = currentPath /\ currentPath \in Files
          /\ req' = [req EXCEPT ![r] = Fetch("save", currentPath, model.text, Root)]
      BY <1>0, <2>2 DEF SaveFile, Send, TypeOK, Paired
    <3> QED
      BY <3>1, FetchOK, Boxes
  <2>3. CASE ListingFails(r) \/ FileRefused(r)
    BY <2>3, FreeOK DEF ListingFails, FileRefused, Handle
  <2> QED
    BY <2>1, <2>2, <2>3
<1>2. req' \in [Reqs -> Requests] /\ \A q \in Reqs : Carries(req'[q])
  BY <1>1, Replaced
<1>3. /\ UNCHANGED <<model, currentPath, dirty, bar, active, disk, edits, user, tree>>
      /\ saveBtn' \in BOOLEAN /\ unsaved' \in BOOLEAN
  BY <1>0 DEF OpenFile, SaveFile, ListingFails, FileRefused, editing, text, TypeOK
<1> QED
  BY <1>0, <1>2, <1>3, EditorUntouched DEF tree, TypeOK

\* openFile and saveFile after their await.
LEMMA EditorStep ==
  ASSUME Inv, NEW r \in Reqs, FileArrives(r) \/ SaveDone(r) \/ SaveFailed(r)
  PROVE  Inv'
<1>0. TypeOK /\ Paired /\ BarFollows /\ OwnText
  BY DEF Inv
<1>1. /\ req' \in [Reqs -> Requests] /\ \A q \in Reqs : Carries(req'[q])
      /\ UNCHANGED <<disk, tree, user>>
  BY FreeOK, Replaced DEF FileArrives, SaveDone, SaveFailed, Handle
<1>2. CASE FileArrives(r)
  <2>1. /\ req[r].path \in Files /\ req[r].path /= None
        /\ req[r].text.file = req[r].path /\ req[r].text \in Texts
    BY <1>0, <1>2, PathAssumption DEF FileArrives, Handle, Paired, Carries, TypeOK, Requests
  <2>2. CASE model.path = req[r].path
    BY <1>0, <1>1, <1>2, <2>1, <2>2 DEF Inv, FileArrives, TypeOK, Paired, BarFollows, OwnText, tree
  <2>3. CASE model.path /= req[r].path
    <3>0. /\ bar' = [path |-> req[r].path, dirty |-> FALSE]
          /\ model' = [path |-> req[r].path, text |-> req[r].text]
          /\ currentPath' = req[r].path /\ dirty' = FALSE /\ saveBtn' = TRUE /\ unsaved' = FALSE
          /\ active' \in {None, req[r].path}
      BY <1>2, <2>3 DEF FileArrives
    <3>1. TypeOK'
      <4>1. bar' \in [path : Files \cup {None}, dirty : BOOLEAN]
        BY <2>1, <3>0
      <4>2. model' \in [path : Files \cup {None}, text : Texts]
        BY <2>1, <3>0
      <4>3. /\ currentPath' \in Files \cup {None} /\ active' \in Files \cup {None} /\ dirty' \in BOOLEAN
            /\ saveBtn' \in BOOLEAN /\ unsaved' \in BOOLEAN
        BY <2>1, <3>0
      <4>4. edits' = edits
        BY <1>2 DEF FileArrives
      <4> QED
        BY <1>0, <1>1, <4>1, <4>2, <4>3, <4>4 DEF TypeOK, tree
    <3>2. Paired'
      BY <1>1, <1>2, <2>1, <2>3 DEF FileArrives, Paired
    <3>3. BarFollows' /\ OwnText'
      BY <1>0, <1>1, <3>0 DEF BarFollows, OwnText
    <3> QED
      BY <3>1, <3>2, <3>3 DEF Inv
  <2> QED
    BY <2>2, <2>3
<1>3. CASE SaveDone(r)
  BY <1>0, <1>1, <1>3 DEF Inv, SaveDone, text, TypeOK, Paired, BarFollows, OwnText, tree
<1>4. CASE SaveFailed(r)
  BY <1>0, <1>1, <1>4 DEF Inv, SaveFailed, text, TypeOK, Paired, BarFollows, OwnText, tree
<1> QED
  BY <1>2, <1>3, <1>4

\* The callback of onDidChangeModelContent.
LEMMA EditStep == Inv /\ Edit => Inv'
<1> SUFFICES ASSUME Inv, Edit PROVE Inv'
  OBVIOUS
<1>0. TypeOK /\ Paired /\ BarFollows /\ OwnText
  BY DEF Inv
<1>1. edits' \in 0..MaxEdits /\ model' = [model EXCEPT !.text = Text(model.text.file, edits')]
  BY BoundAssumption, <1>0 DEF Edit, TypeOK
<1>2. /\ model' \in [path : Files \cup {None}, text : Texts]
      /\ model'.path = model.path /\ model'.text.file = model.text.file
  BY <1>0, <1>1 DEF TypeOK, Text, Texts
<1>3. bar' \in [path : Files \cup {None}, dirty : BOOLEAN]
  BY <1>0 DEF Edit, TypeOK
<1>4. TypeOK'
  BY <1>0, <1>1, <1>2, <1>3 DEF Edit, TypeOK, tree
<1>5. Paired'
  BY <1>0, <1>2 DEF Edit, Paired
<1>6. BarFollows' /\ OwnText'
  BY <1>0 DEF Edit, BarFollows, OwnText
<1> QED
  BY <1>4, <1>5, <1>6 DEF Inv

\* The VM's side: what is read is the file's own text, so what is written is.
LEMMA VmStep ==
  ASSUME Inv, NEW r \in Reqs, ServeGet(r) \/ ServePut(r)
  PROVE  Inv'
<1>0. TypeOK /\ OwnText /\ req[r] \in Requests /\ Carries(req[r])
  BY DEF Inv, Paired, TypeOK
<1>1. ASSUME NEW at \in {"ok", "error"}, req' = [req EXCEPT ![r] = [req[r] EXCEPT !.at = at]],
             at = "ok" => req[r].op /= "open"
      PROVE  req' \in [Reqs -> Requests] /\ \A q \in Reqs : Carries(req'[q])
  <2>1. [req[r] EXCEPT !.at = at] \in Requests
    BY <1>0 DEF Requests
  <2>2. Carries([req[r] EXCEPT !.at = at])
    BY <1>0, <1>1 DEF Requests, Carries
  <2> QED
    BY <1>1, <2>1, <2>2, Replaced
<1>2. CASE ServeGet(r)
  <2>1. CASE /\ req[r].op = "open"
             /\ req' = [req EXCEPT ![r] = [req[r] EXCEPT !.at = "ok", !.text = disk[req[r].path]]]
    <3> DEFINE x == [req[r] EXCEPT !.at = "ok", !.text = disk[req[r].path]]
    <3>1. disk[req[r].path] \in Texts /\ disk[req[r].path].file = req[r].path
      BY <1>0, <2>1 DEF Carries, TypeOK, OwnText
    <3>2. x \in Requests
      BY <1>0, <3>1 DEF Requests
    <3>3. Carries(x)
      BY <1>0, <2>1, <3>1 DEF Requests, Carries
    <3>4. req' \in [Reqs -> Requests] /\ \A q \in Reqs : Carries(req'[q])
      BY <2>1, <3>2, <3>3, Replaced
    <3> QED
      BY <1>0, <1>2, <3>4, EditorUntouched DEF ServeGet, editing, tree, text, TypeOK
  <2>2. CASE \/ req[r].op = "list" /\ req' = [req EXCEPT ![r] = [req[r] EXCEPT !.at = "ok"]]
             \/ req' = [req EXCEPT ![r] = [req[r] EXCEPT !.at = "error"]]
    BY <1>0, <1>1, <1>2, <2>2, EditorUntouched DEF ServeGet, editing, tree, text, TypeOK
  <2> QED
    BY <1>2, <2>1, <2>2 DEF ServeGet, Reply
<1>3. CASE ServePut(r)
  <2>1. disk' \in [Files -> Texts] /\ OwnText'
    <3>1. CASE disk' = [disk EXCEPT ![req[r].path] = req[r].text] /\ req[r].op = "save"
      <4>1. req[r].path \in Files /\ req[r].text \in Texts /\ req[r].text.file = req[r].path
        BY <1>0, <3>1 DEF Carries, Requests
      <4> QED
        BY <1>0, <3>1, <4>1 DEF TypeOK, OwnText
    <3>2. CASE disk' = disk
      BY <1>0, <3>2 DEF TypeOK, OwnText
    <3> QED
      BY <1>3, <3>1, <3>2 DEF ServePut, Reply
  <2>2. req' \in [Reqs -> Requests] /\ \A q \in Reqs : Carries(req'[q])
    BY <1>1, <1>3 DEF ServePut, Reply
  <2>3. unsaved' \in BOOLEAN
    BY <1>0, <1>3 DEF ServePut, TypeOK
  <2> QED
    BY <1>0, <1>3, <2>1, <2>2, <2>3, EditorKept DEF ServePut, editing, tree, TypeOK
<1> QED
  BY <1>2, <1>3

\* Every step changes model, path, requests and files together.
LEMMA NextInv == Inv /\ [Next]_vars => Inv'
<1> SUFFICES ASSUME Inv, [Next]_vars PROVE Inv'
  OBVIOUS
<1>1. CASE UNCHANGED vars
  BY <1>1 DEF vars, editing, tree, text, Inv, TypeOK, Paired, OwnText, BarFollows
<1>2. CASE Edit
  BY <1>2, EditStep
<1>3. ASSUME NEW r \in Reqs, \E d \in Dirs : \/ NavigateTo(r, d)
                                            \/ \E i \in 1..Cardinality(Reqs) : ToggleDir(r, i, d)
      PROVE  Inv'
  BY <1>3, TreeStep
<1> QED
  BY <1>1, <1>2, <1>3, TreeStep, UserStep, EditorStep, VmStep DEF Next

\* The invariant holds in every reachable state of the IDE.
THEOREM InvHolds == Spec => []Inv
  BY InitInv, NextInv, PTL DEF Spec

\* The variables of the IDE keep their types, for any number of requests.
THEOREM TypeCorrect == Spec => []TypeOK
<1>1. Inv => TypeOK
  BY DEF Inv
<1> QED
  BY <1>1, InvHolds, PTL

\* openFile and saveFile never write one file's text to another, however their
\* requests interleave.
THEOREM NoMixUp == Spec => []OwnText
<1>1. Inv => OwnText
  BY DEF Inv
<1> QED
  BY <1>1, InvHolds, PTL

-----------------------------------------------------------------------------
(* Requests *)

\* A slot is free or is used for something.
Slots == \A q \in Reqs : req[q].at = "free" <=> req[q].op = "none"

\* A request that is answered keeps what it is about.
LEMMA Answers ==
  ASSUME Inv, NEW r \in Reqs, ServeGet(r) \/ ServePut(r)
  PROVE  /\ \A q \in Reqs : q /= r => req'[q] = req[q]
         /\ req[r].at = "sent" /\ req[r].op \in {"open", "list", "save"}
         /\ req'[r].op = req[r].op /\ req'[r].path = req[r].path /\ req'[r].box = req[r].box
         /\ req'[r].at \in {"ok", "error"} /\ (req[r].op = "save" => req'[r].text = req[r].text)
<1>1. req \in [Reqs -> Requests] /\ req[r] \in Requests
  BY DEF Inv, TypeOK
<1>2. PICK x : /\ req' = [req EXCEPT ![r] = x]
               /\ req[r].at = "sent" /\ req[r].op \in {"open", "list", "save"}
               /\ \/ req[r].op = "open" /\ x = [req[r] EXCEPT !.at = "ok", !.text = disk[req[r].path]]
                  \/ \E at \in {"ok", "error"} : x = [req[r] EXCEPT !.at = at]
  BY DEF ServeGet, ServePut, Reply
<1>3. /\ x.op = req[r].op /\ x.path = req[r].path /\ x.box = req[r].box /\ x.at \in {"ok", "error"}
      /\ req[r].op = "save" => x.text = req[r].text
  BY <1>1, <1>2 DEF Requests
<1> QED
  BY <1>1, <1>2, <1>3

\* The fields of a request that is sent, and of a free slot.
LEMMA Fields ==
  /\ \A op, path, content, box :
       LET x == Fetch(op, path, content, box)
       IN  x.op = op /\ x.path = path /\ x.text = content /\ x.at = "sent" /\ x.box = box
  /\ Free.op = "none" /\ Free.at = "free"
  BY DEF Fetch, Free

\* What each step does to the slots: one is taken, freed or answered; a new
\* path takes listings for items off the page.
Takes(r, ops) ==
    \E x : req' = [req EXCEPT ![r] = x] /\ req[r].at = "free" /\ x.at = "sent" /\ x.op \in ops
Frees(r, ops) == req' = [req EXCEPT ![r] = Free] /\ req[r].op \in ops

\* The steps of the page, by what they do to the slots.
LEMMA Moves ==
  ASSUME Inv, [Next]_vars
  PROVE  \/ UNCHANGED req
         \/ \E r \in Reqs, d \in Dirs : NavigateTo(r, d)
         \/ \E r \in Reqs : Takes(r, {"list", "open", "save"}) \/ Frees(r, {"list", "open", "save"})
         \/ \E r \in Reqs : ServeGet(r) \/ ServePut(r)
<1>1. CASE UNCHANGED vars \/ Edit
  BY <1>1 DEF vars, Edit
<1>2. ASSUME NEW r \in Reqs, NEW d \in Dirs, NEW i \in 1..Cardinality(Reqs), ToggleDir(r, i, d)
      PROVE  UNCHANGED req \/ Takes(r, {"list", "open", "save"})
  <2>1. UNCHANGED req \/ Send(r, List(d, i))
    BY <1>2 DEF ToggleDir
  <2>2. List(d, i).at = "sent" /\ List(d, i).op = "list"
    BY Fields DEF List
  <2> QED
    BY <2>1, <2>2 DEF Send, Takes
<1>3. ASSUME NEW r \in Reqs, (\E f \in Files : OpenFile(r, f)) \/ SaveFile(r)
      PROVE  Takes(r, {"list", "open", "save"})
  BY <1>3, Fields DEF OpenFile, SaveFile, Send, Takes
<1>4. ASSUME NEW r \in Reqs, \/ ListingArrives(r) \/ ListingFails(r) \/ FileArrives(r) \/ FileRefused(r)
                             \/ SaveDone(r) \/ SaveFailed(r)
      PROVE  Frees(r, {"list", "open", "save"})
  BY <1>4 DEF ListingArrives, ListingFails, FileArrives, FileRefused, SaveDone, SaveFailed, Handle, Frees
<1> QED
  BY <1>1, <1>2, <1>3, <1>4 DEF Next

\* navigateTo keeps what the other requests are for.
LEMMA Rerouted ==
  ASSUME Inv, NEW r \in Reqs, NEW d \in Dirs, NavigateTo(r, d)
  PROVE  /\ req[r].at = "free" /\ req'[r].op = "list" /\ req'[r].at = "sent"
         /\ req'[r].path = d /\ req'[r].box = Root
         /\ \A q \in Reqs : q /= r => /\ req'[q].op = req[q].op /\ req'[q].at = req[q].at
                                      /\ req'[q].text = req[q].text
<1>1. req'[r] = List(d, Root) /\ req[r].at = "free"
  BY DEF NavigateTo
<1>2. ASSUME NEW q \in Reqs, q /= r
      PROVE  req'[q].op = req[q].op /\ req'[q].at = req[q].at /\ req'[q].text = req[q].text
  <2>1. req'[q] \in {[req[q] EXCEPT !.box = Detached], req[q]} /\ req[q] \in Requests
    BY <1>2 DEF NavigateTo, Inv, TypeOK
  <2> QED
    BY <2>1 DEF Requests
<1> QED
  BY <1>1, <1>2, Fields DEF List

\* No step leaves a slot half in use.
LEMMA SlotsStep ==
  ASSUME Inv, Slots, [Next]_vars
  PROVE  Slots'
<1>1. req \in [Reqs -> Requests]
  BY DEF Inv, TypeOK
<1>2. CASE UNCHANGED req
  BY <1>2 DEF Slots
<1>3. ASSUME NEW r \in Reqs, NEW d \in Dirs, NavigateTo(r, d) PROVE Slots'
  BY <1>3, Rerouted DEF Slots
<1>4. ASSUME NEW r \in Reqs, Takes(r, {"list", "open", "save"}) PROVE Slots'
  BY <1>1, <1>4 DEF Slots, Takes
<1>5. ASSUME NEW r \in Reqs, Frees(r, {"list", "open", "save"}) PROVE Slots'
  BY <1>1, <1>5, Fields DEF Slots, Frees
<1>6. ASSUME NEW r \in Reqs, ServeGet(r) \/ ServePut(r) PROVE Slots'
  BY <1>6, Answers DEF Slots
<1> QED
  BY <1>2, <1>3, <1>4, <1>5, <1>6, Moves

\* At the start one slot is taken.
LEMMA InitSlots == Init => Slots
  BY Fields DEF Init, Slots, List

-----------------------------------------------------------------------------
(* The Save button *)

\* While a save is on its way, Save may be disabled; whatever ends it enables
\* it again.
LEMMA SaveStep ==
  ASSUME Inv, SaveOffered, [Next]_vars
  PROVE  SaveOffered'
<1>0. req \in [Reqs -> Requests]
  BY DEF Inv, TypeOK
<1>1. CASE \E r \in Reqs : FileArrives(r) \/ SaveDone(r) \/ SaveFailed(r)
  BY <1>1 DEF FileArrives, SaveDone, SaveFailed, SaveOffered
<1>2. ASSUME NEW r \in Reqs, SaveFile(r) PROVE SaveOffered'
  <2>1. req'[r].at = "sent" /\ req'[r].op = "save"
    BY <1>0, <1>2, Fields DEF SaveFile, Send
  <2> QED
    BY <2>1 DEF SaveOffered, InFlight
<1>3. CASE /\ UNCHANGED <<currentPath, saveBtn>>
           /\ \A q \in Reqs : req[q].at /= "free" /\ req[q].op = "save" => req'[q].at /= "free" /\ req'[q].op = "save"
  BY <1>3 DEF SaveOffered, InFlight
<1>4. CASE UNCHANGED vars \/ Edit
  BY <1>3, <1>4 DEF vars, editing, Edit
<1>5. ASSUME NEW r \in Reqs, NEW d \in Dirs, NavigateTo(r, d) PROVE SaveOffered'
  BY <1>3, <1>5, Rerouted DEF NavigateTo, editing
<1>6. ASSUME NEW r \in Reqs, \/ \E d \in Dirs, i \in 1..Cardinality(Reqs) : ToggleDir(r, i, d)
                             \/ \E f \in Files : OpenFile(r, f)
      PROVE  SaveOffered'
  <2>1. UNCHANGED req \/ (req[r].at = "free" /\ \E x : req' = [req EXCEPT ![r] = x])
    BY <1>6 DEF ToggleDir, OpenFile, Send
  <2>2. UNCHANGED <<currentPath, saveBtn>>
    BY <1>6 DEF ToggleDir, OpenFile, editing
  <2> QED
    BY <1>0, <1>3, <2>1, <2>2
<1>7. ASSUME NEW r \in Reqs, ListingArrives(r) \/ ListingFails(r) \/ FileRefused(r) PROVE SaveOffered'
  <2>1. req[r].op /= "save" /\ req' = [req EXCEPT ![r] = Free]
    BY <1>7 DEF ListingArrives, ListingFails, FileRefused, Handle
  <2>2. UNCHANGED <<currentPath, saveBtn>>
    BY <1>7 DEF ListingArrives, ListingFails, FileRefused, editing
  <2> QED
    BY <1>0, <1>3, <2>1, <2>2
<1>8. ASSUME NEW r \in Reqs, ServeGet(r) \/ ServePut(r) PROVE SaveOffered'
  <2>1. UNCHANGED <<currentPath, saveBtn>>
    BY <1>8 DEF ServeGet, ServePut, editing
  <2> QED
    BY <1>3, <1>8, <2>1, Answers
<1> QED
  BY <1>1, <1>2, <1>4, <1>5, <1>6, <1>7, <1>8 DEF Next

\* However a save ends (done, refused, its answer lost) and whatever is opened
\* meanwhile, Save is offered again for the file that is open.
THEOREM SaveAgain == Spec => []SaveOffered
<1>1. Init => SaveOffered
  BY DEF Init, SaveOffered
<1>2. Inv /\ SaveOffered /\ [Next]_vars => SaveOffered'
  BY SaveStep
<1> QED
  BY <1>1, <1>2, InvHolds, PTL DEF Spec

-----------------------------------------------------------------------------
(* Unsaved changes *)

\* What a request in flight means for the unsaved changes of a user who does
\* not type meanwhile: an open was agreed to, a save carries what is in the
\* editor, and once it is done nothing is unsaved.
Calm(q) ==
    /\ q.op = "open" => ~unsaved
    /\ q.op = "save" /\ q.at = "sent" /\ unsaved => q.text = model.text
    /\ q.op = "save" /\ q.at = "ok" => ~unsaved

CalmInv ==
    user /= "typing" => /\ unsaved => dirty /\ currentPath /= None
                        /\ \A q \in Reqs : Calm(req[q])

\* The steps of a user who waits with typing keep the edits known.
LEMMA CalmStep ==
  ASSUME Inv, Slots, CalmInv, [Next]_vars
  PROVE  CalmInv'
<1>0. req \in [Reqs -> Requests] /\ unsaved \in BOOLEAN /\ dirty \in BOOLEAN
  BY DEF Inv, TypeOK
<1>1. user' = user
  BY DEF Next, vars, Edit, NavigateTo, ToggleDir, ListingArrives, ListingFails, OpenFile, FileArrives,
         FileRefused, SaveFile, SaveDone, SaveFailed, ServeGet, ServePut
<1> SUFFICES ASSUME user /= "typing" PROVE CalmInv'
  BY <1>1 DEF CalmInv
<1>2. /\ unsaved => dirty /\ currentPath /= None
      /\ \A q \in Reqs : Calm(req[q])
  BY DEF CalmInv
<1>3. CASE unsaved' = FALSE
  BY <1>3 DEF CalmInv, Calm
<1> DEFINE Harmless(q) ==
             \/ req'[q].op \notin {"open", "save"} \/ (req'[q].at = "error" /\ req'[q].op = "save")
             \/ req'[q].op = req[q].op /\ req'[q].at = req[q].at /\ req'[q].text = req[q].text
             \/ req'[q].op = "open" /\ req[q].op = "open"
             \/ req'[q].op = "save" /\ req'[q].at = "sent" /\ req'[q].text = model.text
<1>4. CASE UNCHANGED <<unsaved, dirty, currentPath, model>> /\ \A q \in Reqs : Harmless(q)
  <2>1. ASSUME NEW q \in Reqs PROVE Calm(req'[q])
    BY <1>2, <1>4 DEF Calm
  <2>2. ASSUME NEW q \in Reqs PROVE Calm(req[q])'
    BY <1>4, <2>1 DEF Calm
  <2> QED
    BY <1>2, <1>4, <2>2 DEF CalmInv
<1>5. CASE Edit
  <2>1. \A q \in Reqs : req[q].op \notin {"open", "save"}
    BY <1>5 DEF Edit, Calmly, InFlight, Slots
  <2> QED
    BY <1>5, <2>1 DEF Edit, CalmInv, Calm
<1>6. CASE UNCHANGED vars
  BY <1>4, <1>6 DEF vars, editing, text
<1>7. ASSUME NEW r \in Reqs, NEW d \in Dirs, NavigateTo(r, d) PROVE CalmInv'
  <2>1. UNCHANGED <<unsaved, dirty, currentPath, model>>
    BY <1>7 DEF NavigateTo, editing, text
  <2>2. \A q \in Reqs : Harmless(q)
    BY <1>7, Rerouted
  <2> HIDE DEF Harmless
  <2> QED
    BY <1>4, <2>1, <2>2
<1>8. ASSUME NEW r \in Reqs, NEW d \in Dirs, NEW i \in 1..Cardinality(Reqs), ToggleDir(r, i, d) PROVE CalmInv'
  <2>1. UNCHANGED <<unsaved, dirty, currentPath, model>> /\ (UNCHANGED req \/ req' = [req EXCEPT ![r] = List(d, i)])
    BY <1>8 DEF ToggleDir, editing, text, Send
  <2>2. List(d, i).op = "list"
    BY Fields DEF List
  <2>3. \A q \in Reqs : Harmless(q)
    BY <1>0, <2>1, <2>2
  <2> HIDE DEF Harmless
  <2> QED
    BY <1>4, <2>1, <2>3
<1>9. ASSUME NEW r \in Reqs, ListingArrives(r) \/ ListingFails(r) \/ FileRefused(r) PROVE CalmInv'
  <2>1. UNCHANGED <<unsaved, dirty, currentPath, model>> /\ req' = [req EXCEPT ![r] = Free]
    BY <1>9 DEF ListingArrives, ListingFails, FileRefused, editing, text, Handle
  <2>2. \A q \in Reqs : Harmless(q)
    BY <1>0, <2>1, Fields
  <2> HIDE DEF Harmless
  <2> QED
    BY <1>4, <2>1, <2>2
<1>10. ASSUME NEW r \in Reqs, NEW f \in Files, OpenFile(r, f) PROVE CalmInv'
  <2>1. unsaved' = (unsaved /\ ~(dirty /\ currentPath /= None))
    BY <1>10 DEF OpenFile
  <2> QED
    BY <1>2, <1>3, <2>1
<1>11. ASSUME NEW r \in Reqs, FileArrives(r) PROVE CalmInv'
  <2>1. unsaved' = FALSE \/ unsaved' = unsaved
    BY <1>11 DEF FileArrives
  <2>2. ~unsaved
    BY <1>2, <1>11 DEF FileArrives, Handle, Calm
  <2> QED
    BY <1>0, <1>3, <2>1, <2>2
<1>12. ASSUME NEW r \in Reqs, SaveFile(r) PROVE CalmInv'
  <2>1. /\ UNCHANGED <<unsaved, dirty, currentPath, model>>
        /\ req' = [req EXCEPT ![r] = Fetch("save", currentPath, model.text, Root)]
    BY <1>12 DEF SaveFile, text, Send
  <2>2. \A q \in Reqs : Harmless(q)
    BY <1>0, <2>1, Fields
  <2> HIDE DEF Harmless
  <2> QED
    BY <1>4, <2>1, <2>2
<1>13. ASSUME NEW r \in Reqs, SaveDone(r) PROVE CalmInv'
  <2>1. unsaved' = unsaved /\ ~unsaved
    BY <1>2, <1>13 DEF SaveDone, Handle, text, Calm
  <2> QED
    BY <1>0, <1>3, <2>1
<1>14. ASSUME NEW r \in Reqs, SaveFailed(r) PROVE CalmInv'
  <2>1. UNCHANGED <<unsaved, dirty, currentPath, model>> /\ req' = [req EXCEPT ![r] = Free]
    BY <1>14 DEF SaveFailed, text, Handle
  <2>2. \A q \in Reqs : Harmless(q)
    BY <1>0, <2>1, Fields
  <2> HIDE DEF Harmless
  <2> QED
    BY <1>4, <2>1, <2>2
<1>15. ASSUME NEW r \in Reqs, ServeGet(r) PROVE CalmInv'
  <2>1. UNCHANGED <<unsaved, dirty, currentPath, model>> /\ req[r].op \in {"open", "list"}
    BY <1>15 DEF ServeGet, editing, text, Reply
  <2>2. \A q \in Reqs : Harmless(q)
    BY <1>15, <2>1, Answers
  <2> HIDE DEF Harmless
  <2> QED
    BY <1>4, <2>1, <2>2
<1>16. ASSUME NEW r \in Reqs, ServePut(r) PROVE CalmInv'
  <2>1. CASE unsaved' = (unsaved /\ req[r].text /= model.text)
    <3>1. req[r].op = "save" /\ req[r].at = "sent"
      BY <1>16 DEF ServePut, Reply
    <3>2. unsaved => req[r].text = model.text
      BY <1>2, <3>1 DEF Calm
    <3> QED
      BY <1>3, <2>1, <3>2
  <2>2. CASE UNCHANGED unsaved /\ Reply(r, "save", [req[r] EXCEPT !.at = "error"])
    <3>1. UNCHANGED <<dirty, currentPath, model>>
      BY <1>16 DEF ServePut, editing
    <3>2. req[r] \in Requests /\ req' = [req EXCEPT ![r] = [req[r] EXCEPT !.at = "error"]] /\ req[r].op = "save"
      BY <1>0, <2>2 DEF Reply
    <3>3. req'[r].op = "save" /\ req'[r].at = "error"
      BY <1>0, <3>2 DEF Requests
    <3>4. \A q \in Reqs : Harmless(q)
      BY <1>0, <3>2, <3>3
    <3> HIDE DEF Harmless
    <3> QED
      BY <1>4, <2>2, <3>1, <3>4
  <2> QED
    BY <1>16, <2>1, <2>2 DEF ServePut
<1> QED
  BY <1>5, <1>6, <1>7, <1>8, <1>9, <1>10, <1>11, <1>12, <1>13, <1>14, <1>15, <1>16 DEF Next

\* A user who does not type while a request is on its way never has unsaved
\* changes that the confirm of openFile would not ask about.
THEOREM AskedBeforeLost == Spec => []CalmEditsKept
<1>1. Init => CalmInv
  BY Fields DEF Init, CalmInv, Calm, List
<1>2. Inv /\ Slots /\ CalmInv /\ [Next]_vars => CalmInv'
  BY CalmStep
<1>3. Inv /\ Slots /\ [Next]_vars => Slots'
  BY SlotsStep
<1>4. CalmInv => CalmEditsKept
  BY DEF CalmInv, CalmEditsKept, EditsKept
<1> QED
  BY <1>1, <1>2, <1>3, <1>4, InitSlots, InvHolds, PTL DEF Spec

\* The title bar and the highlighted item (updateBar, highlightActive) always
\* name the file that saveFile would write; the mark is there whenever the page
\* would ask, and for a user who does not type while a request is on its way,
\* whenever the editor's text has never been in the VM.
THEOREM TitleBar == Spec => []BarIsTrue
<1>1. Inv => BarFollows
  BY DEF Inv
<1>2. BarFollows /\ CalmEditsKept => BarIsTrue
  BY DEF BarIsTrue, BarFollows, CalmEditsKept, EditsKept
<1> QED
  BY <1>1, <1>2, InvHolds, AskedBeforeLost, PTL

-----------------------------------------------------------------------------
(* The tree *)

\* One listing at a time is on its way, for the tree while it is empty or for a
\* directory that has no children yet.
Awaited(q) ==
    q.op = "list" =>
      IF q.box = Root THEN root = <<>> /\ q.path = treePath
      ELSE q.box \in 1..Len(root) /\ kids[q.box][q.path].filled = 0

TreeInv ==
    user /= "roaming" =>
      /\ Reqs /= {}
      /\ root \in {<<>>, <<treePath>>}
      /\ \A i \in 1..Cardinality(Reqs), d \in Dirs : kids[i][d].filled <= 1
      /\ \A q \in Reqs : Awaited(req[q])
      /\ \A p, q \in Reqs : req[p].op = "list" /\ req[q].op = "list" => p = q

\* A node and what becomes of it.
LEMMA NodeFields ==
  \A n : /\ Toggled(n).filled = n.filled /\ Filled(n).filled = n.filled + 1 /\ Folded.filled = 0
  BY DEF Toggled, Filled, Folded

\* The steps of a user who waits for listings keep the tree that of its path.
LEMMA WaitStep ==
  ASSUME Inv, Slots, TreeInv, [Next]_vars
  PROVE  TreeInv'
<1>0. /\ req \in [Reqs -> Requests] /\ kids \in [1..Cardinality(Reqs) -> [Dirs -> Nodes]]
      /\ treePath \in Dirs /\ root \in Seq(Dirs) /\ \A q \in Reqs : Carries(req[q])
  BY DEF Inv, TypeOK, Paired
<1>1. user' = user
  BY DEF Next, vars, Edit, NavigateTo, ToggleDir, ListingArrives, ListingFails, OpenFile, FileArrives,
         FileRefused, SaveFile, SaveDone, SaveFailed, ServeGet, ServePut
<1> SUFFICES ASSUME user /= "roaming" PROVE TreeInv'
  BY <1>1 DEF TreeInv
<1>2. /\ Reqs /= {} /\ root \in {<<>>, <<treePath>>}
      /\ \A i \in 1..Cardinality(Reqs), d \in Dirs : kids[i][d].filled <= 1
      /\ \A q \in Reqs : Awaited(req[q])
      /\ \A p, q \in Reqs : req[p].op = "list" /\ req[q].op = "list" => p = q
  BY DEF TreeInv
<1> DEFINE Same(q) == req'[q].op = "list" => req[q].op = "list" /\ req'[q].path = req[q].path /\ req'[q].box = req[q].box
<1>3. CASE UNCHANGED <<treePath, root, kids>> /\ \A q \in Reqs : Same(q)
  <2>1. ASSUME NEW q \in Reqs PROVE Awaited(req[q])'
    BY <1>2, <1>3 DEF Awaited
  <2>2. \A p, q \in Reqs : req'[p].op = "list" /\ req'[q].op = "list" => p = q
    BY <1>2, <1>3
  <2> QED
    BY <1>2, <1>3, <2>1, <2>2 DEF TreeInv
<1>4. CASE UNCHANGED vars \/ Edit
  BY <1>3, <1>4 DEF vars, tree, Edit
<1>5. ASSUME NEW r \in Reqs, NEW d \in Dirs, NavigateTo(r, d) PROVE TreeInv'
  <2>1. \A q \in Reqs : req[q].op /= "list"
    BY <1>5 DEF NavigateTo, Calmly, InFlight, Slots
  <2>2. /\ treePath' = d /\ root' = <<>> /\ kids' = Unfolded
    BY <1>5 DEF NavigateTo
  <2>3. \A q \in Reqs : req'[q].op = "list" => q = r
    BY <1>5, <2>1, Rerouted
  <2>4. ASSUME NEW q \in Reqs PROVE Awaited(req[q])'
    BY <1>5, <2>2, <2>3, Rerouted DEF Awaited
  <2>5. \A i \in 1..Cardinality(Reqs), e \in Dirs : kids'[i][e].filled <= 1
    BY <2>2, NodeFields DEF Unfolded
  <2> QED
    BY <1>2, <2>2, <2>3, <2>4, <2>5 DEF TreeInv
<1>6. ASSUME NEW r \in Reqs, NEW d \in Dirs, NEW i \in 1..Cardinality(Reqs), ToggleDir(r, i, d) PROVE TreeInv'
  <2>1. \A q \in Reqs : req[q].op /= "list"
    BY <1>6 DEF ToggleDir, Calmly, InFlight, Slots
  <2>2. /\ i \in 1..Len(root) /\ UNCHANGED <<treePath, root>> /\ kids' = [kids EXCEPT ![i][d] = Toggled(@)]
        /\ \/ kids[i][d].filled = 0 /\ req' = [req EXCEPT ![r] = List(d, i)]
           \/ UNCHANGED req
    BY <1>6 DEF ToggleDir, Send
  <2>3. \A j \in 1..Cardinality(Reqs), e \in Dirs : kids'[j][e].filled = kids[j][e].filled
    BY <1>0, <2>2, NodeFields
  <2>4. /\ \A q \in Reqs : req'[q].op = "list" => q = r
        /\ req'[r].op = "list" => req'[r].path = d /\ req'[r].box = i /\ kids[i][d].filled = 0
    <3>1. List(d, i).op = "list" /\ List(d, i).path = d /\ List(d, i).box = i
      BY Fields DEF List
    <3> QED
      BY <1>0, <2>1, <2>2, <3>1
  <2>5. i /= Root
    BY DEF Root
  <2>6. ASSUME NEW q \in Reqs PROVE Awaited(req[q])'
    BY <2>2, <2>3, <2>4, <2>5 DEF Awaited
  <2> QED
    BY <1>2, <2>2, <2>3, <2>4, <2>6 DEF TreeInv
<1>7. ASSUME NEW r \in Reqs, ListingArrives(r) PROVE TreeInv'
  <2>1. /\ req[r].op = "list" /\ req' = [req EXCEPT ![r] = Free] /\ treePath' = treePath
        /\ root' = (IF req[r].box = Root THEN Append(root, req[r].path) ELSE root)
        /\ \/ UNCHANGED kids
           \/ /\ req[r].box \in 1..Len(root)
              /\ kids' = [kids EXCEPT ![req[r].box][req[r].path] = Filled(@)]
    BY <1>7 DEF ListingArrives, Handle
  <2>2. \A q \in Reqs : req'[q].op /= "list"
    BY <1>0, <1>2, <2>1, Fields
  <2>3. root' \in {<<>>, <<treePath>>}
    <3>1. CASE req[r].box = Root
      <4>1. root = <<>> /\ req[r].path = treePath
        BY <1>2, <2>1, <3>1 DEF Awaited
      <4> QED
        BY <1>0, <2>1, <3>1, <4>1
    <3>2. CASE req[r].box /= Root
      BY <1>2, <2>1, <3>2
    <3> QED
      BY <3>1, <3>2
  <2>4. ASSUME NEW j \in 1..Cardinality(Reqs), NEW e \in Dirs PROVE kids'[j][e].filled <= 1
    <3>1. CASE UNCHANGED kids
      BY <1>2, <3>1
    <3>2. CASE /\ req[r].box \in 1..Len(root)
               /\ kids' = [kids EXCEPT ![req[r].box][req[r].path] = Filled(@)]
      <4>1. \/ kids'[j][e] = kids[j][e]
            \/ j = req[r].box /\ e = req[r].path /\ kids'[j][e] = Filled(kids[j][e])
        BY <1>0, <3>2
      <4>2. CASE kids'[j][e] = kids[j][e]
        BY <1>2, <4>2
      <4>3. CASE j = req[r].box /\ e = req[r].path /\ kids'[j][e] = Filled(kids[j][e])
        <5>1. req[r].box /= Root
          BY <3>2 DEF Root
        <5>2. kids[j][e].filled = 0
          BY <1>2, <2>1, <4>3, <5>1 DEF Awaited
        <5> QED
          BY <4>3, <5>2, NodeFields
      <4> QED
        BY <4>1, <4>2, <4>3
    <3> QED
      BY <2>1, <3>1, <3>2
  <2> QED
    BY <1>2, <2>1, <2>2, <2>3, <2>4 DEF TreeInv, Awaited
<1>8. ASSUME NEW r \in Reqs, (\E f \in Files : OpenFile(r, f)) \/ SaveFile(r) PROVE TreeInv'
  <2>1. /\ UNCHANGED <<treePath, root, kids>>
        /\ \E x : req' = [req EXCEPT ![r] = x] /\ x.op /= "list"
    BY <1>8, Fields DEF OpenFile, SaveFile, Send, tree
  <2>2. \A q \in Reqs : Same(q)
    BY <1>0, <2>1
  <2> QED
    BY <1>3, <2>1, <2>2
<1>9. ASSUME NEW r \in Reqs, ListingFails(r) \/ FileArrives(r) \/ FileRefused(r) \/ SaveDone(r) \/ SaveFailed(r)
      PROVE  TreeInv'
  <2>1. UNCHANGED <<treePath, root, kids>> /\ req' = [req EXCEPT ![r] = Free]
    BY <1>9 DEF ListingFails, FileArrives, FileRefused, SaveDone, SaveFailed, Handle, tree
  <2>2. \A q \in Reqs : Same(q)
    BY <1>0, <2>1, Fields
  <2> QED
    BY <1>3, <2>1, <2>2
<1>10. ASSUME NEW r \in Reqs, ServeGet(r) \/ ServePut(r) PROVE TreeInv'
  <2>1. UNCHANGED <<treePath, root, kids>>
    BY <1>10 DEF ServeGet, ServePut, tree
  <2>2. \A q \in Reqs : Same(q)
    BY <1>10, Answers
  <2> QED
    BY <1>3, <2>1, <2>2
<1> QED
  BY <1>4, <1>5, <1>6, <1>7, <1>8, <1>9, <1>10 DEF Next

\* For a user who waits for listings, the tree is the listing of the path above
\* it, once, and each directory in it is filled once, whatever else is opened,
\* edited and saved meanwhile.
THEOREM TreeOfPath == Spec => []TreeIsOfPath
<1>1. Init => TreeInv
  <2> SUFFICES ASSUME Init PROVE TreeInv
    OBVIOUS
  <2>1. PICK r \in Reqs : req = [q \in Reqs |-> IF q = r THEN List(Home, Root) ELSE Free]
    BY DEF Init
  <2>2. /\ req[r].path = Home /\ req[r].box = Root /\ \A q \in Reqs : req[q].op = "list" => q = r
    BY <2>1, Fields DEF List
  <2>3. root = <<>> /\ treePath = Home /\ kids = Unfolded
    BY DEF Init
  <2>4. \A i \in 1..Cardinality(Reqs), d \in Dirs : kids[i][d].filled <= 1
    BY <2>3, NodeFields DEF Unfolded
  <2> QED
    BY <2>2, <2>3, <2>4 DEF TreeInv, Awaited
<1>2. Inv /\ Slots /\ TreeInv /\ [Next]_vars => TreeInv'
  BY WaitStep
<1>3. Inv /\ Slots /\ [Next]_vars => Slots'
  BY SlotsStep
<1>4. TreeInv => TreeIsOfPath
  <2> SUFFICES ASSUME TreeInv, user /= "roaming"
               PROVE  /\ root \in {<<>>, <<treePath>>}
                      /\ \A i \in 1..Len(root), d \in Dirs : kids[i][d].filled <= 1
    BY DEF TreeIsOfPath
  <2>1. Cardinality(Reqs) \in Nat /\ Cardinality(Reqs) >= 1
    BY BoundAssumption, FS_CardinalityType, FS_EmptySet DEF TreeInv
  <2>2. root \in {<<>>, <<treePath>>} /\ Len(root) \in {0, 1}
    BY DEF TreeInv
  <2>3. ASSUME NEW i \in 1..Len(root) PROVE i \in 1..Cardinality(Reqs)
    <3>1. i = 1
      BY <2>2
    <3> QED
      BY <2>1, <3>1
  <2> QED
    BY <2>2, <2>3 DEF TreeInv
<1> QED
  BY <1>1, <1>2, <1>3, <1>4, InitSlots, InvHolds, PTL DEF Spec
=============================================================================
