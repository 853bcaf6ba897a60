------------------------------ MODULE FilesTree ------------------------------
(***************************************************************************)
(* The editor of a job version's files: class FilesTree of                 *)
(* decisionFilesEdit.js.  A tree of file nodes, each naming its content by *)
(* the hash under which the server stores it, and one editor for the       *)
(* content of the node selected.  Contents are fetched and committed by    *)
(* requests that are answered later, in any order, while the tree and the  *)
(* editor stay usable.                                                     *)
(*                                                                         *)
(* The hash of a content is modelled by the content itself: what matters   *)
(* is that equal hashes mean equal contents.  NoHash is the state of a     *)
(* node created in the tree and not committed yet.  Of a node's name only  *)
(* one thing matters: whether isFileReadable accepts its extension.  The   *)
(* page calls initialize once, so its branch for a tree that already       *)
(* exists is not modelled; nor are folders.  The editor's cache of         *)
(* contents has no state here: its entries are looked up by an attribute   *)
(* that .data() never sets, so no look-up finds one.                       *)
(***************************************************************************)
EXTENDS Integers, FiniteSets, FiniteSetsExt

CONSTANTS
    FtNodes,        \* the nodes the tree may have; the least one is there first
    FtContents,     \* contents of files, the numbers from 1
    MaxEdits        \* bound on the requests and edits of a behaviour

VARIABLE ft

NoHash == 0
NoNode == 0
Root == -1          \* the directory of the files
Empty == 0          \* the empty content

-----------------------------------------------------------------------------
ClearEditor(v) ==
    [v EXCEPT !.text = Empty, !.readOnly = TRUE, !.title = NoNode, !.changed = FALSE,
              !.renamed = FALSE]

SetEditorValue(v, node, content) ==
    [v EXCEPT !.text = content, !.readOnly = FALSE, !.title = node]

\* Whatever its name, a file is loaded.
LoadFileContent_Bug(v, node) ==
    IF v.hash[node] # NoHash
      THEN [v EXCEPT !.gets = @ \cup {[node |-> node, hash |-> v.hash[node]]}]
      ELSE SetEditorValue(v, node, Empty)

\* A file that is not readable is not loaded; a content the server has is
\* asked for; a new file starts empty.
LoadFileContent(v, node) ==
    IF ~v.readable[node] THEN v
    ELSE IF v.hash[node] # NoHash
      THEN [v EXCEPT !.gets = @ \cup {[node |-> node, hash |-> v.hash[node]]}]
      ELSE SetEditorValue(v, node, Empty)

LoadIfFile(v, node) == IF node = Root THEN v ELSE LoadFileContent(v, node)

\* The handler of select_node: the editor is cleared, committed or not.
SelectNode(v, node) ==
    LoadIfFile(ClearEditor([v EXCEPT !.selected = node]), node)

\* job.json if the tree has it, otherwise its first readable file: which of
\* the readable files that is depends on their names.
OpenFirstFile(v, result) ==
    LET v1 == ClearEditor(v)
        candidates == {n \in v.nodes : v.readable[n]}
    IN IF candidates = {} THEN result = v1
       ELSE \E n \in candidates : result = SelectNode(v1, n)

Busy(v) == v.gets # {} \/ v.commits # {} \/ v.uploads # {}

\* What the user does while a request is under way is marked.
Act(v) == [v EXCEPT !.steps = @ + 1, !.raced = @ \/ Busy(v)]

Select(node) ==
    /\ ft.steps < MaxEdits /\ node \in ft.nodes \cup {Root}
    /\ ft' = SelectNode(Act(ft), node)

Type(content) ==
    /\ ft.steps < MaxEdits /\ ~ft.readOnly /\ content # ft.text
    /\ ft' = [Act(ft) EXCEPT !.text = content, !.changed = TRUE]

\* The menu of a node selects it first: that of the root creates files, which
\* are given their names at once; that of a file renames and deletes it.
CreateFile(node, readable) ==
    /\ ft.steps < MaxEdits /\ node \notin ft.nodes \cup ft.deleted /\ ft.selected = Root
    /\ ft' = [Act(ft) EXCEPT !.nodes = @ \cup {node}, !.readable[node] = readable]

\* Nothing is loaded again: the editor keeps the old name and the content.
RenameNode ==
    /\ ft.steps < MaxEdits /\ ft.selected \in ft.nodes
    /\ ft' = [Act(ft) EXCEPT !.readable[ft.selected] = ~@, !.renamed = TRUE]

\* A deleted node stays an object that late answers still write to.
DeleteNode ==
    /\ ft.steps < MaxEdits /\ ft.selected \in ft.nodes
    /\ ft' = ClearEditor([Act(ft) EXCEPT !.nodes = @ \ {ft.selected},
                                         !.deleted = @ \cup {ft.selected},
                                         !.selected = NoNode])

-----------------------------------------------------------------------------
(* Ctrl-S.  Without a changed file nothing happens and the promise is      *)
(* never settled; without a selected node it is rejected.                  *)
CommitFile ==
    /\ ft.steps < MaxEdits /\ (ft.changed => ft.selected # NoNode)
    /\ ft' = IF ft.changed
              THEN [Act(ft) EXCEPT !.commits = @ \cup {[node |-> ft.selected, hash |-> ft.text]}]
              ELSE [Act(ft) EXCEPT !.unsettled = TRUE]

CommitSucceeds(r) ==
    /\ r \in ft.commits
    /\ ft' = [ft EXCEPT !.commits = @ \ {r}, !.store = @ \cup {r.hash},
                        !.hash[r.node] = r.hash, !.changed = FALSE]

\* An error status leaves the file changed and rejects the promise.
CommitFails(r) ==
    /\ r \in ft.commits
    /\ ft' = [ft EXCEPT !.commits = @ \ {r}]

\* An answer with an error is shown and no more: the promise is never settled.
CommitRefused(r) ==
    /\ r \in ft.commits
    /\ ft' = [ft EXCEPT !.commits = @ \ {r}, !.unsettled = TRUE]

ContentArrives(r) ==
    /\ r \in ft.gets
    /\ ft' = SetEditorValue([ft EXCEPT !.gets = @ \ {r}], r.node, r.hash)

ContentFails(r) ==
    /\ r \in ft.gets
    /\ ft' = [ft EXCEPT !.gets = @ \ {r}, !.failed = TRUE]

-----------------------------------------------------------------------------
(* The two modals: a file from the user's disk is uploaded and replaces    *)
(* the node selected when the answer comes, or becomes a node of its own.  *)
(* The confirm button is disabled until the answer.                        *)
ConfirmModal(kind, content) ==
    /\ ft.steps < MaxEdits /\ kind \notin ft.disabled
    /\ kind = "replace" => ft.selected \in ft.nodes
    /\ kind = "new" => ft.selected = Root
    /\ ft' = [Act(ft) EXCEPT !.uploads = @ \cup {[kind |-> kind, hash |-> content]},
                         !.disabled = @ \cup {kind}]

Uploaded(v, u) ==
    [v EXCEPT !.uploads = @ \ {u}, !.disabled = @ \ {u.kind}, !.store = @ \cup {u.hash}]

\* Without a node selected the handler fails on its first use of the node.
ReplaceFile(u, readable) ==
    /\ u \in ft.uploads /\ u.kind = "replace"
    /\ LET v == Uploaded(ft, u)
       IN ft' = IF ft.selected = NoNode THEN v
                ELSE SelectNode([v EXCEPT !.hash[ft.selected] = u.hash,
                                          !.readable[ft.selected] = readable], ft.selected)

\* A file takes no children: nothing is added while one is selected.
AddFileNode(u, readable) ==
    /\ u \in ft.uploads /\ u.kind = "new"
    /\ LET free == FtNodes \ (ft.nodes \cup ft.deleted)
           node == Min(free)
           v == Uploaded(ft, u)
       IN ft' = IF free = {} \/ ft.selected # Root THEN v
                ELSE SelectNode([v EXCEPT !.nodes = @ \cup {node}, !.hash[node] = u.hash,
                                          !.readable[node] = readable], node)

\* An error status enables the button again.
UploadFails(u) ==
    /\ u \in ft.uploads
    /\ ft' = [ft EXCEPT !.uploads = @ \ {u}, !.disabled = @ \ {u.kind}]

\* An answer with an error leaves it disabled: this modal confirms nothing more.
UploadRefused(u) ==
    /\ u \in ft.uploads
    /\ ft' = [ft EXCEPT !.uploads = @ \ {u}]

-----------------------------------------------------------------------------
\* A version's files, each readable or not, as the server sent them.
FilesInit ==
    \E there \in SUBSET FtNodes, readable \in [FtNodes -> BOOLEAN] :
        OpenFirstFile(
            [nodes |-> there, deleted |-> {},
             readable |-> [n \in FtNodes \cup {Root} |-> n \in there /\ readable[n]],
             hash |-> [n \in FtNodes \cup {Root} |-> IF n \in there THEN 1 ELSE NoHash],
             selected |-> NoNode, text |-> Empty, readOnly |-> TRUE, title |-> NoNode,
             changed |-> FALSE, renamed |-> FALSE, gets |-> {}, commits |-> {},
             uploads |-> {}, disabled |-> {}, store |-> {1}, unsettled |-> FALSE,
             steps |-> 0, raced |-> FALSE, failed |-> FALSE], ft)

FilesNext ==
    \/ \E n \in FtNodes, readable \in BOOLEAN : CreateFile(n, readable)
    \/ \E n \in FtNodes \cup {Root} : Select(n)
    \/ \E c \in FtContents : Type(c) \/ \E k \in {"replace", "new"} : ConfirmModal(k, c)
    \/ RenameNode \/ DeleteNode \/ CommitFile
    \/ \E r \in ft.commits : CommitSucceeds(r) \/ CommitFails(r) \/ CommitRefused(r)
    \/ \E r \in ft.gets : ContentArrives(r) \/ ContentFails(r)
    \/ \E u \in ft.uploads :
           \/ \E readable \in BOOLEAN : ReplaceFile(u, readable) \/ AddFileNode(u, readable)
           \/ UploadFails(u) \/ UploadRefused(u)

(* Whatever order answers come in: a node of the tree names no content the *)
(* server does not have, and an editor that cannot be typed into is empty, *)
(* without a name and not marked as changed.  Used without haste (nothing  *)
(* is done while a request is under way), the editor, whenever no request  *)
(* is under way and no content failed to load, holds the content of the    *)
(* readable file selected under its name, or the status says that it was   *)
(* changed; without one, it cannot be typed into.  A file renamed since it *)
(* was selected keeps its old name in the editor and is left out.          *)
EditorConsistent ==
    /\ \A n \in ft.nodes : ft.hash[n] \in ft.store \cup {NoHash}
    /\ IF ft.readOnly THEN ft.text = Empty /\ ft.title = NoNode /\ ~ft.changed
       ELSE ft.title # NoNode
    /\ (~Busy(ft) /\ ~ft.raced /\ ~ft.failed /\ ~ft.renamed) =>
           IF ft.selected \in ft.nodes /\ ft.readable[ft.selected]
             THEN /\ ft.title = ft.selected
                  /\ ft.changed \/ ft.text = ft.hash[ft.selected]
             ELSE ft.readOnly
=============================================================================
