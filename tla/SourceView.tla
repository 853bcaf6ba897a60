------------------------------ MODULE SourceView ------------------------------
(***************************************************************************)
(* The source code panel of the error trace and coverage pages: source.js  *)
(* (class SourceProcessor) and the code navigation of coverage.js (class   *)
(* CoverageProcessor).                                                     *)
(*                                                                         *)
(* The panel has one title and one text.  A source file is requested from  *)
(* the server while the page stays live: the text is emptied at once, the  *)
(* title and the new text are set when the answer comes, in whatever order *)
(* the answers of several requests come.  The browser's history holds the  *)
(* places visited.                                                         *)
(*                                                                         *)
(* A rendering of a file is [file, no]: two renderings of one file have    *)
(* different page elements.  raced remembers that the user asked for       *)
(* something while a request was under way.                                *)
(***************************************************************************)
EXTENDS Integers, Sequences, SequencesExt, FiniteSets

CONSTANTS
    SrcFiles,       \* the files that traces, statistics and references name
    SrcMissing,     \* those the server does not have: it answers with a message
    SrcLines,       \* line numbers
    MaxAsks,        \* bound on the requests of a behaviour
    MaxPlaces       \* bound on the entries of the browser's history

VARIABLE sv

NoText == [file |-> "", no |-> 0]
\* A list of lines not collected yet, as opposed to one collected from an empty panel.
NoList == [file |-> "", no |-> -1]
NoSel == [text |-> NoText, line |-> 0]

Places == [file : SrcFiles, line : SrcLines]

\* '#source_not_found': the text is the server's message, without lines.
NotFound(text) == text.file \in SrcMissing

-----------------------------------------------------------------------------
\* The line of the current text, if there is one: err_notify otherwise.
SelectLine(v, line) ==
    [v EXCEPT !.sel = IF v.text = NoText THEN NoSel ELSE [text |-> v.text, line |-> line]]

PreserveState(v, line, file) ==
    [v EXCEPT !.hist = Append(SubSeq(@, 1, v.at), [file |-> file, line |-> line]),
              !.at = @ + 1]

\* raced is no part of the code: it records that a request was under way.
Ask(v, line, file) ==
    [v EXCEPT !.dim = TRUE, !.text = NoText, !.asks = @ + 1,
              !.pending = @ \cup {[file |-> file, line |-> line, no |-> v.asks + 1]},
              !.raced = @ \/ v.pending # {} \/ v.waits # {}]

GetSource(v, line, file, save) ==
    LET v1 == IF save THEN PreserveState(v, line, file) ELSE v
    IN IF file = v.title
         THEN [IF NotFound(v.text) THEN v1 ELSE SelectLine(v1, line) EXCEPT
                   !.raced = @ \/ v.pending # {} \/ v.waits # {}]
         ELSE Ask(v1, line, file)

\* A click on a trace line, a file of the statistics or a reference.
ClickPlace(p) ==
    /\ sv.asks < MaxAsks /\ sv.at < MaxPlaces
    /\ sv' = GetSource(sv, p.line, p.file, TRUE)

\* A reference first saves the place it is followed from.
ClickReference(p) ==
    /\ sv.asks < MaxAsks /\ sv.text # NoText /\ ~NotFound(sv.text)
    /\ sv.at + 1 < MaxPlaces
    /\ \E line \in SrcLines :
           sv' = GetSource(PreserveState(sv, line, sv.title), p.line, p.file, TRUE)

\* popstate: the state saved with the entry, or one step further back.
Back ==
    /\ sv.asks < MaxAsks /\ sv.at > 1
    /\ LET p == sv.hist[sv.at - 1]
       IN sv' = GetSource([sv EXCEPT !.at = @ - 1], p.line, p.file, FALSE)

Forward ==
    /\ sv.asks < MaxAsks /\ sv.at < Len(sv.hist)
    /\ LET p == sv.hist[sv.at + 1]
       IN sv' = GetSource([sv EXCEPT !.at = @ + 1], p.line, p.file, FALSE)

SourceArrives(r) ==
    /\ r \in sv.pending
    /\ LET v == [sv EXCEPT !.pending = @ \ {r}, !.sel = NoSel, !.title = r.file,
                           !.dim = FALSE, !.text = [file |-> r.file, no |-> r.no]]
       IN sv' = IF NotFound(v.text) THEN v ELSE SelectLine(v, r.line)

\* There is no error handler: the panel stays empty under the dimmer.
SourceFails(r) ==
    /\ r \in sv.pending
    /\ sv' = [sv EXCEPT !.pending = @ \ {r}, !.failed = TRUE]

-----------------------------------------------------------------------------
(* Coverage data of a line: asked with a click on its number, the line is  *)
(* selected when the data come.                                            *)

ClickCovData(line) ==
    /\ sv.asks < MaxAsks /\ sv.text # NoText /\ ~NotFound(sv.text)
    /\ sv' = [sv EXCEPT !.sel = NoSel, !.asks = @ + 1,
                        !.waits = @ \cup {[text |-> sv.text, line |-> line]},
                        !.raced = @ \/ sv.pending # {} \/ sv.waits # {}]

CovDataArrives(w) ==
    /\ w \in sv.waits
    /\ sv' = [sv EXCEPT !.waits = @ \ {w}, !.sel = w, !.data = w]

CovDataFails(w) ==
    /\ w \in sv.waits
    /\ sv' = [sv EXCEPT !.waits = @ \ {w}, !.data = NoSel]

-----------------------------------------------------------------------------
(* The buttons "next" and "previous" walk through a list of covered lines  *)
(* collected from the page once per file: the list is kept until a button  *)
(* is used under another title.                                            *)

GetNewIndex(i, size, change) ==
    IF i < 0 THEN IF change > 0 THEN 0 ELSE size - 1
    ELSE LET k == i + change
         IN IF k < 0 THEN size - 1 ELSE IF k < size THEN k ELSE 0

\* _clearCache, then the getter of the list: the rendering it is collected from.
Collected(v) ==
    LET kept == IF v.title # v.initial THEN NoList ELSE v.list
    IN [v EXCEPT !.initial = v.title,
                 !.list = IF kept = NoList THEN v.text ELSE kept]

\* Lines are numbered from 1 and the covered ones are all of SrcLines.
ChangeSelection(change) ==
    LET v == Collected(sv)
        size == IF v.list = NoText \/ NotFound(v.list) THEN 0 ELSE Cardinality(SrcLines)
        index == IF v.sel.text = v.list THEN v.sel.line - 1 ELSE -1
        line == IF v.sel = NoSel THEN 1 ELSE GetNewIndex(index, size, change) + 1
    IN sv' = [IF size = 0 THEN v ELSE [v EXCEPT !.sel = [text |-> v.list, line |-> line]]
                  EXCEPT !.data = NoSel,
                         !.raced = @ \/ sv.pending # {} \/ sv.waits # {}]

-----------------------------------------------------------------------------
\* The page just loaded: it asks for the place its address names.
SourcePage(p) ==
    Ask([title |-> "", text |-> NoText, sel |-> NoSel, data |-> NoSel, dim |-> FALSE,
         pending |-> {}, waits |-> {}, asks |-> 0, hist |-> <<p>>, at |-> 1,
         initial |-> "", list |-> NoList, raced |-> FALSE, failed |-> FALSE],
        p.line, p.file)

SourceInit == \E p \in Places : sv = SourcePage(p)

SourceNext ==
    \/ \E p \in Places : ClickPlace(p) \/ ClickReference(p)
    \/ Back \/ Forward
    \/ \E r \in sv.pending : SourceArrives(r) \/ SourceFails(r)
    \/ \E line \in SrcLines : ClickCovData(line)
    \/ \E w \in sv.waits : CovDataArrives(w) \/ CovDataFails(w)
    \/ \E change \in {1, -1} : ChangeSelection(change)

(* The title always names the file whose text is below it, whatever order  *)
(* answers come in.  Used without haste (nothing is clicked while a        *)
(* request is under way) and without a failed request, the panel shows,    *)
(* whenever nothing is under way, the place of the current entry of the    *)
(* browser's history, with the dimmer off, and the list of covered lines   *)
(* is of the file it is kept for.  No line is ever selected in the message *)
(* that a file is missing.  Stepping through a list forward and back again *)
(* ends where it started.                                                  *)
PanelConsistent ==
    /\ sv.text # NoText => sv.text.file = sv.title
    /\ ~NotFound(sv.sel.text)
    /\ (sv.pending = {} /\ ~sv.raced /\ ~sv.failed) =>
           /\ sv.text # NoText /\ ~sv.dim
           /\ sv.title = sv.hist[sv.at].file
           /\ sv.list # NoList => sv.list.file = sv.initial
    /\ \A n \in 1..3 : \A i \in 0..(n - 1) :
           /\ GetNewIndex(i, n, 1) \in 0..(n - 1)
           /\ GetNewIndex(GetNewIndex(i, n, 1), n, -1) = i
=============================================================================
