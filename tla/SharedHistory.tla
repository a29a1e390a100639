---------------------------- MODULE SharedHistory ----------------------------
(***************************************************************************)
(* A shared vault and the history of its changes: SharedBackend in         *)
(* shared.py around the sealed storage, and History in hosted_history.py.  *)
(* A change of a note reads what is there, writes, stores both contents as *)
(* blobs under their hash, and adds a row; each is a step, and other       *)
(* requests run in between, of this server or of another.                  *)
(*                                                                         *)
(* Which notes a shared vault refuses (SharedRules) is decided before      *)
(* anything is read and left out, as are dot-folders, which are not        *)
(* recorded, and who made a change.                                        *)
(***************************************************************************)
EXTENDS Naturals, FiniteSets

CONSTANTS
  Author,       \* requests that change the vault
  NotePath, Text,
  MaxChanges,   \* bound: changes begun
  MaxStops,     \* bound: requests that stop half way: a server is killed, or storage fails
  NoText

ASSUME HistoryAssumption == {MaxChanges, MaxStops} \subseteq Nat /\ NoText \notin Text

Content == Text \cup {NoText}

VARIABLES
  begun,       \* changes begun
  note,        \* what each path holds
  blob,        \* contents stored in the history
  change,      \* its rows, oldest first
  count,       \* how many there are
  edit,        \* what each request is at
  stops,
  written,     \* every text a path has ever held
  cut          \* texts whose request stopped before its row

historyVars == <<begun, note, blob, change, count, edit, stops, written, cut>>

NoChange == [path |-> "none", action |-> "none", before |-> NoText, after |-> NoText, restores |-> 0]
NoEdit == [step |-> "none", op |-> "none", path |-> "none", to |-> "none",
           before |-> NoText, text |-> NoText, restores |-> 0]

HistoryInit ==
  /\ begun = 0 /\ note = [p \in NotePath |-> NoText] /\ blob = {}
  /\ change = [i \in 1..MaxChanges |-> NoChange] /\ count = 0
  /\ edit = [a \in Author |-> NoEdit] /\ stops = 0 /\ written = {} /\ cut = {}

-----------------------------------------------------------------------------
Is(a, step) == edit[a].step = step
Sets(a, record) == edit' = [edit EXCEPT ![a] = record]
GoesTo(a, step) == edit' = [edit EXCEPT ![a].step = step]
NewChange(a) == Is(a, "none") /\ begun < MaxChanges /\ begun' = begun + 1
Over(a) == edit' = [edit EXCEPT ![a] = NoEdit]
Holds(p, text) == note' = [note EXCEPT ![p] = text] /\ written' = written \cup ({text} \ {NoText})
Unwritten == UNCHANGED <<note, written>>

(* put_checked: what is there is read first, and is not what the write will find. *)
BeginPut(a) ==
  /\ NewChange(a)
  /\ \E p \in NotePath, text \in Text :
       Sets(a, [NoEdit EXCEPT !.step = "put", !.op = "put", !.path = p, !.before = note[p], !.text = text])
  /\ UNCHANGED <<note, blob, change, count, stops, written, cut>>

(* A checked write names a version its caller has read, any time before, and may be refused. *)
Put(a) ==
  LET e == edit[a] IN
  /\ Is(a, "put")
  /\ \/ Holds(e.path, e.text) /\ IF e.before = e.text THEN Over(a) ELSE GoesTo(a, "keep")
     \/ Over(a) /\ Unwritten
  /\ UNCHANGED <<begun, blob, change, count, stops, cut>>

BeginDelete(a) ==
  /\ NewChange(a)
  /\ \E p \in NotePath : Sets(a, [NoEdit EXCEPT !.step = "delete", !.op = "delete", !.path = p, !.before = note[p]])
  /\ UNCHANGED <<note, blob, change, count, stops, written, cut>>

(* delete and delete_checked: refused when nothing, or another version, is there. *)
Delete(a) ==
  LET e == edit[a] IN
  /\ Is(a, "delete")
  /\ \/ note[e.path] # NoText /\ Holds(e.path, NoText) /\ IF e.before = NoText THEN Over(a) ELSE GoesTo(a, "keep")
     \/ Over(a) /\ Unwritten
  /\ UNCHANGED <<begun, blob, change, count, stops, cut>>

(* move: the text for the row, then the storage's own read, write and delete. *)
BeginMove(a) ==
  /\ NewChange(a)
  /\ \E p, to \in NotePath :
       /\ note[p] # NoText /\ p # to
       /\ Sets(a, [NoEdit EXCEPT !.step = "move", !.op = "move", !.path = p, !.to = to, !.before = note[p]])
  /\ UNCHANGED <<note, blob, change, count, stops, written, cut>>

MoveRead(a) ==
  LET e == edit[a] IN
  /\ Is(a, "move")
  /\ IF note[e.path] = NoText THEN Over(a) ELSE Sets(a, [e EXCEPT !.step = "move write", !.text = note[e.path]])
  /\ UNCHANGED <<begun, note, blob, change, count, stops, written, cut>>

MoveWrite(a) ==
  LET e == edit[a] IN
  /\ Is(a, "move write")
  /\ Holds(e.to, e.text) /\ GoesTo(a, "move delete")
  /\ UNCHANGED <<begun, blob, change, count, stops, cut>>

(* The row of a move has the text it read first, on both sides. *)
MoveDelete(a) ==
  LET e == edit[a] IN
  /\ Is(a, "move delete")
  /\ IF note[e.path] = NoText THEN Over(a)
     ELSE Sets(a, [e EXCEPT !.step = "keep", !.path = e.to, !.text = e.before])
  /\ Holds(e.path, NoText)
  /\ UNCHANGED <<begun, blob, change, count, stops, cut>>

\* Mutant: only the content that a change leaves is kept.
KeepAfter(a) ==
  /\ Is(a, "keep") /\ GoesTo(a, "row")
  /\ blob' = blob \cup ({edit[a].text} \ {NoText})
  /\ UNCHANGED <<begun, note, change, count, stops, written, cut>>

(* record, keep: both contents, each unless it is stored already. *)
Keep(a) ==
  /\ Is(a, "keep") /\ GoesTo(a, "row")
  /\ blob' = blob \cup ({edit[a].before, edit[a].text} \ {NoText})
  /\ UNCHANGED <<begun, note, change, count, stops, written, cut>>

Action(e) ==
  CASE e.op = "delete" -> "deleted" [] e.op = "move" -> "moved"
    [] e.before = NoText -> "created" [] OTHER -> "updated"

(* A change begun adds one row at most, so that the rows keep to the bound of the changes. *)
AddRow(a) ==
  LET e == edit[a] IN
  /\ Is(a, "row") /\ count < MaxChanges /\ count' = count + 1
  /\ change' = [change EXCEPT ![count + 1] =
       [path |-> e.path, action |-> Action(e), before |-> e.before, after |-> e.text, restores |-> 0]]
  /\ IF e.restores = 0 THEN Over(a) ELSE GoesTo(a, "mark")
  /\ UNCHANGED <<begun, note, blob, stops, written, cut>>

-----------------------------------------------------------------------------
(* restore: what was there before a change that replaced or deleted it, put back as a change.  The    *)
(* blob must be there, and the path must not hold it already.                                         *)
Restorable(c) == change[c].action \in {"updated", "deleted"} /\ change[c].before # NoText

BeginRestore(a) ==
  /\ NewChange(a)
  /\ \E c \in 1..count :
       /\ Restorable(c) /\ change[c].before \in blob /\ note[change[c].path] # change[c].before
       /\ Sets(a, [NoEdit EXCEPT !.step = "previous", !.op = "put", !.path = change[c].path,
                                 !.text = change[c].before, !.restores = c])
  /\ UNCHANGED <<note, blob, change, count, stops, written, cut>>

RestorePrevious(a) ==
  /\ Is(a, "previous")
  /\ Sets(a, [edit[a] EXCEPT !.step = "restore", !.before = note[edit[a].path]])
  /\ UNCHANGED <<begun, note, blob, change, count, stops, written, cut>>

RestorePut(a) ==
  LET e == edit[a] IN
  /\ Is(a, "restore")
  /\ Holds(e.path, e.text) /\ GoesTo(a, IF e.before = e.text THEN "mark" ELSE "keep")
  /\ UNCHANGED <<begun, blob, change, count, stops, cut>>

(* The last row of the path is marked, whoever's it is. *)
Mark(a) ==
  LET e == edit[a]  rows == {i \in 1..count : change[i].path = e.path}
      last == CHOOSE i \in rows : \A j \in rows : j <= i IN
  /\ Is(a, "mark") /\ Over(a)
  /\ change' = IF rows = {} THEN change ELSE [change EXCEPT ![last].restores = e.restores]
  /\ UNCHANGED <<begun, note, blob, count, stops, written, cut>>

(* A request stops where it is. *)
Stop(a) ==
  /\ stops < MaxStops /\ stops' = stops + 1 /\ ~Is(a, "none")
  /\ cut' = cut \cup {edit[a].before, edit[a].text} /\ Over(a)
  /\ UNCHANGED <<begun, note, blob, change, count, written>>

-----------------------------------------------------------------------------
HistoryNext ==
  \E a \in Author :
    \/ BeginPut(a) \/ Put(a) \/ BeginDelete(a) \/ Delete(a)
    \/ BeginMove(a) \/ MoveRead(a) \/ MoveWrite(a) \/ MoveDelete(a)
    \/ Keep(a) \/ AddRow(a)
    \/ BeginRestore(a) \/ RestorePrevious(a) \/ RestorePut(a) \/ Mark(a) \/ Stop(a)

HistorySpec == HistoryInit /\ [][HistoryNext]_historyVars

-----------------------------------------------------------------------------
PathOrNone == NotePath \cup {"none"}

HistoryTypeOK ==
  /\ begun \in 0..MaxChanges
  /\ note \in [NotePath -> Content] /\ blob \subseteq Text /\ count \in 0..MaxChanges
  /\ change \in [1..MaxChanges -> [path : PathOrNone, action : {"none", "created", "updated", "deleted", "moved"},
                                   before : Content, after : Content, restores : 0..MaxChanges]]
  /\ edit \in [Author -> [step : {"none", "put", "delete", "move", "move write", "move delete", "keep", "row",
                                  "previous", "restore", "mark"},
                          op : {"none", "put", "delete", "move"}, path : PathOrNone, to : PathOrNone,
                          before : Content, text : Content, restores : 0..MaxChanges]]
  /\ stops \in 0..MaxStops /\ written \subseteq Text /\ cut \subseteq Content

(* A row never names a content that is not stored, wherever a request stops: what the history offers
   to restore can be restored. *)
RowsHaveBlobs == \A i \in 1..count : {change[i].before, change[i].after} \ {NoText} \subseteq blob

(* A text the vault has held and holds no longer is kept, unless the request that wrote it stopped, or
   is still on its way to keeping it: also when requests replace each other's texts unseen. *)
ReplacedTextKept ==
  \A text \in written :
    \/ text \in blob \/ text \in cut
    \/ \E p \in NotePath : note[p] = text
    \/ \E a \in Author : edit[a].step \in {"keep", "move delete"} /\ text \in {edit[a].before, edit[a].text}

(* What the history names is stored, and what was replaced is in it. *)
HistoryInv == HistoryTypeOK /\ RowsHaveBlobs /\ ReplacedTextKept
=============================================================================
